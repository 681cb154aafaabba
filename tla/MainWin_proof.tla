----------------------------- MODULE MainWin_proof -----------------------------
(***************************************************************************)
(* Proofs about MainWin: however the calls that create and destroy main    *)
(* windows are nested, the windows of a thread stay a tree, the lists of   *)
(* hosted windows are its branches, and nothing is left of a window that   *)
(* has gone; and however dialog boxes are ended, the owner that one has    *)
(* disabled is enabled when it goes.                                       *)
(***************************************************************************)
EXTENDS MainWin, SequenceTheorems, FiniteSetTheorems, WellFoundedInduction, TLAPS

Links == [Windows -> Windows \cup {NULL}]

-----------------------------------------------------------------------------
(* Reach is the least set with v that the links do not leave.              *)
LEMMA ReachSelf ==
  ASSUME NEW link \in Links, NEW v \in Windows
  PROVE  v \in Reach(link, v) /\ Reach(link, v) \subseteq Windows
  BY DEF Reach

LEMMA ReachStep ==
  ASSUME NEW link \in Links, NEW v, NEW x \in Reach(link, v), link[x] # NULL
  PROVE  link[x] \in Reach(link, v)
  <1>1. x \in Windows /\ link[x] \in Windows
    BY DEF Reach, Links
  <1>2. ASSUME NEW S \in SUBSET Windows, v \in S, \A y \in S : link[y] \in S \cup {NULL}
        PROVE  link[x] \in S
    <2>1. x \in S
      BY <1>2 DEF Reach
    <2>2. QED
      BY <1>2, <2>1
  <1>3. QED
    BY <1>1, <1>2 DEF Reach

LEMMA ReachLeast ==
  ASSUME NEW link, NEW v, NEW S \in SUBSET Windows,
         v \in S, \A x \in S : link[x] \in S \cup {NULL}
  PROVE  Reach(link, v) \subseteq S
  BY DEF Reach

(* Only the links of what is reached matter.                               *)
LEMMA ReachSame ==
  ASSUME NEW link \in Links, NEW link2 \in Links, NEW v \in Windows,
         \A x \in Reach(link, v) : link2[x] = link[x]
  PROVE  Reach(link2, v) = Reach(link, v)
  <1>1. Reach(link2, v) \subseteq Reach(link, v)
    BY ReachSelf, ReachStep, ReachLeast
  <1>2. ASSUME NEW S \in SUBSET Windows, v \in S, \A x \in S : link2[x] \in S \cup {NULL}
        PROVE  Reach(link, v) \subseteq S
    <2> DEFINE Q == S \cap Reach(link, v)
    <2>1. Q \in SUBSET Windows /\ v \in Q
      BY <1>2, ReachSelf
    <2>2. ASSUME NEW x \in Q PROVE link[x] \in Q \cup {NULL}
      <3>1. link[x] \in S \cup {NULL}
        BY <1>2, <2>2
      <3>2. QED
        BY <3>1, ReachStep
    <2>3. Reach(link, v) \subseteq Q
      <3> HIDE DEF Q
      <3> QED
        BY <2>1, <2>2, ReachLeast
    <2>4. QED
      BY <2>3
  <1>3. Reach(link, v) \subseteq Reach(link2, v)
    BY <1>2, ReachSelf DEF Reach
  <1>4. QED
    BY <1>1, <1>3

(* What follows the first.                                                 *)
LEMMA ReachNext ==
  ASSUME NEW link \in Links, NEW v \in Windows
  PROVE  Reach(link, v) = {v} \cup (IF link[v] = NULL THEN {} ELSE Reach(link, link[v]))
  <1> DEFINE R == IF link[v] = NULL THEN {} ELSE Reach(link, link[v])
  <1>0. link[v] \in Windows \cup {NULL}
    BY DEF Links
  <1>1. R \subseteq Reach(link, v)
    <2>1. CASE link[v] = NULL
      BY <2>1
    <2>2. CASE link[v] # NULL
      <3>1. link[v] \in Reach(link, v)
        BY <2>2, ReachSelf, ReachStep
      <3>2. \A x \in Reach(link, v) : link[x] \in Reach(link, v) \cup {NULL}
        BY ReachStep
      <3>3. Reach(link, link[v]) \subseteq Reach(link, v)
        BY <3>1, <3>2, ReachSelf, ReachLeast
      <3>4. QED
        BY <2>2, <3>3
    <2>3. QED
      BY <2>1, <2>2
  <1>2. {v} \cup R \in SUBSET Windows
    BY <1>0, ReachSelf
  <1>3. ASSUME NEW x \in {v} \cup R PROVE link[x] \in {v} \cup R \cup {NULL}
    BY <1>0, <1>3, ReachSelf, ReachStep
  <1>4. Reach(link, v) \subseteq {v} \cup R
    <2> HIDE DEF R
    <2> QED
      BY <1>2, <1>3, ReachLeast
  <1>5. QED
    BY <1>1, <1>4, ReachSelf

(* One more at the end.                                                    *)
LEMMA ReachMore ==
  ASSUME NEW link \in Links, NEW link2 \in Links, NEW v \in Windows,
         NEW w \in Windows, w \notin Reach(link, v),
         NEW last \in Reach(link, v), link[last] = NULL,
         link2[w] = NULL, link2[last] = w,
         \A x \in Reach(link, v) \ {last} : link2[x] = link[x]
  PROVE  Reach(link2, v) = Reach(link, v) \cup {w}
  <1> DEFINE T == Reach(link, v) \cup {w}
  <1>1. T \in SUBSET Windows /\ v \in T
    BY ReachSelf
  <1>2. ASSUME NEW x \in T PROVE link2[x] \in T \cup {NULL}
    BY <1>2, ReachStep
  <1>3. Reach(link2, v) \subseteq T
    <2> HIDE DEF T
    <2> QED
      BY <1>1, <1>2, ReachLeast
  <1>4. ASSUME NEW S \in SUBSET Windows, v \in S, \A x \in S : link2[x] \in S \cup {NULL}
        PROVE  T \subseteq S
    <2> DEFINE Q == S \cap Reach(link, v)
    <2>1. Q \in SUBSET Windows /\ v \in Q
      BY <1>4, ReachSelf
    <2>2. ASSUME NEW x \in Q PROVE link[x] \in Q \cup {NULL}
      <3>1. CASE x = last
        BY <3>1
      <3>2. CASE x # last
        <4>1. link2[x] = link[x] /\ link2[x] \in S \cup {NULL}
          BY <1>4, <2>2, <3>2
        <4>2. QED
          BY <4>1, ReachStep
      <3>3. QED
        BY <3>1, <3>2
    <2>3. Reach(link, v) \subseteq Q
      <3> HIDE DEF Q
      <3> QED
        BY <2>1, <2>2, ReachLeast
    <2>4. last \in S /\ w # NULL
      BY <2>3, MainWinAssumption
    <2>5. w \in S
      BY <1>4, <2>4
    <2>6. QED
      BY <2>3, <2>5
  <1>5. T \subseteq Reach(link2, v)
    <2>1. ASSUME NEW u \in T PROVE u \in Reach(link2, v)
      <3>1. u \in Windows
        BY <1>1
      <3> HIDE DEF T
      <3>2. QED
        BY <1>4, <2>1, <3>1 DEF Reach
    <2>2. QED
      BY <2>1
  <1>6. QED
    BY <1>3, <1>5

(* One less, which is not the first.                                       *)
LEMMA ReachLess ==
  ASSUME NEW link \in Links, NEW link2 \in Links, NEW v \in Windows,
         NEW w \in Windows, w # v, link[w] # w,
         \A x \in Reach(link, v) : link2[x] = IF link[x] = w THEN link[w] ELSE link[x]
  PROVE  Reach(link2, v) = Reach(link, v) \ {w}
  <1> DEFINE R == Reach(link, v)
             T == R \ {w}
  <1>1. T \in SUBSET Windows /\ v \in T
    BY ReachSelf
  <1>2. ASSUME NEW x \in T PROVE link2[x] \in T \cup {NULL}
    <2>1. CASE link[x] = w
      <3>1. w \in R /\ link2[x] = link[w]
        BY <2>1, ReachStep, MainWinAssumption
      <3>2. QED
        BY <3>1, ReachStep
    <2>2. CASE link[x] # w
      BY <2>2, ReachStep
    <2>3. QED
      BY <2>1, <2>2
  <1>3. Reach(link2, v) \subseteq T
    <2> HIDE DEF T
    <2> QED
      BY <1>1, <1>2, ReachLeast
  <1>4. ASSUME NEW S \in SUBSET Windows, v \in S, \A x \in S : link2[x] \in S \cup {NULL}
        PROVE  T \subseteq S
    <2> DEFINE P == S \cap T
               Q == P \cup {u \in {w} : \E p \in P : link[p] = w}
    <2>1. Q \in SUBSET Windows /\ v \in Q
      BY <1>1, <1>4
    <2>2. ASSUME NEW x \in Q PROVE link[x] \in Q \cup {NULL}
      <3>1. CASE x \in P
        <4>1. CASE link[x] = w
          BY <3>1, <4>1
        <4>2. CASE link[x] # w
          <5>1. link2[x] = link[x] /\ link2[x] \in S \cup {NULL}
            BY <1>4, <3>1, <4>2
          <5>2. QED
            BY <3>1, <4>2, <5>1, ReachStep
        <4>3. QED
          BY <4>1, <4>2
      <3>2. CASE x \notin P
        <4>1. PICK p \in P : x = w /\ link[p] = w
          BY <2>2, <3>2
        <4>2. link2[p] = link[w] /\ link2[p] \in S \cup {NULL} /\ w \in R
          BY <1>4, <4>1, ReachStep, MainWinAssumption
        <4>3. QED
          BY <4>1, <4>2, ReachStep
      <3>3. QED
        BY <3>1, <3>2
    <2>3. R \subseteq Q
      <3> HIDE DEF Q
      <3> QED
        BY <2>1, <2>2, ReachLeast DEF R
    <2>4. QED
      BY <2>3
  <1>5. T \subseteq Reach(link2, v)
    <2>1. ASSUME NEW u \in T PROVE u \in Reach(link2, v)
      <3>1. u \in Windows
        BY <1>1
      <3> HIDE DEF T
      <3>2. QED
        BY <1>4, <2>1, <3>1 DEF Reach
    <2>2. QED
      BY <2>1
  <1>6. QED
    BY <1>3, <1>5

-----------------------------------------------------------------------------
(* The calls by their height: Fr(s, 1) is the outermost one of s.          *)
Fr(s, k) == s[Len(s) - k + 1]

Up(v) == Reach(pHosting, v)

(* The windows that a call is about, and that have to stay for it.         *)
Pinned(f) ==
    {x \in {f.w} : f.op \in {"create", "destroy"}}
    \cup {x \in {f.hosted} \ {NULL} : f.op = "destroy" /\ f.pc = "hosted"}
    \cup {x \in {f.next} \ {NULL} : f.op = "destroy" /\ f.pc \in {"calls", "next"}}

(* What holds of each call,                                                *)
Sound(f) ==
    /\ Pinned(f) \subseteq Valid
    /\ f.op = "create" => f.pc \in {"MSG_NCCREATE", "MSG_CREATE"}
    /\ f.op = "create" /\ f.pc = "MSG_NCCREATE" => f.w \notin desktop
    /\ f.op = "dialog" => f.pc \in {"calls", "MSG_INITDIALOG", "loop"}
    /\ f.op = "end" => f.w \in Dialogs /\ f.pc \in {"calls", "next", "refused"}
    /\ f.op = "destroy" =>
          /\ f.pc \in {"calls", "hosted", "next", "refused", "MSG_DESTROY"}
          /\ \A x \in Pinned(f) \ {f.w} : pHosting[x] = f.w
          /\ f.pc = "hosted" => f.hosted # f.w
          /\ f.pc \in {"calls", "next"} => f.next # f.w
          /\ f.pc = "next" /\ f.hosted \notin Dialogs =>
                f.hosted # NULL /\ DataType[f.hosted] = "TYPE_WINTODEL"

(* of a call f and the one g that it has called,                           *)
Waits(f) == f.pc \in Free \cup {"calls"}
Calls(f, g) ==
    /\ Waits(f)
    /\ f.pc = "calls" =>
          /\ f.op = "dialog" => g.op = "create" /\ g.w = f.w
          /\ f.op = "end" => g.op = "destroy" /\ g.w = f.w
          /\ f.op = "destroy" =>
                g.w = f.hosted /\ g.op = IF f.hosted \in Dialogs THEN "end" ELSE "destroy"

(* and of a call f and any one g that is further in.                       *)
Apart(f, g) ==
    /\ g.op = "create" => g.w \notin Pinned(f)
    /\ g.op = "destroy" => \A x \in Pinned(f) : g.w \notin Up(x)

Frames(s) ==
    /\ \A k \in 1 .. Len(s) : Sound(Fr(s, k))
    /\ \A k \in 1 .. Len(s) - 1 : Calls(Fr(s, k), Fr(s, k + 1))
    /\ \A l \in 1 .. Len(s) : \A k \in 1 .. l - 1 : Apart(Fr(s, k), Fr(s, l))

FramesInv == Frames(calls)

(* The windows are a tree, in which d is the depth of a window, ...        *)
Ranks == [Windows -> Nat]
TreeInv(d) ==
    /\ pRootMainWin = NULL => Valid = {}
    /\ pRootMainWin # NULL => pRootMainWin \in Valid /\ pHosting[pRootMainWin] = NULL
    /\ \A w \in Valid \ {pRootMainWin} : pHosting[w] \in Valid /\ d[pHosting[w]] < d[w]
    /\ \A w \in Windows : DataType[w] = "none" => pFirstHosted[w] = NULL

(* ... and the lists of hosted windows are in the order r.                 *)
ListInv(r) ==
    /\ HostingKept
    /\ \A h \in Valid : \A w \in Hosted(h) :
          pNextHosted[w] # NULL => r[w] < r[pNextHosted[w]]

CountInv == nrWindows = Cardinality(Living)

Careful == {"reentry", "orphans"} \cap Careless = {}

-----------------------------------------------------------------------------
(* A non-empty set of natural numbers has a least one.                     *)
LEMMA LeastNat ==
  ASSUME NEW S \in SUBSET Nat, S # {}
  PROVE  \E m \in S : \A k \in S : m <= k
  <1> DEFINE R == OpToRel(<, Nat)
  <1>1. IsWellFoundedOn(R, Nat)
    BY NatLessThanWellFounded
  <1> HIDE DEF R
  <1>2. \A k, m \in Nat : k < m => <<k, m>> \in R
    BY DEF R, OpToRel
  <1>3. PICK m \in S : \A k \in S : ~(<<k, m>> \in R)
    BY <1>1, WFMin
  <1>4. ASSUME NEW k \in S PROVE m <= k
    <2>1. ~(k < m)
      BY <1>2, <1>3
    <2>2. QED
      BY <2>1
  <1>5. QED
    BY <1>4

LEMMA CallType ==
  /\ \A op \in {"create", "dialog", "destroy", "end"}, w \in Windows,
        pc \in Free \cup {"calls", "hosted", "next", "refused"} : New(op, w, pc) \in Call
  /\ \A w \in Windows : pFirstHosted[w] \in Windows \cup {NULL} => DestroyCall(w) \in Call
  /\ \A f \in Call, pc \in Free \cup {"calls", "hosted", "next", "refused"} :
        [f EXCEPT !.pc = pc] \in Call
  BY DEF Call, New, DestroyCall, Free

(* The stack: a call on top, the top changed, the top taken away.          *)
LEMMA StackTop ==
  ASSUME NEW s \in Seq(Call), s # << >>
  PROVE  /\ Len(s) \in Nat \ {0} /\ s[1] \in Call /\ Fr(s, Len(s)) = s[1]
         /\ Tail(s) \in Seq(Call) /\ Len(Tail(s)) = Len(s) - 1
         /\ \A k \in 1 .. Len(s) - 1 : Fr(Tail(s), k) = Fr(s, k)
  BY DEF Fr

LEMMA StackPush ==
  ASSUME NEW s \in Seq(Call), NEW c \in Call
  PROVE  /\ <<c>> \o s \in Seq(Call) /\ Len(<<c>> \o s) = Len(s) + 1
         /\ Fr(<<c>> \o s, Len(s) + 1) = c
         /\ \A k \in 1 .. Len(s) : Fr(<<c>> \o s, k) = Fr(s, k)
  BY DEF Fr

LEMMA StackType ==
  ASSUME NEW s \in Seq(Call), NEW k \in 1 .. Len(s)
  PROVE  Fr(s, k) \in Call
  BY DEF Fr

LEMMA StackPut ==
  ASSUME NEW s \in Seq(Call), s # << >>, NEW c \in Call
  PROVE  /\ [s EXCEPT ![1] = c] = <<c>> \o Tail(s)
  <1> DEFINE t == [s EXCEPT ![1] = c]
             u == <<c>> \o Tail(s)
  <1>1. t \in Seq(Call) /\ Len(t) = Len(s) /\ t[1] = c /\ \A i \in 2 .. Len(s) : t[i] = s[i]
    OBVIOUS
  <1>2. u \in Seq(Call) /\ Len(u) = Len(s) /\ u[1] = c /\ \A i \in 2 .. Len(s) : u[i] = s[i]
    OBVIOUS
  <1>3. Len(t) = Len(u) /\ \A i \in 1 .. Len(t) : t[i] = u[i]
    BY <1>1, <1>2
  <1>4. QED
    <2> HIDE DEF t, u
    <2> t = u
      BY <1>1, <1>2, <1>3, SeqEqual
    <2> QED
      BY DEF t, u

-----------------------------------------------------------------------------
(* The m outermost calls are those of before, and the step leaves the      *)
(* windows they are about alone.                                           *)
Keeps(s, t, m) == m \in 0 .. Len(s) /\ m <= Len(t) /\ \A k \in 1 .. m : Fr(t, k) = Fr(s, k)

HostsKept ==
    \A v \in Valid \cap Valid' :
       pHosting'[v] = pHosting[v] /\ pHosting[v] \in Valid' \cup {NULL}

Spared(f) ==
    /\ Waits(f) /\ Pinned(f) \subseteq Valid'
    /\ f.op = "create" /\ f.pc = "MSG_NCCREATE" => f.w \notin desktop'

HostsRight == \A v \in Valid : pHosting[v] \in Valid \cup {NULL}

SparesOuter(m) ==
    \A k \in 1 .. m :
       /\ Pinned(Fr(calls, k)) \subseteq Valid'
       /\ Fr(calls, k).op = "create" => Fr(calls, k).w \notin desktop' \ desktop

LEMMA UpKept ==
  ASSUME TypeOK, TypeOK', HostsKept, HostsRight,
         NEW x \in Valid \cap Valid'
  PROVE  Up(x)' = Up(x)
  <1> DEFINE V == Valid \cap Valid'
  <1>1. pHosting \in Links /\ pHosting' \in Links /\ V \in SUBSET Windows /\ x \in V
    BY DEF TypeOK, Links, Valid
  <1>2. \A v \in V : pHosting[v] \in V \cup {NULL} /\ pHosting'[v] = pHosting[v]
    BY DEF HostsKept, HostsRight
  <1>3. Reach(pHosting, x) \subseteq V
    <2> HIDE DEF V
    <2> QED
      BY <1>1, <1>2, ReachLeast
  <1>4. Reach(pHosting', x) = Reach(pHosting, x)
    BY <1>1, <1>2, <1>3, ReachSame
  <1>5. QED
    BY <1>4 DEF Up

LEMMA SoundKept ==
  ASSUME TypeOK, TypeOK', HostsKept, NEW f \in Call, Sound(f), Spared(f)
  PROVE  Sound(f)'
  <1>1. (Pinned(f) \subseteq Valid)' /\ f.pc # "next"
    BY DEF Spared, Pinned, Waits, Free
  <1>2. \A x \in Pinned(f) : pHosting'[x] = pHosting[x]
    BY <1>1 DEF HostsKept, Sound, Pinned
  <1>3. QED
    BY <1>1, <1>2 DEF Sound, Spared, Pinned

LEMMA ApartKept ==
  ASSUME TypeOK, TypeOK', HostsKept, HostsRight,
         NEW f \in Call, NEW g \in Call, Sound(f), Spared(f), Apart(f, g)
  PROVE  Apart(f, g)'
  <1>1. \A x \in Pinned(f) : x \in Valid \cap Valid'
    BY DEF Sound, Spared, Pinned
  <1>2. \A x \in Pinned(f) : Up(x)' = Up(x)
    BY <1>1, UpKept
  <1>3. QED
    BY <1>2 DEF Apart, Pinned

(* What is to be shown of a step: only what is not kept.                   *)
LEMMA FramesStep ==
  ASSUME TypeOK, TypeOK', HostsKept, HostsRight,
         FramesInv, NEW t \in Seq(Call), NEW m, Keeps(calls, t, m),
         \A k \in 1 .. m : Spared(Fr(calls, k)),
         \A k \in m + 1 .. Len(t) : Sound(Fr(t, k))',
         \A k \in m .. Len(t) - 1 : k # 0 => Calls(Fr(t, k), Fr(t, k + 1)),
         \A l \in m + 1 .. Len(t) : \A k \in 1 .. l - 1 : Apart(Fr(t, k), Fr(t, l))'
  PROVE  Frames(t)'
  <1>1. calls \in Seq(Call) /\ t \in Seq(Call) /\ m \in Nat /\ m <= Len(calls) /\ m <= Len(t)
    BY DEF TypeOK, Keeps
  <1>2. \A k \in 1 .. m : Fr(t, k) = Fr(calls, k) /\ Fr(calls, k) \in Call
    BY <1>1, StackType DEF Keeps
  <1>3. ASSUME NEW k \in 1 .. Len(t) PROVE Sound(Fr(t, k))'
    <2>1. CASE k \in 1 .. m
      <3>1. PICK f \in Call : f = Fr(calls, k)
        BY <1>2, <2>1
      <3>2. Sound(f)'
        BY <1>1, <2>1, <3>1, SoundKept DEF FramesInv, Frames
      <3>3. QED
        BY <1>2, <2>1, <3>1, <3>2
    <2>2. QED
      BY <1>1, <2>1
  <1>4. ASSUME NEW k \in 1 .. Len(t) - 1 PROVE Calls(Fr(t, k), Fr(t, k + 1))
    <2>1. CASE k + 1 \in 1 .. m
      BY <1>1, <1>2, <2>1 DEF FramesInv, Frames
    <2>2. QED
      BY <1>1, <2>1
  <1>5. ASSUME NEW l \in 1 .. Len(t), NEW k \in 1 .. l - 1 PROVE Apart(Fr(t, k), Fr(t, l))'
    <2>1. CASE l \in 1 .. m
      <3>1. k \in 1 .. m /\ l \in 1 .. Len(calls) /\ k \in 1 .. Len(calls)
        BY <1>1, <2>1
      <3>2. PICK f \in Call : f = Fr(calls, k)
        BY <1>2, <3>1
      <3>3. PICK g \in Call : g = Fr(calls, l)
        BY <1>2, <2>1
      <3>4. Sound(f) /\ Spared(f) /\ Apart(f, g)
        BY <3>1, <3>2, <3>3 DEF FramesInv, Frames
      <3>5. Apart(f, g)'
        BY <3>4, ApartKept
      <3>6. QED
        BY <1>2, <2>1, <3>1, <3>2, <3>3, <3>5
    <2>2. QED
      BY <1>1, <2>1
  <1>6. QED
    <2>1. \A k \in 1 .. Len(t) - 1 : Calls(Fr(t, k), Fr(t, k + 1))'
      BY <1>4 DEF Calls, Waits
    <2>2. QED
      BY <1>3, <1>5, <2>1 DEF Frames

-----------------------------------------------------------------------------
(* The windows that one of the m outermost calls is creating.              *)
Creates(s, m) == {x \in Windows : \E k \in 1 .. m : Fr(s, k).op = "create" /\ Fr(s, k).w = x}

Made(f) == {x \in {f.w} : f.op = "create"}

LEMMA CreatingIs ==
  ASSUME TypeOK
  PROVE  Creating = Creates(calls, Len(calls))
  <1>1. calls \in Seq(Call) /\ DOMAIN calls = 1 .. Len(calls) /\ Len(calls) \in Nat
    BY DEF TypeOK
  <1>2. ASSUME NEW i \in DOMAIN calls, calls[i].op = "create"
        PROVE  calls[i].w \in Creates(calls, Len(calls))
    <2>1. (Len(calls) - i) + 1 \in 1 .. Len(calls) /\ Fr(calls, (Len(calls) - i) + 1) = calls[i]
      BY <1>1 DEF Fr
    <2>2. calls[i] \in Call
      BY <1>1
    <2>3. calls[i].w \in Windows
      BY <2>2 DEF Call
    <2>4. QED
      BY <1>2, <2>1, <2>3 DEF Creates
  <1>3. ASSUME NEW k \in 1 .. Len(calls), Fr(calls, k).op = "create"
        PROVE  Fr(calls, k).w \in Creating
    <2>1. Len(calls) - k + 1 \in DOMAIN calls
      BY <1>1
    <2>2. QED
      BY <1>3, <2>1 DEF Fr, Creating
  <1>4. Creating \subseteq Creates(calls, Len(calls))
    BY <1>2 DEF Creating
  <1>5. Creates(calls, Len(calls)) \subseteq Creating
    BY <1>3 DEF Creates
  <1>6. QED
    BY <1>4, <1>5

LEMMA CreatesKept ==
  ASSUME NEW s \in Seq(Call), NEW t, NEW m, Keeps(s, t, m)
  PROVE  Creates(t, m) = Creates(s, m)
  BY DEF Keeps, Creates

LEMMA CreatesMore ==
  ASSUME NEW s \in Seq(Call), NEW m \in Nat \ {0}, m <= Len(s)
  PROVE  Creates(s, m) = Creates(s, m - 1) \cup Made(Fr(s, m))
  <1>1. Fr(s, m) \in Call
    BY StackType
  <1>2. Fr(s, m).w \in Windows
    BY <1>1 DEF Call
  <1>3. \A k \in 1 .. m : k \in 1 .. m - 1 \/ k = m
    OBVIOUS
  <1>4. 1 .. m - 1 \subseteq 1 .. m /\ m \in 1 .. m
    OBVIOUS
  <1>5. QED
    BY <1>2, <1>3, <1>4 DEF Creates, Made

(* What a DestroyMainWindow is about was created, and hosted by its window.*)
LEMMA PinnedLiving ==
  ASSUME TypeOK, FramesInv, NEW k \in 1 .. Len(calls), NEW f \in Call, f = Fr(calls, k),
         f.op = "destroy", NEW x \in Pinned(f)
  PROVE  x \in Living
  <1>1. x \in Valid /\ pHosting \in Links /\ Sound(f)
    BY DEF FramesInv, Frames, Sound, TypeOK, Links
  <1>2. SUFFICES ASSUME x \in Creating PROVE FALSE
    BY <1>1 DEF Living
  <1>3. PICK j \in 1 .. Len(calls) : Fr(calls, j).op = "create" /\ Fr(calls, j).w = x
    BY <1>2, CreatingIs DEF Creates
  <1>4. Len(calls) \in Nat /\ j # k
    BY <1>3 DEF TypeOK
  <1>5. CASE j > k
    <2>1. Apart(f, Fr(calls, j))
      BY <1>4, <1>5 DEF FramesInv, Frames
    <2>2. QED
      BY <1>3, <2>1 DEF Apart
  <1>6. CASE j < k
    <2>1. Apart(Fr(calls, j), f) /\ x \in Pinned(Fr(calls, j))
      BY <1>3, <1>4, <1>6 DEF FramesInv, Frames, Pinned
    <2>2. f.w \notin Up(x)
      BY <2>1 DEF Apart
    <2>3. x \in Up(x) /\ x \in Windows /\ f.w \in Windows /\ f.w # NULL
      BY <1>1, ReachSelf, MainWinAssumption DEF Up, Valid, Call
    <2>4. x = f.w \/ pHosting[x] = f.w
      BY <1>1 DEF Sound
    <2>5. QED
      BY <1>1, <2>2, <2>3, <2>4, ReachStep DEF Up
  <1>7. QED
    BY <1>4, <1>5, <1>6

-----------------------------------------------------------------------------
LEMMA HostedType ==
  ASSUME TypeOK, NEW h \in Windows
  PROVE  /\ Hosted(h) \subseteq Windows
         /\ pFirstHosted[h] # NULL => pFirstHosted[h] \in Hosted(h)
         /\ \A u \in Hosted(h) : pNextHosted[u] # NULL => pNextHosted[u] \in Hosted(h)
  <1>1. pNextHosted \in Links /\ pFirstHosted[h] \in Windows \cup {NULL}
    BY DEF TypeOK, Links
  <1>2. QED
    BY <1>1, ReachSelf, ReachStep DEF Hosted

LEMMA HostedSame ==
  ASSUME TypeOK, TypeOK', NEW h \in Windows, pFirstHosted'[h] = pFirstHosted[h],
         \A u \in Hosted(h) : pNextHosted'[u] = pNextHosted[u]
  PROVE  Hosted(h)' = Hosted(h)
  <1>1. pNextHosted \in Links /\ pNextHosted' \in Links /\ pFirstHosted[h] \in Windows \cup {NULL}
    BY DEF TypeOK, Links
  <1>2. CASE pFirstHosted[h] = NULL
    BY <1>2 DEF Hosted
  <1>3. CASE pFirstHosted[h] # NULL
    <2>1. Hosted(h) = Reach(pNextHosted, pFirstHosted[h])
      BY <1>3 DEF Hosted
    <2>2. Reach(pNextHosted', pFirstHosted[h]) = Reach(pNextHosted, pFirstHosted[h])
      BY <1>1, <1>3, <2>1, ReachSame
    <2>3. QED
      BY <1>3, <2>2 DEF Hosted
  <1>4. QED
    BY <1>2, <1>3

(* A window that is not valid changes nothing when it is wiped.            *)
LEMMA SameLists ==
  ASSUME TypeOK, TypeOK', NEW d \in Ranks, TreeInv(d), NEW r \in Ranks, ListInv(r),
         Valid' = Valid, Living' = Living, pRootMainWin' = pRootMainWin,
         \A v \in Valid : /\ pHosting'[v] = pHosting[v] /\ pFirstHosted'[v] = pFirstHosted[v]
                          /\ pNextHosted'[v] = pNextHosted[v],
         \A v \in Windows : DataType'[v] = "none" => pFirstHosted'[v] = NULL
  PROVE  TreeInv(d)' /\ ListInv(r)' /\ HostsKept
  <1>1. Living \subseteq Valid /\ Valid \subseteq Windows
    BY DEF Living, Valid
  <1>2. \A v \in Valid : pHosting[v] \in Valid \cup {NULL}
    BY DEF TreeInv
  <1>3. HostsKept
    BY <1>2 DEF HostsKept
  <1>4. TreeInv(d)'
    <2>1. \A w \in Valid \ {pRootMainWin} : pHosting'[w] = pHosting[w]
      OBVIOUS
    <2>2. QED
      BY <2>1 DEF TreeInv
  <1>5. \A h \in Valid : Hosted(h)' = Hosted(h)
    <2>1. ASSUME NEW h \in Valid PROVE Hosted(h)' = Hosted(h)
      <3>1. \A u \in Hosted(h) : u \in Valid
        BY <1>1 DEF ListInv, HostingKept
      <3>2. QED
        BY <1>1, <3>1, HostedSame
    <2>2. QED
      BY <2>1
  <1>6. HostingKept'
    BY <1>1, <1>5 DEF ListInv, HostingKept
  <1>7. ASSUME NEW h \in Valid, NEW w \in Hosted(h), pNextHosted'[w] # NULL
        PROVE  r[w] < r[pNextHosted'[w]]
    BY <1>1, <1>7 DEF ListInv, HostingKept
  <1>8. ListInv(r)'
    BY <1>5, <1>6, <1>7 DEF ListInv
  <1>9. QED
    BY <1>3, <1>4, <1>8

(* The root window is the last one that hosts none.                        *)
LEMMA RootAlone ==
  ASSUME TypeOK, NEW d \in Ranks, TreeInv(d), pRootMainWin # NULL,
         {v \in Valid : pHosting[v] = pRootMainWin} = {}
  PROVE  Valid = {pRootMainWin}
  <1> DEFINE S == Valid \ {pRootMainWin}
             D == {d[x] : x \in S}
  <1>1. SUFFICES ASSUME S # {} PROVE FALSE
    BY DEF TreeInv
  <1>2. D \in SUBSET Nat /\ D # {}
    BY <1>1 DEF Valid, Ranks
  <1>3. PICK n \in D : \A m \in D : n <= m
    <2> HIDE DEF D
    <2> QED
      BY <1>2, LeastNat
  <1>4. PICK x \in S : d[x] = n
    BY <1>3
  <1>5. pHosting[x] \in S /\ d[pHosting[x]] < d[x]
    BY <1>4 DEF TreeInv
  <1>6. d[pHosting[x]] \in D /\ n \in Nat /\ d[pHosting[x]] \in Nat
    BY <1>2, <1>3, <1>5
  <1>7. QED
    BY <1>3, <1>4, <1>5, <1>6

LEMMA HostValid ==
  ASSUME TypeOK, NEW d \in Ranks, TreeInv(d), NEW w \in Valid
  PROVE  /\ pHosting[w] \in Valid \cup {NULL}
         /\ pHosting[w] = NULL <=> w = pRootMainWin
         /\ pHosting[w] # w
  BY MainWinAssumption DEF TreeInv, Ranks, Valid

LEMMA AllocatedLists ==
  ASSUME TypeOK, TypeOK', NEW d \in Ranks, TreeInv(d), NEW r \in Ranks, ListInv(r),
         NEW w \in Windows, NEW h, Allocated(w, h), Living' = Living
  PROVE  /\ \E d2 \in Ranks : TreeInv(d2)'
         /\ ListInv(r)' /\ HostsKept /\ Valid' = Valid \cup {w} /\ w \notin Valid
  <1> DEFINE g == IF pRootMainWin = NULL THEN NULL ELSE HostFor(h)
  <1>1. /\ DataType[w] = "none" /\ w \notin Valid /\ Valid' = Valid \cup {w}
        /\ Valid \subseteq Windows /\ Living \subseteq Valid
    BY DEF Allocated, TypeOK, Valid, Put, Living
  <1>2. g \in Valid \cup {NULL} /\ (g = NULL <=> pRootMainWin = NULL)
    BY MainWinAssumption DEF Allocated, HostFor, TreeInv, Valid
  <1>3. /\ pHosting'[w] = g /\ \A v \in Valid : pHosting'[v] = pHosting[v]
        /\ pFirstHosted' = pFirstHosted /\ pNextHosted' = pNextHosted
        /\ pRootMainWin' = IF pRootMainWin = NULL THEN w ELSE pRootMainWin
    BY <1>1 DEF Allocated, TypeOK, Put
  <1> HIDE DEF g
  <1>4. HostsKept
    BY <1>1, <1>3, HostValid DEF HostsKept
  <1>5. \E d2 \in Ranks : TreeInv(d2)'
    <2> DEFINE D == [d EXCEPT ![w] = IF g = NULL THEN 0 ELSE d[g] + 1]
    <2>0. D \in Ranks /\ (\A v \in Valid : D[v] = d[v]) /\ (g # NULL => D[w] = d[g] + 1)
      BY <1>1, <1>2 DEF Ranks
    <2> HIDE DEF D
    <2>1. PICK d2 \in Ranks : (\A v \in Valid : d2[v] = d[v]) /\ (g # NULL => d2[w] = d[g] + 1)
      BY <2>0
    <2>2. ASSUME NEW v \in Valid' \ {pRootMainWin'}
          PROVE  pHosting'[v] \in Valid' /\ d2[pHosting'[v]] < d2[v]
      <3>1. CASE v = w
        <4>1. g \in Valid /\ d[g] \in Nat
          BY <1>1, <1>2, <1>3, <2>2, <3>1 DEF Ranks
        <4>2. QED
          BY <1>1, <1>2, <1>3, <2>1, <3>1, <4>1
      <3>2. CASE v # w
        <4>1. v \in Valid \ {pRootMainWin}
          BY <1>1, <1>3, <2>2, <3>2 DEF TreeInv
        <4>2. QED
          BY <1>1, <1>3, <2>1, <4>1 DEF TreeInv
      <3>3. QED
        BY <3>1, <3>2
    <2>3. (pRootMainWin # NULL => pRootMainWin \in Valid /\ pHosting[pRootMainWin] = NULL)'
      BY <1>1, <1>2, <1>3 DEF TreeInv
    <2>4. pRootMainWin' # NULL
      BY <1>3, MainWinAssumption
    <2>5. \A v \in Windows : DataType'[v] = "none" => pFirstHosted'[v] = NULL
      BY <1>3 DEF Allocated, TypeOK, Put, TreeInv
    <2>6. TreeInv(d2)'
      BY <2>2, <2>3, <2>4, <2>5 DEF TreeInv
    <2>7. QED
      BY <2>1, <2>6
  <1>6. Hosted(w)' = {} /\ \A v \in Valid : Hosted(v)' = Hosted(v)
    <2>1. pFirstHosted[w] = NULL
      BY <1>1 DEF TreeInv
    <2>2. QED
      BY <1>3, <2>1 DEF Hosted
  <1>7. HostingKept'
    <2>1. ASSUME NEW v \in Living \ {pRootMainWin'}
          PROVE  (pHosting[v] \in Valid /\ v \in Hosted(pHosting[v]))'
      <3>1. v \in Living \ {pRootMainWin}
        BY <1>1, <1>3, <2>1 DEF TreeInv
      <3>2. pHosting[v] \in Valid /\ v \in Hosted(pHosting[v]) /\ pHosting'[v] = pHosting[v]
        BY <1>1, <1>3, <3>1 DEF ListInv, HostingKept
      <3>3. QED
        BY <1>1, <1>6, <3>2
    <2>2. ASSUME NEW x \in Valid', NEW v \in Hosted(x)'
          PROVE  v \in Living /\ pHosting'[v] = x
      <3>1. x \in Valid /\ v \in Hosted(x)
        BY <1>1, <1>6, <2>2
      <3>2. QED
        BY <1>1, <1>3, <3>1 DEF ListInv, HostingKept
    <2>3. QED
      BY <2>1, <2>2 DEF HostingKept
  <1>8. ListInv(r)'
    BY <1>1, <1>3, <1>6, <1>7 DEF ListInv
  <1>9. QED
    BY <1>1, <1>4, <1>5, <1>8

(* A window that is being created, and hosts none, goes.                   *)
LEMMA FailedLists ==
  ASSUME TypeOK, TypeOK', NEW d \in Ranks, TreeInv(d), NEW r \in Ranks, ListInv(r),
         NEW w \in Valid \ Living, Failed(w), \A v \in Valid : pHosting[v] # w, Living' = Living
  PROVE  TreeInv(d)' /\ ListInv(r)' /\ HostsKept /\ Valid' = Valid \ {w}
  <1>1. /\ Valid' = Valid \ {w} /\ Valid \subseteq Windows /\ Living \subseteq Valid \ {w}
        /\ w \in Windows
    BY DEF Failed, TypeOK, Valid, Put, Living
  <1>2. /\ \A v \in Valid \ {w} : /\ pHosting'[v] = pHosting[v]
                                  /\ pFirstHosted'[v] = pFirstHosted[v]
                                  /\ pNextHosted'[v] = pNextHosted[v]
        /\ pRootMainWin' = IF pRootMainWin = w THEN NULL ELSE pRootMainWin
    BY <1>1 DEF Failed, Wiped, TypeOK, Put
  <1>3. HostsKept
    BY <1>1, <1>2, HostValid DEF HostsKept
  <1>4. pRootMainWin = w => Valid = {w}
    BY RootAlone, MainWinAssumption, <1>1
  <1>5. TreeInv(d)'
    <2>1. \A v \in Windows : DataType'[v] = "none" => pFirstHosted'[v] = NULL
      BY DEF Failed, Wiped, TypeOK, Put, TreeInv
    <2>2. \A v \in Valid' \ {pRootMainWin'} :
              pHosting'[v] \in Valid' /\ d[pHosting'[v]] < d[v]
      BY <1>1, <1>2, <1>4 DEF TreeInv
    <2>3. (pRootMainWin # NULL => pRootMainWin \in Valid /\ pHosting[pRootMainWin] = NULL)'
      BY <1>1, <1>2 DEF TreeInv
    <2>4. pRootMainWin' = NULL => Valid' = {}
      BY <1>1, <1>2, <1>4 DEF TreeInv
    <2>5. QED
      BY <2>1, <2>2, <2>3, <2>4 DEF TreeInv
  <1>6. \A h \in Valid \ {w} : Hosted(h)' = Hosted(h)
    <2>1. ASSUME NEW h \in Valid \ {w} PROVE Hosted(h)' = Hosted(h)
      <3>1. \A u \in Hosted(h) : u \in Valid \ {w}
        BY <1>1 DEF ListInv, HostingKept
      <3>2. QED
        BY <1>1, <1>2, <3>1, HostedSame
    <2>2. QED
      BY <2>1
  <1>7. HostingKept'
    <2>1. ASSUME NEW v \in Living \ {pRootMainWin'}
          PROVE  (pHosting[v] \in Valid /\ v \in Hosted(pHosting[v]))'
      <3>1. v \in Living \ {pRootMainWin}
        BY <1>1, <1>2, <2>1
      <3>2. /\ pHosting[v] \in Valid \ {w} /\ v \in Hosted(pHosting[v])
            /\ pHosting'[v] = pHosting[v]
        BY <1>1, <1>2, <3>1 DEF ListInv, HostingKept
      <3>3. QED
        BY <1>1, <1>6, <3>2
    <2>2. ASSUME NEW x \in Valid', NEW v \in Hosted(x)'
          PROVE  v \in Living /\ pHosting'[v] = x
      BY <1>1, <1>2, <1>6, <2>2 DEF ListInv, HostingKept
    <2>3. QED
      BY <2>1, <2>2 DEF HostingKept
  <1>8. ListInv(r)'
    <2>1. ASSUME NEW h \in Valid', NEW v \in Hosted(h)', pNextHosted'[v] # NULL
          PROVE  r[v] < r[pNextHosted'[v]]
      BY <1>1, <1>2, <1>6, <2>1 DEF ListInv, HostingKept
    <2>2. QED
      BY <1>7, <2>1 DEF ListInv
  <1>9. QED
    BY <1>1, <1>3, <1>5, <1>8

(* A window that has been created is the last of the list of its host.     *)
LEMMA CreatedLists ==
  ASSUME TypeOK, TypeOK', NEW d \in Ranks, TreeInv(d), NEW r \in Ranks, ListInv(r),
         NEW w \in Valid \ Living, Living' = Living \cup {w},
         IF pHosting[w] # NULL THEN AddHosted(pHosting[w], w)
                               ELSE UNCHANGED <<pFirstHosted, pNextHosted>>,
         UNCHANGED <<DataType, pHosting, pRootMainWin>>
  PROVE  TreeInv(d)' /\ (\E r2 \in Ranks : ListInv(r2)') /\ HostsKept
  <1>1. Valid' = Valid /\ Valid \subseteq Windows /\ Living \subseteq Valid
    BY DEF Valid, Living
  <1>2. HostsKept
    BY <1>1, HostValid DEF HostsKept
  <1>3. \A v \in Valid : \A u \in Hosted(v) :
           /\ u \in Living /\ u # w /\ pHosting[u] = v
           /\ pNextHosted[u] # NULL => r[u] < r[pNextHosted[u]] /\ pNextHosted[u] \in Hosted(v)
    BY <1>1, HostedType DEF ListInv, HostingKept
  <1>4. CASE pHosting[w] = NULL
    <2>1. w = pRootMainWin
      BY <1>4, HostValid
    <2>2. \A v \in Valid : Hosted(v)' = Hosted(v)
      BY <1>4 DEF Hosted
    <2>3. TreeInv(d)'
      BY <1>1, <1>4 DEF TreeInv
    <2>4. HostingKept'
      BY <1>1, <2>1, <2>2 DEF HostingKept, ListInv
    <2>5. ListInv(r)'
      BY <1>1, <1>4, <2>2, <2>4 DEF ListInv
    <2>6. QED
      BY <1>2, <2>3, <2>5
  <1>5. CASE pHosting[w] # NULL
    <2>1. PICK h \in Valid : h = pHosting[w] /\ AddHosted(h, w) /\ w # pRootMainWin
      BY <1>5, HostValid
    <2>2. pFirstHosted \in Links /\ pNextHosted \in Links /\ pNextHosted' \in Links
      BY DEF TypeOK, Links
    <2>3. TreeInv(d)'
      <3>1. \A v \in Windows : DataType[v] = "none" => pFirstHosted'[v] = NULL
        BY <2>1, <2>2 DEF AddHosted, TreeInv, Put, Links, Valid
      <3>2. QED
        BY <1>1, <3>1 DEF TreeInv
    <2>4. \E r2 \in Ranks :
             /\ \A v \in Valid \ {h} : \A u \in Hosted(v) : pNextHosted'[u] = pNextHosted[u]
             /\ pNextHosted'[w] = NULL
             /\ Hosted(h)' = Hosted(h) \cup {w}
             /\ \A v \in Valid \ {h} : pFirstHosted'[v] = pFirstHosted[v]
             /\ \A v \in Valid : \A u \in Hosted(v) :
                   pNextHosted'[u] # NULL => r2[u] < r2[pNextHosted'[u]]
      <3>1. CASE pFirstHosted[h] = NULL
        <4>1. /\ pFirstHosted'[h] = w /\ \A v \in Valid \ {h} : pFirstHosted'[v] = pFirstHosted[v]
              /\ pNextHosted'[w] = NULL /\ \A v \in Windows \ {w} : pNextHosted'[v] = pNextHosted[v]
          BY <1>1, <2>1, <2>2, <3>1 DEF AddHosted, Put, Links
        <4>2. Reach(pNextHosted', w) = {w}
          BY <1>1, <2>2, <4>1, ReachNext
        <4>3. Hosted(h)' = {w} /\ Hosted(h) = {}
          BY <1>1, <3>1, <4>1, <4>2, MainWinAssumption DEF Hosted
        <4>4. \A v \in Valid : \A u \in Hosted(v) : pNextHosted'[u] = pNextHosted[u]
          BY <1>1, <1>3, <4>1
        <4>5. QED
          BY <1>3, <4>1, <4>3, <4>4
      <3>2. CASE pFirstHosted[h] # NULL
        <4>1. PICK last \in Hosted(h) :
                 /\ pNextHosted[last] = NULL /\ pFirstHosted' = pFirstHosted
                 /\ pNextHosted' = Put(Put(pNextHosted, w, NULL), last, w)
          BY <2>1, <3>2 DEF AddHosted
        <4>2. last \in Windows /\ last # w /\ pHosting[last] = h
          BY <1>1, <1>3
        <4>3. /\ pNextHosted'[w] = NULL /\ pNextHosted'[last] = w
              /\ \A v \in Windows \ {w, last} : pNextHosted'[v] = pNextHosted[v]
          BY <1>1, <2>2, <4>1, <4>2 DEF Put, Links
        <4>4. Hosted(h) = Reach(pNextHosted, pFirstHosted[h]) /\ pFirstHosted[h] \in Windows
          BY <1>1, <2>2, <3>2 DEF Hosted, Links
        <4>5. Reach(pNextHosted', pFirstHosted[h]) = Hosted(h) \cup {w}
          <5>1. Hosted(h) \subseteq Windows /\ w \notin Hosted(h)
            BY <1>1, <1>3
          <5>2. QED
            BY <1>1, <2>2, <4>1, <4>3, <4>4, <5>1, ReachMore
        <4>6. Hosted(h)' = Hosted(h) \cup {w}
          BY <3>2, <4>1, <4>5 DEF Hosted
        <4>7. \A v \in Valid \ {h} : \A u \in Hosted(v) : pNextHosted'[u] = pNextHosted[u]
          BY <1>1, <1>3, <4>2, <4>3
        <4>8. PICK r2 \in Ranks : /\ \A v \in Windows \ {w} : r2[v] = r[v]
                                  /\ r2[w] = r[last] + 1
          <5> DEFINE q == [r EXCEPT ![w] = r[last] + 1]
          <5>1. r[last] + 1 \in Nat
            BY <4>2 DEF Ranks
          <5>2. q \in Ranks /\ (\A v \in Windows \ {w} : q[v] = r[v]) /\ q[w] = r[last] + 1
            BY <1>1, <5>1 DEF Ranks
          <5> HIDE DEF q
          <5>3. QED
            BY <5>2
        <4>9. ASSUME NEW v \in Valid, NEW u \in Hosted(v), pNextHosted'[u] # NULL
              PROVE  r2[u] < r2[pNextHosted'[u]]
          <5>1. CASE u = last
            <6>1. r2[u] = r[last] /\ r[last] \in Nat
              BY <4>2, <4>8, <5>1 DEF Ranks
            <6>2. QED
              BY <4>3, <4>8, <5>1, <6>1
          <5>2. CASE u # last
            <6>1. u \in Windows \ {w, last} /\ pNextHosted'[u] = pNextHosted[u]
              BY <1>1, <1>3, <4>3, <5>2
            <6>2. r[u] < r[pNextHosted[u]] /\ pNextHosted[u] \in Windows \ {w}
              BY <1>1, <1>3, <4>9, <6>1
            <6>3. QED
              BY <4>8, <6>1, <6>2
          <5>3. QED
            BY <5>1, <5>2
        <4>10. QED
          BY <4>1, <4>3, <4>6, <4>7, <4>8, <4>9
      <3>3. QED
        BY <3>1, <3>2
    <2>5. PICK r2 \in Ranks :
             /\ \A v \in Valid \ {h} : \A u \in Hosted(v) : pNextHosted'[u] = pNextHosted[u]
             /\ pNextHosted'[w] = NULL
             /\ Hosted(h)' = Hosted(h) \cup {w}
             /\ \A v \in Valid \ {h} : pFirstHosted'[v] = pFirstHosted[v]
             /\ \A v \in Valid : \A u \in Hosted(v) :
                   pNextHosted'[u] # NULL => r2[u] < r2[pNextHosted'[u]]
      BY <2>4
    <2>6. \A v \in Valid \ {h} : Hosted(v)' = Hosted(v)
      BY <1>1, <2>5, HostedSame
    <2>7. HostingKept'
      <3>1. ASSUME NEW v \in Living' \ {pRootMainWin}
            PROVE  (pHosting[v] \in Valid /\ v \in Hosted(pHosting[v]))'
        <4>1. CASE v = w
          BY <1>1, <2>1, <2>5, <4>1
        <4>2. CASE v # w
          <5>1. pHosting[v] \in Valid /\ v \in Hosted(pHosting[v])
            BY <3>1, <4>2 DEF ListInv, HostingKept
          <5>2. v \in Hosted(pHosting[v])'
            BY <2>5, <2>6, <5>1
          <5>3. QED
            BY <1>1, <5>1, <5>2
        <4>3. QED
          BY <4>1, <4>2
      <3>2. ASSUME NEW x \in Valid, NEW v \in Hosted(x)'
            PROVE  v \in Living' /\ pHosting[v] = x
        BY <1>3, <2>1, <2>5, <2>6, <3>2
      <3>3. QED
        BY <1>1, <3>1, <3>2 DEF HostingKept
    <2>8. ListInv(r2)'
      <3>1. ASSUME NEW x \in Valid, NEW v \in Hosted(x)', pNextHosted'[v] # NULL
            PROVE  r2[v] < r2[pNextHosted'[v]]
        BY <2>5, <2>6, <3>1
      <3>2. QED
        BY <1>1, <2>7, <3>1 DEF ListInv
    <2>9. QED
      BY <1>2, <2>3, <2>5, <2>8
  <1>6. QED
    BY <1>4, <1>5

(* A window that is destroyed is taken out of the list of its host.        *)
LEMMA DestroyedLists ==
  ASSUME TypeOK, TypeOK', NEW d \in Ranks, TreeInv(d), NEW r \in Ranks, ListInv(r),
         NEW w \in Living, Living' = Living \ {w}, \A v \in Valid : pHosting[v] # w,
         IF pHosting[w] # NULL THEN RemoveHosted(pHosting[w], w)
                               ELSE UNCHANGED <<pFirstHosted, pNextHosted>>,
         DataType' = Put(DataType, w, "TYPE_WINTODEL"),
         pRootMainWin' = IF pRootMainWin = w THEN NULL ELSE pRootMainWin,
         pHosting' = pHosting
  PROVE  TreeInv(d)' /\ ListInv(r)' /\ HostsKept /\ Valid' = Valid \ {w}
  <1>1. /\ Valid' = Valid \ {w} /\ Valid \subseteq Windows /\ Living \subseteq Valid
        /\ w \in Windows /\ w \in Valid
    BY DEF TypeOK, Valid, Living, Put
  <1>2. HostsKept
    BY <1>1, HostValid DEF HostsKept
  <1>3. \A v \in Valid : \A u \in Hosted(v) :
           /\ u \in Living /\ pHosting[u] = v
           /\ pNextHosted[u] # NULL => r[u] < r[pNextHosted[u]] /\ pNextHosted[u] \in Hosted(v)
    BY <1>1, HostedType DEF ListInv, HostingKept
  <1>4. pFirstHosted \in Links /\ pNextHosted \in Links /\ pNextHosted' \in Links
    BY DEF TypeOK, Links
  <1>5. CASE pHosting[w] = NULL
    <2>1. w = pRootMainWin /\ Valid' = {} /\ pRootMainWin' = NULL
      BY <1>1, <1>5, HostValid, RootAlone, MainWinAssumption
    <2>2. \A v \in Windows : DataType'[v] = "none" => pFirstHosted'[v] = NULL
      BY <1>5 DEF TreeInv, TypeOK, Put
    <2>3. TreeInv(d)'
      BY <2>1, <2>2 DEF TreeInv
    <2>4. ListInv(r)'
      <3>1. Living' = {}
        BY <2>1 DEF Living
      <3>2. QED
        BY <2>1, <3>1 DEF ListInv, HostingKept
    <2>5. QED
      BY <1>1, <1>2, <2>3, <2>4
  <1>6. CASE pHosting[w] # NULL
    <2>1. PICK h \in Valid \ {w} : h = pHosting[w] /\ RemoveHosted(h, w) /\ w # pRootMainWin
      BY <1>1, <1>6, HostValid
    <2>2. w \in Hosted(h)
      BY <2>1 DEF ListInv, HostingKept
    <2>3. TreeInv(d)'
      <3>1. \A v \in Windows : DataType'[v] = "none" => pFirstHosted'[v] = NULL
        <4>1. \A v \in Windows : DataType'[v] = "none" => DataType[v] = "none"
          BY DEF TypeOK, Put
        <4>2. \A v \in Windows : DataType[v] = "none" => pFirstHosted'[v] = NULL
          BY <2>1, <1>4 DEF RemoveHosted, TreeInv, Put, Links, Valid
        <4>3. QED
          BY <4>1, <4>2
      <3>2. pRootMainWin' = pRootMainWin /\ pRootMainWin # w
        BY <2>1
      <3>3. QED
        BY <1>1, <3>1, <3>2 DEF TreeInv
    <2>4. pNextHosted[w] # w /\ (pNextHosted[w] # NULL => pNextHosted[w] \in Windows)
      <3>1. r[w] \in Nat
        BY <1>1 DEF Ranks
      <3>2. QED
        BY <1>1, <1>3, <1>4, <2>1, <2>2, <3>1, MainWinAssumption DEF Links
    <2>5. /\ Hosted(h)' = Hosted(h) \ {w}
          /\ \A v \in Valid \ {h} : pFirstHosted'[v] = pFirstHosted[v]
          /\ \A v \in Valid \ {h} : \A u \in Hosted(v) : pNextHosted'[u] = pNextHosted[u]
          /\ \A u \in Hosted(h) \ {w} : pNextHosted'[u] \in {pNextHosted[u],
                                           IF pNextHosted[u] = w THEN pNextHosted[w] ELSE pNextHosted[u]}
      <3>1. CASE pFirstHosted[h] = w
        <4>1. /\ pFirstHosted'[h] = pNextHosted[w] /\ pNextHosted' = pNextHosted
              /\ \A v \in Valid \ {h} : pFirstHosted'[v] = pFirstHosted[v]
          BY <1>1, <1>4, <2>1, <3>1 DEF RemoveHosted, Put, Links
        <4>2. Hosted(h) = Reach(pNextHosted, w)
          BY <1>1, <3>1, MainWinAssumption DEF Hosted
        <4>3. Hosted(h)' = IF pNextHosted[w] = NULL THEN {} ELSE Reach(pNextHosted, pNextHosted[w])
          BY <4>1 DEF Hosted
        <4>4. Hosted(h) = {w} \cup Hosted(h)'
          BY <1>1, <1>4, <4>2, <4>3, ReachNext
        <4>5. w \notin Hosted(h)'
          <5>1. CASE pNextHosted[w] = NULL
            BY <4>3, <5>1
          <5>2. CASE pNextHosted[w] # NULL
            <6> DEFINE S == {u \in Hosted(h) : r[w] < r[u]}
            <6>1. S \in SUBSET Windows /\ w \notin S /\ pNextHosted[w] \in S
              <7>1. r[w] \in Nat /\ Hosted(h) \subseteq Windows
                BY <1>1, <1>3 DEF Ranks
              <7>2. QED
                BY <1>3, <2>1, <2>2, <5>2, <7>1
            <6>2. ASSUME NEW x \in S PROVE pNextHosted[x] \in S \cup {NULL}
              <7>1. CASE pNextHosted[x] = NULL
                BY <7>1
              <7>2. CASE pNextHosted[x] # NULL
                <8>1. r[x] < r[pNextHosted[x]] /\ pNextHosted[x] \in Hosted(h)
                  BY <1>3, <2>1, <7>2
                <8>2. x \in Windows /\ pNextHosted[x] \in Windows
                  BY <1>1, <1>3, <2>1, <8>1
                <8>3. r[w] \in Nat /\ r[x] \in Nat /\ r[pNextHosted[x]] \in Nat
                  BY <1>1, <8>2 DEF Ranks
                <8>4. QED
                  BY <8>1, <8>3
              <7>3. QED
                BY <7>1, <7>2
            <6>3. Reach(pNextHosted, pNextHosted[w]) \subseteq S
              <7> HIDE DEF S
              <7> QED
                BY <6>1, <6>2, ReachLeast
            <6>4. QED
              BY <4>3, <5>2, <6>1, <6>3
          <5>3. QED
            BY <5>1, <5>2
        <4>6. QED
          BY <4>1, <4>4, <4>5
      <3>2. CASE pFirstHosted[h] # w
        <4>1. /\ pFirstHosted' = pFirstHosted
              /\ pNextHosted' = [v \in Windows |->
                    IF v \in Hosted(h) /\ pNextHosted[v] = w THEN pNextHosted[w] ELSE pNextHosted[v]]
          BY <2>1, <3>2 DEF RemoveHosted
        <4>2. Hosted(h) \subseteq Windows
          BY <1>1, <1>3, <2>1
        <4>3. \A v \in Windows : pNextHosted'[v] =
                 IF v \in Hosted(h) /\ pNextHosted[v] = w THEN pNextHosted[w] ELSE pNextHosted[v]
          BY <4>1
        <4>4. /\ pFirstHosted[h] \in Windows
              /\ Hosted(h) = Reach(pNextHosted, pFirstHosted[h])
              /\ Hosted(h)' = Reach(pNextHosted', pFirstHosted[h])
          BY <1>1, <1>4, <2>2, <4>1 DEF Hosted, Links
        <4>5. \A x \in Hosted(h) :
                 pNextHosted'[x] = IF pNextHosted[x] = w THEN pNextHosted[w] ELSE pNextHosted[x]
          BY <4>2, <4>3
        <4>6. Hosted(h)' = Hosted(h) \ {w}
          BY <1>1, <1>4, <2>4, <3>2, <4>4, <4>5, ReachLess
        <4>7. \A v \in Valid \ {h} : \A u \in Hosted(v) : u \in Windows /\ u \notin Hosted(h)
          BY <1>1, <1>3, <2>1
        <4>8. QED
          BY <4>1, <4>3, <4>5, <4>6, <4>7
      <3>3. QED
        BY <3>1, <3>2
    <2>6. \A v \in Valid \ {h} : Hosted(v)' = Hosted(v)
      BY <1>1, <2>5, HostedSame
    <2>7. HostingKept'
      <3>1. ASSUME NEW v \in Living' \ {pRootMainWin'}
            PROVE  (pHosting[v] \in Valid /\ v \in Hosted(pHosting[v]))'
        <4>1. v \in Living \ {pRootMainWin} /\ v # w
          BY <2>1, <3>1
        <4>2. pHosting[v] \in Valid \ {w} /\ v \in Hosted(pHosting[v])
          BY <1>1, <4>1 DEF ListInv, HostingKept
        <4>3. v \in Hosted(pHosting[v])'
          BY <2>5, <2>6, <4>1, <4>2
        <4>4. QED
          BY <1>1, <4>2, <4>3
      <3>2. ASSUME NEW x \in Valid \ {w}, NEW v \in Hosted(x)'
            PROVE  v \in Living \ {w} /\ pHosting[v] = x
        BY <1>3, <2>1, <2>5, <2>6, <3>2
      <3>3. QED
        BY <1>1, <3>1, <3>2 DEF HostingKept
    <2>8. ASSUME NEW x \in Valid \ {w}, NEW v \in Hosted(x)', pNextHosted'[v] # NULL
          PROVE  r[v] < r[pNextHosted'[v]]
      <3>1. CASE x = h
        <4>1. v \in Hosted(h) \ {w}
          BY <2>5, <2>8, <3>1
        <4>2. CASE pNextHosted'[v] = pNextHosted[v]
          BY <1>3, <2>1, <2>8, <4>1, <4>2
        <4>3. CASE pNextHosted[v] = w /\ pNextHosted'[v] = pNextHosted[w]
          <5>1. r[v] < r[w] /\ r[w] < r[pNextHosted[w]]
            BY <1>1, <1>3, <2>1, <2>2, <2>8, <4>1, <4>3, MainWinAssumption
          <5>2. v \in Windows /\ pNextHosted[w] \in Windows
            BY <1>1, <1>3, <2>1, <2>4, <2>8, <4>1, <4>3
          <5>3. r[v] \in Nat /\ r[w] \in Nat /\ r[pNextHosted[w]] \in Nat
            BY <1>1, <5>2 DEF Ranks
          <5>4. QED
            BY <4>3, <5>1, <5>3
        <4>4. QED
          BY <2>5, <4>1, <4>2, <4>3
      <3>2. CASE x # h
        BY <1>3, <2>5, <2>6, <2>8, <3>2
      <3>3. QED
        BY <3>1, <3>2
    <2>9. ListInv(r)'
      BY <1>1, <2>7, <2>8 DEF ListInv
    <2>10. QED
      BY <1>1, <1>2, <2>3, <2>9
  <1>7. QED
    BY <1>5, <1>6

-----------------------------------------------------------------------------
(* One more call on the stack.                                             *)
Pushes ==
    \A s \in Seq(Call), c \in Call :
       Frames(s) /\ Sound(c) /\ (s # << >> => Calls(s[1], c))
       /\ (\A k \in 1 .. Len(s) : Apart(Fr(s, k), c))
       => Frames(<<c>> \o s)

LEMMA FramesPush == Pushes
  <1> SUFFICES ASSUME NEW s \in Seq(Call), NEW c \in Call, Frames(s), Sound(c),
                      s # << >> => Calls(s[1], c), \A k \in 1 .. Len(s) : Apart(Fr(s, k), c)
               PROVE  Frames(<<c>> \o s)
    BY DEF Pushes
  <1> DEFINE t == <<c>> \o s
  <1>1. /\ Len(t) = Len(s) + 1 /\ Fr(t, Len(s) + 1) = c /\ Len(s) \in Nat
        /\ \A k \in 1 .. Len(s) : Fr(t, k) = Fr(s, k)
    BY StackPush
  <1>2. s # << >> => Fr(s, Len(s)) = s[1] /\ Len(s) # 0
    BY StackTop
  <1>3. s = << >> => Len(s) = 0
    OBVIOUS
  <1> HIDE DEF t
  <1>4. \A k \in 1 .. Len(t) : Sound(Fr(t, k))
    BY <1>1 DEF Frames
  <1>5. ASSUME NEW k \in 1 .. Len(t) - 1 PROVE Calls(Fr(t, k), Fr(t, k + 1))
    <2>1. CASE k = Len(s)
      BY <1>1, <1>2, <1>3, <2>1
    <2>2. CASE k # Len(s)
      BY <1>1, <2>2 DEF Frames
    <2>3. QED
      BY <2>1, <2>2
  <1>6. ASSUME NEW l \in 1 .. Len(t), NEW k \in 1 .. l - 1 PROVE Apart(Fr(t, k), Fr(t, l))
    <2>1. CASE l = Len(s) + 1
      BY <1>1, <2>1
    <2>2. CASE l # Len(s) + 1
      BY <1>1, <2>2 DEF Frames
    <2>3. QED
      BY <2>1, <2>2
  <1>7. QED
    BY <1>4, <1>5, <1>6 DEF Frames, t

LEMMA FramesPushed ==
  ASSUME NEW s \in Seq(Call), NEW c \in Call, Frames(s)', Sound(c)', s # << >> => Calls(s[1], c),
         \A k \in 1 .. Len(s) : Apart(Fr(s, k), c)'
  PROVE  Frames(<<c>> \o s)'
  <1>1. Pushes'
    BY FramesPush, PTL
  <1>2. (s # << >> => Calls(s[1], c))'
    BY DEF Calls, Waits
  <1>3. QED
    BY <1>1, <1>2 DEF Pushes

-----------------------------------------------------------------------------
PCs == Free \cup {"calls", "hosted", "next", "refused"}

LEMMA CallsType == TypeOK => calls \in Seq(Call) /\ Len(calls) \in Nat /\ (calls # << >> <=> Len(calls) # 0)
  BY DEF TypeOK

LEMMA TopType ==
  ASSUME TypeOK, calls # << >>
  PROVE  /\ Top \in Call /\ Top = Fr(calls, Len(calls)) /\ Len(calls) \in Nat \ {0}
         /\ Top.w \in Windows /\ Top.pc \in PCs /\ Top.op \in {"create", "dialog", "destroy", "end"}
         /\ Top.hosted \in Windows \cup {NULL} /\ Top.next \in Windows \cup {NULL}
  <1>1. calls \in Seq(Call)
    BY DEF TypeOK
  <1>2. Top \in Call /\ Top = Fr(calls, Len(calls)) /\ Len(calls) \in Nat \ {0}
    BY <1>1, StackTop DEF Top
  <1>3. QED
    BY <1>2 DEF Call, PCs

(* The innermost call is replaced by c.                                    *)
LEMMA ReplacedShape ==
  ASSUME NEW s \in Seq(Call), s # << >>, NEW c \in Call
  PROVE  /\ <<c>> \o Tail(s) \in Seq(Call) /\ Len(<<c>> \o Tail(s)) = Len(s)
         /\ Fr(<<c>> \o Tail(s), Len(s)) = c
         /\ Keeps(s, <<c>> \o Tail(s), Len(s) - 1)
  <1>1. /\ Len(s) \in Nat \ {0} /\ Tail(s) \in Seq(Call) /\ Len(Tail(s)) = Len(s) - 1
        /\ \A k \in 1 .. Len(s) - 1 : Fr(Tail(s), k) = Fr(s, k)
    BY StackTop
  <1>2. /\ <<c>> \o Tail(s) \in Seq(Call) /\ Len(<<c>> \o Tail(s)) = Len(Tail(s)) + 1
        /\ Fr(<<c>> \o Tail(s), Len(Tail(s)) + 1) = c
        /\ \A k \in 1 .. Len(Tail(s)) : Fr(<<c>> \o Tail(s), k) = Fr(Tail(s), k)
    BY <1>1, StackPush
  <1>3. (Len(s) - 1) + 1 = Len(s)
    BY <1>1
  <1>4. QED
    BY <1>1, <1>2, <1>3 DEF Keeps

LEMMA PcPut ==
  ASSUME NEW s \in Seq(Call), s # << >>, NEW pc \in PCs
  PROVE  /\ [s[1] EXCEPT !.pc = pc] \in Call
         /\ [s EXCEPT ![1].pc = pc] = <<[s[1] EXCEPT !.pc = pc]>> \o Tail(s)
  <1>1. s[1] \in Call
    BY StackTop
  <1>2. [s[1] EXCEPT !.pc = pc] \in Call
    BY <1>1, CallType DEF PCs
  <1>3. [s EXCEPT ![1].pc = pc] = [s EXCEPT ![1] = [s[1] EXCEPT !.pc = pc]]
    OBVIOUS
  <1>4. QED
    BY <1>2, <1>3, StackPut

(* What a call that ends leaves on the stack: m calls as they were, and on *)
(* them maybe the one that waited.                                         *)
Returned(ok, t, m) ==
    /\ t \in Seq(Call) /\ Keeps(calls, t, m)
    /\ \/ Len(t) = m /\ Len(calls) = m + 1 /\ (m # 0 => Fr(calls, m).pc # "calls")
       \/ Len(t) = m /\ Len(calls) = m + 2 /\ Fr(calls, m + 1).op = "dialog" /\ ~ok
       \/ /\ Len(calls) = m + 2 /\ Len(t) = m + 1
          /\ LET f == Fr(calls, m + 1)
             IN  /\ f.pc = "calls" /\ (f.op = "dialog" => ok)
                 /\ Fr(t, m + 1) = [f EXCEPT !.pc = IF f.op = "dialog" THEN "MSG_INITDIALOG"
                                                    ELSE IF ok THEN "next" ELSE "refused"]

LEMMA ReturnShape ==
  ASSUME TypeOK, calls # << >>, NEW ok \in BOOLEAN, Return(ok), NEW t, t = calls'
  PROVE  \E m \in Nat : Returned(ok, t, m)
  <1> DEFINE n == Len(calls)
             rest == Tail(calls)
  <1>1. /\ calls \in Seq(Call) /\ n \in Nat \ {0} /\ rest \in Seq(Call) /\ Len(rest) = n - 1
        /\ \A k \in 1 .. n - 1 : Fr(rest, k) = Fr(calls, k)
    BY StackTop DEF TypeOK
  <1>2. Keeps(calls, rest, n - 1)
    BY <1>1 DEF Keeps
  <1> HIDE DEF rest, n
  <1>3. CASE rest = << >>
    <2>1. t = << >> /\ n = 1
      BY <1>1, <1>3 DEF Return, rest
    <2>2. Returned(ok, t, 0)
      BY <1>1, <2>1 DEF Returned, Keeps, n
    <2>3. QED
      BY <2>2
  <1>4. CASE rest # << >>
    <2>1. /\ rest[1] \in Call /\ rest[1] = Fr(rest, n - 1) /\ n - 1 \in Nat \ {0}
          /\ Tail(rest) \in Seq(Call) /\ Len(Tail(rest)) = n - 2
          /\ \A k \in 1 .. n - 2 : Fr(Tail(rest), k) = Fr(rest, k)
      BY <1>1, <1>4, StackTop
    <2>2. rest[1] = Fr(calls, n - 1)
      BY <1>1, <2>1
    <2>3. Keeps(calls, Tail(rest), n - 2)
      BY <1>1, <2>1 DEF Keeps, n
    <2>4. CASE rest[1].pc = "calls" /\ rest[1].op = "dialog" /\ ~ok
      <3>1. t = Tail(rest)
        BY <1>4, <2>4 DEF Return, rest
      <3>2. (n - 2) + 2 = n /\ (n - 2) + 1 = n - 1
        BY <1>1, <2>1
      <3>3. Returned(ok, t, n - 2)
        BY <1>1, <2>1, <2>2, <2>3, <2>4, <3>1, <3>2 DEF Returned, n
      <3>4. QED
        BY <1>1, <2>1, <3>3
    <2>5. CASE rest[1].pc # "calls"
      <3>1. t = rest
        BY <1>4, <2>5 DEF Return, rest
      <3>2. Returned(ok, t, n - 1)
        BY <1>1, <1>2, <2>1, <2>2, <2>5, <3>1 DEF Returned, n
      <3>3. QED
        BY <2>1, <3>2
    <2>6. CASE rest[1].pc = "calls" /\ ~(rest[1].op = "dialog" /\ ~ok)
      <3> DEFINE pc == IF rest[1].op = "dialog" THEN "MSG_INITDIALOG"
                       ELSE IF ok THEN "next" ELSE "refused"
                 c == [rest[1] EXCEPT !.pc = pc]
      <3>1. pc \in PCs
        BY DEF PCs, Free
      <3>2. t = [rest EXCEPT ![1].pc = pc]
        BY <1>4, <2>6 DEF Return, rest
      <3>3. c \in Call /\ t = <<c>> \o Tail(rest)
        <4> HIDE DEF pc
        <4> QED
          BY <1>1, <1>4, <3>1, <3>2, PcPut
      <3>4. t \in Seq(Call) /\ Len(t) = n - 1 /\ Fr(t, n - 1) = c /\ Keeps(rest, t, n - 2)
        <4>1. (n - 1) - 1 = n - 2
          BY <1>1
        <4> HIDE DEF c
        <4> QED
          BY <1>1, <1>4, <3>3, <4>1, ReplacedShape
      <3>5. Keeps(calls, t, n - 2)
        <4> HIDE DEF c, pc
        <4>1. \A k \in 1 .. n - 2 : Fr(t, k) = Fr(rest, k)
          BY <3>4 DEF Keeps
        <4>2. \A k \in 1 .. n - 2 : k \in 1 .. n - 1
          BY <1>1, <2>1
        <4>3. \A k \in 1 .. n - 2 : Fr(t, k) = Fr(calls, k)
          BY <1>1, <4>1, <4>2
        <4>4. n - 2 \in 0 .. Len(calls) /\ n - 2 <= Len(t)
          BY <1>1, <2>1, <3>4 DEF n
        <4>5. QED
          BY <4>3, <4>4 DEF Keeps
      <3>6. n - 2 \in Nat /\ (n - 2) + 1 = n - 1 /\ n = (n - 2) + 2
        BY <1>1, <2>1
      <3>7. Returned(ok, t, n - 2)
        BY <2>2, <2>6, <3>4, <3>5, <3>6 DEF Returned, n
      <3>8. QED
        BY <3>6, <3>7
    <2>7. QED
      BY <2>4, <2>5, <2>6
  <1>5. QED
    BY <1>3, <1>4

-----------------------------------------------------------------------------
LEMMA CreatingThere == TypeOK => Creating = Creates(calls, Len(calls))
  BY CreatingIs

LEMMA CreatingNext ==
  ASSUME TypeOK', NEW t, t = calls'
  PROVE  Creating' = Creates(t, Len(t))
  <1>1. (TypeOK => Creating = Creates(calls, Len(calls)))'
    BY CreatingThere, PTL
  <1>2. QED
    BY <1>1 DEF Creates, Fr

LEMMA FramesNext ==
  ASSUME NEW t, t = calls', Frames(t)'
  PROVE  FramesInv'
  BY DEF FramesInv, Frames, Fr

(* The step leaves alone what the m outermost calls are about; they all    *)
(* wait.                                                                   *)
LEMMA SparedOuter ==
  ASSUME TypeOK, FramesInv, NEW m \in 0 .. Len(calls),
         m = Len(calls) => calls = << >> \/ Top.pc \in Free,
         SparesOuter(m)
  PROVE  \A k \in 1 .. m : Spared(Fr(calls, k))
  <1>1. Len(calls) \in Nat /\ (Len(calls) # 0 => Top = Fr(calls, Len(calls)))
    BY CallsType, TopType
  <1>2. ASSUME NEW k \in 1 .. m PROVE Spared(Fr(calls, k))
    <2>1. Waits(Fr(calls, k))
      <3>1. CASE k = Len(calls)
        BY <1>1, <3>1 DEF Waits
      <3>2. CASE k # Len(calls)
        <4>1. Calls(Fr(calls, k), Fr(calls, k + 1))
          BY <1>1, <3>2 DEF FramesInv, Frames
        <4>2. QED
          BY <4>1 DEF Calls
      <3>3. QED
        BY <3>1, <3>2
    <2>2. Sound(Fr(calls, k))
      BY <1>1 DEF FramesInv, Frames
    <2>3. QED
      BY <2>1, <2>2 DEF Spared, Sound, SparesOuter
  <1>3. QED
    BY <1>2

(* The windows of the calls further out are not the one of the innermost.  *)
LEMMA TopApart ==
  ASSUME TypeOK, FramesInv, calls # << >>, Top.op \in {"create", "destroy"}
  PROVE  /\ Top.w \in Valid
         /\ \A k \in 1 .. Len(calls) - 1 : Pinned(Fr(calls, k)) \subseteq Valid \ {Top.w}
  <1>1. Len(calls) \in Nat \ {0} /\ Top = Fr(calls, Len(calls)) /\ Sound(Top)
    BY TopType DEF FramesInv, Frames
  <1>2. ASSUME NEW k \in 1 .. Len(calls) - 1 PROVE Pinned(Fr(calls, k)) \subseteq Valid \ {Top.w}
    <2>1. Sound(Fr(calls, k)) /\ Apart(Fr(calls, k), Top)
      BY <1>1 DEF FramesInv, Frames
    <2>2. \A x \in Valid : x \in Up(x)
      <3>1. pHosting \in Links
        BY DEF TypeOK, Links
      <3>2. QED
        BY <3>1, ReachSelf DEF Up, Valid
    <2>3. QED
      BY <2>1, <2>2 DEF Sound, Apart
  <1>3. QED
    BY <1>1, <1>2 DEF Sound, Pinned

(* t is the stack with c for its innermost call.                           *)
Replaces(t, c) == t = <<c>> \o Tail(calls)

(* The innermost call goes on.                                             *)
LEMMA ReplacedFrames ==
  ASSUME TypeOK, TypeOK', HostsKept, HostsRight, FramesInv,
         calls # << >>, NEW c \in Call, c.op = Top.op, c.w = Top.w, Sound(c)',
         SparesOuter(Len(calls) - 1),
         NEW t, Replaces(t, c)
  PROVE  /\ Frames(t)' /\ t \in Seq(Call) /\ Len(t) = Len(calls)
         /\ Fr(t, Len(calls)) = c /\ Keeps(calls, t, Len(calls) - 1)
         /\ Creates(t, Len(t)) = Creates(calls, Len(calls))
  <1> DEFINE n == Len(calls)
  <1>1. calls \in Seq(Call) /\ n \in Nat \ {0} /\ Top = Fr(calls, n)
    BY TopType DEF TypeOK
  <1>2. t \in Seq(Call) /\ Len(t) = n /\ Fr(t, n) = c /\ Keeps(calls, t, n - 1)
    BY <1>1, ReplacedShape DEF Replaces
  <1>3. n - 1 \in 0 .. n /\ (n - 1) + 1 = n /\ n - 1 # n /\ n - 1 \in Nat
    BY <1>1
  <1> HIDE DEF n
  <1>4. \A k \in 1 .. n - 1 : Fr(t, k) = Fr(calls, k)
    BY <1>2 DEF Keeps
  <1>5. \A k \in 1 .. n - 1 : Spared(Fr(calls, k))
    BY <1>3, SparedOuter DEF n
  <1>6. ASSUME NEW k \in n .. n PROVE Sound(Fr(t, k))'
    <2>1. Fr(t, k) = c
      BY <1>1, <1>2
    <2>2. QED
      BY <2>1
  <1>7. \A k \in n - 1 .. n - 1 : k # 0 => Calls(Fr(t, k), Fr(t, k + 1))
    <2>1. n - 1 # 0 => Calls(Fr(calls, n - 1), Top)
      <3>1. n - 1 # 0 => n - 1 \in 1 .. n - 1
        BY <1>1
      <3>2. n - 1 # 0 => Calls(Fr(calls, n - 1), Fr(calls, (n - 1) + 1))
        BY <3>1 DEF FramesInv, Frames, n
      <3>3. QED
        BY <1>1, <1>3, <3>2
    <2>2. n - 1 # 0 => Calls(Fr(calls, n - 1), c)
      BY <2>1 DEF Calls
    <2>3. QED
      BY <1>1, <1>2, <1>4, <2>2
  <1>8. ASSUME NEW k \in 1 .. n - 1 PROVE Apart(Fr(t, k), c)'
    <2>1. k \in 1 .. n
      BY <1>1
    <2>2. PICK f \in Call : f = Fr(calls, k)
      BY <1>1, <2>1, StackType DEF n
    <2>3. Sound(f) /\ Spared(f) /\ Apart(f, Top) /\ Top \in Call
      BY <1>1, <1>5, <2>1, <2>2, TopType DEF FramesInv, Frames, n
    <2>4. Apart(f, c)
      BY <2>3 DEF Apart
    <2>5. Apart(f, c)'
      BY <2>3, <2>4, ApartKept
    <2>6. QED
      BY <1>4, <2>2, <2>5
  <1>9. \A l \in n .. n : \A k \in 1 .. l - 1 : Apart(Fr(t, k), Fr(t, l))'
    BY <1>1, <1>2, <1>8
  <1>10. Frames(t)'
    BY <1>2, <1>3, <1>5, <1>6, <1>7, <1>9, FramesStep
  <1>11. Creates(t, n) = Creates(calls, n)
    <2>1. Creates(t, n - 1) = Creates(calls, n - 1)
      BY <1>1, <1>2, CreatesKept
    <2>2. Creates(t, n) = Creates(t, n - 1) \cup Made(c)
      <3>1. n <= Len(t)
        BY <1>1, <1>2
      <3>2. QED
        BY <1>1, <1>2, <3>1, CreatesMore
    <2>3. Creates(calls, n) = Creates(calls, n - 1) \cup Made(Top)
      <3>1. n <= Len(calls)
        BY <1>1 DEF n
      <3>2. QED
        BY <1>1, <3>1, CreatesMore
    <2>4. Made(c) = Made(Top)
      BY DEF Made
    <2>5. QED
      BY <2>1, <2>2, <2>3, <2>4
  <1>12. QED
    BY <1>2, <1>10, <1>11 DEF n

(* What the waiting call gets: it may be sure that a window is destroyed.  *)
Result(ok) ==
    ok => /\ Top.op = "destroy" => DataType'[Top.w] = "TYPE_WINTODEL"
          /\ Top.op = "end" => Top.w \in Dialogs

(* f, its step done.                                                       *)
MovesTo(c, f, pc) == c = [f EXCEPT !.pc = pc]

LEMMA WaitingSound ==
  ASSUME TypeOK, TypeOK', HostsKept, NEW f \in Call, Sound(f), Spared(f), f.pc = "calls",
         Calls(f, Top), NEW ok \in BOOLEAN, Result(ok), Top.w \in Windows,
         NEW pc, pc = IF f.op = "dialog" THEN "MSG_INITDIALOG" ELSE IF ok THEN "next" ELSE "refused",
         NEW c \in Call, MovesTo(c, f, pc)
  PROVE  Sound(c)' /\ c.op = f.op /\ c.w = f.w /\ f.op # "create"
  <1>1. /\ c.op = f.op /\ c.w = f.w /\ c.pc = pc /\ c.hosted = f.hosted /\ c.next = f.next
        /\ f.w \in Windows
    BY DEF Call, MovesTo
  <1>2. f.op \in {"dialog", "end", "destroy"}
    <2>1. f.op \in {"create", "dialog", "end", "destroy"}
      BY DEF Call
    <2>2. QED
      BY <2>1 DEF Sound
  <1>3. CASE f.op = "dialog"
    BY <1>1, <1>3 DEF Sound, Pinned
  <1>4. CASE f.op = "end"
    BY <1>1, <1>4 DEF Sound, Pinned
  <1>5. CASE f.op = "destroy"
    <2>1. Pinned(c) \subseteq Pinned(f)
      BY <1>1, <1>5 DEF Pinned
    <2>2. (Pinned(c) \subseteq Valid)'
      BY <2>1 DEF Spared, Pinned
    <2>3. \A x \in Pinned(c) \ {c.w} : pHosting'[x] = c.w
      <3>1. \A x \in Pinned(f) \ {f.w} : pHosting[x] = f.w /\ x \in Valid \cap Valid'
        BY <1>5 DEF Sound, Spared
      <3>2. QED
        BY <1>1, <2>1, <3>1 DEF HostsKept
    <2>4. ASSUME c.pc = "next", c.hosted \notin Dialogs
          PROVE  c.hosted # NULL /\ DataType'[c.hosted] = "TYPE_WINTODEL"
      <3>1. ok /\ Top.w = f.hosted /\ Top.op = "destroy"
        BY <1>1, <1>5, <2>4 DEF Calls
      <3>2. QED
        BY <1>1, <3>1, MainWinAssumption DEF Result
    <2>5. c.pc \in {"next", "refused"}
      BY <1>1, <1>5
    <2>6. QED
      BY <1>1, <1>5, <2>2, <2>3, <2>4, <2>5 DEF Sound, Pinned
  <1>6. QED
    BY <1>1, <1>2, <1>3, <1>4, <1>5

(* The innermost call ends.                                                *)
LEMMA ReturnedFrames ==
  ASSUME TypeOK, TypeOK', HostsKept, HostsRight, FramesInv, calls # << >>,
         NEW ok \in BOOLEAN, Return(ok), Result(ok), SparesOuter(Len(calls) - 1)
  PROVE  FramesInv' /\ Creating' = Creates(calls, Len(calls) - 1)
  <1> DEFINE n == Len(calls)
  <1>1. /\ calls \in Seq(Call) /\ n \in Nat \ {0} /\ Top = Fr(calls, n) /\ Top.w \in Windows
        /\ SparesOuter(n - 1)
    BY TopType DEF TypeOK
  <1>2. PICK t : t = calls'
    OBVIOUS
  <1>3. PICK m \in Nat : Returned(ok, t, m)
    BY <1>2, ReturnShape
  <1>4. /\ t \in Seq(Call) /\ Keeps(calls, t, m)
        /\ \/ Len(t) = m /\ n = m + 1
           \/ Len(t) = m /\ n = m + 2 /\ Fr(calls, m + 1).op = "dialog"
           \/ n = m + 2 /\ Len(t) = m + 1 /\ Fr(calls, m + 1).pc = "calls"
    BY <1>3 DEF Returned
  <1> HIDE DEF n
  <1>5. m \in 0 .. n /\ m <= n - 1 /\ n - 1 \in 0 .. n /\ n - 1 # n
    BY <1>1, <1>4
  <1>6. \A k \in 1 .. n - 1 : Spared(Fr(calls, k))
    BY <1>1, <1>5, SparedOuter DEF n
  <1>7. \A k \in 1 .. m : Fr(t, k) = Fr(calls, k) /\ k \in 1 .. n - 1
    BY <1>1, <1>4, <1>5 DEF Keeps
  <1>8. Creates(t, m) = Creates(calls, m)
    BY <1>1, <1>4, CreatesKept
  <1>9. m + 1 \in Nat \ {0} /\ (m + 1) - 1 = m
    OBVIOUS
  <1>10. n = m + 2 => /\ m + 1 = n - 1 /\ m + 1 \in 1 .. n - 1 /\ m + 1 <= Len(calls)
                      /\ m + 1 \in 1 .. Len(calls)
    BY <1>1 DEF n
  <1>11. \A k \in 1 .. m : Spared(Fr(calls, k))
    BY <1>6, <1>7
  <1>12. CASE Len(t) = m
    <2>1. Frames(t)'
      <3>1. m + 1 .. m = {} /\ m .. m - 1 = {}
        OBVIOUS
      <3>2. QED
        BY <1>4, <1>11, <1>12, <3>1, FramesStep
    <2>2. Creates(t, m) = Creates(calls, n - 1)
      <3>1. CASE m = n - 1
        BY <1>8, <3>1
      <3>2. CASE n = m + 2 /\ Fr(calls, m + 1).op = "dialog"
        <4>1. Creates(calls, m + 1) = Creates(calls, m) \cup Made(Fr(calls, m + 1))
          BY <1>1, <1>9, <1>10, <3>2, CreatesMore
        <4>2. Made(Fr(calls, m + 1)) = {}
          BY <3>2 DEF Made
        <4>3. QED
          BY <1>8, <1>10, <3>2, <4>1, <4>2
      <3>3. n = m + 1 => m = n - 1
        OBVIOUS
      <3>4. QED
        BY <1>4, <1>12, <3>1, <3>2, <3>3
    <2>3. QED
      BY <1>2, <1>12, <2>1, <2>2, CreatingNext, FramesNext DEF n
  <1>13. CASE n = m + 2 /\ Len(t) = m + 1 /\ Fr(calls, m + 1).pc = "calls"
    <2>1. PICK f \in Call : f = Fr(calls, m + 1)
      BY <1>1, <1>10, <1>13, StackType
    <2>2. PICK c \in Call : c = Fr(t, m + 1)
      BY <1>4, <1>9, <1>13, StackType
    <2>3. Sound(f) /\ Spared(f) /\ f.pc = "calls"
      BY <1>6, <1>10, <1>13, <2>1 DEF FramesInv, Frames
    <2>4. Calls(f, Top) /\ (m # 0 => Calls(Fr(calls, m), f)) /\ \A k \in 1 .. m : Apart(Fr(calls, k), f)
      <3>1. m + 1 \in 1 .. n - 1 /\ (m + 1) + 1 = n /\ (m # 0 => m \in 1 .. n - 1)
        BY <1>13
      <3>2. Calls(Fr(calls, m + 1), Fr(calls, (m + 1) + 1)) /\ (m # 0 => Calls(Fr(calls, m), Fr(calls, m + 1)))
        BY <3>1 DEF FramesInv, Frames, n
      <3>3. m + 1 \in 1 .. Len(calls)
        BY <1>10, <1>13
      <3>4. \A k \in 1 .. (m + 1) - 1 : Apart(Fr(calls, k), Fr(calls, m + 1))
        BY <3>3 DEF FramesInv, Frames
      <3>5. QED
        BY <1>1, <1>9, <2>1, <3>1, <3>2, <3>4
    <2>5. Sound(c)' /\ c.op = f.op /\ c.w = f.w /\ f.op # "create"
      <3>1. c = [f EXCEPT !.pc = IF f.op = "dialog" THEN "MSG_INITDIALOG"
                                 ELSE IF ok THEN "next" ELSE "refused"]
        BY <1>3, <1>13, <2>1, <2>2 DEF Returned
      <3>2. PICK pc : pc = IF f.op = "dialog" THEN "MSG_INITDIALOG" ELSE IF ok THEN "next" ELSE "refused"
        OBVIOUS
      <3>3. MovesTo(c, f, pc)
        BY <3>1, <3>2 DEF MovesTo
      <3>4. QED
        BY <1>1, <2>3, <2>4, <3>2, <3>3, WaitingSound
    <2>6. ASSUME NEW k \in m + 1 .. m + 1 PROVE Sound(Fr(t, k))'
      <3>1. Fr(t, k) = c
        BY <2>2
      <3>2. QED
        BY <2>5, <3>1
    <2>7. \A k \in m .. (m + 1) - 1 : k # 0 => Calls(Fr(t, k), Fr(t, k + 1))
      <3>1. m # 0 => Calls(Fr(calls, m), c)
        BY <2>4, <2>5 DEF Calls
      <3>2. m # 0 => Fr(t, m) = Fr(calls, m)
        BY <1>7
      <3>3. QED
        BY <2>2, <3>1, <3>2
    <2>8. ASSUME NEW k \in 1 .. m PROVE Apart(Fr(t, k), c)'
      <3>1. PICK g \in Call : g = Fr(calls, k)
        BY <1>1, <1>7, StackType DEF n
      <3>2. Sound(g) /\ Spared(g) /\ Apart(g, f)
        BY <1>1, <1>7, <1>11, <2>4, <3>1 DEF FramesInv, Frames, n
      <3>3. Apart(g, c)
        BY <2>5, <3>2 DEF Apart
      <3>4. Apart(g, c)'
        BY <3>2, <3>3, ApartKept
      <3>5. QED
        BY <1>7, <3>1, <3>4
    <2>9. ASSUME NEW l \in m + 1 .. m + 1, NEW k \in 1 .. l - 1 PROVE Apart(Fr(t, k), Fr(t, l))'
      <3>1. Fr(t, l) = c /\ k \in 1 .. m
        BY <2>2
      <3>2. QED
        BY <2>8, <3>1
    <2>10. Frames(t)'
      BY <1>4, <1>11, <1>13, <2>6, <2>7, <2>9, FramesStep
    <2>11. Creates(t, m + 1) = Creates(calls, n - 1)
      <3>1. Made(f) = {} /\ Made(c) = {}
        BY <2>5 DEF Made
      <3>2. Creates(t, m + 1) = Creates(t, m) \cup Made(c)
        <4>1. m + 1 <= Len(t)
          BY <1>13
        <4>2. QED
          BY <1>4, <1>9, <2>2, <4>1, CreatesMore
      <3>3. Creates(calls, m + 1) = Creates(calls, m) \cup Made(f)
        BY <1>1, <1>9, <1>10, <1>13, <2>1, CreatesMore
      <3>4. QED
        BY <1>8, <1>10, <1>13, <3>1, <3>2, <3>3
    <2>12. QED
      BY <1>2, <1>13, <2>10, <2>11, CreatingNext, FramesNext DEF n
  <1>14. QED
    BY <1>4, <1>12, <1>13

-----------------------------------------------------------------------------
(* The step of every action, from the invariant before it.                 *)
Wits == TypeOK /\ FramesInv /\ CountInv /\ desktop \subseteq Valid
Lists == \E d, r \in Ranks : TreeInv(d) /\ ListInv(r)
MainInv == Wits /\ Lists

LEMMA SparedAll ==
  ASSUME TypeOK, FramesInv, NEW m \in 0 .. Len(calls), Valid \subseteq Valid', desktop' \subseteq desktop
  PROVE  SparesOuter(m)
  <1>1. ASSUME NEW k \in 1 .. m PROVE Pinned(Fr(calls, k)) \subseteq Valid'
    <2>1. Len(calls) \in Nat
      BY CallsType
    <2>2. Sound(Fr(calls, k))
      BY <2>1 DEF FramesInv, Frames
    <2>3. QED
      BY <2>2 DEF Sound
  <1>2. QED
    BY <1>1 DEF SparesOuter

LEMMA SparedTop ==
  ASSUME TypeOK, FramesInv, calls # << >>, Top.op \in {"create", "destroy"},
         Valid \ {Top.w} \subseteq Valid', desktop' \subseteq desktop \cup {Top.w}
  PROVE  SparesOuter(Len(calls) - 1)
  <1>1. ASSUME NEW k \in 1 .. Len(calls) - 1
        PROVE  /\ Pinned(Fr(calls, k)) \subseteq Valid'
               /\ Fr(calls, k).op = "create" => Fr(calls, k).w \notin desktop' \ desktop
    <2>1. Pinned(Fr(calls, k)) \subseteq Valid \ {Top.w}
      BY TopApart
    <2>2. Fr(calls, k).op = "create" => Fr(calls, k).w \in Pinned(Fr(calls, k))
      BY DEF Pinned
    <2>3. QED
      BY <2>1, <2>2
  <1>2. QED
    BY <1>1 DEF SparesOuter

LEMMA TreeHosts ==
  ASSUME TypeOK, Lists
  PROVE  HostsRight
  BY DEF Lists, TreeInv, HostsRight

LEMMA SameWindows ==
  ASSUME TypeOK, Lists, UNCHANGED <<DataType, pHosting>>
  PROVE  Valid' = Valid /\ HostsKept
  <1>1. Valid' = Valid
    BY DEF Valid
  <1>2. QED
    BY <1>1, TreeHosts DEF HostsKept, HostsRight

(* Only the calls change, and none begins or ends to create a window.      *)
LEMMA OnlyCalls ==
  ASSUME MainInv, TypeOK', UNCHANGED <<DataType, links, root>>, Creating' = Creating
  PROVE  Lists' /\ CountInv'
  <1>1. PICK d \in Ranks, r \in Ranks : TreeInv(d) /\ ListInv(r)
    BY DEF MainInv, Lists
  <1>2. Valid' = Valid /\ Living' = Living
    BY DEF Valid, Living
  <1>3. \A v \in Windows : DataType'[v] = "none" => pFirstHosted'[v] = NULL
    BY <1>1 DEF links, TreeInv
  <1>4. TreeInv(d)' /\ ListInv(r)'
    BY <1>1, <1>2, <1>3, SameLists DEF links, root, MainInv, Wits
  <1>5. CountInv'
    BY <1>2 DEF CountInv, root, MainInv, Wits
  <1>6. QED
    BY <1>4, <1>5 DEF Lists

(* A window that is not valid is wiped.                                    *)
LEMMA WipedSame ==
  ASSUME TypeOK, Lists, NEW w \in Windows \ Valid, DataType' = Put(DataType, w, "none"), Wiped(w)
  PROVE  /\ Valid' = Valid /\ HostsKept
         /\ \A v \in Windows \ {w} : DataType'[v] = DataType[v]
  <1>1. Valid' = Valid /\ \A v \in Windows \ {w} : DataType'[v] = DataType[v]
    BY DEF TypeOK, Valid, Put
  <1>2. \A v \in Valid : pHosting'[v] = pHosting[v]
    BY DEF TypeOK, Valid, Put, Wiped
  <1>3. QED
    BY <1>1, <1>2, TreeHosts DEF HostsKept, HostsRight

LEMMA WipedLists ==
  ASSUME MainInv, TypeOK', NEW w \in Windows \ Valid, DataType' = Put(DataType, w, "none"),
         Wiped(w), UNCHANGED root, Creating' = Creating
  PROVE  Lists' /\ CountInv'
  <1>1. PICK d \in Ranks, r \in Ranks : TreeInv(d) /\ ListInv(r)
    BY DEF MainInv, Lists
  <1>2. Valid' = Valid /\ Living' = Living
    BY WipedSame DEF MainInv, Wits, Living
  <1>3. \A v \in Windows : DataType'[v] = "none" => pFirstHosted'[v] = NULL
    BY <1>1 DEF TreeInv, MainInv, Wits, TypeOK, Put, Wiped
  <1>4. \A v \in Valid : /\ pHosting'[v] = pHosting[v] /\ pFirstHosted'[v] = pFirstHosted[v]
                         /\ pNextHosted'[v] = pNextHosted[v]
    BY DEF MainInv, Wits, TypeOK, Put, Wiped, Valid
  <1>5. TreeInv(d)' /\ ListInv(r)'
    BY <1>1, <1>2, <1>3, <1>4, SameLists DEF root, MainInv, Wits
  <1>6. CountInv'
    BY <1>2 DEF CountInv, root, MainInv, Wits
  <1>7. QED
    BY <1>5, <1>6 DEF Lists

Kept == FramesInv' /\ Lists' /\ CountInv'

LEMMA GoesOn ==
  ASSUME MainInv, TypeOK', HostsKept, calls # << >>,
         NEW c \in Call, c.op = Top.op, c.w = Top.w, Sound(c)', SparesOuter(Len(calls) - 1),
         calls' = <<c>> \o Tail(calls)
  PROVE  FramesInv' /\ Creating' = Creating
  <1>1. TypeOK /\ FramesInv /\ HostsRight
    BY TreeHosts DEF MainInv, Wits
  <1>2. PICK t : t = calls' /\ Replaces(t, c)
    BY DEF Replaces
  <1>3. Frames(t)' /\ Creates(t, Len(t)) = Creates(calls, Len(calls))
    BY <1>1, <1>2, ReplacedFrames
  <1>4. QED
    BY <1>1, <1>2, <1>3, FramesNext, CreatingNext, CreatingIs

LEMMA MovedShape ==
  ASSUME TypeOK, calls # << >>, NEW pc \in PCs
  PROVE  /\ Moved(pc) = <<[Top EXCEPT !.pc = pc]>> \o Tail(calls)
         /\ [Top EXCEPT !.pc = pc] \in Call
         /\ [Top EXCEPT !.pc = pc].op = Top.op /\ [Top EXCEPT !.pc = pc].w = Top.w
         /\ [Top EXCEPT !.pc = pc].pc = pc /\ [Top EXCEPT !.pc = pc].hosted = Top.hosted
         /\ [Top EXCEPT !.pc = pc].next = Top.next
  <1>1. calls \in Seq(Call) /\ Top \in Call
    BY TopType DEF TypeOK
  <1>2. Moved(pc) = <<[Top EXCEPT !.pc = pc]>> \o Tail(calls) /\ [Top EXCEPT !.pc = pc] \in Call
    BY <1>1, PcPut DEF Moved, Top
  <1>3. QED
    BY <1>1, <1>2 DEF Call

LEMMA TopSound ==
  ASSUME MainInv, calls # << >>
  PROVE  Sound(Top)
  BY TopType DEF MainInv, Wits, FramesInv, Frames

(* Messages, timers, and the loops that take the messages.                 *)
LEMMA TracesStep ==
  ASSUME MainInv, TypeOK', UNCHANGED <<DataType, links, root, desktop, calls>>
  PROVE  Kept
  <1>1. Creating' = Creating
    BY DEF Creating
  <1>2. FramesInv'
    BY DEF MainInv, Wits, FramesInv, Frames, Sound, Calls, Apart, Pinned, Waits, Up, Valid, Fr, links
  <1>3. QED
    BY <1>1, <1>2, OnlyCalls DEF Kept

LEMMA CleanupStep ==
  ASSUME MainInv, TypeOK', NEW w \in Windows, MainWindowCleanup(w)
  PROVE  Kept
  <1>1. /\ w \in Windows \ Valid /\ DataType' = Put(DataType, w, "none") /\ Wiped(w)
        /\ UNCHANGED <<root, desktop, calls>> /\ Runs
    BY DEF MainWindowCleanup, Valid, trace
  <1>2. Creating' = Creating
    BY <1>1 DEF Creating
  <1>3. TypeOK /\ FramesInv /\ HostsRight /\ Lists
    BY TreeHosts DEF MainInv, Wits
  <1>4. Valid' = Valid /\ HostsKept
    BY <1>1, <1>3, WipedSame
  <1>5. PICK n \in Nat : n = Len(calls)
    BY <1>3, CallsType
  <1>6. PICK t \in Seq(Call) : t = calls
    BY <1>3 DEF TypeOK
  <1>7. \A k \in 1 .. n : Spared(Fr(calls, k))
    <2>1. SparesOuter(n)
      BY <1>1, <1>3, <1>4, <1>5, SparedAll
    <2>2. calls = << >> \/ Top.pc \in Free
      BY <1>1 DEF Runs
    <2>3. QED
      BY <1>3, <1>5, <2>1, <2>2, SparedOuter
  <1>8. Frames(t)'
    <2>1. Keeps(calls, t, n) /\ Len(t) = n
      BY <1>5, <1>6 DEF Keeps
    <2>2. n + 1 .. n = {} /\ n .. n - 1 = {}
      OBVIOUS
    <2>3. QED
      BY <1>3, <1>4, <1>7, <2>1, <2>2, FramesStep
  <1>9. FramesInv'
    BY <1>1, <1>6, <1>8, FramesNext
  <1>10. QED
    BY <1>1, <1>2, <1>9, WipedLists DEF Kept

(* The innermost call moves on.                                            *)
LEMMA NcCreatedStep ==
  ASSUME MainInv, TypeOK', NcCreated
  PROVE  Kept
  <1>1. /\ calls # << >> /\ Top.pc = "MSG_NCCREATE" /\ desktop' = desktop \cup {Top.w}
        /\ calls' = Moved("MSG_CREATE") /\ UNCHANGED <<DataType, links, root>>
    BY DEF NcCreated, At
  <1>2. TypeOK /\ FramesInv /\ Lists /\ Sound(Top)
    BY <1>1, TopSound DEF MainInv, Wits
  <1>3. Top.op = "create"
    BY <1>1, <1>2, TopType DEF Sound
  <1>4. Valid' = Valid /\ HostsKept
    BY <1>1, <1>2, SameWindows DEF links
  <1>5. PICK c \in Call : /\ calls' = <<c>> \o Tail(calls)
                         /\ c.op = Top.op /\ c.w = Top.w /\ c.pc = "MSG_CREATE"
    BY <1>1, <1>2, MovedShape DEF PCs, Free
  <1>6. Sound(c)'
    BY <1>2, <1>3, <1>4, <1>5 DEF Sound, Pinned
  <1>7. SparesOuter(Len(calls) - 1)
    BY <1>1, <1>2, <1>3, <1>4, SparedTop
  <1>8. FramesInv' /\ Creating' = Creating
    BY <1>1, <1>4, <1>5, <1>6, <1>7, GoesOn
  <1>9. QED
    BY <1>1, <1>8, OnlyCalls DEF Kept

LEMMA MovedStep ==
  ASSUME MainInv, TypeOK', calls # << >>, NEW pc \in PCs, calls' = Moved(pc),
         UNCHANGED <<DataType, links, root, desktop>>,
         \/ Top.op = "dialog" /\ pc = "loop"
         \/ Top.op = "destroy" /\ pc = "refused"
         \/ Top.op = "destroy" /\ pc = "MSG_DESTROY"
  PROVE  Kept
  <1>1. TypeOK /\ FramesInv /\ Lists /\ Sound(Top) /\ Len(calls) - 1 \in 0 .. Len(calls)
    BY TopSound, TopType DEF MainInv, Wits
  <1>2. Valid' = Valid /\ HostsKept
    BY <1>1, SameWindows DEF links
  <1>3. PICK c \in Call : /\ calls' = <<c>> \o Tail(calls)
                         /\ c.op = Top.op /\ c.w = Top.w /\ c.pc = pc
    BY <1>1, MovedShape
  <1>4. Sound(c)'
    BY <1>1, <1>2, <1>3 DEF Sound, Pinned, links
  <1>5. SparesOuter(Len(calls) - 1)
    BY <1>1, <1>2, SparedAll
  <1>6. FramesInv' /\ Creating' = Creating
    BY <1>2, <1>3, <1>4, <1>5, GoesOn
  <1>7. QED
    BY <1>6, OnlyCalls DEF Kept

Stepped(s, x, y, z) == [s EXCEPT ![1].pc = x, ![1].hosted = y, ![1].next = z]
StepOf(f, x, y, z)  == [f EXCEPT !.pc = x, !.hosted = y, !.next = z]

LEMMA NextShape ==
  ASSUME NEW s \in Seq(Call), s # << >>,
         NEW x \in PCs, NEW y \in Windows \cup {NULL}, NEW z \in Windows \cup {NULL}
  PROVE  /\ StepOf(s[1], x, y, z) \in Call
         /\ Stepped(s, x, y, z) = <<StepOf(s[1], x, y, z)>> \o Tail(s)
  <1>1. s[1] \in Call
    BY StackTop
  <1>2. StepOf(s[1], x, y, z) \in Call
    BY <1>1 DEF Call, PCs, StepOf
  <1>3. Stepped(s, x, y, z) = [s EXCEPT ![1] = StepOf(s[1], x, y, z)]
    BY DEF Stepped, StepOf
  <1>4. QED
    BY <1>2, <1>3, StackPut

LEMMA NextHostedStep ==
  ASSUME MainInv, TypeOK', NextHosted
  PROVE  Kept
  <1>1. /\ calls # << >> /\ Top.op = "destroy" /\ Top.pc = "next" /\ UNCHANGED <<root, desktop>>
        /\ calls' = [calls EXCEPT ![1].pc = "hosted", ![1].hosted = Top.next, ![1].next = NULL]
        /\ IF Top.hosted \in Dialogs
           THEN UNCHANGED <<DataType, links>>
           ELSE /\ DataType' = Put(DataType, Top.hosted, "none")
                /\ Wiped(Top.hosted)
    BY DEF NextHosted, trace
  <1>2. /\ TypeOK /\ FramesInv /\ Lists /\ Sound(Top) /\ Len(calls) - 1 \in 0 .. Len(calls)
        /\ calls \in Seq(Call)
    BY <1>1, TopSound, TopType DEF MainInv, Wits, TypeOK
  <1>3. Top.hosted \notin Dialogs => Top.hosted \in Windows \ Valid
    BY <1>1, <1>2, TopType DEF Sound, Valid
  <1>4. Valid' = Valid /\ HostsKept
    BY <1>1, <1>2, <1>3, SameWindows, WipedSame DEF links
  <1>5. PICK c \in Call : /\ c.op = "destroy" /\ c.w = Top.w /\ c.pc = "hosted"
                         /\ c.hosted = Top.next /\ calls' = <<c>> \o Tail(calls)
    <2>1. Top.next \in Windows \cup {NULL} /\ NULL \in Windows \cup {NULL} /\ "hosted" \in PCs
      BY <1>1, <1>2, TopType DEF PCs
    <2>2. calls \in Seq(Call) /\ calls # << >> /\ Top = calls[1] /\ Top \in Call
      BY <1>1, <1>2, TopType DEF Top
    <2>3. calls' = Stepped(calls, "hosted", Top.next, NULL)
      BY <1>1 DEF Stepped
    <2>4. PICK c : c = StepOf(Top, "hosted", Top.next, NULL)
      OBVIOUS
    <2>5. c \in Call /\ calls' = <<c>> \o Tail(calls)
      BY <2>1, <2>2, <2>3, <2>4, NextShape
    <2>6. c.op = Top.op /\ c.w = Top.w /\ c.pc = "hosted" /\ c.hosted = Top.next
      BY <2>2, <2>4 DEF StepOf, Call
    <2>7. QED
      BY <1>1, <2>5, <2>6
  <1>7. Sound(c)'
    <2>1. Pinned(c) = Pinned(Top) /\ Pinned(c) \subseteq Valid
      BY <1>1, <1>2, <1>5 DEF Pinned, Sound
    <2>2. \A x \in Pinned(c) \ {c.w} : pHosting[x] = c.w
      BY <1>1, <1>2, <1>5, <2>1 DEF Sound
    <2>3. \A x \in Pinned(c) \ {c.w} : pHosting'[x] = c.w
      BY <1>4, <2>1, <2>2 DEF HostsKept
    <2>4. (Pinned(c) \subseteq Valid)'
      BY <1>4, <2>1 DEF Pinned
    <2>5. c.hosted # c.w
      BY <1>1, <1>2, <1>5 DEF Sound
    <2>6. QED
      BY <1>5, <2>3, <2>4, <2>5 DEF Sound, Pinned
  <1>8. SparesOuter(Len(calls) - 1)
    BY <1>1, <1>2, <1>4, SparedAll
  <1>9. FramesInv' /\ Creating' = Creating
    BY <1>1, <1>4, <1>5, <1>7, <1>8, GoesOn
  <1>10. QED
    BY <1>1, <1>3, <1>9, OnlyCalls, WipedLists DEF Kept

-----------------------------------------------------------------------------
(* The innermost call ends.                                                *)
LEMMA TopCreates ==
  ASSUME MainInv, calls # << >>
  PROVE  /\ Creating = Creates(calls, Len(calls) - 1) \cup Made(Top)
         /\ Top.op \in {"create", "destroy"} =>
               Top.w \in Valid /\ Top.w \notin Creates(calls, Len(calls) - 1)
  <1>1. /\ TypeOK /\ FramesInv /\ calls \in Seq(Call) /\ Len(calls) \in Nat \ {0}
        /\ Top = Fr(calls, Len(calls))
    BY TopType DEF MainInv, Wits, TypeOK
  <1>2. Creating = Creates(calls, Len(calls) - 1) \cup Made(Top)
    BY <1>1, CreatingIs, CreatesMore
  <1>3. ASSUME Top.op \in {"create", "destroy"}, Top.w \in Creates(calls, Len(calls) - 1)
        PROVE  FALSE
    <2>1. PICK k \in 1 .. Len(calls) - 1 : Fr(calls, k).op = "create" /\ Fr(calls, k).w = Top.w
      BY <1>3 DEF Creates
    <2>2. Top.w \in Pinned(Fr(calls, k))
      BY <2>1 DEF Pinned
    <2>3. Pinned(Fr(calls, k)) \subseteq Valid \ {Top.w}
      BY <1>1, <1>3, TopApart
    <2>4. QED
      BY <2>2, <2>3
  <1>4. QED
    BY <1>1, <1>2, <1>3, TopApart

LEMMA EndsWith ==
  ASSUME MainInv, TypeOK', HostsKept, calls # << >>, NEW ok \in BOOLEAN, Return(ok), Result(ok),
         SparesOuter(Len(calls) - 1)
  PROVE  FramesInv' /\ Creating' = Creates(calls, Len(calls) - 1)
  BY ReturnedFrames, TreeHosts DEF MainInv, Wits

LEMMA LivingFinite ==
  ASSUME TypeOK
  PROVE  IsFiniteSet(Living) /\ Cardinality(Living) \in Nat
  BY MainWinAssumption, FS_Subset, FS_CardinalityType DEF Living, Valid

LEMMA FailedStep ==
  ASSUME MainInv, TypeOK', Careful, calls # << >>, Top.op = "create",
         MayGo(Top.w), Failed(Top.w), Return(FALSE), desktop' \subseteq desktop,
         nrWindows' = nrWindows
  PROVE  Kept
  <1>1. PICK w \in Valid : w = Top.w /\ w \notin Creates(calls, Len(calls) - 1)
    BY TopCreates
  <1>2. TypeOK /\ FramesInv /\ HostsRight /\ Creating = Creates(calls, Len(calls) - 1) \cup {w}
    BY <1>1, TopCreates, TreeHosts DEF MainInv, Wits, Made
  <1>3. \A v \in Valid : pHosting[v] # w
    BY <1>1 DEF Careful, MayGo
  <1>4. Valid' = Valid \ {w} /\ \A v \in Valid' : pHosting'[v] = pHosting[v]
    BY <1>1, <1>2 DEF Failed, Wiped, TypeOK, Valid, Put
  <1>5. HostsKept
    BY <1>2, <1>3, <1>4 DEF HostsKept, HostsRight
  <1>6. SparesOuter(Len(calls) - 1)
    BY <1>1, <1>2, <1>4, SparedTop
  <1>7. FramesInv' /\ Creating' = Creates(calls, Len(calls) - 1)
    BY <1>5, <1>6, EndsWith DEF Result
  <1>8. Living' = Living /\ w \in Valid \ Living
    BY <1>1, <1>2, <1>4, <1>7 DEF Living
  <1>9. PICK d \in Ranks, r \in Ranks : TreeInv(d) /\ ListInv(r)
    BY DEF MainInv, Lists
  <1>10. TreeInv(d)' /\ ListInv(r)'
    BY <1>1, <1>2, <1>3, <1>8, <1>9, FailedLists
  <1>11. CountInv'
    BY <1>8 DEF CountInv, MainInv, Wits
  <1>12. QED
    BY <1>7, <1>10, <1>11 DEF Kept, Lists

LEMMA CreatedStep ==
  ASSUME MainInv, TypeOK', Created
  PROVE  Kept
  <1>1. /\ calls # << >> /\ Top.pc = "MSG_CREATE" /\ Return(TRUE) /\ nrWindows' = nrWindows + 1
        /\ UNCHANGED <<DataType, pHosting, pRootMainWin, desktop>>
        /\ IF pHosting[Top.w] # NULL THEN AddHosted(pHosting[Top.w], Top.w)
                                     ELSE UNCHANGED <<pFirstHosted, pNextHosted>>
    BY DEF Created, At, trace
  <1>2. TypeOK /\ FramesInv /\ Lists /\ Sound(Top)
    BY <1>1, TopSound DEF MainInv, Wits
  <1>3. Top.op = "create"
    BY <1>1, <1>2, TopType DEF Sound
  <1>4. PICK w \in Valid : w = Top.w /\ w \notin Creates(calls, Len(calls) - 1)
    BY <1>1, <1>3, TopCreates
  <1>5. Creating = Creates(calls, Len(calls) - 1) \cup {w}
    BY <1>1, <1>3, <1>4, TopCreates DEF Made
  <1>6. Valid' = Valid /\ HostsKept
    BY <1>1, <1>2, SameWindows
  <1>7. SparesOuter(Len(calls) - 1)
    BY <1>1, <1>2, <1>3, <1>6, SparedTop
  <1>8. FramesInv' /\ Creating' = Creates(calls, Len(calls) - 1)
    BY <1>1, <1>3, <1>6, <1>7, EndsWith DEF Result
  <1>9. Living' = Living \cup {w} /\ w \in Valid \ Living
    BY <1>4, <1>5, <1>6, <1>8 DEF Living
  <1>10. PICK d \in Ranks, r \in Ranks : TreeInv(d) /\ ListInv(r)
    BY <1>2 DEF Lists
  <1>11. TreeInv(d)' /\ \E r2 \in Ranks : ListInv(r2)'
    BY <1>1, <1>2, <1>4, <1>9, <1>10, CreatedLists
  <1>12. CountInv'
    <2>1. Cardinality(Living \cup {w}) = Cardinality(Living) + 1
      BY <1>2, <1>9, LivingFinite, FS_AddElement
    <2>2. QED
      BY <1>1, <1>9, <2>1 DEF CountInv, MainInv, Wits
  <1>13. QED
    BY <1>8, <1>11, <1>12 DEF Kept, Lists

LEMMA DestroyedStep ==
  ASSUME MainInv, TypeOK', Careful, Destroyed
  PROVE  Kept
  <1>1. /\ calls # << >> /\ Top.pc = "MSG_DESTROY" /\ Return(TRUE) /\ MayGo(Top.w)
        /\ nrWindows' = nrWindows - 1 /\ desktop' \subseteq desktop
        /\ DataType' = Put(DataType, Top.w, "TYPE_WINTODEL") /\ pHosting' = pHosting
        /\ pRootMainWin' = IF pRootMainWin = Top.w THEN NULL ELSE pRootMainWin
        /\ IF pHosting[Top.w] # NULL THEN RemoveHosted(pHosting[Top.w], Top.w)
                                     ELSE UNCHANGED <<pFirstHosted, pNextHosted>>
    BY DEF Destroyed, At
  <1>2. TypeOK /\ FramesInv /\ HostsRight /\ Sound(Top)
    BY <1>1, TopSound, TreeHosts DEF MainInv, Wits
  <1>3. Top.op = "destroy"
    BY <1>1, <1>2, TopType DEF Sound
  <1>4. PICK w \in Valid : w = Top.w /\ w \notin Creates(calls, Len(calls) - 1)
    BY <1>1, <1>3, TopCreates
  <1>5. Creating = Creates(calls, Len(calls) - 1)
    BY <1>1, <1>3, TopCreates DEF Made
  <1>6. \A v \in Valid : pHosting[v] # w
    BY <1>1, <1>4 DEF Careful, MayGo
  <1>7. Valid' = Valid \ {w} /\ DataType'[w] = "TYPE_WINTODEL"
    BY <1>1, <1>2, <1>4 DEF TypeOK, Valid, Put
  <1>8. HostsKept
    BY <1>1, <1>2, <1>6, <1>7 DEF HostsKept, HostsRight
  <1>9. SparesOuter(Len(calls) - 1)
    BY <1>1, <1>2, <1>3, <1>4, <1>7, SparedTop
  <1>10. FramesInv' /\ Creating' = Creates(calls, Len(calls) - 1)
    BY <1>1, <1>3, <1>4, <1>7, <1>8, <1>9, EndsWith DEF Result
  <1>11. Living' = Living \ {w} /\ w \in Living
    BY <1>4, <1>5, <1>7, <1>10 DEF Living
  <1>12. PICK d \in Ranks, r \in Ranks : TreeInv(d) /\ ListInv(r)
    BY DEF MainInv, Lists
  <1>13. TreeInv(d)' /\ ListInv(r)'
    BY <1>1, <1>2, <1>4, <1>6, <1>11, <1>12, DestroyedLists
  <1>14. CountInv'
    <2>1. Cardinality(Living \ {w}) = Cardinality(Living) - 1
      BY <1>2, <1>11, LivingFinite, FS_RemoveElement
    <2>2. QED
      BY <1>1, <1>11, <2>1 DEF CountInv, MainInv, Wits
  <1>15. QED
    BY <1>10, <1>13, <1>14 DEF Kept, Lists

LEMMA ReturnsStep ==
  ASSUME MainInv, TypeOK', calls # << >>, NEW ok \in BOOLEAN, Return(ok), Result(ok),
         Top.op # "create", UNCHANGED <<DataType, links, root, desktop>>
  PROVE  Kept
  <1>1. TypeOK /\ FramesInv /\ Lists /\ Len(calls) - 1 \in 0 .. Len(calls)
    BY TopType DEF MainInv, Wits
  <1>2. Creating = Creates(calls, Len(calls) - 1)
    BY TopCreates DEF Made
  <1>3. Valid' = Valid /\ HostsKept
    BY <1>1, SameWindows DEF links
  <1>4. SparesOuter(Len(calls) - 1)
    BY <1>1, <1>3, SparedAll
  <1>5. FramesInv' /\ Creating' = Creates(calls, Len(calls) - 1)
    BY <1>3, <1>4, EndsWith
  <1>6. QED
    BY <1>2, <1>5, OnlyCalls DEF Kept

LEMMA DialogEndsStep ==
  ASSUME MainInv, TypeOK', DialogEnds
  PROVE  Kept
  <1>1. /\ calls # << >> /\ Top.pc = "loop" /\ Top.w \notin Valid /\ calls' = Tail(calls)
        /\ DataType' = Put(DataType, Top.w, "none") /\ Wiped(Top.w) /\ UNCHANGED <<root, desktop>>
    BY DEF DialogEnds, At, trace
  <1>2. /\ TypeOK /\ FramesInv /\ HostsRight /\ Lists /\ Sound(Top) /\ calls \in Seq(Call)
        /\ Top.w \in Windows \ Valid
    BY <1>1, TopSound, TopType, TreeHosts DEF MainInv, Wits, TypeOK
  <1>3. Top.op = "dialog"
    BY <1>1, <1>2, TopType DEF Sound
  <1>4. Valid' = Valid /\ HostsKept
    BY <1>1, <1>2, WipedSame
  <1>5. PICK t : t = calls'
    OBVIOUS
  <1>6. PICK m \in Nat : m = Len(calls) - 1 /\ m \in 0 .. Len(calls) /\ m # Len(calls)
    BY <1>1, <1>2, TopType
  <1>7. t \in Seq(Call) /\ Len(t) = m /\ Keeps(calls, t, m)
    BY <1>1, <1>2, <1>5, <1>6, StackTop DEF Keeps
  <1>8. \A k \in 1 .. m : Spared(Fr(calls, k))
    BY <1>1, <1>2, <1>4, <1>6, SparedAll, SparedOuter
  <1>9. Frames(t)'
    <2>1. m + 1 .. m = {} /\ m .. m - 1 = {}
      OBVIOUS
    <2>2. QED
      BY <1>2, <1>4, <1>7, <1>8, <2>1, FramesStep
  <1>10. Creating' = Creating
    <2>1. Creating' = Creates(t, m)
      BY <1>5, <1>7, CreatingNext
    <2>2. Creates(t, m) = Creates(calls, m)
      BY <1>2, <1>7, CreatesKept
    <2>3. Creating = Creates(calls, m)
      BY <1>1, <1>3, <1>6, TopCreates DEF Made
    <2>4. QED
      BY <2>1, <2>2, <2>3
  <1>11. QED
    BY <1>1, <1>2, <1>5, <1>9, <1>10, FramesNext, WipedLists DEF Kept

-----------------------------------------------------------------------------
(* A call begins.                                                          *)
LEMMA Stays ==
  ASSUME MainInv, TypeOK', HostsKept, Runs, Valid \subseteq Valid', desktop' \subseteq desktop,
         NEW t, t = calls
  PROVE  Frames(t)' /\ t \in Seq(Call)
  <1>1. TypeOK /\ FramesInv /\ HostsRight /\ t \in Seq(Call)
    BY TreeHosts DEF MainInv, Wits, TypeOK
  <1>2. PICK n \in Nat : n = Len(calls)
    BY <1>1, CallsType
  <1>3. \A k \in 1 .. n : Spared(Fr(calls, k))
    <2>1. SparesOuter(n)
      BY <1>1, <1>2, SparedAll
    <2>2. calls = << >> \/ Top.pc \in Free
      BY DEF Runs
    <2>3. QED
      BY <1>1, <1>2, <2>1, <2>2, SparedOuter
  <1>4. Keeps(calls, t, n) /\ Len(t) = n
    BY <1>2 DEF Keeps
  <1>5. n + 1 .. n = {} /\ n .. n - 1 = {}
    OBVIOUS
  <1>6. QED
    BY <1>1, <1>3, <1>4, <1>5, FramesStep

LEMMA RunsOn ==
  ASSUME TypeOK, Runs, calls # << >>, NEW g
  PROVE  Calls(calls[1], g)
  BY DEF Runs, Top, Calls, Waits, Free

LEMMA CreatesPush ==
  ASSUME NEW s \in Seq(Call), NEW c \in Call
  PROVE  Creates(<<c>> \o s, Len(<<c>> \o s)) = Creates(s, Len(s)) \cup Made(c)
  <1>1. /\ <<c>> \o s \in Seq(Call) /\ Len(<<c>> \o s) = Len(s) + 1
        /\ Fr(<<c>> \o s, Len(s) + 1) = c
        /\ \A k \in 1 .. Len(s) : Fr(<<c>> \o s, k) = Fr(s, k)
    BY StackPush
  <1>2. PICK t \in Seq(Call) : t = <<c>> \o s
    BY <1>1
  <1>3. PICK n \in Nat : n = Len(s)
    OBVIOUS
  <1>4. /\ n + 1 = Len(t) /\ Fr(t, n + 1) = c /\ n + 1 \in Nat \ {0} /\ n + 1 <= Len(t)
        /\ (n + 1) - 1 = n /\ \A k \in 1 .. n : Fr(t, k) = Fr(s, k)
    BY <1>1, <1>2, <1>3
  <1>5. Keeps(s, t, n)
    BY <1>3, <1>4 DEF Keeps
  <1>6. Creates(t, n) = Creates(s, n)
    BY <1>5, CreatesKept
  <1>7. Creates(t, n + 1) = Creates(t, (n + 1) - 1) \cup Made(Fr(t, n + 1))
    BY <1>4, CreatesMore
  <1>8. QED
    BY <1>2, <1>3, <1>4, <1>6, <1>7

LEMMA NewCall ==
  ASSUME NEW op \in {"create", "dialog", "destroy", "end"}, NEW w \in Windows, NEW pc \in PCs
  PROVE  /\ New(op, w, pc) \in Call /\ New(op, w, pc).op = op /\ New(op, w, pc).w = w
         /\ New(op, w, pc).pc = pc
  BY DEF New, Call, PCs

LEMMA AllocatedSame ==
  ASSUME MainInv, NEW w \in Windows, NEW h, Allocated(w, h)
  PROVE  /\ w \notin Valid /\ Valid' = Valid \cup {w} /\ HostsKept /\ desktop' = desktop
         /\ w \notin desktop /\ nrWindows' = nrWindows
  <1>1. w \notin Valid /\ Valid' = Valid \cup {w} /\ \A v \in Valid : pHosting'[v] = pHosting[v]
    BY DEF Allocated, MainInv, Wits, TypeOK, Valid, Put
  <1>2. HostsKept
    BY <1>1, TreeHosts DEF HostsKept, HostsRight, MainInv, Wits
  <1>3. QED
    BY <1>1, <1>2 DEF Allocated, MainInv, Wits, trace

LEMMA CreateCall ==
  ASSUME MainInv, TypeOK', NEW w \in Windows, NEW h, Allocated(w, h), Runs,
         NEW c \in Call, c.op = "create", c.w = w, c.pc = "MSG_NCCREATE",
         NEW s \in Seq(Call), Frames(s)', calls' = <<c>> \o s,
         s # << >> => Calls(s[1], c),
         \A k \in 1 .. Len(s) : Pinned(Fr(s, k)) \subseteq Valid,
         Creates(s, Len(s)) = Creating
  PROVE  Kept
  <1>1. w \notin Valid /\ Valid' = Valid \cup {w} /\ HostsKept /\ desktop' = desktop
        /\ w \notin desktop /\ nrWindows' = nrWindows /\ w # NULL
    BY AllocatedSame, MainWinAssumption
  <1>2. Sound(c)'
    BY <1>1 DEF Sound, Pinned
  <1>3. ASSUME NEW k \in 1 .. Len(s) PROVE Apart(Fr(s, k), c)'
    <2>1. w \notin Pinned(Fr(s, k))
      BY <1>1
    <2>2. QED
      BY <2>1 DEF Apart, Pinned
  <1>4. PICK t : t = calls'
    OBVIOUS
  <1>5. Frames(t)'
    BY <1>2, <1>3, <1>4, FramesPushed
  <1>6. Creating' = Creating \cup {w}
    <2>1. Made(c) = {w}
      BY DEF Made
    <2>2. QED
      BY <1>4, <2>1, CreatingNext, CreatesPush
  <1>7. Living' = Living
    BY <1>1, <1>6 DEF Living
  <1>8. PICK d \in Ranks, r \in Ranks : TreeInv(d) /\ ListInv(r)
    BY DEF MainInv, Lists
  <1>9. Lists'
    <2>1. (\E d2 \in Ranks : TreeInv(d2)') /\ ListInv(r)'
      BY <1>7, <1>8, AllocatedLists DEF MainInv, Wits
    <2>2. QED
      BY <2>1 DEF Lists
  <1>10. CountInv'
    BY <1>1, <1>7 DEF CountInv, MainInv, Wits
  <1>11. QED
    BY <1>4, <1>5, <1>9, <1>10, FramesNext DEF Kept

LEMMA PinnedValid ==
  ASSUME MainInv, NEW k \in 1 .. Len(calls)
  PROVE  Pinned(Fr(calls, k)) \subseteq Valid
  BY DEF MainInv, Wits, FramesInv, Frames, Sound

LEMMA CreateMainWindowStep ==
  ASSUME MainInv, TypeOK', NEW w \in Windows, NEW h, CreateMainWindow(w, h)
  PROVE  Kept
  <1>1. Allocated(w, h) /\ Runs /\ calls' = Pushed(New("create", w, "MSG_NCCREATE"))
    BY DEF CreateMainWindow
  <1>2. Valid \subseteq Valid' /\ HostsKept /\ desktop' = desktop
    BY <1>1, AllocatedSame
  <1>3. PICK s : s = calls
    OBVIOUS
  <1>4. Frames(s)' /\ s \in Seq(Call)
    BY <1>1, <1>2, <1>3, Stays
  <1>5. PICK c \in Call : /\ c = New("create", w, "MSG_NCCREATE")
                         /\ c.op = "create" /\ c.w = w /\ c.pc = "MSG_NCCREATE"
    BY NewCall DEF PCs, Free
  <1>6. calls' = <<c>> \o s
    BY <1>1, <1>3, <1>5 DEF Pushed
  <1>7. Creates(s, Len(s)) = Creating
    BY <1>3, CreatingIs DEF MainInv, Wits
  <1>8. s # << >> => Calls(s[1], c)
    BY <1>1, <1>3, RunsOn DEF MainInv, Wits
  <1>9. \A k \in 1 .. Len(s) : Pinned(Fr(s, k)) \subseteq Valid
    BY <1>3, PinnedValid
  <1>10. QED
    BY <1>1, <1>4, <1>5, <1>6, <1>7, <1>8, <1>9, CreateCall

LEMMA DialogBoxStep ==
  ASSUME MainInv, TypeOK', NEW w \in Windows, NEW h, DialogBox(w, h)
  PROVE  Kept
  <1>1. /\ Allocated(w, h) /\ Runs
        /\ calls' = <<New("create", w, "MSG_NCCREATE")>> \o Pushed(New("dialog", w, "calls"))
    BY DEF DialogBox
  <1>2. Valid \subseteq Valid' /\ HostsKept /\ desktop' = desktop
    BY <1>1, AllocatedSame
  <1>3. PICK s : s = calls
    OBVIOUS
  <1>4. Frames(s)' /\ s \in Seq(Call)
    BY <1>1, <1>2, <1>3, Stays
  <1>5. PICK c \in Call : /\ c = New("create", w, "MSG_NCCREATE")
                         /\ c.op = "create" /\ c.w = w /\ c.pc = "MSG_NCCREATE"
    BY NewCall DEF PCs, Free
  <1>6. PICK b \in Call : b = New("dialog", w, "calls") /\ b.op = "dialog" /\ b.w = w /\ b.pc = "calls"
    BY NewCall DEF PCs
  <1>7. PICK u : u = <<b>> \o s
    OBVIOUS
  <1>8. /\ u \in Seq(Call) /\ u[1] = b /\ Len(u) = Len(s) + 1 /\ Fr(u, Len(s) + 1) = b
        /\ \A k \in 1 .. Len(s) : Fr(u, k) = Fr(s, k)
    BY <1>4, <1>6, <1>7, StackPush
  <1>9. Pinned(b) = {}
    BY <1>6 DEF Pinned
  <1>10. Frames(u)'
    <2>1. Sound(b)'
      BY <1>6 DEF Sound, Pinned
    <2>2. s # << >> => Calls(s[1], b)
      BY <1>1, <1>3, RunsOn DEF MainInv, Wits
    <2>3. ASSUME NEW k \in 1 .. Len(s) PROVE Apart(Fr(s, k), b)'
      BY <1>6 DEF Apart
    <2>4. QED
      BY <1>4, <1>6, <1>7, <2>1, <2>2, <2>3, FramesPushed
  <1>11. calls' = <<c>> \o u
    BY <1>1, <1>3, <1>5, <1>6, <1>7 DEF Pushed
  <1>12. Creates(u, Len(u)) = Creating
    <2>1. Made(b) = {}
      BY <1>6 DEF Made
    <2>2. Creates(<<b>> \o s, Len(<<b>> \o s)) = Creates(s, Len(s)) \cup Made(b)
      BY <1>4, CreatesPush
    <2>3. Creates(s, Len(s)) = Creating
      BY <1>3, CreatingIs DEF MainInv, Wits
    <2>4. Creates(u, Len(u)) = Creates(s, Len(s)) \cup Made(b)
      BY <1>7, <2>2
    <2>5. QED
      BY <2>1, <2>3, <2>4
  <1>13. u # << >> => Calls(u[1], c)
    BY <1>5, <1>6, <1>8 DEF Calls, Waits
  <1>14. \A k \in 1 .. Len(u) : Pinned(Fr(u, k)) \subseteq Valid
    <2>1. \A k \in 1 .. Len(s) : Pinned(Fr(s, k)) \subseteq Valid
      BY <1>3, PinnedValid
    <2>2. Len(s) \in Nat
      BY <1>4
    <2>3. \A k \in 1 .. Len(u) : k \in 1 .. Len(s) \/ k = Len(s) + 1
      BY <1>8, <2>2
    <2>4. QED
      BY <1>8, <1>9, <2>1, <2>3
  <1>15. QED
    BY <1>1, <1>5, <1>8, <1>10, <1>11, <1>12, <1>13, <1>14, CreateCall

-----------------------------------------------------------------------------
(* A window is destroyed, from outside or from inside another call.        *)
LEMMA UpAcyclic ==
  ASSUME TypeOK, NEW d \in Ranks, TreeInv(d), NEW h \in Valid, NEW w \in Valid, pHosting[h] = w
  PROVE  h \notin Up(w)
  <1> DEFINE S == {u \in Valid : u = w \/ d[u] < d[w]}
  <1>1. h # pRootMainWin /\ d[w] < d[h]
    BY HostValid, MainWinAssumption DEF TreeInv, Valid
  <1>2. d \in [Windows -> Nat] /\ Valid \subseteq Windows
    BY DEF Ranks, Valid
  <1>3. S \in SUBSET Windows /\ w \in S
    BY <1>2
  <1>4. ASSUME NEW x \in S PROVE pHosting[x] \in S \cup {NULL}
    <2>1. CASE x = pRootMainWin
      BY <2>1, HostValid
    <2>2. CASE x # pRootMainWin
      <3>1. pHosting[x] \in Valid /\ d[pHosting[x]] < d[x]
        BY <2>2 DEF TreeInv
      <3>2. d[x] \in Nat /\ d[w] \in Nat /\ d[pHosting[x]] \in Nat
        BY <1>2, <3>1
      <3>3. QED
        BY <3>1, <3>2
    <2>3. QED
      BY <2>1, <2>2
  <1>5. h \notin S
    BY <1>1, <1>2
  <1> HIDE DEF S
  <1>6. Reach(pHosting, w) \subseteq S
    BY <1>3, <1>4, ReachLeast
  <1>7. QED
    BY <1>5, <1>6 DEF Up

LEMMA UpNext ==
  ASSUME TypeOK, NEW h, NEW w \in Windows, h \notin Up(w),
         NEW x \in Windows, x # h, pHosting[x] = w
  PROVE  h \notin Up(x)
  <1>1. pHosting \in Links /\ w # NULL
    BY MainWinAssumption DEF TypeOK, Links
  <1>2. Reach(pHosting, x) = {x} \cup Reach(pHosting, w)
    BY <1>1, ReachNext
  <1>3. QED
    BY <1>2 DEF Up

(* The calls do not wait for a window that hosts w.                        *)
Clear(s, w) == \A k \in 1 .. Len(s) : \A x \in Pinned(Fr(s, k)) : w \notin Up(x)

LEMMA DestroyType ==
  ASSUME MainInv, NEW w \in Valid
  PROVE  /\ DestroyCall(w) \in Call /\ DestroyCall(w).op = "destroy" /\ DestroyCall(w).w = w
         /\ Sound(DestroyCall(w)) /\ Made(DestroyCall(w)) = {}
  <1>1. w \in Windows /\ pFirstHosted[w] \in Windows \cup {NULL} /\ TypeOK
    BY DEF Valid, MainInv, Wits, TypeOK
  <1>2. PICK c : c = DestroyCall(w)
    OBVIOUS
  <1>3. c \in Call /\ c.op = "destroy" /\ c.w = w /\ c.pc = "hosted" /\ c.hosted = pFirstHosted[w]
    BY <1>1, <1>2 DEF DestroyCall, New, Call
  <1>4. /\ pFirstHosted[w] # NULL => pFirstHosted[w] \in Valid /\ pHosting[pFirstHosted[w]] = w
        /\ pFirstHosted[w] # w
    <2>1. PICK d \in Ranks, r \in Ranks : TreeInv(d) /\ ListInv(r)
      BY DEF MainInv, Lists
    <2>2. pFirstHosted[w] # NULL => pFirstHosted[w] \in Valid /\ pHosting[pFirstHosted[w]] = w
      BY <1>1, <2>1, HostedType DEF ListInv, HostingKept, Living
    <2>3. pHosting[w] # w /\ w # NULL
      BY <1>1, <2>1, HostValid, MainWinAssumption
    <2>4. QED
      BY <2>2, <2>3
  <1>5. Sound(c)
    BY <1>3, <1>4 DEF Sound, Pinned
  <1>6. Made(c) = {}
    BY <1>3 DEF Made
  <1>7. QED
    BY <1>2, <1>3, <1>5, <1>6

LEMMA Begins ==
  ASSUME MainInv, TypeOK', UNCHANGED <<DataType, links, root, desktop>>,
         NEW w \in Valid, NEW s \in Seq(Call), Frames(s)', Creates(s, Len(s)) = Creating,
         Clear(s, w), s # << >> => Calls(s[1], DestroyCall(w)),
         calls' = <<DestroyCall(w)>> \o s
  PROVE  Kept
  <1>1. PICK c \in Call : /\ c = DestroyCall(w) /\ c.op = "destroy" /\ c.w = w /\ Sound(c) /\ Made(c) = {}
    BY DestroyType
  <1>2. Sound(c)'
    BY <1>1 DEF Sound, Pinned, Valid, links
  <1>3. ASSUME NEW k \in 1 .. Len(s) PROVE Apart(Fr(s, k), c)'
    <2>1. \A x \in Pinned(Fr(s, k)) : w \notin Up(x)
      BY DEF Clear
    <2>2. QED
      BY <1>1, <2>1 DEF Apart, Pinned, Up, links
  <1>4. PICK t : t = calls'
    OBVIOUS
  <1>5. s # << >> => Calls(s[1], c)
    BY <1>1
  <1>6. t = <<c>> \o s
    BY <1>1, <1>4
  <1>7. Frames(<<c>> \o s)'
    BY <1>2, <1>3, <1>5, FramesPushed
  <1>8. Creates(<<c>> \o s, Len(<<c>> \o s)) = Creates(s, Len(s)) \cup Made(c)
    BY CreatesPush
  <1>9. FramesInv'
    <2>1. Frames(t)'
      BY <1>6, <1>7
    <2>2. QED
      BY <1>4, <2>1, FramesNext
  <1>10. Creating' = Creating
    <2>1. Creates(t, Len(t)) = Creates(s, Len(s))
      BY <1>1, <1>6, <1>8
    <2>2. QED
      BY <1>4, <2>1, CreatingNext
  <1>11. QED
    BY <1>9, <1>10, OnlyCalls DEF Kept

LEMMA TwoOnTop ==
  ASSUME NEW s \in Seq(Call), NEW c \in Call, NEW b \in Call
  PROVE  <<c, b>> \o s = <<c>> \o (<<b>> \o s)
  <1>1. <<c>> \in Seq(Call) /\ <<b>> \in Seq(Call)
    OBVIOUS
  <1>2. <<c, b>> = <<c>> \o <<b>>
    <2>1. <<c, b>> \in Seq(Call) /\ Len(<<c, b>>) = 2
      OBVIOUS
    <2>2. <<c>> \o <<b>> \in Seq(Call) /\ Len(<<c>> \o <<b>>) = 2
      BY <1>1
    <2>3. <<c, b>>[1] = (<<c>> \o <<b>>)[1] /\ <<c, b>>[2] = (<<c>> \o <<b>>)[2]
      BY <1>1
    <2>4. \A i \in 1 .. 2 : i = 1 \/ i = 2
      OBVIOUS
    <2>5. QED
      BY <2>1, <2>2, <2>3, <2>4, SeqEqual
  <1>3. QED
    BY <1>1, <1>2, ConcatAssociative

LEMMA EndBegins ==
  ASSUME MainInv, TypeOK', UNCHANGED <<DataType, links, root, desktop>>,
         NEW w \in Valid \cap Dialogs, NEW s \in Seq(Call), Frames(s)', Creates(s, Len(s)) = Creating,
         Clear(s, w), s # << >> => Calls(s[1], New("end", w, "calls")),
         calls' = EndCalls(w) \o s
  PROVE  Kept
  <1>1. PICK b \in Call : b = New("end", w, "calls") /\ b.op = "end" /\ b.w = w /\ b.pc = "calls"
    BY NewCall DEF PCs, Valid
  <1>2. PICK c \in Call : c = DestroyCall(w) /\ c.op = "destroy" /\ c.w = w
    BY DestroyType
  <1>3. PICK u : u = <<b>> \o s
    OBVIOUS
  <1>4. /\ u \in Seq(Call) /\ u[1] = b /\ Len(u) = Len(s) + 1 /\ Fr(u, Len(s) + 1) = b
        /\ \A k \in 1 .. Len(s) : Fr(u, k) = Fr(s, k)
    BY <1>3, StackPush
  <1>5. Pinned(b) = {} /\ Made(b) = {}
    BY <1>1 DEF Pinned, Made
  <1>6. Frames(u)'
    <2>1. Sound(b)'
      BY <1>1 DEF Sound, Pinned
    <2>2. s # << >> => Calls(s[1], b)
      BY <1>1
    <2>3. ASSUME NEW k \in 1 .. Len(s) PROVE Apart(Fr(s, k), b)'
      BY <1>1 DEF Apart
    <2>4. Frames(<<b>> \o s)'
      BY <2>1, <2>2, <2>3, FramesPushed
    <2>5. QED
      BY <1>3, <2>4
  <1>7. Creates(u, Len(u)) = Creating
    <2>1. Creates(<<b>> \o s, Len(<<b>> \o s)) = Creates(s, Len(s)) \cup Made(b)
      BY CreatesPush
    <2>2. QED
      BY <1>3, <1>5, <2>1
  <1>8. Clear(u, w)
    <2>1. \A k \in 1 .. Len(u) : k \in 1 .. Len(s) \/ k = Len(s) + 1
      BY <1>4
    <2>2. QED
      BY <1>4, <1>5, <2>1 DEF Clear
  <1>9. u # << >> => Calls(u[1], DestroyCall(w))
    BY <1>1, <1>2, <1>4 DEF Calls, Waits
  <1>10. calls' = <<DestroyCall(w)>> \o u
    <2>1. EndCalls(w) = <<c, b>>
      BY <1>1, <1>2 DEF EndCalls
    <2>2. QED
      BY <1>2, <1>3, <2>1, TwoOnTop
  <1>11. QED
    BY <1>4, <1>6, <1>7, <1>8, <1>9, <1>10, Begins

(* A careful program destroys nothing that a call waits for.               *)
LEMMA ClearCalls ==
  ASSUME TypeOK, FramesInv, Careful, NEW w \in Windows, MayDestroy(w), NEW s, s = calls
  PROVE  Clear(s, w)
  <1>1. HostedBy(w) \cap Busy = {} /\ s \in Seq(Call) /\ calls \in Seq(Call)
    BY DEF MayDestroy, Careful, TypeOK
  <1>2. SUFFICES ASSUME NEW k \in 1 .. Len(s), NEW x \in Pinned(Fr(s, k)) PROVE w \notin Up(x)
    BY DEF Clear
  <1>3. PICK j \in 1 .. Len(s) : Fr(s, k) = s[j] /\ j = Len(s) - k + 1
    BY <1>1 DEF Fr
  <1>4. s[j] \in Call /\ s[j].op # "dialog" /\ x \in {s[j].w, s[j].hosted, s[j].next}
    BY <1>1, <1>2, <1>3 DEF Pinned
  <1>5. x \in Busy
    BY <1>1, <1>3, <1>4 DEF Busy
  <1>6. x \in Windows
    <2>1. Sound(Fr(calls, k))
      BY DEF FramesInv, Frames
    <2>2. QED
      BY <1>2, <2>1 DEF Sound, Valid
  <1>7. QED
    BY <1>1, <1>5, <1>6 DEF HostedBy, Up

LEMMA DestroyMainWindowStep ==
  ASSUME MainInv, TypeOK', Careful, NEW w \in Windows, DestroyMainWindow(w)
  PROVE  Kept
  <1>1. /\ Runs /\ w \in Valid /\ MayDestroy(w) /\ calls' = <<DestroyCall(w)>> \o calls
        /\ UNCHANGED <<DataType, links, root, desktop>> /\ TypeOK /\ FramesInv /\ Lists
    BY DEF DestroyMainWindow, Pushed, trace, MainInv, Wits
  <1>2. Valid' = Valid /\ HostsKept
    BY <1>1, SameWindows DEF links
  <1>3. PICK s : s = calls
    OBVIOUS
  <1>4. Frames(s)' /\ s \in Seq(Call)
    BY <1>1, <1>2, <1>3, Stays
  <1>5. Creates(s, Len(s)) = Creating
    BY <1>1, <1>3, CreatingIs
  <1>6. Clear(s, w)
    BY <1>1, <1>3, ClearCalls
  <1>7. s # << >> => Calls(s[1], DestroyCall(w))
    BY <1>1, <1>3, RunsOn
  <1>8. calls' = <<DestroyCall(w)>> \o s
    BY <1>1, <1>3
  <1>9. QED
    BY <1>1, <1>4, <1>5, <1>6, <1>7, <1>8, Begins

LEMMA EndDialogStep ==
  ASSUME MainInv, TypeOK', Careful, NEW w \in Windows, EndDialog(w)
  PROVE  Kept
  <1>1. /\ Runs /\ w \in Valid \cap Dialogs /\ MayDestroy(w) /\ calls' = EndCalls(w) \o calls
        /\ UNCHANGED <<DataType, links, root, desktop>> /\ TypeOK /\ FramesInv /\ Lists
    BY DEF EndDialog, trace, MainInv, Wits
  <1>2. Valid' = Valid /\ HostsKept
    BY <1>1, SameWindows DEF links
  <1>3. PICK s : s = calls
    OBVIOUS
  <1>4. Frames(s)' /\ s \in Seq(Call)
    BY <1>1, <1>2, <1>3, Stays
  <1>5. Creates(s, Len(s)) = Creating
    BY <1>1, <1>3, CreatingIs
  <1>6. Clear(s, w)
    BY <1>1, <1>3, ClearCalls
  <1>7. s # << >> => Calls(s[1], New("end", w, "calls"))
    BY <1>1, <1>3, RunsOn
  <1>8. calls' = EndCalls(w) \o s
    BY <1>1, <1>3
  <1>9. QED
    BY <1>1, <1>4, <1>5, <1>6, <1>7, <1>8, EndBegins

Waiting(s, y) == [s EXCEPT ![1].pc = "calls", ![1].next = y]
WaitOf(f, y)  == [f EXCEPT !.pc = "calls", !.next = y]

LEMMA WaitShape ==
  ASSUME NEW s \in Seq(Call), s # << >>, NEW y \in Windows \cup {NULL}
  PROVE  /\ WaitOf(s[1], y) \in Call
         /\ Waiting(s, y) = <<WaitOf(s[1], y)>> \o Tail(s)
  <1>1. s[1] \in Call
    BY StackTop
  <1>2. WaitOf(s[1], y) \in Call
    BY <1>1 DEF Call, WaitOf
  <1>3. Waiting(s, y) = [s EXCEPT ![1] = WaitOf(s[1], y)]
    BY DEF Waiting, WaitOf
  <1>4. QED
    BY <1>2, <1>3, StackPut

(* The hosted window that is next in turn is in the list of Top.w, and so  *)
(* is the one after it.                                                    *)
LEMMA InTurn ==
  ASSUME MainInv, NEW d \in Ranks, TreeInv(d), NEW r \in Ranks, ListInv(r),
         calls # << >>, Top.pc = "hosted", NEW h \in Valid, h = Top.hosted,
         NEW y, y = pNextHosted[h]
  PROVE  /\ Top.op = "destroy" /\ Top.w \in Valid /\ pHosting[h] = Top.w
         /\ y \in Windows \cup {NULL} /\ y # Top.w
         /\ y # NULL => y \in Valid /\ pHosting[y] = Top.w /\ y # h
  <1>1. TypeOK /\ FramesInv /\ Sound(Top) /\ h \in Windows /\ h # NULL
    BY TopSound, MainWinAssumption DEF MainInv, Wits, Valid
  <1>2. Top.op = "destroy"
    BY <1>1, TopType DEF Sound
  <1>3. PICK f \in Call : f = Top /\ f = Fr(calls, Len(calls)) /\ Len(calls) \in Nat \ {0}
    BY <1>1, TopType
  <1>4. h \in Pinned(f) /\ f.w \in Pinned(f)
    BY <1>1, <1>2, <1>3 DEF Pinned
  <1>5. Len(calls) \in 1 .. Len(calls)
    BY <1>3
  <1>6. h \in Living /\ f.w \in Valid
    BY <1>1, <1>2, <1>3, <1>4, <1>5, PinnedLiving DEF Sound
  <1>7. pHosting[h] = f.w
    BY <1>1, <1>2, <1>3, <1>4 DEF Sound
  <1>8. h # pRootMainWin /\ f.w \in Windows /\ f.w # NULL
    BY <1>1, <1>6, <1>7, HostValid, MainWinAssumption DEF Valid
  <1>9. h \in Hosted(f.w)
    BY <1>6, <1>7, <1>8 DEF ListInv, HostingKept
  <1>10. y \in Windows \cup {NULL} /\ (y # NULL => y \in Hosted(f.w))
    BY <1>1, <1>8, <1>9, HostedType DEF TypeOK
  <1>11. y # NULL => y \in Valid /\ pHosting[y] = f.w
    BY <1>6, <1>10 DEF ListInv, HostingKept, Living
  <1>12. y # NULL => r[h] < r[y]
    BY <1>6, <1>9 DEF ListInv
  <1>13. y # h
    BY <1>1, <1>12 DEF Ranks
  <1>14. y # f.w
    BY <1>1, <1>6, <1>8, <1>11, HostValid
  <1>15. QED
    BY <1>2, <1>3, <1>6, <1>7, <1>10, <1>11, <1>13, <1>14

(* A call further out waits for no window that h hosts.                    *)
Below(h) ==
    \A k \in 1 .. Len(calls) - 1 : \A x \in Pinned(Fr(calls, k)) : h \notin Up(x)

LEMMA ClearBelow ==
  ASSUME TypeOK, FramesInv, calls # << >>, Top.op = "destroy", NEW h \in Windows, pHosting[h] = Top.w
  PROVE  Below(h)
  <1>1. Len(calls) \in Nat \ {0} /\ Top = Fr(calls, Len(calls)) /\ Top.w \in Windows
    BY TopType
  <1>2. pHosting \in Links /\ Top.w # NULL
    BY <1>1, MainWinAssumption DEF TypeOK, Links
  <1>3. SUFFICES ASSUME NEW k \in 1 .. Len(calls) - 1, NEW x \in Pinned(Fr(calls, k))
                 PROVE  h \notin Up(x)
    BY DEF Below
  <1>4. Apart(Fr(calls, k), Top) /\ Sound(Fr(calls, k))
    BY <1>1 DEF FramesInv, Frames
  <1>5. Top.w \notin Up(x) /\ x \in Windows
    BY <1>4 DEF Apart, Sound, Valid
  <1>6. QED
    BY <1>2, <1>5, ReachStep DEF Up

LEMMA DestroyHostedStep ==
  ASSUME MainInv, TypeOK', DestroyHosted
  PROVE  Kept
  <1>1. /\ calls # << >> /\ Top.pc = "hosted" /\ UNCHANGED <<DataType, links, root, desktop>>
        /\ TypeOK /\ FramesInv /\ Lists /\ calls \in Seq(Call)
    BY DEF DestroyHosted, AtHosted, At, trace, MainInv, Wits, TypeOK
  <1>2. PICK h \in Valid : /\ h = Top.hosted
                          /\ \/ calls' = <<DestroyCall(h)>> \o Waiting(calls, pNextHosted[h]) /\ h \notin Dialogs
                             \/ calls' = EndCalls(h) \o Waiting(calls, pNextHosted[h]) /\ h \in Dialogs
    BY DEF DestroyHosted, Waiting
  <1>3. PICK d \in Ranks, r \in Ranks : TreeInv(d) /\ ListInv(r)
    BY <1>1 DEF Lists
  <1>4. PICK y : y = pNextHosted[h]
    OBVIOUS
  <1>5. PICK w \in Valid : w = Top.w /\ w \in Windows
    BY <1>1, <1>2, <1>3, <1>4, InTurn DEF Valid
  <1>6. /\ Top.op = "destroy" /\ pHosting[h] = w /\ y \in Windows \cup {NULL} /\ y # w
        /\ y # NULL => y \in Valid /\ pHosting[y] = w /\ y # h
        /\ h \in Windows
    BY <1>1, <1>2, <1>3, <1>4, <1>5, InTurn DEF Valid
  <1>7. PICK c \in Call : c = WaitOf(Top, y) /\ Waiting(calls, y) = <<c>> \o Tail(calls)
    BY <1>1, <1>6, WaitShape DEF Top
  <1>8. /\ c.op = "destroy" /\ c.w = w /\ c.pc = "calls" /\ c.hosted = h /\ c.next = y
    <2>1. Top \in Call
      BY <1>1, TopType
    <2>2. QED
      BY <1>2, <1>5, <1>6, <1>7, <2>1 DEF WaitOf, Call
  <1>9. Valid' = Valid /\ HostsKept /\ HostsRight
    BY <1>1, SameWindows, TreeHosts DEF links
  <1>10. Sound(c)'
    BY <1>1, <1>6, <1>8, <1>9 DEF Sound, Pinned, links
  <1>11. PICK n \in Nat \ {0} : n = Len(calls)
    BY <1>1, TopType
  <1>12. SparesOuter(Len(calls) - 1)
    BY <1>1, <1>9, <1>11, SparedAll
  <1>13. PICK s : s = <<c>> \o Tail(calls)
    OBVIOUS
  <1>14. /\ Frames(s)' /\ s \in Seq(Call) /\ Len(s) = n /\ Fr(s, n) = c
         /\ \A k \in 1 .. n - 1 : Fr(s, k) = Fr(calls, k)
         /\ Creates(s, n) = Creating
    <2>1. Replaces(s, c)
      BY <1>13 DEF Replaces
    <2>2. /\ Frames(s)' /\ s \in Seq(Call) /\ Len(s) = Len(calls)
          /\ Fr(s, Len(calls)) = c /\ Keeps(calls, s, Len(calls) - 1)
          /\ Creates(s, Len(s)) = Creates(calls, Len(calls))
      BY <1>1, <1>5, <1>6, <1>8, <1>9, <1>10, <1>12, <2>1, ReplacedFrames
    <2>3. QED
      BY <1>1, <1>11, <2>2, CreatingIs DEF Keeps
  <1>15. s # << >> /\ s[1] = c
    <2>1. s # << >>
      BY <1>11, <1>14
    <2>2. QED
      BY <1>14, <2>1, StackTop
  <1>16. Clear(s, h)
    <2>1. \A x \in Pinned(c) : h \notin Up(x)
      <3>1. h \notin Up(w)
        BY <1>1, <1>3, <1>6, UpAcyclic
      <3>2. y # NULL => h \notin Up(y)
        BY <1>1, <1>5, <1>6, <3>1, UpNext
      <3>3. QED
        BY <1>8, <3>1, <3>2 DEF Pinned
    <2>2. ASSUME NEW k \in 1 .. n - 1, NEW x \in Pinned(Fr(calls, k)) PROVE h \notin Up(x)
      <3>1. Below(h)
        BY <1>1, <1>5, <1>6, ClearBelow
      <3>2. QED
        BY <1>11, <3>1 DEF Below
    <2>3. \A k \in 1 .. n : k \in 1 .. n - 1 \/ k = n
      BY <1>11
    <2>4. QED
      BY <1>14, <2>1, <2>2, <2>3 DEF Clear
  <1>17. CASE h \notin Dialogs
    <2>1. Calls(c, DestroyCall(h))
      BY <1>8, <1>17, DestroyType DEF Calls, Waits
    <2>2. calls' = <<DestroyCall(h)>> \o s
      BY <1>2, <1>4, <1>7, <1>13, <1>17
    <2>3. QED
      BY <1>1, <1>14, <1>15, <1>16, <2>1, <2>2, Begins
  <1>18. CASE h \in Dialogs
    <2>1. Calls(c, New("end", h, "calls"))
      BY <1>6, <1>8, <1>18, NewCall DEF Calls, Waits, PCs
    <2>2. calls' = EndCalls(h) \o s
      BY <1>2, <1>4, <1>7, <1>13, <1>18
    <2>3. QED
      BY <1>1, <1>14, <1>15, <1>16, <1>18, <2>1, <2>2, EndBegins
  <1>19. QED
    BY <1>17, <1>18

-----------------------------------------------------------------------------
(* The types, for which the invariant tells that nrWindows does not fall   *)
(* below zero.                                                             *)
LEMMA ReturnType ==
  ASSUME TypeOK, calls # << >>, NEW ok \in BOOLEAN, Return(ok)
  PROVE  calls' \in Seq(Call)
  <1>1. PICK t : t = calls'
    OBVIOUS
  <1>2. PICK m \in Nat : Returned(ok, t, m)
    BY <1>1, ReturnShape
  <1>3. QED
    BY <1>1, <1>2 DEF Returned

LEMMA MovedType ==
  ASSUME TypeOK, calls # << >>, NEW pc \in PCs
  PROVE  Moved(pc) \in Seq(Call)
  <1>1. Moved(pc) = <<[Top EXCEPT !.pc = pc]>> \o Tail(calls) /\ [Top EXCEPT !.pc = pc] \in Call
    BY MovedShape
  <1>2. Tail(calls) \in Seq(Call)
    BY StackTop DEF TypeOK
  <1>3. QED
    BY <1>1, <1>2

LEMMA PushedType ==
  ASSUME NEW s \in Seq(Call), NEW c \in Call
  PROVE  <<c>> \o s \in Seq(Call)
  BY StackPush

LEMMA EndCallsType ==
  ASSUME MainInv, NEW w \in Valid, NEW s \in Seq(Call)
  PROVE  EndCalls(w) \o s \in Seq(Call)
  <1>1. New("end", w, "calls") \in Call /\ DestroyCall(w) \in Call
    BY NewCall, DestroyType DEF PCs, Valid
  <1>2. EndCalls(w) \o s = <<DestroyCall(w)>> \o (<<New("end", w, "calls")>> \o s)
    BY <1>1, TwoOnTop DEF EndCalls
  <1>3. QED
    BY <1>1, <1>2, StackPush

DataTypes ==
    /\ DataType' \in [Windows -> {"none", "TYPE_HWND", "TYPE_WINTODEL"}]
    /\ {pHosting', pFirstHosted', pNextHosted'} \subseteq [Windows -> Windows \cup {NULL}]
    /\ pRootMainWin' \in Windows \cup {NULL}

LEMMA WipedTypes ==
  ASSUME TypeOK, NEW w \in Windows, DataType' = Put(DataType, w, "none"), Wiped(w),
         pRootMainWin' \in {pRootMainWin, NULL}
  PROVE  DataTypes
  BY DEF TypeOK, Wiped, Put, DataTypes

LEMMA SameTypes ==
  ASSUME TypeOK, UNCHANGED <<DataType, links, root>>
  PROVE  DataTypes
  BY DEF TypeOK, links, root, DataTypes

LEMMA AllocatedTypes ==
  ASSUME TypeOK, NEW w \in Windows, NEW h, Allocated(w, h)
  PROVE  DataTypes
  <1>1. h \in Windows \cup {NULL} /\ HostFor(h) \in Windows \cup {NULL}
    BY DEF Allocated, Valid, HostFor, TypeOK
  <1>2. QED
    BY <1>1 DEF TypeOK, Allocated, Put, DataTypes

LEMMA AddedTypes ==
  ASSUME TypeOK, NEW h \in Windows, NEW w \in Windows, AddHosted(h, w)
  PROVE  {pFirstHosted', pNextHosted'} \subseteq [Windows -> Windows \cup {NULL}]
  <1>1. CASE pFirstHosted[h] = NULL
    BY <1>1 DEF TypeOK, AddHosted, Put
  <1>2. CASE pFirstHosted[h] # NULL
    <2>1. PICK last \in Hosted(h) : pNextHosted' = Put(Put(pNextHosted, w, NULL), last, w)
      BY <1>2 DEF AddHosted
    <2>2. pFirstHosted' = pFirstHosted
      BY <1>2 DEF AddHosted
    <2>3. QED
      BY <2>1, <2>2 DEF TypeOK, Put
  <1>3. QED
    BY <1>1, <1>2

LEMMA RemovedTypes ==
  ASSUME TypeOK, NEW h \in Windows, NEW w \in Windows, RemoveHosted(h, w)
  PROVE  {pFirstHosted', pNextHosted'} \subseteq [Windows -> Windows \cup {NULL}]
  <1>1. CASE pFirstHosted[h] = w
    BY <1>1 DEF TypeOK, RemoveHosted, Put
  <1>2. CASE pFirstHosted[h] # w
    BY <1>2 DEF TypeOK, RemoveHosted
  <1>3. QED
    BY <1>1, <1>2

LEMMA TypesFrom ==
  ASSUME DataTypes, nrWindows' \in Nat, calls' \in Seq(Call),
         timers' \subseteq Windows, messages' \subseteq Windows,
         desktop' \subseteq Windows, disabled' \subseteq Windows
  PROVE  TypeOK'
  BY DEF TypeOK, DataTypes

LEMMA ProgramTypes ==
  ASSUME MainInv, Program
  PROVE  TypeOK'
  <1>1. TypeOK /\ calls \in Seq(Call)
    BY DEF MainInv, Wits, TypeOK
  <1>2. PICK w \in Windows :
           \/ \E h \in Windows \cup {NULL} : CreateMainWindow(w, h) \/ DialogBox(w, h)
           \/ EndDialog(w) \/ DestroyMainWindow(w) \/ MainWindowCleanup(w)
           \/ SetTimer(w) \/ KillTimer(w) \/ PostMessage(w) \/ GetMessage(w)
    BY DEF Program
  <1>3. ASSUME NEW h \in Windows \cup {NULL}, CreateMainWindow(w, h) PROVE TypeOK'
    <2>1. Allocated(w, h) /\ calls' = <<New("create", w, "MSG_NCCREATE")>> \o calls
      BY <1>3 DEF CreateMainWindow, Pushed
    <2>2. calls' \in Seq(Call)
      BY <1>1, <2>1, NewCall, PushedType DEF PCs, Free
    <2>3. QED
      BY <1>1, <2>1, <2>2, AllocatedTypes, TypesFrom DEF TypeOK, Allocated, trace
  <1>4. ASSUME NEW h \in Windows \cup {NULL}, DialogBox(w, h) PROVE TypeOK'
    <2>1. /\ Allocated(w, h)
          /\ calls' = <<New("create", w, "MSG_NCCREATE")>> \o (<<New("dialog", w, "calls")>> \o calls)
      BY <1>4 DEF DialogBox, Pushed
    <2>2. <<New("dialog", w, "calls")>> \o calls \in Seq(Call)
      BY <1>1, NewCall, PushedType DEF PCs
    <2>3. calls' \in Seq(Call)
      BY <2>1, <2>2, NewCall, PushedType DEF PCs, Free
    <2>4. QED
      BY <1>1, <2>1, <2>3, AllocatedTypes, TypesFrom DEF TypeOK, Allocated, trace
  <1>5. CASE EndDialog(w)
    <2>1. w \in Valid /\ calls' = EndCalls(w) \o calls
          /\ UNCHANGED <<DataType, links, root, trace, disabled>>
      BY <1>5 DEF EndDialog
    <2>2. QED
      BY <1>1, <2>1, EndCallsType, SameTypes, TypesFrom DEF TypeOK, trace, root
  <1>6. CASE DestroyMainWindow(w)
    <2>1. w \in Valid /\ calls' = <<DestroyCall(w)>> \o calls
          /\ UNCHANGED <<DataType, links, root, trace, disabled>>
      BY <1>6 DEF DestroyMainWindow, Pushed
    <2>2. calls' \in Seq(Call)
      BY <1>1, <2>1, DestroyType, PushedType
    <2>3. QED
      BY <1>1, <2>1, <2>2, SameTypes, TypesFrom DEF TypeOK, trace, root
  <1>7. CASE MainWindowCleanup(w)
    <2>1. /\ DataType' = Put(DataType, w, "none") /\ Wiped(w)
          /\ UNCHANGED <<root, trace, disabled, calls>>
      BY <1>7 DEF MainWindowCleanup
    <2>2. QED
      BY <1>1, <2>1, WipedTypes, TypesFrom DEF TypeOK, trace, root
  <1>8. CASE SetTimer(w) \/ KillTimer(w) \/ PostMessage(w) \/ GetMessage(w)
    <2>1. /\ UNCHANGED <<DataType, links, root, desktop, disabled, calls>>
          /\ timers' \subseteq timers \cup {w} /\ messages' \subseteq messages \cup {w}
      BY <1>8 DEF SetTimer, KillTimer, PostMessage, GetMessage
    <2>2. QED
      BY <1>1, <2>1, SameTypes, TypesFrom DEF TypeOK, root
  <1>9. QED
    BY <1>2, <1>3, <1>4, <1>5, <1>6, <1>7, <1>8

LEMMA AnswerTypes ==
  ASSUME MainInv, Answer
  PROVE  TypeOK'
  <1>1. TypeOK /\ calls # << >> /\ FramesInv /\ CountInv
    BY DEF MainInv, Wits, Answer, NcCreated, NcFailed, Created, CreateFailed, Refuse, Destroyed, At
  <1>2. Top.w \in Windows /\ Sound(Top) /\ (pHosting[Top.w] # NULL => pHosting[Top.w] \in Windows)
    BY <1>1, TopType, TopSound DEF TypeOK
  <1>3. CASE NcCreated
    <2>1. calls' \in Seq(Call)
      BY <1>1, <1>3, MovedType DEF NcCreated, PCs, Free
    <2>2. QED
      BY <1>1, <1>2, <1>3, <2>1, SameTypes, TypesFrom DEF NcCreated, TypeOK, root
  <1>4. CASE NcFailed \/ CreateFailed
    <2>1. /\ DataType' = Put(DataType, Top.w, "none") /\ Wiped(Top.w) /\ Return(FALSE)
          /\ pRootMainWin' \in {pRootMainWin, NULL} /\ messages' \subseteq messages
          /\ desktop' \subseteq desktop /\ UNCHANGED <<nrWindows, timers, disabled>>
      BY <1>4 DEF NcFailed, CreateFailed, Failed
    <2>2. calls' \in Seq(Call)
      BY <1>1, <2>1, ReturnType
    <2>3. QED
      BY <1>1, <1>2, <2>1, <2>2, WipedTypes, TypesFrom DEF TypeOK
  <1>5. CASE Created
    <2>1. calls' \in Seq(Call)
      BY <1>1, <1>5, ReturnType DEF Created
    <2>2. {pFirstHosted', pNextHosted'} \subseteq [Windows -> Windows \cup {NULL}]
      BY <1>1, <1>2, <1>5, AddedTypes DEF Created, TypeOK
    <2>3. DataTypes /\ nrWindows' \in Nat
      BY <1>1, <1>5, <2>2 DEF Created, DataTypes, TypeOK
    <2>4. QED
      BY <1>1, <1>5, <2>1, <2>3, TypesFrom DEF Created, TypeOK, trace
  <1>6. CASE Refuse
    <2>1. calls' \in Seq(Call)
      BY <1>1, <1>6, ReturnType DEF Refuse
    <2>2. QED
      BY <1>1, <1>6, <2>1, SameTypes, TypesFrom DEF Refuse, TypeOK, trace, root
  <1>7. CASE Destroyed
    <2>1. calls' \in Seq(Call)
      BY <1>1, <1>7, ReturnType DEF Destroyed
    <2>2. {pFirstHosted', pNextHosted'} \subseteq [Windows -> Windows \cup {NULL}]
      BY <1>1, <1>2, <1>7, RemovedTypes DEF Destroyed, TypeOK
    <2>3. DataTypes
      BY <1>1, <1>2, <1>7, <2>2 DEF Destroyed, DataTypes, TypeOK, Put
    <2>4. Top.w \in Living
      <3>1. Top.op = "destroy"
        BY <1>1, <1>2, <1>7, TopType DEF Destroyed, At, Sound
      <3>2. PICK f \in Call : f = Top /\ f = Fr(calls, Len(calls)) /\ Len(calls) \in 1 .. Len(calls)
        BY <1>1, TopType
      <3>3. f.w \in Pinned(f)
        BY <3>1, <3>2 DEF Pinned
      <3>4. QED
        BY <1>1, <3>1, <3>2, <3>3, PinnedLiving
    <2>5. nrWindows' \in Nat
      <3>1. IsFiniteSet(Living) /\ nrWindows = Cardinality(Living) /\ nrWindows \in Nat
        BY <1>1, LivingFinite DEF CountInv
      <3>2. Cardinality(Living) # 0
        BY <2>4, <3>1, FS_EmptySet
      <3>3. QED
        BY <1>7, <3>1, <3>2 DEF Destroyed
    <2>6. QED
      BY <1>1, <1>7, <2>1, <2>3, <2>5, TypesFrom DEF Destroyed, TypeOK, Killed
  <1>8. QED
    BY <1>3, <1>4, <1>5, <1>6, <1>7 DEF Answer

LEMMA LibraryTypes ==
  ASSUME MainInv, Library
  PROVE  TypeOK'
  <1>1. TypeOK /\ calls # << >> /\ calls \in Seq(Call)
    BY DEF MainInv, Wits, TypeOK, Library, DialogShown, DialogEnds, DialogEnded, DestroyHosted,
           HostedRefuses, NextHosted, Refused, NoneHosted, AtHosted, At
  <1>2. /\ Top.w \in Windows /\ Top.hosted \in Windows \cup {NULL} /\ Top.next \in Windows \cup {NULL}
        /\ Sound(Top) /\ Tail(calls) \in Seq(Call)
    BY <1>1, TopType, TopSound, StackTop
  <1>3. CASE DialogShown
    <2>1. calls' \in Seq(Call)
      BY <1>1, <1>3, MovedType DEF DialogShown, PCs, Free
    <2>2. disabled' \subseteq Windows
      BY <1>1, <1>2, <1>3 DEF DialogShown, TypeOK
    <2>3. QED
      BY <1>1, <1>3, <2>1, <2>2, SameTypes, TypesFrom DEF DialogShown, TypeOK, trace, root
  <1>4. CASE DialogEnds
    <2>1. /\ DataType' = Put(DataType, Top.w, "none") /\ Wiped(Top.w) /\ calls' = Tail(calls)
          /\ UNCHANGED <<root, trace, disabled>>
      BY <1>4 DEF DialogEnds
    <2>2. QED
      BY <1>1, <1>2, <2>1, WipedTypes, TypesFrom DEF TypeOK, trace, root
  <1>5. CASE DialogEnded
    <2>1. calls' \in Seq(Call)
      BY <1>1, <1>5, ReturnType DEF DialogEnded
    <2>2. disabled' \subseteq Windows
      BY <1>1, <1>5 DEF DialogEnded, TypeOK
    <2>3. QED
      BY <1>1, <1>5, <2>1, <2>2, SameTypes, TypesFrom DEF DialogEnded, TypeOK, trace, root
  <1>6. CASE DestroyHosted
    <2>1. UNCHANGED <<DataType, links, root, trace, disabled>>
      BY <1>6 DEF DestroyHosted, AtHosted
    <2>2. PICK h \in Valid :
             \/ calls' = <<DestroyCall(h)>> \o Waiting(calls, pNextHosted[h])
             \/ calls' = EndCalls(h) \o Waiting(calls, pNextHosted[h])
      BY <1>6 DEF DestroyHosted, Waiting
    <2>3. pNextHosted[h] \in Windows \cup {NULL}
      BY <1>1 DEF TypeOK, Valid
    <2>4. Waiting(calls, pNextHosted[h]) \in Seq(Call)
      BY <1>1, <1>2, <2>3, WaitShape, PushedType
    <2>5. calls' \in Seq(Call)
      BY <2>2, <2>4, EndCallsType, DestroyType, PushedType
    <2>6. QED
      BY <1>1, <2>1, <2>5, SameTypes, TypesFrom DEF TypeOK, trace, root
  <1>7. CASE HostedRefuses \/ NoneHosted
    <2>1. /\ UNCHANGED <<DataType, links, root, trace, disabled>>
          /\ calls' = Moved("refused") \/ calls' = Moved("MSG_DESTROY")
      BY <1>7 DEF HostedRefuses, NoneHosted, AtHosted
    <2>2. calls' \in Seq(Call)
      BY <1>1, <2>1, MovedType DEF PCs, Free
    <2>3. QED
      BY <1>1, <2>1, <2>2, SameTypes, TypesFrom DEF TypeOK, trace, root
  <1>8. CASE NextHosted
    <2>1. /\ Top.op = "destroy" /\ Top.pc = "next" /\ UNCHANGED <<root, trace, disabled>>
          /\ calls' = Stepped(calls, "hosted", Top.next, NULL)
          /\ IF Top.hosted \in Dialogs
             THEN UNCHANGED <<DataType, links>>
             ELSE /\ DataType' = Put(DataType, Top.hosted, "none")
                  /\ Wiped(Top.hosted)
      BY <1>8 DEF NextHosted, Stepped
    <2>2. calls' \in Seq(Call)
      <3>1. PICK c : c = StepOf(calls[1], "hosted", Top.next, NULL)
        OBVIOUS
      <3>2. NULL \in Windows \cup {NULL} /\ "hosted" \in PCs
        BY DEF PCs
      <3>3. c \in Call /\ calls' = <<c>> \o Tail(calls)
        BY <1>1, <1>2, <2>1, <3>1, <3>2, NextShape
      <3>4. QED
        BY <1>2, <3>3, PushedType
    <2>3. CASE Top.hosted \in Dialogs
      BY <1>1, <2>1, <2>2, <2>3, SameTypes, TypesFrom DEF TypeOK, trace, root
    <2>4. CASE Top.hosted \notin Dialogs
      <3>1. Top.hosted \in Windows
        BY <1>2, <2>1, <2>4 DEF Sound
      <3>2. QED
        BY <1>1, <2>1, <2>2, <2>4, <3>1, WipedTypes, TypesFrom DEF TypeOK, trace, root
    <2>5. QED
      BY <2>3, <2>4
  <1>9. CASE Refused
    <2>1. calls' \in Seq(Call)
      BY <1>1, <1>9, ReturnType DEF Refused
    <2>2. QED
      BY <1>1, <1>9, <2>1, SameTypes, TypesFrom DEF Refused, TypeOK, trace, root
  <1>10. QED
    BY <1>3, <1>4, <1>5, <1>6, <1>7, <1>8, <1>9 DEF Library

-----------------------------------------------------------------------------
(* What is left of a window.                                               *)
TracesKept ==
    /\ desktop' \subseteq Valid'
    /\ "timers" \notin Careless /\ NoTrace => NoTrace'

LEMMA NoneGoes ==
  ASSUME MainInv, Valid \subseteq Valid', timers' \subseteq timers \cup Valid,
         messages' \subseteq messages \cup Valid, desktop' \subseteq desktop \cup Valid
  PROVE  TracesKept
  BY DEF TracesKept, NoTrace, MainInv, Wits

LEMMA OneGoes ==
  ASSUME MainInv, NEW w, Valid \ {w} \subseteq Valid', desktop' \subseteq desktop, w \notin desktop',
         timers' \subseteq timers, messages' \subseteq messages, w \notin messages',
         "timers" \in Careless \/ w \notin timers'
  PROVE  TracesKept
  BY DEF TracesKept, NoTrace, MainInv, Wits

LEMMA ProgramTraces ==
  ASSUME MainInv, Program
  PROVE  TracesKept
  <1>1. TypeOK /\ Lists
    BY DEF MainInv, Wits
  <1>2. PICK w \in Windows :
           \/ \E h \in Windows \cup {NULL} : CreateMainWindow(w, h) \/ DialogBox(w, h)
           \/ EndDialog(w) \/ DestroyMainWindow(w) \/ MainWindowCleanup(w)
           \/ SetTimer(w) \/ KillTimer(w) \/ PostMessage(w) \/ GetMessage(w)
    BY DEF Program
  <1>3. ASSUME NEW h \in Windows \cup {NULL}, CreateMainWindow(w, h) \/ DialogBox(w, h)
        PROVE  TracesKept
    <2>1. Allocated(w, h)
      BY <1>3 DEF CreateMainWindow, DialogBox
    <2>2. Valid \subseteq Valid'
      BY <2>1, AllocatedSame
    <2>3. QED
      BY <2>1, <2>2, NoneGoes DEF Allocated, trace
  <1>4. CASE EndDialog(w) \/ DestroyMainWindow(w)
    <2>1. UNCHANGED <<DataType, trace>>
      BY <1>4 DEF EndDialog, DestroyMainWindow
    <2>2. QED
      BY <2>1, NoneGoes DEF trace, Valid
  <1>5. CASE MainWindowCleanup(w)
    <2>1. /\ w \in Windows \ Valid /\ DataType' = Put(DataType, w, "none") /\ Wiped(w)
          /\ UNCHANGED trace
      BY <1>5 DEF MainWindowCleanup, Valid
    <2>2. Valid' = Valid
      BY <1>1, <2>1, WipedSame
    <2>3. QED
      BY <2>1, <2>2, NoneGoes DEF trace
  <1>6. CASE SetTimer(w) \/ KillTimer(w) \/ PostMessage(w) \/ GetMessage(w)
    <2>1. /\ UNCHANGED <<DataType, desktop>>
          /\ timers' \subseteq timers \cup Valid /\ messages' \subseteq messages \cup Valid
      BY <1>6 DEF SetTimer, KillTimer, PostMessage, GetMessage
    <2>2. QED
      BY <2>1, NoneGoes DEF Valid
  <1>7. QED
    BY <1>2, <1>3, <1>4, <1>5, <1>6

LEMMA AnswerTraces ==
  ASSUME MainInv, Answer
  PROVE  TracesKept
  <1>1. TypeOK /\ calls # << >>
    BY DEF MainInv, Wits, Answer, NcCreated, NcFailed, Created, CreateFailed, Refuse, Destroyed, At
  <1>2. Top.w \in Windows /\ Sound(Top)
    BY <1>1, TopType, TopSound
  <1>3. CASE NcCreated
    <2>1. Top.op = "create"
      BY <1>1, <1>2, <1>3, TopType DEF NcCreated, At, Sound
    <2>2. Top.w \in Valid
      BY <1>2, <2>1 DEF Sound, Pinned
    <2>3. QED
      BY <1>3, <2>2, NoneGoes DEF NcCreated, Valid
  <1>4. CASE NcFailed \/ CreateFailed
    <2>1. /\ DataType' = Put(DataType, Top.w, "none") /\ messages' = messages \ {Top.w}
          /\ "timers" \in Careless \/ Top.w \notin timers
          /\ timers' = timers
      BY <1>4 DEF NcFailed, CreateFailed, Failed, MayFail
    <2>2. Valid \ {Top.w} \subseteq Valid'
      BY <1>1, <2>1 DEF Valid, Put, TypeOK
    <2>3. desktop' \subseteq desktop /\ Top.w \notin desktop'
      <3>1. CASE NcFailed
        <4>1. Top.pc = "MSG_NCCREATE" /\ desktop' = desktop
          BY <3>1 DEF NcFailed, At
        <4>2. Top.op = "create"
          BY <1>1, <1>2, <4>1, TopType DEF Sound
        <4>3. QED
          BY <1>2, <4>1, <4>2 DEF Sound
      <3>2. CASE CreateFailed
        BY <3>2 DEF CreateFailed
      <3>3. QED
        BY <1>4, <3>1, <3>2
    <2>4. QED
      BY <2>1, <2>2, <2>3, OneGoes
  <1>5. CASE Created \/ Refuse
    <2>1. UNCHANGED <<DataType, trace>>
      BY <1>5 DEF Created, Refuse
    <2>2. QED
      BY <2>1, NoneGoes DEF trace, Valid
  <1>6. CASE Destroyed
    <2>1. /\ DataType' = Put(DataType, Top.w, "TYPE_WINTODEL") /\ messages' = messages \ {Top.w}
          /\ timers' = timers \ {Top.w} /\ desktop' = desktop \ {Top.w}
      BY <1>6 DEF Destroyed, Killed
    <2>2. Valid \ {Top.w} \subseteq Valid'
      BY <1>1, <2>1 DEF Valid, Put, TypeOK
    <2>3. QED
      BY <2>1, <2>2, OneGoes
  <1>7. QED
    BY <1>3, <1>4, <1>5, <1>6 DEF Answer

LEMMA LibraryTraces ==
  ASSUME MainInv, Library
  PROVE  TracesKept
  <1>1. TypeOK /\ Lists /\ calls # << >> /\ UNCHANGED trace
    BY DEF MainInv, Wits, Library, DialogShown, DialogEnds, DialogEnded, DestroyHosted,
           HostedRefuses, NextHosted, Refused, NoneHosted, AtHosted, At
  <1>2. Top.w \in Windows /\ Sound(Top)
    BY <1>1, TopType, TopSound
  <1>3. Valid' = Valid
    <2>1. CASE DialogEnds
      BY <1>1, <1>2, <2>1, WipedSame DEF DialogEnds
    <2>2. CASE NextHosted
      <3>1. CASE Top.hosted \in Dialogs
        BY <2>2, <3>1 DEF NextHosted, Valid
      <3>2. CASE Top.hosted \notin Dialogs
        <4>1. /\ Top.hosted \in Windows \ Valid
              /\ DataType' = Put(DataType, Top.hosted, "none") /\ Wiped(Top.hosted)
          BY <1>1, <1>2, <2>2, <3>2, TopType DEF NextHosted, Sound, Valid
        <4>2. QED
          BY <1>1, <4>1, WipedSame
      <3>3. QED
        BY <3>1, <3>2
    <2>3. CASE ~DialogEnds /\ ~NextHosted
      <3>1. DataType' = DataType
        BY <2>3 DEF Library, DialogShown, DialogEnded, DestroyHosted, HostedRefuses, Refused,
                    NoneHosted, AtHosted
      <3>2. QED
        BY <3>1 DEF Valid
    <2>4. QED
      BY <2>1, <2>2, <2>3
  <1>4. QED
    BY <1>1, <1>3, NoneGoes DEF trace

-----------------------------------------------------------------------------
LEMMA InitHolds == Init => MainInv /\ NoTrace
  <1> SUFFICES ASSUME Init PROVE MainInv /\ NoTrace
    OBVIOUS
  <1>1. TypeOK /\ Valid = {} /\ desktop = {} /\ NoTrace
    BY MainWinAssumption DEF Init, TypeOK, Valid, NoTrace
  <1>2. FramesInv
    <2>1. calls = << >> /\ Len(calls) = 0
      BY DEF Init
    <2>2. 1 .. 0 = {} /\ 1 .. (0 - 1) = {}
      OBVIOUS
    <2>3. QED
      BY <2>1, <2>2 DEF FramesInv, Frames
  <1>3. CountInv
    <2>1. Living = {} /\ nrWindows = 0
      BY <1>1 DEF Living, Init
    <2>2. QED
      BY <2>1, FS_EmptySet DEF CountInv
  <1>4. [w \in Windows |-> 0] \in Ranks
    BY DEF Ranks
  <1>5. ASSUME NEW d \in Ranks PROVE TreeInv(d) /\ ListInv(d)
    BY <1>1 DEF TreeInv, ListInv, HostingKept, Living, Init
  <1>6. QED
    BY <1>1, <1>2, <1>3, <1>4, <1>5 DEF MainInv, Wits, Lists

LEMMA StepKept ==
  ASSUME MainInv, Careful, Next, TypeOK'
  PROVE  Kept
  <1>1. CASE Program
    <2>1. PICK w \in Windows :
             \/ \E h \in Windows \cup {NULL} : CreateMainWindow(w, h) \/ DialogBox(w, h)
             \/ EndDialog(w) \/ DestroyMainWindow(w) \/ MainWindowCleanup(w)
             \/ SetTimer(w) \/ KillTimer(w) \/ PostMessage(w) \/ GetMessage(w)
      BY <1>1 DEF Program
    <2>2. ASSUME NEW h, CreateMainWindow(w, h) PROVE Kept
      BY <2>2, CreateMainWindowStep
    <2>3. ASSUME NEW h, DialogBox(w, h) PROVE Kept
      BY <2>3, DialogBoxStep
    <2>4. CASE EndDialog(w)
      BY <2>4, EndDialogStep
    <2>5. CASE DestroyMainWindow(w)
      BY <2>5, DestroyMainWindowStep
    <2>6. CASE MainWindowCleanup(w)
      BY <2>6, CleanupStep
    <2>7. CASE SetTimer(w) \/ KillTimer(w) \/ PostMessage(w) \/ GetMessage(w)
      <3>1. UNCHANGED <<DataType, links, root, desktop, calls>>
        BY <2>7 DEF SetTimer, KillTimer, PostMessage, GetMessage
      <3>2. QED
        BY <3>1, TracesStep
    <2>8. QED
      BY <2>1, <2>2, <2>3, <2>4, <2>5, <2>6, <2>7
  <1>2. CASE Answer
    <2>1. TypeOK /\ calls # << >>
      BY <1>2 DEF MainInv, Wits, Answer, NcCreated, NcFailed, Created, CreateFailed, Refuse,
                  Destroyed, At
    <2>2. Sound(Top) /\ Top.op \in {"create", "dialog", "destroy", "end"}
      BY <2>1, TopType, TopSound
    <2>3. CASE NcCreated
      BY <2>3, NcCreatedStep
    <2>4. CASE NcFailed \/ CreateFailed
      <3>1. /\ Top.op = "create" /\ MayGo(Top.w) /\ Failed(Top.w) /\ Return(FALSE)
            /\ desktop' \subseteq desktop /\ nrWindows' = nrWindows
        BY <2>2, <2>4 DEF NcFailed, CreateFailed, At, MayFail, Sound
      <3>2. QED
        BY <2>1, <3>1, FailedStep
    <2>5. CASE Created
      BY <2>5, CreatedStep
    <2>6. CASE Refuse
      <3>1. /\ Top.op # "create" /\ Return(FALSE) /\ Result(FALSE) /\ FALSE \in BOOLEAN
            /\ UNCHANGED <<DataType, links, root, desktop>>
        BY <2>2, <2>6 DEF Refuse, At, Sound, Result, trace
      <3>2. QED
        BY <2>1, <3>1, ReturnsStep
    <2>7. CASE Destroyed
      BY <2>7, DestroyedStep
    <2>8. QED
      BY <1>2, <2>3, <2>4, <2>5, <2>6, <2>7 DEF Answer
  <1>3. CASE Library
    <2>1. TypeOK /\ calls # << >>
      BY <1>3 DEF MainInv, Wits, Library, DialogShown, DialogEnds, DialogEnded, DestroyHosted,
                  HostedRefuses, NextHosted, Refused, NoneHosted, AtHosted, At
    <2>2. Sound(Top) /\ Top.op \in {"create", "dialog", "destroy", "end"}
      BY <2>1, TopType, TopSound
    <2>3. CASE DialogShown
      <3>1. /\ Top.op = "dialog" /\ calls' = Moved("loop")
            /\ UNCHANGED <<DataType, links, root, desktop>>
        BY <2>2, <2>3 DEF DialogShown, At, Sound, trace
      <3>2. QED
        BY <2>1, <3>1, MovedStep DEF PCs, Free
    <2>4. CASE DialogEnds
      BY <2>4, DialogEndsStep
    <2>5. CASE DialogEnded
      <3>1. /\ Top.op # "create" /\ Return(TRUE) /\ Result(TRUE) /\ TRUE \in BOOLEAN
            /\ UNCHANGED <<DataType, links, root, desktop>>
        BY <2>2, <2>5 DEF DialogEnded, Sound, Result, trace
      <3>2. QED
        BY <2>1, <3>1, ReturnsStep
    <2>6. CASE DestroyHosted
      BY <2>6, DestroyHostedStep
    <2>7. CASE HostedRefuses \/ NoneHosted
      <3>1. /\ Top.op = "destroy" /\ UNCHANGED <<DataType, links, root, desktop>>
            /\ calls' = Moved("refused") \/ calls' = Moved("MSG_DESTROY")
        BY <2>2, <2>7 DEF HostedRefuses, NoneHosted, AtHosted, At, Sound, trace
      <3>2. CASE calls' = Moved("refused")
        BY <2>1, <3>1, <3>2, MovedStep DEF PCs
      <3>3. CASE calls' = Moved("MSG_DESTROY")
        BY <2>1, <3>1, <3>3, MovedStep DEF PCs, Free
      <3>4. QED
        BY <3>1, <3>2, <3>3
    <2>8. CASE NextHosted
      BY <2>8, NextHostedStep
    <2>9. CASE Refused
      <3>1. /\ Top.op # "create" /\ Return(FALSE) /\ Result(FALSE) /\ FALSE \in BOOLEAN
            /\ UNCHANGED <<DataType, links, root, desktop>>
        BY <2>9 DEF Refused, Result, trace
      <3>2. QED
        BY <2>1, <3>1, ReturnsStep
    <2>10. QED
      BY <1>3, <2>3, <2>4, <2>5, <2>6, <2>7, <2>8, <2>9 DEF Library
  <1>4. QED
    BY <1>1, <1>2, <1>3 DEF Next

LEMMA InvStep ==
  ASSUME MainInv, Careful, [Next]_vars
  PROVE  MainInv' /\ ("timers" \notin Careless /\ NoTrace => NoTrace')
  <1>1. CASE Next
    <2>1. TypeOK'
      BY <1>1, ProgramTypes, AnswerTypes, LibraryTypes DEF Next
    <2>2. TracesKept
      BY <1>1, ProgramTraces, AnswerTraces, LibraryTraces DEF Next
    <2>3. Kept
      BY <1>1, <2>1, StepKept
    <2>4. QED
      BY <2>1, <2>2, <2>3 DEF Kept, TracesKept, MainInv, Wits
  <1>2. CASE UNCHANGED vars
    <2>1. UNCHANGED <<DataType, links, root, trace, disabled, calls>> /\ TypeOK
      BY <1>2 DEF vars, MainInv, Wits
    <2>2. TypeOK'
      BY <2>1 DEF TypeOK, links, root, trace
    <2>3. Kept
      BY <2>1, <2>2, TracesStep DEF trace
    <2>4. TracesKept
      BY <2>1, NoneGoes DEF trace, Valid
    <2>5. QED
      BY <2>2, <2>3, <2>4 DEF Kept, TracesKept, MainInv, Wits
  <1>3. QED
    BY <1>1, <1>2

LEMMA InvHolds ==
  ASSUME Careful
  PROVE  Spec => []MainInv
  <1>1. MainInv /\ [Next]_vars => MainInv'
    BY InvStep
  <1>2. QED
    BY <1>1, InitHolds, PTL DEF Spec

LEMMA InvImplies ==
  ASSUME MainInv
  PROVE  TypeOK /\ HostingKept /\ RootLast
  <1>1. PICK d \in Ranks, r \in Ranks : TreeInv(d) /\ ListInv(r)
    BY DEF MainInv, Lists
  <1>2. TypeOK /\ HostingKept /\ nrWindows = Cardinality(Living)
    BY <1>1 DEF ListInv, MainInv, Wits, CountInv
  <1>3. pRootMainWin = NULL => nrWindows = 0
    BY <1>1, <1>2, FS_EmptySet DEF TreeInv, Living
  <1>4. QED
    BY <1>1, <1>2, <1>3 DEF RootLast, TreeInv

-----------------------------------------------------------------------------
(* The variables have their types: nrWindows is never decremented below    *)
(* zero, and no call under way is about something that is not a window.    *)
THEOREM TypesHold ==
  ASSUME Careful
  PROVE  Spec => []TypeOK
  <1>1. MainInv => TypeOK
    BY InvImplies
  <1>2. QED
    BY <1>1, InvHolds, PTL

(* The lists of hosted windows and the hosts of the windows agree, for any *)
(* number of windows and any depth of calls: what DestroyMainWindow walks  *)
(* along is what it has to destroy, although each window procedure that it *)
(* calls may create and destroy other windows.                             *)
THEOREM HostingHolds ==
  ASSUME Careful
  PROVE  Spec => []HostingKept
  <1>1. MainInv => HostingKept
    BY InvImplies
  <1>2. QED
    BY <1>1, InvHolds, PTL

(* The asserts of CreateMainWindowEx2 and DestroyMainWindow hold:          *)
(* nrWindows counts the windows there are, and is 0 without a root window. *)
THEOREM RootHolds ==
  ASSUME Careful
  PROVE  Spec => []RootLast
  <1>1. MainInv => RootLast
    BY InvImplies
  <1>2. QED
    BY <1>1, InvHolds, PTL

(* No timer, message or entry in the list of the desktop is left of a      *)
(* window that was destroyed or could not be created, by a program that    *)
(* sets no timer for a window whose creation it gives up.                  *)
THEOREM NoTraceHolds ==
  ASSUME Careful, "timers" \notin Careless
  PROVE  Spec => []NoTrace
  <1>1. (MainInv /\ NoTrace) /\ [Next]_vars => (MainInv /\ NoTrace)'
    BY InvStep
  <1>2. QED
    BY <1>1, InitHolds, PTL DEF Spec

(* The calls as the stack numbers them.                                    *)
LEMMA FrameOf ==
  ASSUME TypeOK, NEW i \in DOMAIN calls
  PROVE  \E k \in 1 .. Len(calls) : calls[i] = Fr(calls, k) /\ calls[i] \in Call
  <1>1. calls \in Seq(Call) /\ Len(calls) \in Nat /\ i \in 1 .. Len(calls)
    BY DEF TypeOK
  <1>2. Len(calls) - i + 1 \in 1 .. Len(calls) /\ Len(calls) - (Len(calls) - i + 1) + 1 = i
    BY <1>1
  <1>3. QED
    BY <1>1, <1>2 DEF Fr

(* What each DestroyMainWindow under way is about to use: the window, the  *)
(* hosted one that comes next, and the one after it that it has read       *)
(* before the window procedures ran.                                       *)
WalkGood ==
    \A i \in DOMAIN calls : calls[i].op = "destroy" =>
        /\ calls[i].w \in Living
        /\ calls[i].pc = "hosted" => calls[i].hosted \in Hosted(calls[i].w) \cup {NULL}
        /\ calls[i].pc \in {"calls", "next"} => calls[i].next \in Hosted(calls[i].w) \cup {NULL}

(* The pointer to the next hosted window, which DestroyMainWindow reads    *)
(* before it destroys one, is a living window of the same list when the    *)
(* window procedures have returned, whatever they have created and         *)
(* destroyed; and so is the window it is destroying all the while.         *)
THEOREM WalkHolds ==
  ASSUME Careful
  PROVE  Spec => []WalkGood
  <1>1. ASSUME MainInv PROVE WalkGood
    <2>1. PICK d \in Ranks, r \in Ranks : TreeInv(d) /\ ListInv(r)
      BY <1>1 DEF MainInv, Lists
    <2>2. TypeOK /\ FramesInv /\ HostingKept
      BY <1>1, <2>1 DEF ListInv, MainInv, Wits
    <2> SUFFICES ASSUME NEW i \in DOMAIN calls, calls[i].op = "destroy"
                 PROVE  /\ calls[i].w \in Living
                        /\ calls[i].pc = "hosted" =>
                              calls[i].hosted \in Hosted(calls[i].w) \cup {NULL}
                        /\ calls[i].pc \in {"calls", "next"} =>
                              calls[i].next \in Hosted(calls[i].w) \cup {NULL}
      BY DEF WalkGood
    <2>3. PICK k \in 1 .. Len(calls) : calls[i] = Fr(calls, k) /\ calls[i] \in Call
      BY <2>2, FrameOf
    <2> DEFINE f == calls[i]
    <2>4. f \in Call /\ f = Fr(calls, k) /\ f.op = "destroy" /\ f.w \in Windows
      BY <2>3 DEF Call
    <2>5. Sound(f)
      BY <2>2, <2>4 DEF FramesInv, Frames
    <2> HIDE DEF f
    <2>6. \A x \in Pinned(f) : x \in Living
      BY <2>2, <2>4, PinnedLiving
    <2>7. ASSUME NEW x \in Pinned(f), x # f.w PROVE x \in Hosted(f.w)
      <3>1. pHosting[x] = f.w /\ x \in Living
        BY <2>4, <2>5, <2>6, <2>7 DEF Sound
      <3>2. x # pRootMainWin
        <4>1. pRootMainWin # NULL
          BY <2>1, <3>1 DEF TreeInv, Living
        <4>2. pHosting[pRootMainWin] = NULL /\ f.w # NULL
          BY <2>1, <2>4, <4>1, MainWinAssumption DEF TreeInv
        <4>3. QED
          BY <3>1, <4>2
      <3>3. QED
        BY <2>2, <3>1, <3>2 DEF HostingKept
    <2>8. f.w \in Living
      BY <2>4, <2>6 DEF Pinned
    <2>9. f.pc = "hosted" => f.hosted \in Hosted(f.w) \cup {NULL}
      BY <2>4, <2>5, <2>7 DEF Pinned, Sound
    <2>10. f.pc \in {"calls", "next"} => f.next \in Hosted(f.w) \cup {NULL}
      BY <2>4, <2>5, <2>7 DEF Pinned, Sound
    <2>11. QED
      BY <2>8, <2>9, <2>10 DEF f
  <1>2. QED
    BY <1>1, InvHolds, PTL

-----------------------------------------------------------------------------
(* The second invariant: the dialog boxes, their DialogBox and EndDialog   *)
(* calls, and the owners that they have disabled.                          *)

(* The dialog boxes: whose call is where.                                  *)
Dlg(s, k, d) == Fr(s, k).op = "dialog" /\ Fr(s, k).w = d
Looped(s, d) == \E k \in 1 .. Len(s) : Dlg(s, k, d) /\ Fr(s, k).pc = "loop"
Ending(s, d) == \E k \in 1 .. Len(s) : Fr(s, k).op = "end" /\ Fr(s, k).w = d

(* The dialog boxes that v hosts, directly or not; those that were there   *)
(* when call l began are in their loops, and can be ended.                 *)
Under(v)       == {e \in Valid \cap Dialogs : e # v /\ v \in Up(e)}
Ready(s, l, v) == \A e \in Under(v) : \A k \in 1 .. l - 1 : Dlg(s, k, e) => Fr(s, k).pc = "loop"

(* An EndDialog waits for call l.                                          *)
Firm(s, l) == \E k \in 1 .. l : Fr(s, k).op = "end" /\ \A j \in k .. l - 1 : Fr(s, j).pc = "calls"

(* A dialog box has one DialogBox, which is there as long as its memory;   *)
DialogOK(s, l) == Fr(s, l).op = "dialog" =>
    /\ Fr(s, l).w \in Dialogs /\ DataType[Fr(s, l).w] # "none"
    /\ Fr(s, l).hosted = NULL /\ Fr(s, l).next = NULL
    /\ Fr(s, l).pc = "MSG_INITDIALOG" => Fr(s, l).w \in Valid
    /\ \A k \in 1 .. l - 1 : ~Dlg(s, k, Fr(s, l).w)

(* EndDialog is called in its loop and goes on when it is destroyed;       *)
EndOK(s, l) == Fr(s, l).op = "end" =>
    /\ \E k \in 1 .. l - 1 : Dlg(s, k, Fr(s, l).w) /\ Fr(s, k).pc = "loop"
    /\ Fr(s, l).pc = "next" => Fr(s, l).w \notin Valid

(* only DialogBox creates one, and only EndDialog destroys one.            *)
CalledOK(s, l) == Fr(s, l).w \in Dialogs /\ Fr(s, l).op \in {"create", "destroy"} =>
    /\ l > 1 /\ Fr(s, l - 1).pc = "calls"
    /\ Fr(s, l - 1).op = IF Fr(s, l).op = "create" THEN "dialog" ELSE "end"

(* What EndDialog is to destroy can be destroyed.                          *)
ReadyOK(s, l) == Fr(s, l).op \in {"destroy", "end"} =>
    /\ \A d \in Valid \cap Dialogs : Fr(s, l).w \in Up(d) => Ready(s, l, d)
    /\ Firm(s, l) => Ready(s, l, Fr(s, l).w) /\ Fr(s, l).pc # "refused"

DFrame(s, l) == DialogOK(s, l) /\ EndOK(s, l) /\ CalledOK(s, l) /\ ReadyOK(s, l)
DFrames(s)   == \A l \in 1 .. Len(s) : DFrame(s, l)

(* A step makes no window valid but a new one.                             *)
NoneBack == \A e \in Valid' \ Valid : DataType[e] = "none"

(* What hosts a valid window is valid, and is above the window itself.     *)
LEMMA UpIn ==
  ASSUME TypeOK, HostsRight, NEW e \in Valid
  PROVE  Up(e) \subseteq Valid /\ e \in Up(e)
  <1>1. pHosting \in Links /\ Valid \in SUBSET Windows /\ e \in Windows
    BY DEF TypeOK, Links, Valid
  <1>2. \A v \in Valid : pHosting[v] \in Valid \cup {NULL}
    BY DEF HostsRight
  <1>3. Reach(pHosting, e) \subseteq Valid
    BY <1>1, <1>2, ReachLeast
  <1>4. e \in Reach(pHosting, e)
    BY <1>1, ReachSelf
  <1>5. QED
    BY <1>3, <1>4 DEF Up

(* The order of the calls below l is kept, and so is what they promise.    *)
LEMMA ReadyKept ==
  ASSUME TypeOK, TypeOK', HostsKept, HostsRight, NoneBack, DFrames(calls),
         NEW t, NEW l \in 1 .. Len(calls), Keeps(calls, t, l - 1), NEW v, Ready(calls, l, v)
  PROVE  Ready(t, l, v)'
  <1>1. Len(calls) \in Nat
    BY CallsType
  <1>2. \A k \in 1 .. l - 1 : Fr(t, k) = Fr(calls, k) /\ k \in 1 .. Len(calls)
    BY <1>1 DEF Keeps
  <1>3. ASSUME NEW e \in Under(v)', NEW k \in 1 .. l - 1, Dlg(t, k, e)
        PROVE  Fr(t, k).pc = "loop"
    <2>1. Dlg(calls, k, e) /\ DataType[e] # "none"
      BY <1>2, <1>3 DEF Dlg, DFrames, DFrame, DialogOK
    <2>2. e \in Valid' /\ e \in Dialogs /\ e # v /\ v \in Up(e)'
      BY DEF Under
    <2>3. e \in Valid
      BY <2>1, <2>2 DEF NoneBack
    <2>4. Up(e)' = Up(e)
      BY <2>2, <2>3, UpKept
    <2>5. e \in Under(v)
      BY <2>2, <2>3, <2>4 DEF Under
    <2>6. QED
      BY <1>2, <2>1, <2>5 DEF Ready
  <1>4. QED
    BY <1>3 DEF Ready, Dlg

(* What has to be shown of a call g of which only the step may be another. *)
GoesOnOK(g) ==
    /\ g.op = "dialog" =>
          /\ DataType'[g.w] # "none" /\ g.hosted = NULL /\ g.next = NULL
          /\ g.pc = "MSG_INITDIALOG" => g.w \in Valid'
    /\ g.op = "end" /\ g.pc = "next" => g.w \notin Valid'

(* An EndDialog waits for call l as long as the calls up to l wait.        *)
LEMMA FirmKept ==
  ASSUME NEW s, NEW t, NEW l \in Nat \ {0}, \A k \in 1 .. l - 1 : Fr(t, k) = Fr(s, k),
         Fr(t, l).op = Fr(s, l).op, Firm(t, l)
  PROVE  Firm(s, l)
  <1>1. PICK k \in 1 .. l : Fr(t, k).op = "end" /\ \A j \in k .. l - 1 : Fr(t, j).pc = "calls"
    BY DEF Firm
  <1>2. Fr(s, k).op = "end"
    <2>1. k \in 1 .. l - 1 \/ k = l
      OBVIOUS
    <2>2. QED
      BY <1>1, <2>1
  <1>3. \A j \in k .. l - 1 : j \in 1 .. l - 1
    BY <1>1
  <1>4. \A j \in k .. l - 1 : Fr(s, j).pc = "calls"
    BY <1>1, <1>3
  <1>5. QED
    BY <1>1, <1>2, <1>4 DEF Firm

(* What call l promises holds after a step that keeps the calls below it.  *)
LEMMA FrameKept ==
  ASSUME TypeOK, TypeOK', HostsKept, HostsRight, NoneBack, DFrames(calls),
         NEW t, NEW l \in 1 .. Len(calls), Keeps(calls, t, l - 1),
         NEW f, f = Fr(calls, l), NEW g, g = Fr(t, l), g.op = f.op, g.w = f.w, GoesOnOK(g),
         g.op \in {"destroy", "end"} /\ g.pc = "refused" => ~Firm(calls, l)
  PROVE  DFrame(t, l)'
  <1>1. Len(calls) \in Nat /\ l \in Nat \ {0}
    BY CallsType
  <1>2. \A k \in 1 .. l - 1 : Fr(t, k) = Fr(calls, k) /\ k \in 1 .. Len(calls)
    BY <1>1 DEF Keeps
  <1>3. DialogOK(calls, l) /\ EndOK(calls, l) /\ CalledOK(calls, l) /\ ReadyOK(calls, l)
    BY DEF DFrames, DFrame
  <1>4. DialogOK(t, l)'
    BY <1>2, <1>3 DEF DialogOK, Dlg, GoesOnOK
  <1>5. EndOK(t, l)'
    BY <1>2, <1>3 DEF EndOK, Dlg, GoesOnOK
  <1>6. CalledOK(t, l)'
    <2>1. l > 1 => l - 1 \in 1 .. l - 1
      BY <1>1
    <2>2. QED
      BY <1>2, <1>3, <2>1 DEF CalledOK
  <1>7. ReadyOK(t, l)'
    <2> SUFFICES ASSUME f.op \in {"destroy", "end"} PROVE ReadyOK(t, l)'
      BY DEF ReadyOK
    <2>1. ASSUME NEW d \in (Valid \cap Dialogs)', g.w \in Up(d)' PROVE Ready(t, l, d)'
      <3>1. CASE d \in Valid
        <4>1. Up(d)' = Up(d)
          BY <2>1, <3>1, UpKept
        <4>2. Ready(calls, l, d)
          BY <1>3, <2>1, <3>1, <4>1 DEF ReadyOK
        <4>3. QED
          BY <4>2, ReadyKept
      <3>2. CASE d \notin Valid
        <4>1. ASSUME NEW e \in Under(d)', NEW k \in 1 .. l - 1, Dlg(t, k, e)
              PROVE  FALSE
          <5>1. e \in Valid' /\ d \in Up(e)' /\ Dlg(calls, k, e) /\ DataType[e] # "none"
            BY <1>2, <4>1 DEF Under, Dlg, DFrames, DFrame, DialogOK
          <5>2. e \in Valid
            BY <5>1 DEF NoneBack
          <5>3. Up(e)' = Up(e)
            BY <5>1, <5>2, UpKept
          <5>4. QED
            BY <3>2, <5>1, <5>2, <5>3, UpIn
        <4>2. QED
          BY <4>1 DEF Ready, Dlg
      <3>3. QED
        BY <3>1, <3>2
    <2>2. ASSUME Firm(t, l) PROVE Ready(t, l, g.w)' /\ g.pc # "refused"
      <3>1. Firm(calls, l)
        BY <1>1, <1>2, <2>2, FirmKept
      <3>2. Ready(calls, l, g.w)
        BY <1>3, <3>1 DEF ReadyOK
      <3>3. Ready(t, l, g.w)'
        BY <3>2, ReadyKept
      <3>4. QED
        BY <3>1, <3>3
    <2>4. QED
      BY <2>1, <2>2 DEF ReadyOK, Firm
  <1>8. QED
    BY <1>4, <1>5, <1>6, <1>7 DEF DFrame

(* The dialog boxes that have a DialogBox, that are in their loops, and    *)
(* that are being ended.                                                   *)
Shows(s) == {d \in Windows : \E k \in 1 .. Len(s) : Dlg(s, k, d)}
Loops(s) == {d \in Windows : Looped(s, d)}
Ends(s)  == {d \in Windows : Ending(s, d)}
Makes(s) == Creates(s, Len(s))

ShowOf(c) == {d \in {c.w} : c.op = "dialog"}
LoopOf(c) == {d \in {c.w} : c.op = "dialog" /\ c.pc = "loop"}
EndOf(c)  == {d \in {c.w} : c.op = "end"}

(* The four sets when the call c is made.                                  *)
LEMMA SetsPushed ==
  ASSUME NEW s \in Seq(Call), NEW c \in Call, NEW t, t = <<c>> \o s
  PROVE  /\ Shows(t) = Shows(s) \cup ShowOf(c) /\ Loops(t) = Loops(s) \cup LoopOf(c)
         /\ Ends(t) = Ends(s) \cup EndOf(c) /\ Makes(t) = Makes(s) \cup Made(c)
  <1>1. PICK n \in Nat : n = Len(s)
    OBVIOUS
  <1>2. Len(t) = n + 1 /\ Fr(t, n + 1) = c /\ \A k \in 1 .. n : Fr(t, k) = Fr(s, k)
    BY <1>1, StackPush
  <1>3. c.w \in Windows
    BY DEF Call
  <1>4. 1 .. n + 1 = (1 .. n) \cup {n + 1}
    BY <1>1
  <1>5. Shows(t) = Shows(s) \cup ShowOf(c)
    BY <1>1, <1>2, <1>3, <1>4 DEF Shows, ShowOf, Dlg
  <1>6. Loops(t) = Loops(s) \cup LoopOf(c)
    BY <1>1, <1>2, <1>3, <1>4 DEF Loops, LoopOf, Looped, Dlg
  <1>7. Ends(t) = Ends(s) \cup EndOf(c)
    BY <1>1, <1>2, <1>3, <1>4 DEF Ends, EndOf, Ending
  <1>8. Makes(t) = Makes(s) \cup Made(c)
    BY CreatesPush DEF Makes
  <1>9. QED
    BY <1>5, <1>6, <1>7, <1>8

(* A sequence is its first element and its tail.                           *)
LEMMA Whole ==
  ASSUME NEW s \in Seq(Call), s # << >>
  PROVE  s = <<s[1]>> \o Tail(s)
  <1>1. s[1] \in Call /\ [s EXCEPT ![1] = s[1]] = s
    OBVIOUS
  <1>2. QED
    BY <1>1, StackPut

(* The four sets, and what the innermost call adds to them.                *)
LEMMA SetsTop ==
  ASSUME TypeOK, calls # << >>
  PROVE  /\ Tail(calls) \in Seq(Call)
         /\ Shows(calls) = Shows(Tail(calls)) \cup ShowOf(Top)
         /\ Loops(calls) = Loops(Tail(calls)) \cup LoopOf(Top)
         /\ Ends(calls) = Ends(Tail(calls)) \cup EndOf(Top)
         /\ Makes(calls) = Makes(Tail(calls)) \cup Made(Top)
  <1>1. calls \in Seq(Call) /\ Top \in Call /\ Top = calls[1] /\ Tail(calls) \in Seq(Call)
    BY TopType, StackTop DEF TypeOK, Top
  <1>2. calls = <<Top>> \o Tail(calls)
    BY <1>1, Whole
  <1>3. PICK rest \in Seq(Call) : rest = Tail(calls)
    BY <1>1
  <1>4. PICK f \in Call : f = Top
    BY <1>1
  <1>5. PICK s : s = <<f>> \o rest
    OBVIOUS
  <1>6. /\ Shows(s) = Shows(rest) \cup ShowOf(f) /\ Loops(s) = Loops(rest) \cup LoopOf(f)
        /\ Ends(s) = Ends(rest) \cup EndOf(f) /\ Makes(s) = Makes(rest) \cup Made(f)
    BY <1>5, SetsPushed
  <1>7. s = calls
    BY <1>2, <1>3, <1>4, <1>5
  <1>8. QED
    BY <1>1, <1>3, <1>4, <1>6, <1>7

(* Whoever waits for the innermost call.                                   *)
LEMMA CallerIs ==
  ASSUME TypeOK, FramesInv, calls # << >>, NEW rest, rest = Tail(calls), rest # << >>
  PROVE  rest[1] \in Call /\ rest[1] = Fr(calls, Len(calls) - 1) /\ Calls(rest[1], Top)
  <1>1. /\ calls \in Seq(Call) /\ Len(calls) \in Nat \ {0} /\ rest \in Seq(Call)
        /\ Len(rest) = Len(calls) - 1 /\ Top = Fr(calls, Len(calls))
        /\ \A k \in 1 .. Len(calls) - 1 : Fr(rest, k) = Fr(calls, k)
    BY TopType, StackTop DEF TypeOK
  <1>2. rest[1] \in Call /\ rest[1] = Fr(rest, Len(rest)) /\ Len(rest) \in Nat \ {0}
    BY <1>1, StackTop
  <1>3. Len(calls) - 1 \in 1 .. Len(calls) - 1 /\ (Len(calls) - 1) + 1 = Len(calls)
    BY <1>1, <1>2
  <1>4. Calls(Fr(calls, Len(calls) - 1), Fr(calls, (Len(calls) - 1) + 1))
    BY <1>3 DEF FramesInv, Frames
  <1>5. QED
    BY <1>1, <1>2, <1>3, <1>4

(* The four sets when the innermost call returns.                          *)
LEMMA ReturnSets ==
  ASSUME TypeOK, FramesInv, calls # << >>, NEW ok \in BOOLEAN, Return(ok), NEW t, t = calls'
  PROVE  /\ Shows(calls) \subseteq Shows(t) \cup ShowOf(Top) \cup {d \in {Top.w} : Top.op = "create" /\ ~ok}
         /\ Loops(t) \subseteq Loops(calls) /\ Ends(t) \subseteq Ends(Tail(calls))
         /\ Ends(calls) \subseteq Ends(t) \cup EndOf(Top) /\ Makes(t) \subseteq Makes(calls)
  <1>1. PICK rest : rest = Tail(calls)
    OBVIOUS
  <1>2. /\ rest \in Seq(Call)
        /\ Shows(calls) = Shows(rest) \cup ShowOf(Top) /\ Loops(calls) = Loops(rest) \cup LoopOf(Top)
        /\ Ends(calls) = Ends(rest) \cup EndOf(Top) /\ Makes(calls) = Makes(rest) \cup Made(Top)
    BY <1>1, SetsTop
  <1>3. CASE rest = << >> \/ rest[1].pc # "calls"
    <2>1. t = rest
      BY <1>1, <1>3 DEF Return
    <2>2. QED
      BY <1>1, <1>2, <2>1
  <1>4. CASE rest # << >> /\ rest[1].pc = "calls"
    <2>1. PICK f \in Call : f = rest[1] /\ Calls(f, Top)
      BY <1>1, <1>4, CallerIs
    <2>2. PICK u : u = Tail(rest)
      OBVIOUS
    <2>3. u \in Seq(Call) /\ rest = <<f>> \o u
      BY <1>2, <1>4, <2>1, <2>2, Whole, StackTop
    <2>4. /\ Shows(rest) = Shows(u) \cup ShowOf(f) /\ Loops(rest) = Loops(u) \cup LoopOf(f)
          /\ Ends(rest) = Ends(u) \cup EndOf(f) /\ Makes(rest) = Makes(u) \cup Made(f)
      BY <2>3, SetsPushed
    <2>5. CASE f.op = "dialog" /\ ~ok
      <3>1. t = u
        BY <1>1, <1>4, <2>1, <2>2, <2>5 DEF Return
      <3>2. f.w = Top.w /\ Top.op = "create"
        BY <1>4, <2>1, <2>5 DEF Calls
      <3>3. QED
        BY <1>1, <1>2, <2>4, <2>5, <3>1, <3>2 DEF ShowOf, EndOf
    <2>6. CASE f.op = "dialog" => ok
      <3> DEFINE pc == IF f.op = "dialog" THEN "MSG_INITDIALOG" ELSE IF ok THEN "next" ELSE "refused"
      <3>1. pc \in PCs /\ pc # "loop"
        BY DEF PCs, Free
      <3>2. t = [rest EXCEPT ![1].pc = pc]
        BY <1>1, <1>4, <2>1, <2>6 DEF Return
      <3> HIDE DEF pc
      <3>3. PICK c \in Call : MovesTo(c, f, pc) /\ t = <<c>> \o u
        <4>1. /\ [rest[1] EXCEPT !.pc = pc] \in Call
              /\ [rest EXCEPT ![1].pc = pc] = <<[rest[1] EXCEPT !.pc = pc]>> \o Tail(rest)
          BY <1>2, <1>4, <3>1, PcPut
        <4>2. PICK c \in Call : c = [rest[1] EXCEPT !.pc = pc]
          BY <4>1
        <4>3. t = <<c>> \o u
          BY <2>2, <3>2, <4>1, <4>2
        <4>4. MovesTo(c, f, pc)
          BY <2>1, <4>2 DEF MovesTo
        <4>5. QED
          BY <4>3, <4>4
      <3>4. c.op = f.op /\ c.w = f.w /\ c.pc = pc
        BY <3>3 DEF MovesTo, Call
      <3>5. /\ Shows(t) = Shows(u) \cup ShowOf(c) /\ Loops(t) = Loops(u) \cup LoopOf(c)
            /\ Ends(t) = Ends(u) \cup EndOf(c) /\ Makes(t) = Makes(u) \cup Made(c)
        BY <2>3, <3>3, SetsPushed
      <3>6. ShowOf(c) = ShowOf(f) /\ LoopOf(c) = {} /\ EndOf(c) = EndOf(f) /\ Made(c) = Made(f)
        BY <3>1, <3>4 DEF ShowOf, LoopOf, EndOf, Made
      <3>7. QED
        BY <1>1, <1>2, <2>4, <3>5, <3>6
    <2>7. QED
      BY <2>5, <2>6
  <1>5. QED
    BY <1>3, <1>4

(* The four sets of the calls after the step.                              *)
LEMMA SetsNext ==
  ASSUME NEW t, t = calls'
  PROVE  /\ Shows(calls)' = Shows(t) /\ Loops(calls)' = Loops(t) /\ Ends(calls)' = Ends(t)
         /\ Makes(calls)' = Makes(t)
  BY DEF Shows, Loops, Ends, Makes, Looped, Ending, Creates, Dlg, Fr

(* The four sets when the innermost call goes on.                          *)
LEMMA ReplacedSets ==
  ASSUME TypeOK, calls # << >>, NEW c \in Call, c.op = Top.op, c.w = Top.w,
         NEW t, t = <<c>> \o Tail(calls)
  PROVE  /\ Shows(t) = Shows(calls) /\ Ends(t) = Ends(calls) /\ Makes(t) = Makes(calls)
         /\ Loops(t) \subseteq Loops(calls) \cup LoopOf(c)
  <1>1. PICK rest : rest = Tail(calls)
    OBVIOUS
  <1>2. rest \in Seq(Call)
    BY <1>1, SetsTop
  <1>3. t = <<c>> \o rest
    BY <1>1
  <1>4. ShowOf(c) = ShowOf(Top) /\ EndOf(c) = EndOf(Top) /\ Made(c) = Made(Top)
    BY DEF ShowOf, EndOf, Made
  <1>5. QED
    <2>1. /\ Shows(calls) = Shows(rest) \cup ShowOf(Top) /\ Loops(calls) = Loops(rest) \cup LoopOf(Top)
          /\ Ends(calls) = Ends(rest) \cup EndOf(Top) /\ Makes(calls) = Makes(rest) \cup Made(Top)
      BY <1>1, SetsTop
    <2>2. /\ Shows(t) = Shows(rest) \cup ShowOf(c) /\ Loops(t) = Loops(rest) \cup LoopOf(c)
          /\ Ends(t) = Ends(rest) \cup EndOf(c) /\ Makes(t) = Makes(rest) \cup Made(c)
      BY <1>2, <1>3, SetsPushed
    <2>3. QED
      BY <1>4, <2>1, <2>2

(* Whoever is being ended is valid until EndDialog goes on.                *)
LEMMA EndsValid ==
  ASSUME TypeOK, FramesInv
  PROVE  \A d \in Ends(calls) : d \in Valid \/ (calls # << >> /\ Top.op = "end" /\ Top.w = d)
  <1>1. ASSUME NEW d \in Ends(calls) PROVE d \in Valid \/ (calls # << >> /\ Top.op = "end" /\ Top.w = d)
    <2>1. PICK k \in 1 .. Len(calls) : Fr(calls, k).op = "end" /\ Fr(calls, k).w = d
      BY <1>1 DEF Ends, Ending
    <2>2. Len(calls) \in Nat \ {0} /\ calls # << >> /\ Top = Fr(calls, Len(calls))
      BY <2>1, CallsType, TopType
    <2>3. CASE k = Len(calls)
      BY <2>1, <2>2, <2>3
    <2>4. CASE k # Len(calls)
      <3>1. k \in 1 .. Len(calls) - 1 /\ k + 1 \in 1 .. Len(calls)
        BY <2>2, <2>4
      <3>2. Sound(Fr(calls, k)) /\ Sound(Fr(calls, k + 1)) /\ Calls(Fr(calls, k), Fr(calls, k + 1))
        BY <3>1 DEF FramesInv, Frames
      <3>3. Fr(calls, k).pc = "calls"
        BY <2>1, <3>2 DEF Sound, Calls, Waits, Free
      <3>4. Fr(calls, k + 1).op = "destroy" /\ Fr(calls, k + 1).w = d
        BY <2>1, <3>2, <3>3 DEF Calls
      <3>5. QED
        BY <3>2, <3>4 DEF Sound, Pinned
    <2>5. QED
      BY <2>3, <2>4
  <1>2. QED
    BY <1>1

(* What the step does to the m outermost DialogBox calls.                  *)
DlgSpared(m) ==
    \A k \in 1 .. m : Fr(calls, k).op = "dialog" =>
       /\ DataType'[Fr(calls, k).w] # "none"
       /\ Fr(calls, k).pc = "MSG_INITDIALOG" => Fr(calls, k).w \in Valid'

(* The state as far as the dialog boxes go.                                *)
DlgInv == MainInv /\ DFrames(calls)

(* What holds of any step, whatever it does.                               *)
StepFacts == MainInv' /\ HostsKept /\ NoneBack

(* What the invariant and the facts of the step say, one by one.           *)
LEMMA Facts ==
  ASSUME DlgInv, StepFacts
  PROVE  TypeOK /\ TypeOK' /\ HostsKept /\ HostsRight /\ NoneBack /\ DFrames(calls) /\ FramesInv
         /\ calls \in Seq(Call) /\ Lists
  BY TreeHosts, CallsType DEF DlgInv, StepFacts, MainInv, Wits

(* A call that waits is as it was.                                         *)
LEMMA OuterGoesOn ==
  ASSUME TypeOK, FramesInv, DFrames(calls), NEW m \in 0 .. Len(calls),
         m = Len(calls) => calls = << >> \/ Top.pc \in Free, DlgSpared(m)
  PROVE  \A k \in 1 .. m : GoesOnOK(Fr(calls, k))
  <1>1. Len(calls) \in Nat /\ (Len(calls) # 0 => Top = Fr(calls, Len(calls)))
    BY CallsType, TopType
  <1>2. ASSUME NEW k \in 1 .. m PROVE GoesOnOK(Fr(calls, k))
    <2>1. Waits(Fr(calls, k))
      <3>1. CASE k = Len(calls)
        BY <1>1, <3>1 DEF Waits
      <3>2. CASE k # Len(calls)
        <4>1. Calls(Fr(calls, k), Fr(calls, k + 1))
          BY <1>1, <3>2 DEF FramesInv, Frames
        <4>2. QED
          BY <4>1 DEF Calls
      <3>3. QED
        BY <3>1, <3>2
    <2>2. Fr(calls, k).pc # "next"
      BY <2>1 DEF Waits, Free
    <2>3. DialogOK(calls, k)
      BY <1>1 DEF DFrames, DFrame
    <2>4. QED
      BY <2>2, <2>3 DEF GoesOnOK, DlgSpared, DialogOK
  <1>3. QED
    BY <1>2

(* The rigid t of a step that leaves the calls t.                          *)
LEMMA DFramesNext ==
  ASSUME NEW t, t = calls', DFrames(t)'
  PROVE  DFrames(calls)'
  <1>1. ASSUME NEW l \in 1 .. Len(calls') PROVE DFrame(calls, l)'
    <2>1. DFrame(t, l)'
      BY <1>1 DEF DFrames
    <2>2. DialogOK(calls, l)'
      BY <2>1 DEF DFrame, DialogOK, Dlg, Fr
    <2>3. EndOK(calls, l)'
      BY <2>1 DEF DFrame, EndOK, Dlg, Fr
    <2>4. CalledOK(calls, l)'
      BY <2>1 DEF DFrame, CalledOK, Fr
    <2>5. ReadyOK(calls, l)'
      BY <2>1 DEF DFrame, ReadyOK, Ready, Firm, Dlg, Fr
    <2>6. QED
      BY <2>2, <2>3, <2>4, <2>5 DEF DFrame
  <1>2. QED
    BY <1>1 DEF DFrames

(* The calls that are there after the step are those that were kept and    *)
(* others, of which it has to be shown.                                    *)
LEMMA FramesGo ==
  ASSUME DlgInv, StepFacts, NEW t, t = calls', NEW m \in Nat, Keeps(calls, t, m), DlgSpared(m),
         m = Len(calls) => calls = << >> \/ Top.pc \in Free,
         \A l \in m + 1 .. Len(t) : DFrame(t, l)'
  PROVE  DFrames(calls)'
  <1>1. TypeOK /\ TypeOK' /\ HostsKept /\ HostsRight /\ NoneBack /\ DFrames(calls) /\ FramesInv
    BY Facts
  <1>2. /\ m \in 0 .. Len(calls) /\ m <= Len(t) /\ \A k \in 1 .. m : Fr(t, k) = Fr(calls, k)
        /\ Len(calls) \in Nat
    BY <1>1, CallsType DEF Keeps
  <1>3. \A k \in 1 .. m : GoesOnOK(Fr(calls, k))
    BY <1>1, <1>2, OuterGoesOn
  <1>4. ASSUME NEW l \in 1 .. m PROVE DFrame(t, l)'
    <2>1. l \in 1 .. Len(calls) /\ l - 1 \in 0 .. Len(calls) /\ l - 1 <= Len(t)
      BY <1>2
    <2>2. Keeps(calls, t, l - 1)
      BY <1>2, <2>1 DEF Keeps
    <2>3. PICK f : f = Fr(calls, l) /\ f = Fr(t, l)
      BY <1>2
    <2>4. GoesOnOK(f)
      BY <1>3, <2>3
    <2>5. f.op \in {"destroy", "end"} /\ f.pc = "refused" => ~Firm(calls, l)
      BY <1>1, <2>1, <2>3 DEF DFrames, DFrame, ReadyOK
    <2>6. QED
      BY <1>1, <2>1, <2>2, <2>3, <2>4, <2>5, FrameKept
  <1>5. ASSUME NEW l \in 1 .. Len(t) PROVE DFrame(t, l)'
    <2>1. CASE l \in 1 .. m
      BY <1>4, <2>1
    <2>2. CASE l \in m + 1 .. Len(t)
      BY <2>2
    <2>3. QED
      BY <1>2, <2>1, <2>2
  <1>6. DFrames(t)'
    BY <1>5 DEF DFrames
  <1>7. QED
    BY <1>6, DFramesNext

(* The innermost call goes on.                                             *)
LEMMA TopGoes ==
  ASSUME DlgInv, StepFacts, calls # << >>, NEW c \in Call, calls' = <<c>> \o Tail(calls),
         c.op = Top.op, c.w = Top.w, GoesOnOK(c), DlgSpared(Len(calls) - 1),
         c.op \in {"destroy", "end"} /\ c.pc = "refused" => ~Firm(calls, Len(calls))
  PROVE  DFrames(calls)'
  <1>1. /\ TypeOK /\ TypeOK' /\ HostsKept /\ HostsRight /\ NoneBack /\ DFrames(calls) /\ FramesInv
        /\ calls \in Seq(Call)
    BY Facts
  <1>2. PICK n \in Nat \ {0} : n = Len(calls) /\ Top = Fr(calls, n)
    BY <1>1, TopType
  <1>3. PICK t : t = calls'
    OBVIOUS
  <1>4. Len(t) = n /\ Fr(t, n) = c /\ Keeps(calls, t, n - 1)
    BY <1>1, <1>2, <1>3, ReplacedShape
  <1>5. n \in 1 .. Len(calls) /\ n - 1 \in Nat /\ n - 1 # Len(calls) /\ (n - 1) + 1 = n
    BY <1>2
  <1>6. PICK f : f = Fr(calls, n)
    OBVIOUS
  <1>7. c.op = f.op /\ c.w = f.w /\ c = Fr(t, n)
    BY <1>2, <1>4, <1>6
  <1>8. DFrame(t, n)'
    BY <1>1, <1>2, <1>4, <1>5, <1>6, <1>7, FrameKept
  <1>9. \A l \in (n - 1) + 1 .. Len(t) : DFrame(t, l)'
    BY <1>4, <1>5, <1>8
  <1>10. QED
    BY <1>2, <1>3, <1>4, <1>5, <1>9, FramesGo

(* The innermost call ends.                                                *)
LEMMA TopReturns ==
  ASSUME DlgInv, StepFacts, calls # << >>, NEW ok \in BOOLEAN, NEW t, t = calls',
         NEW m \in Nat, Returned(ok, t, m), Result(ok), DlgSpared(m),
         ok /\ Top.op = "create" => Top.w \in Valid',
         ~ok => Top.op = "create" \/ ~Firm(calls, Len(calls))
  PROVE  DFrames(calls)'
  <1>1. /\ TypeOK /\ TypeOK' /\ HostsKept /\ HostsRight /\ NoneBack /\ DFrames(calls) /\ FramesInv
        /\ calls \in Seq(Call)
    BY Facts
  <1>2. PICK n \in Nat \ {0} : n = Len(calls) /\ Top = Fr(calls, n)
    BY <1>1, TopType
  <1>3. /\ Keeps(calls, t, m) /\ m # Len(calls)
        /\ Len(t) = m \/ (n = m + 2 /\ Len(t) = m + 1)
    BY <1>2 DEF Returned
  <1>4. ASSUME n = m + 2, Len(t) = m + 1 PROVE DFrame(t, m + 1)'
    <2>1. PICK f : f = Fr(calls, m + 1)
      OBVIOUS
    <2>2. PICK g : g = Fr(t, m + 1)
      OBVIOUS
    <2>3. f \in Call /\ m + 1 \in 1 .. Len(calls) /\ (m + 1) - 1 = m /\ (m + 1) + 1 = n
      <3>1. m + 1 \in 1 .. Len(calls) /\ (m + 1) - 1 = m /\ (m + 1) + 1 = n
        BY <1>2, <1>4
      <3>2. QED
        BY <1>1, <2>1, <3>1, StackType
    <2>4. /\ f.pc = "calls" /\ (f.op = "dialog" => ok)
          /\ g = [f EXCEPT !.pc = IF f.op = "dialog" THEN "MSG_INITDIALOG"
                                  ELSE IF ok THEN "next" ELSE "refused"]
      BY <1>2, <1>4, <2>1, <2>2 DEF Returned
    <2>5. /\ g.op = f.op /\ g.w = f.w /\ g.hosted = f.hosted /\ g.next = f.next
          /\ g.pc = IF f.op = "dialog" THEN "MSG_INITDIALOG" ELSE IF ok THEN "next" ELSE "refused"
      BY <2>3, <2>4 DEF Call
    <2>6. Calls(f, Top) /\ DialogOK(calls, m + 1)
      BY <1>1, <1>2, <1>4, <2>1, <2>3 DEF FramesInv, Frames, DFrames, DFrame
    <2>7. GoesOnOK(g)
      <3>1. CASE f.op = "dialog"
        <4>1. Top.op = "create" /\ Top.w = g.w /\ ok
          BY <2>4, <2>5, <2>6, <3>1 DEF Calls
        <4>2. g.w \in Valid' /\ DataType'[g.w] # "none"
          BY <4>1 DEF Valid
        <4>3. QED
          BY <2>1, <2>5, <2>6, <3>1, <4>2 DEF GoesOnOK, DialogOK
      <3>2. CASE f.op = "end"
        <4>1. Top.op = "destroy" /\ Top.w = g.w
          BY <2>4, <2>5, <2>6, <3>2 DEF Calls
        <4>2. g.pc = "next" => DataType'[g.w] = "TYPE_WINTODEL"
          BY <2>5, <3>2, <4>1 DEF Result
        <4>3. QED
          BY <2>5, <3>2, <4>2 DEF GoesOnOK, Valid
      <3>3. QED
        BY <2>5, <3>1, <3>2 DEF GoesOnOK
    <2>8. ASSUME g.op \in {"destroy", "end"}, g.pc = "refused", Firm(calls, m + 1) PROVE FALSE
      <3>1. ~ok
        BY <2>5, <2>8
      <3>2. Top.op # "create"
        BY <2>4, <2>5, <2>6, <2>8 DEF Calls
      <3>3. PICK k \in 1 .. m + 1 : Fr(calls, k).op = "end" /\ \A j \in k .. m : Fr(calls, j).pc = "calls"
        BY <2>3, <2>8 DEF Firm
      <3>4. \A j \in k .. n - 1 : Fr(calls, j).pc = "calls"
        <4>1. \A j \in k .. n - 1 : j \in k .. m \/ j = m + 1
          BY <1>4
        <4>2. QED
          BY <2>1, <2>4, <3>3, <4>1
      <3>5. k \in 1 .. n
        BY <1>4
      <3>6. Firm(calls, n)
        BY <3>3, <3>4, <3>5 DEF Firm
      <3>7. QED
        BY <1>2, <3>1, <3>2, <3>6
    <2>9. PICK l : l = m + 1
      OBVIOUS
    <2>10. l \in 1 .. Len(calls) /\ Keeps(calls, t, l - 1) /\ f = Fr(calls, l) /\ g = Fr(t, l)
      BY <1>3, <2>1, <2>2, <2>3, <2>9
    <2>11. g.op \in {"destroy", "end"} /\ g.pc = "refused" => ~Firm(calls, l)
      BY <2>8, <2>9
    <2>12. DFrame(t, l)'
      BY <1>1, <2>5, <2>7, <2>10, <2>11, FrameKept
    <2>13. QED
      BY <2>9, <2>12
  <1>5. \A l \in m + 1 .. Len(t) : DFrame(t, l)'
    <2>1. CASE Len(t) = m
      BY <2>1
    <2>2. CASE n = m + 2 /\ Len(t) = m + 1
      BY <1>4, <2>2
    <2>3. QED
      BY <1>3, <2>1, <2>2
  <1>6. QED
    BY <1>3, <1>5, FramesGo

(* The dialog boxes that are there or are being ended, and those of them   *)
(* for which an owner may be disabled.                                     *)
Current == {d \in Dialogs : d \in Valid \/ d \in Ends(calls)}
Back(d) == d \in Dialogs /\ (d \in Ends(calls) \/ (d \in Valid /\ d \notin Makes(calls)))

OwnersInv ==
    /\ Valid \cap Dialogs \subseteq Shows(calls)
    /\ \A d, e \in Current : pHosting[d] = pHosting[e] /\ pHosting[d] # NULL => d = e
    /\ \A d \in Valid \cap Loops(calls) : pHosting[d] # NULL => pHosting[d] \in disabled
    /\ \A w \in disabled : \E d \in Dialogs : Back(d) /\ pHosting[d] = w

(* No dialog box is new, and those of G go without having been shown.      *)
Calm(t, G) ==
    /\ Valid' \cap Dialogs \subseteq Valid \ G
    /\ Valid \cap Dialogs \subseteq Valid' \cup Ends(t) \cup G
    /\ Shows(calls) \subseteq Shows(t) \cup G
    /\ Ends(t) \cap Dialogs \subseteq (Ends(calls) \cup Valid) \ G
    /\ Ends(calls) \subseteq Ends(t)
    /\ Loops(t) \subseteq Loops(calls)
    /\ Makes(t) \cap Dialogs \subseteq Makes(calls)
    /\ \A d \in Dialogs \ G : pHosting'[d] = pHosting[d]
    /\ G \cap Ends(calls) = {} /\ G \cap Valid \subseteq Makes(calls)
    /\ disabled' = disabled

(* Only a dialog box has a DialogBox.                                      *)
LEMMA LoopsIn ==
  ASSUME NEW s, DFrames(s)
  PROVE  Loops(s) \subseteq Dialogs /\ Shows(s) \subseteq Dialogs
  BY DEF Loops, Looped, Shows, Dlg, DFrames, DFrame, DialogOK

(* Where no dialog box is new, every owner stays disabled that was.        *)
LEMMA CalmStep ==
  ASSUME OwnersInv, NEW t, t = calls', NEW G, Calm(t, G), Loops(calls) \subseteq Dialogs
  PROVE  OwnersInv'
  <1>1. Shows(calls)' = Shows(t) /\ Loops(calls)' = Loops(t) /\ Ends(calls)' = Ends(t) /\ Makes(calls)' = Makes(t)
    BY SetsNext
  <1>2. Current' \subseteq Current \ G
    BY <1>1 DEF Calm, Current
  <1>3. \A d \in Current' : pHosting'[d] = pHosting[d]
    BY <1>2 DEF Calm, Current
  <1>4. \A d \in Dialogs : Back(d) => Back(d)' /\ pHosting'[d] = pHosting[d]
    BY <1>1 DEF Calm, Back
  <1>5. (Valid \cap Dialogs \subseteq Shows(calls))'
    BY <1>1 DEF Calm, OwnersInv
  <1>6. \A d, e \in Current' : pHosting'[d] = pHosting'[e] /\ pHosting'[d] # NULL => d = e
    BY <1>2, <1>3 DEF OwnersInv
  <1>7. ASSUME NEW d \in (Valid \cap Loops(calls))', pHosting'[d] # NULL PROVE pHosting'[d] \in disabled'
    <2>1. d \in Dialogs /\ d \in Loops(calls) /\ d \in Valid \ G
      BY <1>1, <1>7 DEF Calm
    <2>2. pHosting'[d] = pHosting[d] /\ disabled' = disabled
      BY <2>1 DEF Calm
    <2>3. QED
      BY <1>7, <2>1, <2>2 DEF OwnersInv
  <1>8. ASSUME NEW w \in disabled' PROVE \E d \in Dialogs : Back(d)' /\ pHosting'[d] = w
    <2>1. w \in disabled
      BY DEF Calm
    <2>2. PICK d \in Dialogs : Back(d) /\ pHosting[d] = w
      BY <2>1 DEF OwnersInv
    <2>3. QED
      BY <1>4, <2>2
  <1>9. QED
    BY <1>5, <1>6, <1>7, <1>8 DEF OwnersInv

(* The memory of w is other than before.                                   *)
LEMMA SparedBut ==
  ASSUME DlgInv, NEW m \in 0 .. Len(calls), NEW w \in Windows, NEW v, DataType' = Put(DataType, w, v),
         \A k \in 1 .. m : Dlg(calls, k, w) => v # "none" /\ Fr(calls, k).pc # "MSG_INITDIALOG"
  PROVE  DlgSpared(m)
  <1>1. TypeOK /\ DFrames(calls) /\ Len(calls) \in Nat
    BY CallsType DEF DlgInv, MainInv, Wits
  <1>2. ASSUME NEW k \in 1 .. m, Fr(calls, k).op = "dialog"
        PROVE  /\ DataType'[Fr(calls, k).w] # "none"
               /\ Fr(calls, k).pc = "MSG_INITDIALOG" => Fr(calls, k).w \in Valid'
    <2>1. DialogOK(calls, k)
      BY <1>1 DEF DFrames, DFrame
    <2>2. CASE Fr(calls, k).w = w
      BY <1>1, <1>2, <2>2 DEF Put, TypeOK, Dlg
    <2>3. CASE Fr(calls, k).w # w
      BY <1>1, <1>2, <2>1, <2>3, MainWinAssumption DEF Put, TypeOK, DialogOK, Valid
    <2>4. QED
      BY <2>2, <2>3
  <1>3. QED
    BY <1>2 DEF DlgSpared

(* A step that leaves the memory of the windows alone.                     *)
LEMMA SparedSame ==
  ASSUME DlgInv, NEW m \in 0 .. Len(calls), DataType' = DataType
  PROVE  DlgSpared(m)
  <1>1. TypeOK /\ DFrames(calls) /\ Len(calls) \in Nat
    BY CallsType DEF DlgInv, MainInv, Wits
  <1>2. QED
    BY <1>1 DEF DlgSpared, DFrames, DFrame, DialogOK, Valid

(* A dialog box has one DialogBox.                                         *)
LEMMA OneDialog ==
  ASSUME DlgInv, NEW k \in 1 .. Len(calls), NEW l \in 1 .. Len(calls), NEW d,
         Dlg(calls, k, d), Dlg(calls, l, d)
  PROVE  k = l
  <1>1. Len(calls) \in Nat /\ DialogOK(calls, k) /\ DialogOK(calls, l)
    BY CallsType DEF DlgInv, MainInv, Wits, DFrames, DFrame
  <1>2. k \in Nat /\ l \in Nat /\ ~(k < l) /\ ~(l < k)
    BY <1>1 DEF DialogOK, Dlg
  <1>3. QED
    BY <1>2

(* Nothing but the call of a dialog box can create or destroy it.          *)
LEMMA DialogCaller ==
  ASSUME DlgInv, calls # << >>, Top.w \in Dialogs, Top.op \in {"create", "destroy"},
         NEW n, n = Len(calls)
  PROVE  /\ n - 1 \in 1 .. n /\ Fr(calls, n - 1).pc = "calls" /\ Fr(calls, n - 1).w = Top.w
         /\ Fr(calls, n - 1).op = IF Top.op = "create" THEN "dialog" ELSE "end"
  <1>1. TypeOK /\ FramesInv /\ DFrames(calls)
    BY DEF DlgInv, MainInv, Wits
  <1>2. n \in Nat \ {0} /\ Top = Fr(calls, n)
    BY <1>1, TopType
  <1>3. CalledOK(calls, n)
    BY <1>1, <1>2 DEF DFrames, DFrame
  <1>4. /\ n > 1 /\ Fr(calls, n - 1).pc = "calls"
        /\ Fr(calls, n - 1).op = IF Top.op = "create" THEN "dialog" ELSE "end"
    BY <1>2, <1>3 DEF CalledOK
  <1>5. n - 1 \in 1 .. Len(calls) - 1 /\ (n - 1) + 1 = n
    BY <1>2, <1>4
  <1>6. Calls(Fr(calls, n - 1), Top)
    BY <1>1, <1>2, <1>5 DEF FramesInv, Frames
  <1>7. QED
    BY <1>4, <1>5, <1>6 DEF Calls

AllInv == DlgInv /\ OwnersInv
DlgKept == DFrames(calls)' /\ OwnersInv'

(* A step that leaves the windows alone keeps what the calls promise.      *)
LEMMA SameDFrame ==
  ASSUME UNCHANGED <<DataType, pHosting>>, NEW t, NEW l, DFrame(t, l)
  PROVE  DFrame(t, l)'
  BY DEF DFrame, DialogOK, EndOK, CalledOK, ReadyOK, Ready, Under, Up, Valid, Firm, Dlg

(* Neither the calls nor what is shown change.                             *)
LEMMA TracesDlg ==
  ASSUME AllInv, UNCHANGED <<DataType, links, disabled, calls>>
  PROVE  DlgKept
  <1>1. PICK t : t = calls
    OBVIOUS
  <1>2. t = calls' /\ UNCHANGED <<DataType, pHosting>>
    BY <1>1 DEF links
  <1>3. ASSUME NEW l \in 1 .. Len(t) PROVE DFrame(t, l)'
    <2>1. DFrame(t, l)
      BY <1>1, <1>3 DEF AllInv, DlgInv, DFrames
    <2>2. QED
      BY <1>2, <2>1, SameDFrame
  <1>4. DFrames(t)'
    BY <1>3 DEF DFrames
  <1>5. OwnersInv'
    <2>1. Valid' = Valid
      BY DEF Valid
    <2>2. Shows(calls)' = Shows(calls) /\ Loops(calls)' = Loops(calls) /\ Ends(calls)' = Ends(calls) /\ Makes(calls)' = Makes(calls)
      BY <1>1, <1>2, SetsNext
    <2>3. Current' = Current /\ \A d \in Dialogs : Back(d)' = Back(d)
      BY <2>1, <2>2 DEF Current, Back
    <2>4. QED
      BY <2>1, <2>2, <2>3 DEF OwnersInv, AllInv, links
  <1>6. QED
    BY <1>2, <1>4, <1>5, DFramesNext DEF DlgKept

(* CalmStep, from the whole invariant.                                     *)
LEMMA CalmHolds ==
  ASSUME AllInv, NEW t, t = calls', NEW G, Calm(t, G)
  PROVE  OwnersInv'
  <1>1. Loops(calls) \subseteq Dialogs
    BY LoopsIn DEF AllInv, DlgInv
  <1>2. QED
    BY <1>1, CalmStep DEF AllInv

(* MainWindowCleanup is for windows that are no dialog boxes.              *)
LEMMA CleanupDlg ==
  ASSUME AllInv, StepFacts, NEW w \in Windows, MainWindowCleanup(w)
  PROVE  DlgKept
  <1>1. /\ w \notin Dialogs /\ w \notin Valid /\ DataType' = Put(DataType, w, "none") /\ Wiped(w) /\ Runs
        /\ UNCHANGED <<disabled, calls>>
    BY DEF MainWindowCleanup, Valid
  <1>2. DlgInv /\ TypeOK /\ DFrames(calls) /\ calls \in Seq(Call) /\ Lists
    BY Facts DEF AllInv
  <1>3. PICK n \in Nat : n = Len(calls) /\ n \in 0 .. Len(calls)
    BY <1>2, CallsType
  <1>4. PICK t : t = calls
    OBVIOUS
  <1>5. t = calls' /\ Keeps(calls, t, n) /\ Len(t) = n
    BY <1>1, <1>3, <1>4 DEF Keeps
  <1>6. DlgSpared(n)
    <2>1. \A k \in 1 .. n : ~Dlg(calls, k, w)
      BY <1>1, <1>2, <1>3 DEF DFrames, DFrame, DialogOK, Dlg
    <2>2. QED
      BY <1>1, <1>2, <1>3, <2>1, SparedBut
  <1>7. DFrames(calls)'
    <2>1. \A l \in n + 1 .. Len(t) : DFrame(t, l)'
      BY <1>5
    <2>2. n = Len(calls) => calls = << >> \/ Top.pc \in Free
      BY <1>1 DEF Runs
    <2>3. QED
      BY <1>2, <1>5, <1>6, <2>1, <2>2, FramesGo
  <1>8. Valid' = Valid
    BY <1>1, <1>2, WipedSame
  <1>9. \A d \in Dialogs : pHosting'[d] = pHosting[d]
    BY <1>1, <1>2, MainWinAssumption DEF Wiped, Put, TypeOK
  <1>10. Calm(t, {})
    BY <1>1, <1>4, <1>8, <1>9 DEF Calm
  <1>11. QED
    BY <1>5, <1>7, <1>10, CalmHolds DEF DlgKept

(* t is s with the call c on it.                                           *)
On(t, c, s) == t = <<c>> \o s

(* What is on the stack after a call.                                      *)
LEMMA OnShape ==
  ASSUME NEW s \in Seq(Call), NEW c \in Call, NEW t, On(t, c, s)
  PROVE  /\ t \in Seq(Call) /\ Len(t) = Len(s) + 1 /\ Fr(t, Len(s) + 1) = c /\ Len(s) \in Nat
         /\ \A k \in 1 .. Len(s) : Fr(t, k) = Fr(s, k)
  BY StackPush DEF On

(* The four sets after a call.                                             *)
LEMMA OnSets ==
  ASSUME NEW s \in Seq(Call), NEW c \in Call, NEW t, On(t, c, s)
  PROVE  /\ Shows(t) = Shows(s) \cup ShowOf(c) /\ Loops(t) = Loops(s) \cup LoopOf(c)
         /\ Ends(t) = Ends(s) \cup EndOf(c) /\ Makes(t) = Makes(s) \cup Made(c)
  BY SetsPushed DEF On

(* A window that is allocated was no dialog box of any call.               *)
LEMMA AllocatedDlg ==
  ASSUME AllInv, NEW w \in Windows, NEW h, Allocated(w, h)
  PROVE  /\ DlgSpared(Len(calls)) /\ w \notin Valid /\ Valid' = Valid \cup {w}
         /\ w \notin Shows(calls) /\ w \notin Loops(calls) /\ DataType'[w] # "none"
         /\ pHosting' = Put(pHosting, w, IF pRootMainWin = NULL THEN NULL ELSE HostFor(h))
         /\ \A k \in 1 .. Len(calls) : ~Dlg(calls, k, w)
  <1>1. DlgInv /\ MainInv /\ TypeOK /\ DFrames(calls) /\ DataType' = Put(DataType, w, "TYPE_HWND")
        /\ DataType[w] = "none" /\ Len(calls) \in 0 .. Len(calls)
    BY CallsType DEF AllInv, DlgInv, MainInv, Wits, Allocated
  <1>2. \A k \in 1 .. Len(calls) : ~Dlg(calls, k, w)
    BY <1>1 DEF DFrames, DFrame, DialogOK, Dlg
  <1>3. DlgSpared(Len(calls))
    BY <1>1, <1>2, SparedBut
  <1>4. w \notin Shows(calls) /\ w \notin Loops(calls)
    BY <1>2 DEF Shows, Loops, Looped
  <1>5. w \notin Valid /\ Valid' = Valid \cup {w} /\ DataType'[w] # "none"
    BY <1>1 DEF TypeOK, Valid, Put
  <1>6. QED
    BY <1>2, <1>3, <1>4, <1>5 DEF Allocated

(* CreateMainWindow is not for a dialog box, and shows none.               *)
LEMMA CreateMainWindowDlg ==
  ASSUME AllInv, StepFacts, NEW w \in Windows, NEW h, CreateMainWindow(w, h)
  PROVE  DlgKept
  <1>1. /\ Allocated(w, h) /\ Runs /\ w \notin Dialogs /\ disabled' = disabled
        /\ calls' = <<New("create", w, "MSG_NCCREATE")>> \o calls
    BY DEF CreateMainWindow, Allocated, Pushed
  <1>2. DlgInv /\ TypeOK /\ calls \in Seq(Call)
    BY Facts DEF AllInv
  <1>3. PICK n \in Nat : n = Len(calls)
    BY <1>2, CallsType
  <1>4. PICK c \in Call : c = New("create", w, "MSG_NCCREATE") /\ c.op = "create" /\ c.w = w
    BY NewCall DEF PCs, Free
  <1>5. PICK t : t = calls'
    OBVIOUS
  <1>6. PICK s \in Seq(Call) : s = calls
    BY <1>2
  <1>7. On(t, c, s)
    BY <1>1, <1>4, <1>5, <1>6 DEF On
  <1>8. Len(t) = n + 1 /\ Fr(t, n + 1) = c /\ Keeps(calls, t, n)
    <2>1. Len(t) = Len(s) + 1 /\ Fr(t, Len(s) + 1) = c /\ \A k \in 1 .. Len(s) : Fr(t, k) = Fr(s, k)
      BY <1>4, <1>6, <1>7, OnShape
    <2>2. QED
      BY <1>3, <1>6, <2>1 DEF Keeps
  <1>9. DFrames(calls)'
    <2>1. DFrame(t, n + 1)'
      BY <1>1, <1>4, <1>8 DEF DFrame, DialogOK, EndOK, CalledOK, ReadyOK
    <2>2. \A l \in n + 1 .. Len(t) : DFrame(t, l)'
      <3>1. \A l \in n + 1 .. Len(t) : l = n + 1
        BY <1>8
      <3>2. QED
        BY <2>1, <3>1
    <2>3. n = Len(calls) => calls = << >> \/ Top.pc \in Free
      BY <1>1 DEF Runs
    <2>4. QED
      BY <1>1, <1>2, <1>3, <1>5, <1>8, <2>2, <2>3, AllocatedDlg, FramesGo
  <1>10. Calm(t, {})
    <2>1. ShowOf(c) = {} /\ LoopOf(c) = {} /\ EndOf(c) = {} /\ Made(c) = {w}
      BY <1>4 DEF ShowOf, LoopOf, EndOf, Made
    <2>2. Shows(t) = Shows(calls) /\ Loops(t) = Loops(calls) /\ Ends(t) = Ends(calls) /\ Makes(t) = Makes(calls) \cup {w}
      <3>1. /\ Shows(t) = Shows(s) \cup ShowOf(c) /\ Loops(t) = Loops(s) \cup LoopOf(c)
            /\ Ends(t) = Ends(s) \cup EndOf(c) /\ Makes(t) = Makes(s) \cup Made(c)
        BY <1>4, <1>6, <1>7, OnSets
      <3>2. QED
        BY <1>6, <2>1, <3>1
    <2>3. Valid' = Valid \cup {w} /\ pHosting' = Put(pHosting, w, IF pRootMainWin = NULL THEN NULL ELSE HostFor(h))
      BY <1>1, AllocatedDlg
    <2>4. \A d \in Dialogs : pHosting'[d] = pHosting[d]
      BY <1>1, <1>2, <2>3, MainWinAssumption DEF Put, TypeOK
    <2>5. QED
      BY <1>1, <2>2, <2>3, <2>4 DEF Calm
  <1>11. QED
    BY <1>5, <1>9, <1>10, CalmHolds DEF DlgKept

(* DialogBox: a box of its own for an owner that has no other.             *)
LEMMA DialogBoxDlg ==
  ASSUME AllInv, StepFacts, "owner" \notin Careless, NEW w \in Windows, NEW h, DialogBox(w, h)
  PROVE  DlgKept
  <1>1. /\ Allocated(w, h) /\ Runs /\ w \in Dialogs /\ disabled' = disabled /\ MayOwn(h)
        /\ calls' = <<New("create", w, "MSG_NCCREATE")>> \o (<<New("dialog", w, "calls")>> \o calls)
    BY DEF DialogBox, Allocated, Pushed
  <1>2. DlgInv /\ TypeOK /\ calls \in Seq(Call) /\ FramesInv
    BY Facts DEF AllInv
  <1>3. PICK n \in Nat : n = Len(calls)
    BY <1>2, CallsType
  <1>4. PICK c \in Call : c = New("create", w, "MSG_NCCREATE") /\ c.op = "create" /\ c.w = w
    BY NewCall DEF PCs, Free
  <1>5. PICK b \in Call : b = New("dialog", w, "calls") /\ b.op = "dialog" /\ b.w = w /\ b.pc = "calls"
                          /\ b.hosted = NULL /\ b.next = NULL
    <2>1. New("dialog", w, "calls") \in Call
      BY NewCall DEF PCs
    <2>2. QED
      BY <2>1 DEF New
  <1>6. PICK s \in Seq(Call) : s = calls
    BY <1>2
  <1>7. PICK u : On(u, b, s)
    BY DEF On
  <1>8. /\ u \in Seq(Call) /\ Len(u) = n + 1 /\ Fr(u, n + 1) = b
        /\ \A k \in 1 .. n : Fr(u, k) = Fr(calls, k)
    <2>1. u \in Seq(Call) /\ Len(u) = Len(s) + 1 /\ Fr(u, Len(s) + 1) = b /\ \A k \in 1 .. Len(s) : Fr(u, k) = Fr(s, k)
      BY <1>5, <1>6, <1>7, OnShape
    <2>2. QED
      BY <1>3, <1>6, <2>1
  <1>9. PICK t : On(t, c, u)
    BY DEF On
  <1>10. t = calls'
    BY <1>1, <1>4, <1>5, <1>6, <1>7, <1>9 DEF On
  <1>11. /\ Len(t) = n + 2 /\ Fr(t, n + 2) = c /\ Fr(t, n + 1) = b
         /\ \A k \in 1 .. n : Fr(t, k) = Fr(calls, k)
    <2>1. Len(t) = Len(u) + 1 /\ Fr(t, Len(u) + 1) = c /\ \A k \in 1 .. Len(u) : Fr(t, k) = Fr(u, k)
      BY <1>4, <1>8, <1>9, OnShape
    <2>2. (n + 1) + 1 = n + 2
      OBVIOUS
    <2>3. QED
      BY <1>8, <2>1, <2>2
  <1>12. Keeps(calls, t, n)
    BY <1>3, <1>11 DEF Keeps
  <1>13. DFrames(calls)'
    <2>1. DFrame(t, n + 1)'
      <3>1. \A k \in 1 .. (n + 1) - 1 : ~Dlg(t, k, w)
        BY <1>1, <1>3, <1>11, AllocatedDlg DEF Dlg
      <3>2. DataType'[w] # "none"
        BY <1>1, AllocatedDlg
      <3>3. QED
        BY <1>1, <1>5, <1>11, <3>1, <3>2 DEF DFrame, DialogOK, EndOK, CalledOK, ReadyOK, Dlg
    <2>2. DFrame(t, n + 2)'
      <3>1. (n + 2) - 1 = n + 1 /\ n + 2 > 1
        OBVIOUS
      <3>2. QED
        BY <1>4, <1>5, <1>11, <3>1 DEF DFrame, DialogOK, EndOK, CalledOK, ReadyOK
    <2>3. \A l \in n + 1 .. Len(t) : DFrame(t, l)'
      <3>1. \A l \in n + 1 .. Len(t) : l = n + 1 \/ l = n + 2
        BY <1>11
      <3>2. QED
        BY <2>1, <2>2, <3>1
    <2>4. n = Len(calls) => calls = << >> \/ Top.pc \in Free
      BY <1>1 DEF Runs
    <2>5. DlgSpared(n)
      BY <1>1, <1>3, AllocatedDlg
    <2>6. QED
      BY <1>2, <1>10, <1>12, <2>3, <2>4, <2>5, FramesGo
  <1>14. /\ Shows(t) = Shows(calls) \cup {w} /\ Loops(t) = Loops(calls) /\ Ends(t) = Ends(calls)
         /\ Makes(t) = Makes(calls) \cup {w}
    <2>1. /\ ShowOf(c) = {} /\ LoopOf(c) = {} /\ EndOf(c) = {} /\ Made(c) = {w}
          /\ ShowOf(b) = {w} /\ LoopOf(b) = {} /\ EndOf(b) = {} /\ Made(b) = {}
      BY <1>4, <1>5 DEF ShowOf, LoopOf, EndOf, Made
    <2>2. /\ Shows(u) = Shows(s) \cup ShowOf(b) /\ Loops(u) = Loops(s) \cup LoopOf(b)
          /\ Ends(u) = Ends(s) \cup EndOf(b) /\ Makes(u) = Makes(s) \cup Made(b)
      BY <1>5, <1>6, <1>7, OnSets
    <2>3. /\ Shows(t) = Shows(u) \cup ShowOf(c) /\ Loops(t) = Loops(u) \cup LoopOf(c)
          /\ Ends(t) = Ends(u) \cup EndOf(c) /\ Makes(t) = Makes(u) \cup Made(c)
      BY <1>4, <1>8, <1>9, OnSets
    <2>4. QED
      BY <1>6, <2>1, <2>2, <2>3
  <1>15. Ends(calls) \subseteq Valid
    <2>1. calls # << >> => Top.op # "end"
      <3>1. ASSUME calls # << >> PROVE Sound(Top) /\ Top.pc \in Free
        BY <1>1, <3>1, TopSound DEF Runs, AllInv, DlgInv
      <3>2. QED
        BY <3>1 DEF Sound, Free
    <2>2. QED
      BY <1>2, <2>1, EndsValid
  <1>16. /\ w \notin Valid /\ Valid' = Valid \cup {w} /\ w \notin Loops(calls)
         /\ pHosting'[w] = IF pRootMainWin = NULL THEN NULL ELSE HostFor(h)
         /\ \A d \in Valid : pHosting'[d] = pHosting[d]
    <2>1. /\ w \notin Valid /\ Valid' = Valid \cup {w} /\ w \notin Loops(calls)
          /\ pHosting' = Put(pHosting, w, IF pRootMainWin = NULL THEN NULL ELSE HostFor(h))
      BY <1>1, AllocatedDlg
    <2>2. QED
      BY <1>2, <2>1 DEF Put, TypeOK, Valid
  <1>17. \A d \in Valid \cap Dialogs : pHosting[d] # HostFor(h)
    BY <1>1 DEF MayOwn
  <1>18. OwnersInv'
    <2>1. /\ Shows(calls)' = Shows(t) /\ Loops(calls)' = Loops(t) /\ Ends(calls)' = Ends(t)
          /\ Makes(calls)' = Makes(t)
      BY <1>10, SetsNext
    <2>2. Current = Valid \cap Dialogs /\ Current' = Current \cup {w}
      BY <1>1, <1>14, <1>15, <1>16, <2>1 DEF Current
    <2>3. (Valid \cap Dialogs \subseteq Shows(calls))'
      BY <1>14, <1>16, <2>1 DEF AllInv, OwnersInv
    <2>4. ASSUME NEW d \in Current', NEW e \in Current', pHosting'[d] = pHosting'[e], pHosting'[d] # NULL
          PROVE  d = e
      <3>1. CASE d \in Valid /\ e \in Valid
        BY <1>16, <2>2, <2>4, <3>1 DEF AllInv, OwnersInv
      <3>2. QED
        BY <1>16, <1>17, <2>2, <2>4, <3>1
    <2>5. \A d \in (Valid \cap Loops(calls))' : pHosting'[d] # NULL => pHosting'[d] \in disabled'
      BY <1>1, <1>14, <1>16, <2>1 DEF AllInv, OwnersInv
    <2>6. ASSUME NEW v \in disabled' PROVE \E d \in Dialogs : Back(d)' /\ pHosting'[d] = v
      <3>1. PICK d \in Dialogs : Back(d) /\ pHosting[d] = v
        BY <1>1 DEF AllInv, OwnersInv
      <3>2. d \in Valid
        BY <1>15, <3>1 DEF Back
      <3>3. Back(d)' /\ pHosting'[d] = v
        BY <1>14, <1>16, <2>1, <3>1, <3>2 DEF Back
      <3>4. QED
        BY <3>3
    <2>7. QED
      BY <2>3, <2>4, <2>5, <2>6 DEF OwnersInv
  <1>19. QED
    BY <1>13, <1>18 DEF DlgKept

(* The innermost call goes on, and it is none of a dialog box.             *)
LEMMA MovedDlg ==
  ASSUME AllInv, StepFacts, calls # << >>, NEW c \in Call, calls' = <<c>> \o Tail(calls),
         c.op = Top.op, c.w = Top.w, c.op \in {"create", "destroy"},
         c.pc = "refused" => ~Firm(calls, Len(calls)),
         DlgSpared(Len(calls) - 1), Valid' = Valid, disabled' = disabled,
         \A d \in Dialogs : pHosting'[d] = pHosting[d]
  PROVE  DlgKept
  <1>1. DlgInv /\ TypeOK
    BY Facts DEF AllInv
  <1>2. GoesOnOK(c)
    BY DEF GoesOnOK
  <1>3. DFrames(calls)'
    BY <1>1, <1>2, TopGoes
  <1>4. PICK t : t = calls'
    OBVIOUS
  <1>5. /\ Shows(t) = Shows(calls) /\ Ends(t) = Ends(calls) /\ Makes(t) = Makes(calls)
        /\ Loops(t) \subseteq Loops(calls) \cup LoopOf(c)
    BY <1>1, <1>4, ReplacedSets
  <1>6. LoopOf(c) = {}
    BY DEF LoopOf
  <1>7. Calm(t, {})
    BY <1>5, <1>6 DEF Calm
  <1>8. QED
    BY <1>3, <1>4, <1>7, CalmHolds DEF DlgKept

(* DestroyMainWindow is not stopped by a dialog box that it has to destroy *)
(* for EndDialog.                                                          *)
LEMMA NotFirm ==
  ASSUME AllInv, HostedRefuses
  PROVE  ~Firm(calls, Len(calls))
  <1> SUFFICES ASSUME Firm(calls, Len(calls)) PROVE FALSE
    OBVIOUS
  <1>1. /\ DlgInv /\ MainInv /\ TypeOK /\ FramesInv /\ DFrames(calls) /\ HostsRight /\ calls \in Seq(Call)
        /\ calls # << >> /\ Top.pc = "hosted"
    BY TreeHosts DEF AllInv, DlgInv, MainInv, Wits, HostedRefuses, AtHosted, At, TypeOK
  <1>2. PICK n \in Nat \ {0} : n = Len(calls) /\ Top = Fr(calls, n)
    BY <1>1, TopType
  <1>3. Sound(Top) /\ Top.op \in {"create", "dialog", "destroy", "end"}
    BY <1>1, TopSound, TopType
  <1>4. Top.op = "destroy"
    BY <1>1, <1>3 DEF Sound, Free
  <1>5. PICK w : w = Top.w
    OBVIOUS
  <1>6. PICK h : h = Top.hosted
    OBVIOUS
  <1>7. h # NULL /\ (h \notin Valid \/ (h \in Dialogs /\ ~Endable(h)))
    BY <1>6 DEF HostedRefuses
  <1>8. h \in Pinned(Top) /\ h # w
    BY <1>1, <1>3, <1>4, <1>5, <1>6, <1>7 DEF Pinned, Sound
  <1>9. h \in Valid /\ pHosting[h] = w
    BY <1>3, <1>4, <1>5, <1>8 DEF Sound
  <1>10. h \in Dialogs /\ ~Endable(h)
    BY <1>7, <1>9
  <1>11. h \in Under(w)
    <2>1. pHosting \in Links /\ w # NULL /\ h \in Windows
      BY <1>1, <1>2, <1>5, <1>9, TopType, MainWinAssumption DEF TypeOK, Links, Valid
    <2>2. w \in Up(h)
      BY <1>9, <2>1, ReachSelf, ReachStep DEF Up
    <2>3. QED
      BY <1>8, <1>9, <1>10, <2>2 DEF Under
  <1>12. Ready(calls, n, w)
    BY <1>1, <1>2, <1>4, <1>5 DEF DFrames, DFrame, ReadyOK
  <1>13. PICK k \in 1 .. Len(calls) : Dlg(calls, k, h)
    BY <1>9, <1>10 DEF AllInv, OwnersInv, Shows
  <1>14. k \in 1 .. n - 1
    BY <1>2, <1>4, <1>13 DEF Dlg
  <1>15. Fr(calls, k).pc = "loop"
    BY <1>11, <1>12, <1>13, <1>14 DEF Ready
  <1>16. Fr(calls, k).hosted = NULL /\ Fr(calls, k).next = NULL /\ Fr(calls, k) \in Call
    BY <1>1, <1>13, StackType DEF DFrames, DFrame, DialogOK, Dlg
  <1>17. Fr(calls, k) = New("dialog", h, "loop")
    BY <1>13, <1>15, <1>16 DEF Call, New, Dlg
  <1>18. Len(calls) - k + 1 \in DOMAIN calls
    BY <1>1, <1>2, <1>13
  <1>19. Endable(h)
    BY <1>17, <1>18 DEF Endable, Fr
  <1>20. QED
    BY <1>10, <1>19

(* The steps that only move the innermost call on.                         *)
LEMMA MovesDlg ==
  ASSUME AllInv, StepFacts, NcCreated \/ HostedRefuses \/ NoneHosted
  PROVE  DlgKept
  <1>1. /\ calls # << >> /\ UNCHANGED <<DataType, links, disabled>> /\ Top.pc \in {"MSG_NCCREATE", "hosted"}
        /\ \/ calls' = Moved("MSG_CREATE")
           \/ calls' = Moved("refused") /\ HostedRefuses
           \/ calls' = Moved("MSG_DESTROY")
    BY DEF NcCreated, HostedRefuses, NoneHosted, AtHosted, At
  <1>2. DlgInv /\ TypeOK /\ MainInv
    BY Facts DEF AllInv, DlgInv
  <1>3. Top.op \in {"create", "destroy"}
    <2>1. Sound(Top) /\ Top.op \in {"create", "dialog", "destroy", "end"}
      BY <1>1, <1>2, TopSound, TopType
    <2>2. QED
      BY <1>1, <2>1 DEF Sound
  <1>4. PICK pc \in PCs : calls' = Moved(pc) /\ (pc = "refused" => HostedRefuses)
    BY <1>1 DEF PCs, Free
  <1>5. PICK c \in Call : /\ calls' = <<c>> \o Tail(calls)
                         /\ c.op = Top.op /\ c.w = Top.w /\ c.pc = pc
    BY <1>1, <1>2, <1>4, MovedShape
  <1>6. c.pc = "refused" => ~Firm(calls, Len(calls))
    BY <1>4, <1>5, NotFirm
  <1>7. DlgSpared(Len(calls) - 1)
    <2>1. Len(calls) - 1 \in 0 .. Len(calls)
      BY <1>1, <1>2, TopType
    <2>2. QED
      BY <1>1, <1>2, <2>1, SparedSame
  <1>8. Valid' = Valid /\ \A d \in Dialogs : pHosting'[d] = pHosting[d]
    BY <1>1 DEF Valid, links
  <1>9. QED
    BY <1>1, <1>3, <1>5, <1>6, <1>7, <1>8, MovedDlg

(* The hosted window is cleaned up unless its DialogBox is to do that.     *)
LEMMA NextHostedDlg ==
  ASSUME AllInv, StepFacts, NextHosted
  PROVE  DlgKept
  <1>1. /\ calls # << >> /\ Top.op = "destroy" /\ Top.pc = "next" /\ disabled' = disabled
        /\ calls' = Stepped(calls, "hosted", Top.next, NULL)
        /\ IF Top.hosted \in Dialogs
           THEN UNCHANGED <<DataType, links>>
           ELSE /\ DataType' = Put(DataType, Top.hosted, "none")
                /\ Wiped(Top.hosted)
    BY DEF NextHosted, Stepped
  <1>2. DlgInv /\ MainInv /\ TypeOK /\ DFrames(calls) /\ calls \in Seq(Call) /\ Lists
    BY Facts DEF AllInv, DlgInv
  <1>3. PICK c \in Call : /\ c.op = Top.op /\ c.w = Top.w /\ c.pc = "hosted"
                         /\ calls' = <<c>> \o Tail(calls)
    <2>1. Top.next \in Windows \cup {NULL} /\ NULL \in Windows \cup {NULL} /\ "hosted" \in PCs
      BY <1>1, <1>2, TopType DEF PCs
    <2>2. Top = calls[1] /\ Top \in Call
      BY <1>1, <1>2, TopType DEF Top
    <2>3. PICK c : c = StepOf(Top, "hosted", Top.next, NULL)
      OBVIOUS
    <2>4. c \in Call /\ calls' = <<c>> \o Tail(calls)
      BY <1>1, <1>2, <2>1, <2>2, <2>3, NextShape
    <2>5. c.op = Top.op /\ c.w = Top.w /\ c.pc = "hosted"
      BY <2>2, <2>3 DEF StepOf, Call
    <2>6. QED
      BY <2>4, <2>5
  <1>4. PICK n \in Nat : n = Len(calls) - 1 /\ n \in 0 .. Len(calls)
    <2>1. PICK l \in Nat \ {0} : l = Len(calls)
      BY <1>1, <1>2, TopType
    <2>2. l - 1 \in Nat /\ l - 1 \in 0 .. l
      BY <2>1
    <2>3. QED
      BY <2>1, <2>2
  <1>5. DlgSpared(n) /\ Valid' = Valid /\ \A d \in Dialogs : pHosting'[d] = pHosting[d]
    <2>1. CASE Top.hosted \in Dialogs
      <3>1. UNCHANGED <<DataType, links>>
        BY <1>1, <2>1
      <3>2. QED
        BY <1>2, <1>4, <3>1, SparedSame DEF Valid, links
    <2>2. CASE Top.hosted \notin Dialogs
      <3>1. Sound(Top)
        BY <1>1, <1>2, TopSound
      <3>2. PICK h : h = Top.hosted
        OBVIOUS
      <3>3. h \in Windows \ Valid /\ h \notin Dialogs
        BY <1>1, <1>2, <2>2, <3>1, <3>2, TopType DEF Sound, Valid
      <3>4. DataType' = Put(DataType, h, "none") /\ Wiped(h)
        BY <1>1, <2>2, <3>2
      <3>5. Valid' = Valid
        BY <1>2, <3>3, <3>4, WipedSame
      <3>6. \A d \in Dialogs : pHosting'[d] = pHosting[d]
        BY <1>2, <3>3, <3>4, MainWinAssumption DEF Wiped, Put, TypeOK
      <3>7. \A k \in 1 .. n : ~Dlg(calls, k, h)
        BY <1>2, <1>4, <3>3 DEF DFrames, DFrame, DialogOK, Dlg
      <3>8. DlgSpared(n)
        BY <1>2, <1>4, <3>3, <3>4, <3>7, SparedBut
      <3>9. QED
        BY <3>5, <3>6, <3>8
    <2>3. QED
      BY <2>1, <2>2
  <1>6. QED
    BY <1>1, <1>3, <1>4, <1>5, MovedDlg

(* A dialog box that is shown has been created.                            *)
LEMMA ShownMade ==
  ASSUME DlgInv, calls # << >>, Top.op = "dialog"
  PROVE  Top.w \notin Makes(calls)
  <1>1. TypeOK /\ FramesInv /\ DFrames(calls) /\ calls \in Seq(Call)
    BY DEF DlgInv, MainInv, Wits, TypeOK
  <1>2. PICK n \in Nat \ {0} : n = Len(calls) /\ Top = Fr(calls, n)
    BY <1>1, TopType
  <1>3. SUFFICES ASSUME NEW k \in 1 .. n, Fr(calls, k).op = "create", Fr(calls, k).w = Top.w
                 PROVE  FALSE
    BY <1>2 DEF Makes, Creates
  <1>4. Top.w \in Dialogs /\ Dlg(calls, n, Top.w)
    BY <1>1, <1>2 DEF DFrames, DFrame, DialogOK, Dlg
  <1>5. k > 1 /\ Fr(calls, k - 1).pc = "calls" /\ Fr(calls, k - 1).op = "dialog"
    BY <1>1, <1>2, <1>3, <1>4 DEF DFrames, DFrame, CalledOK
  <1>6. k - 1 \in 1 .. n - 1 /\ (k - 1) + 1 = k
    BY <1>2, <1>5
  <1>7. Calls(Fr(calls, k - 1), Fr(calls, k))
    BY <1>1, <1>2, <1>6 DEF FramesInv, Frames
  <1>8. Dlg(calls, k - 1, Top.w)
    BY <1>3, <1>5, <1>7 DEF Calls, Dlg
  <1>9. QED
    BY <1>2, <1>4, <1>6, <1>8, OneDialog

(* The owner is disabled before the loop starts.                           *)
LEMMA DialogShownDlg ==
  ASSUME AllInv, StepFacts, DialogShown
  PROVE  DlgKept
  <1>1. /\ calls # << >> /\ Top.pc = "MSG_INITDIALOG" /\ calls' = Moved("loop")
        /\ disabled' = disabled \cup ({pHosting[Top.w]} \ {NULL}) /\ UNCHANGED <<DataType, links>>
    BY DEF DialogShown, At
  <1>2. DlgInv /\ MainInv /\ TypeOK /\ DFrames(calls) /\ calls \in Seq(Call)
    BY Facts DEF AllInv, DlgInv
  <1>3. Top.op = "dialog"
    <2>1. Sound(Top) /\ Top.op \in {"create", "dialog", "destroy", "end"}
      BY <1>1, <1>2, TopSound, TopType
    <2>2. QED
      BY <1>1, <2>1 DEF Sound
  <1>4. PICK n \in Nat \ {0} : n = Len(calls) /\ Top = Fr(calls, n) /\ n - 1 \in 0 .. Len(calls)
    BY <1>1, <1>2, TopType
  <1>5. /\ Top.w \in Dialogs /\ Top.w \in Valid /\ DataType[Top.w] # "none"
        /\ Top.hosted = NULL /\ Top.next = NULL
    BY <1>1, <1>2, <1>3, <1>4 DEF DFrames, DFrame, DialogOK
  <1>6. PICK c \in Call : /\ calls' = <<c>> \o Tail(calls) /\ c.op = Top.op /\ c.w = Top.w
                         /\ c.pc = "loop" /\ c.hosted = Top.hosted /\ c.next = Top.next
    BY <1>1, <1>2, MovedShape DEF PCs, Free
  <1>7. GoesOnOK(c)
    BY <1>1, <1>3, <1>5, <1>6 DEF GoesOnOK
  <1>8. DlgSpared(n - 1)
    BY <1>1, <1>2, <1>4, SparedSame
  <1>9. DFrames(calls)'
    BY <1>1, <1>2, <1>3, <1>4, <1>6, <1>7, <1>8, TopGoes
  <1>10. PICK t : t = calls'
    OBVIOUS
  <1>11. /\ Shows(t) = Shows(calls) /\ Ends(t) = Ends(calls) /\ Makes(t) = Makes(calls)
         /\ Loops(t) \subseteq Loops(calls) \cup {Top.w}
    <2>1. /\ Shows(t) = Shows(calls) /\ Ends(t) = Ends(calls) /\ Makes(t) = Makes(calls)
          /\ Loops(t) \subseteq Loops(calls) \cup LoopOf(c)
      BY <1>1, <1>2, <1>6, <1>10, ReplacedSets
    <2>2. QED
      BY <1>6, <2>1 DEF LoopOf
  <1>12. Top.w \notin Makes(calls)
    BY <1>1, <1>2, <1>3, ShownMade
  <1>13. OwnersInv'
    <2>1. Shows(calls)' = Shows(t) /\ Loops(calls)' = Loops(t) /\ Ends(calls)' = Ends(t) /\ Makes(calls)' = Makes(t)
      BY <1>10, SetsNext
    <2>2. Valid' = Valid /\ pHosting' = pHosting
      BY <1>1 DEF Valid, links
    <2>3. Current' = Current /\ \A d \in Dialogs : Back(d)' = Back(d)
      BY <1>11, <2>1, <2>2 DEF Current, Back
    <2>4. (Valid \cap Dialogs \subseteq Shows(calls))'
      BY <1>11, <2>1, <2>2 DEF AllInv, OwnersInv
    <2>5. \A d, e \in Current' : pHosting'[d] = pHosting'[e] /\ pHosting'[d] # NULL => d = e
      BY <2>2, <2>3 DEF AllInv, OwnersInv
    <2>6. \A d \in (Valid \cap Loops(calls))' : pHosting'[d] # NULL => pHosting'[d] \in disabled'
      BY <1>1, <1>11, <2>1, <2>2 DEF AllInv, OwnersInv
    <2>7. ASSUME NEW v \in disabled' PROVE \E d \in Dialogs : Back(d)' /\ pHosting'[d] = v
      <3>1. CASE v \in disabled
        BY <2>2, <2>3, <3>1 DEF AllInv, OwnersInv
      <3>2. CASE v \notin disabled
        <4>1. v = pHosting[Top.w]
          BY <1>1, <2>7, <3>2
        <4>2. Back(Top.w)
          BY <1>5, <1>12 DEF Back
        <4>3. QED
          BY <1>5, <2>2, <2>3, <4>1, <4>2
      <3>3. QED
        BY <3>1, <3>2
    <2>8. QED
      BY <2>4, <2>5, <2>6, <2>7 DEF OwnersInv
  <1>14. QED
    BY <1>9, <1>13 DEF DlgKept

(* The loop ends when the window has gone, and with it its DialogBox.      *)
LEMMA DialogEndsDlg ==
  ASSUME AllInv, StepFacts, DialogEnds
  PROVE  DlgKept
  <1>1. /\ calls # << >> /\ Top.pc = "loop" /\ Top.w \notin Valid /\ calls' = Tail(calls)
        /\ DataType' = Put(DataType, Top.w, "none") /\ Wiped(Top.w) /\ disabled' = disabled
    BY DEF DialogEnds, At
  <1>2. DlgInv /\ MainInv /\ TypeOK /\ DFrames(calls) /\ calls \in Seq(Call) /\ FramesInv /\ Lists
    BY Facts DEF AllInv, DlgInv
  <1>3. Top.op = "dialog"
    <2>1. Sound(Top) /\ Top.op \in {"create", "dialog", "destroy", "end"}
      BY <1>1, <1>2, TopSound, TopType
    <2>2. QED
      BY <1>1, <2>1 DEF Sound, Free
  <1>4. PICK n \in Nat \ {0} : n = Len(calls) /\ Top = Fr(calls, n)
    BY <1>1, <1>2, TopType
  <1>5. PICK w \in Windows : w = Top.w
    BY <1>1, <1>2, TopType
  <1>6. PICK m \in Nat : m = n - 1 /\ m \in 0 .. Len(calls) /\ m # Len(calls)
    BY <1>4
  <1>7. PICK t : t = calls'
    OBVIOUS
  <1>8. Len(t) = m /\ Keeps(calls, t, m)
    BY <1>1, <1>2, <1>4, <1>6, <1>7, StackTop DEF Keeps
  <1>9. DlgSpared(m)
    <2>1. \A k \in 1 .. m : ~Dlg(calls, k, w)
      <3>1. Dlg(calls, n, w) /\ n \in 1 .. Len(calls)
        BY <1>3, <1>4, <1>5 DEF Dlg
      <3>2. \A k \in 1 .. m : k \in 1 .. Len(calls) /\ k # n
        BY <1>4, <1>6
      <3>3. QED
        BY <1>2, <3>1, <3>2, OneDialog
    <2>2. QED
      BY <1>1, <1>2, <1>5, <1>6, <2>1, SparedBut
  <1>10. DFrames(calls)'
    <2>1. \A l \in m + 1 .. Len(t) : DFrame(t, l)'
      BY <1>8
    <2>2. QED
      BY <1>2, <1>6, <1>7, <1>8, <1>9, <2>1, FramesGo
  <1>11. Calm(t, {w})
    <2>1. /\ Shows(calls) = Shows(t) \cup ShowOf(Top) /\ Loops(calls) = Loops(t) \cup LoopOf(Top)
          /\ Ends(calls) = Ends(t) \cup EndOf(Top) /\ Makes(calls) = Makes(t) \cup Made(Top)
      BY <1>1, <1>2, <1>7, SetsTop
    <2>2. ShowOf(Top) = {w} /\ EndOf(Top) = {}
      BY <1>3, <1>5 DEF ShowOf, EndOf
    <2>3. Ends(calls) \subseteq Valid
      BY <1>2, <1>3, EndsValid
    <2>4. Valid' = Valid /\ w \notin Valid
      BY <1>1, <1>2, <1>5, WipedSame
    <2>5. \A d \in Dialogs \ {w} : pHosting'[d] = pHosting[d]
      BY <1>1, <1>2, <1>5, MainWinAssumption DEF Wiped, Put, TypeOK
    <2>6. QED
      BY <1>1, <2>1, <2>2, <2>3, <2>4, <2>5 DEF Calm
  <1>12. QED
    BY <1>7, <1>10, <1>11, CalmHolds DEF DlgKept

(* The innermost call ends, and has changed nothing.                       *)
LEMMA QuietReturn ==
  ASSUME AllInv, StepFacts, calls # << >>, NEW ok \in BOOLEAN, Return(ok), Result(ok),
         Top.op \in {"create", "destroy"}, UNCHANGED <<DataType, pHosting, disabled>>,
         ~ok => Top.op = "destroy" /\ ~Firm(calls, Len(calls))
  PROVE  DlgKept
  <1>1. DlgInv /\ MainInv /\ TypeOK /\ DFrames(calls) /\ calls \in Seq(Call) /\ FramesInv
    BY Facts DEF AllInv, DlgInv
  <1>2. PICK t : t = calls'
    OBVIOUS
  <1>3. PICK m \in Nat : Returned(ok, t, m)
    BY <1>1, <1>2, ReturnShape
  <1>4. m \in 0 .. Len(calls)
    BY <1>3 DEF Returned, Keeps
  <1>5. DlgSpared(m)
    BY <1>1, <1>4, SparedSame
  <1>6. Valid' = Valid /\ Top.w \in Valid'
    BY <1>1, TopApart DEF Valid
  <1>7. DFrames(calls)'
    BY <1>1, <1>2, <1>3, <1>5, <1>6, TopReturns
  <1>8. Calm(t, {})
    <2>1. /\ Shows(calls) \subseteq Shows(t) \cup ShowOf(Top) \cup {d \in {Top.w} : Top.op = "create" /\ ~ok}
          /\ Loops(t) \subseteq Loops(calls) /\ Ends(t) \subseteq Ends(Tail(calls))
          /\ Ends(calls) \subseteq Ends(t) \cup EndOf(Top) /\ Makes(t) \subseteq Makes(calls)
      BY <1>1, <1>2, ReturnSets
    <2>2. Ends(Tail(calls)) \subseteq Ends(calls)
      BY <1>1, SetsTop
    <2>3. ShowOf(Top) = {} /\ EndOf(Top) = {}
      BY DEF ShowOf, EndOf
    <2>4. QED
      BY <1>6, <2>1, <2>2, <2>3 DEF Calm
  <1>9. QED
    BY <1>2, <1>7, <1>8, CalmHolds DEF DlgKept

(* The window is there, and DialogBox may show it.                         *)
LEMMA CreatedDlg ==
  ASSUME AllInv, StepFacts, Created
  PROVE  DlgKept
  <1>1. /\ calls # << >> /\ Top.pc = "MSG_CREATE" /\ Return(TRUE) /\ TRUE \in BOOLEAN
        /\ UNCHANGED <<DataType, pHosting, disabled>>
    BY DEF Created, At
  <1>2. MainInv
    BY DEF AllInv, DlgInv
  <1>3. Sound(Top) /\ Top.op \in {"create", "dialog", "destroy", "end"}
    BY <1>1, <1>2, TopSound, TopType DEF MainInv, Wits
  <1>4. Top.op = "create"
    BY <1>1, <1>3 DEF Sound
  <1>5. Result(TRUE)
    BY <1>4 DEF Result
  <1>6. QED
    BY <1>1, <1>4, <1>5, QuietReturn

(* A refusal goes up to the caller, which is no EndDialog.                 *)
LEMMA RefusesDlg ==
  ASSUME AllInv, StepFacts, "refusal" \notin Careless, Refuse \/ Refused
  PROVE  DlgKept
  <1>1. /\ calls # << >> /\ Return(FALSE) /\ FALSE \in BOOLEAN /\ Top.pc \in {"MSG_DESTROY", "refused"}
        /\ UNCHANGED <<DataType, pHosting, disabled>> /\ Result(FALSE)
        /\ Top.pc = "refused" => Top.op = "destroy"
        /\ Top.pc = "MSG_DESTROY" => MayRefuse
    BY DEF Refuse, Refused, At, links, Result
  <1>2. DlgInv /\ MainInv /\ TypeOK /\ DFrames(calls) /\ calls \in Seq(Call)
    BY Facts DEF AllInv, DlgInv
  <1>3. Sound(Top) /\ Top.op \in {"create", "dialog", "destroy", "end"}
    BY <1>1, <1>2, TopSound, TopType
  <1>4. Top.op = "destroy"
    BY <1>1, <1>3 DEF Sound
  <1>5. PICK n \in Nat \ {0} : n = Len(calls) /\ Top = Fr(calls, n)
    BY <1>1, <1>2, TopType
  <1>6. CASE Top.pc = "refused"
    <2>1. ~Firm(calls, n)
      BY <1>2, <1>4, <1>5, <1>6 DEF DFrames, DFrame, ReadyOK
    <2>2. QED
      BY <1>1, <1>4, <1>5, <2>1, QuietReturn
  <1>7. CASE Top.pc = "MSG_DESTROY"
    <2>1. \A i \in DOMAIN calls : calls[i].op # "end"
      BY <1>1, <1>7 DEF MayRefuse
    <2>2. \A k \in 1 .. n : Fr(calls, k).op # "end"
      <3>1. \A k \in 1 .. n : (n - k) + 1 \in DOMAIN calls
        BY <1>2, <1>5
      <3>2. QED
        BY <1>5, <2>1, <3>1 DEF Fr
    <2>3. ~Firm(calls, n)
      BY <2>2 DEF Firm
    <2>4. QED
      BY <1>1, <1>4, <1>5, <2>3, QuietReturn
  <1>8. QED
    BY <1>1, <1>6, <1>7

(* A window could not be created.                                          *)
LEMMA FailedDlg ==
  ASSUME AllInv, StepFacts, NcFailed \/ CreateFailed
  PROVE  DlgKept
  <1>1. /\ calls # << >> /\ Top.pc \in {"MSG_NCCREATE", "MSG_CREATE"} /\ Return(FALSE) /\ FALSE \in BOOLEAN
        /\ Failed(Top.w) /\ disabled' = disabled /\ Result(FALSE)
    BY DEF NcFailed, CreateFailed, At, Result
  <1>2. DlgInv /\ MainInv /\ TypeOK /\ DFrames(calls) /\ calls \in Seq(Call) /\ FramesInv
    BY Facts DEF AllInv, DlgInv
  <1>3. Sound(Top) /\ Top.op \in {"create", "dialog", "destroy", "end"}
    BY <1>1, <1>2, TopSound, TopType
  <1>4. Top.op = "create"
    BY <1>1, <1>3 DEF Sound
  <1>5. PICK n \in Nat \ {0} : n = Len(calls) /\ Top = Fr(calls, n)
    BY <1>1, <1>2, TopType
  <1>6. PICK w \in Windows : w = Top.w
    BY <1>1, <1>2, TopType
  <1>7. DataType' = Put(DataType, w, "none") /\ Wiped(w)
    BY <1>1, <1>6 DEF Failed
  <1>8. w \in Dialogs => /\ n - 1 \in 1 .. Len(calls) /\ Fr(calls, n - 1).pc = "calls"
                         /\ Dlg(calls, n - 1, w)
    BY <1>1, <1>2, <1>4, <1>5, <1>6, DialogCaller DEF Dlg
  <1>9. ASSUME NEW k \in 1 .. Len(calls), Dlg(calls, k, w)
        PROVE  w \in Dialogs /\ k = n - 1 /\ Fr(calls, k).pc = "calls"
    <2>1. w \in Dialogs
      BY <1>2, <1>9 DEF DFrames, DFrame, DialogOK, Dlg
    <2>2. QED
      BY <1>2, <1>8, <1>9, <2>1, OneDialog
  <1>10. PICK t : t = calls'
    OBVIOUS
  <1>11. PICK m \in Nat : Returned(FALSE, t, m)
    BY <1>1, <1>2, <1>10, ReturnShape
  <1>12. /\ m \in 0 .. Len(calls) /\ m < n
         /\ m = n - 1 /\ m # 0 => Fr(calls, m).pc # "calls"
    BY <1>5, <1>11 DEF Returned, Keeps
  <1>13. DlgSpared(m)
    <2>1. \A k \in 1 .. m : ~Dlg(calls, k, w)
      <3>1. ASSUME NEW k \in 1 .. m, Dlg(calls, k, w) PROVE FALSE
        <4>1. k \in 1 .. Len(calls) /\ m # 0
          BY <1>5, <1>12
        <4>2. k = n - 1 /\ Fr(calls, k).pc = "calls"
          BY <1>9, <3>1, <4>1
        <4>3. m = n - 1
          BY <1>5, <1>12, <4>2
        <4>4. QED
          BY <1>12, <4>1, <4>2, <4>3
      <3>2. QED
        BY <3>1
    <2>2. QED
      BY <1>2, <1>6, <1>7, <1>12, <2>1, SparedBut
  <1>14. DFrames(calls)'
    BY <1>1, <1>2, <1>4, <1>10, <1>11, <1>13, TopReturns
  <1>15. w \notin Ends(calls)
    <2>1. SUFFICES ASSUME NEW k \in 1 .. Len(calls), Fr(calls, k).op = "end", Fr(calls, k).w = w
                   PROVE  FALSE
      BY DEF Ends, Ending
    <2>2. PICK j \in 1 .. k - 1 : Dlg(calls, j, w) /\ Fr(calls, j).pc = "loop"
      BY <1>2, <2>1 DEF DFrames, DFrame, EndOK
    <2>3. j \in 1 .. Len(calls)
      BY <1>5
    <2>4. QED
      BY <1>9, <2>2, <2>3
  <1>16. Calm(t, {w})
    <2>1. /\ Shows(calls) \subseteq Shows(t) \cup ShowOf(Top) \cup {w}
          /\ Loops(t) \subseteq Loops(calls) /\ Ends(t) \subseteq Ends(Tail(calls))
          /\ Ends(calls) \subseteq Ends(t) \cup EndOf(Top) /\ Makes(t) \subseteq Makes(calls)
      <3>1. /\ Shows(calls) \subseteq Shows(t) \cup ShowOf(Top) \cup {d \in {Top.w} : Top.op = "create" /\ ~FALSE}
            /\ Loops(t) \subseteq Loops(calls) /\ Ends(t) \subseteq Ends(Tail(calls))
            /\ Ends(calls) \subseteq Ends(t) \cup EndOf(Top) /\ Makes(t) \subseteq Makes(calls)
        BY <1>1, <1>2, <1>10, ReturnSets
      <3>2. QED
        BY <1>6, <3>1
    <2>2. Ends(Tail(calls)) \subseteq Ends(calls) /\ Made(Top) \subseteq Makes(calls)
      BY <1>1, <1>2, SetsTop
    <2>3. ShowOf(Top) = {} /\ EndOf(Top) = {} /\ w \in Made(Top)
      BY <1>4, <1>6 DEF ShowOf, EndOf, Made
    <2>4. Valid' = Valid \ {w} /\ \A d \in Dialogs \ {w} : pHosting'[d] = pHosting[d]
      BY <1>2, <1>6, <1>7, MainWinAssumption DEF Wiped, Put, TypeOK, Valid
    <2>5. QED
      BY <1>1, <1>15, <2>1, <2>2, <2>3, <2>4 DEF Calm
  <1>17. QED
    BY <1>10, <1>14, <1>16, CalmHolds DEF DlgKept

(* A dialog box that is destroyed has an EndDialog that enables its owner. *)
LEMMA DestroyedDlg ==
  ASSUME AllInv, StepFacts, Destroyed
  PROVE  DlgKept
  <1>1. /\ calls # << >> /\ Top.pc = "MSG_DESTROY" /\ Return(TRUE) /\ TRUE \in BOOLEAN
        /\ DataType' = Put(DataType, Top.w, "TYPE_WINTODEL") /\ UNCHANGED <<pHosting, disabled>>
    BY DEF Destroyed, At
  <1>2. DlgInv /\ MainInv /\ TypeOK /\ DFrames(calls) /\ calls \in Seq(Call) /\ FramesInv
    BY Facts DEF AllInv, DlgInv
  <1>3. Sound(Top) /\ Top.op \in {"create", "dialog", "destroy", "end"}
    BY <1>1, <1>2, TopSound, TopType
  <1>4. Top.op = "destroy"
    BY <1>1, <1>3 DEF Sound
  <1>5. PICK n \in Nat \ {0} : n = Len(calls) /\ Top = Fr(calls, n)
    BY <1>1, <1>2, TopType
  <1>6. PICK w \in Windows : w = Top.w
    BY <1>1, <1>2, TopType
  <1>7. Valid' = Valid \ {w} /\ DataType'[w] = "TYPE_WINTODEL"
    BY <1>1, <1>2, <1>6 DEF Put, TypeOK, Valid
  <1>8. w \in Dialogs => /\ n - 1 \in 1 .. Len(calls) /\ Fr(calls, n - 1).op = "end"
                         /\ Fr(calls, n - 1).w = w
    BY <1>1, <1>2, <1>4, <1>5, <1>6, DialogCaller
  <1>9. ASSUME NEW k \in 1 .. Len(calls), Dlg(calls, k, w)
        PROVE  Fr(calls, k).pc = "loop"
    <2>1. w \in Dialogs
      BY <1>2, <1>9 DEF DFrames, DFrame, DialogOK, Dlg
    <2>2. PICK j \in 1 .. (n - 1) - 1 : Dlg(calls, j, w) /\ Fr(calls, j).pc = "loop"
      BY <1>2, <1>8, <2>1 DEF DFrames, DFrame, EndOK
    <2>3. j \in 1 .. Len(calls)
      BY <1>5
    <2>4. QED
      BY <1>2, <1>9, <2>2, <2>3, OneDialog
  <1>10. PICK t : t = calls'
    OBVIOUS
  <1>11. PICK m \in Nat : Returned(TRUE, t, m)
    BY <1>1, <1>2, <1>10, ReturnShape
  <1>12. m \in 0 .. Len(calls)
    BY <1>11 DEF Returned, Keeps
  <1>13. DlgSpared(m)
    <2>1. \A k \in 1 .. m : Dlg(calls, k, w) => "TYPE_WINTODEL" # "none" /\ Fr(calls, k).pc # "MSG_INITDIALOG"
      <3>1. \A k \in 1 .. m : k \in 1 .. Len(calls)
        BY <1>5, <1>12
      <3>2. QED
        BY <1>9, <3>1
    <2>2. QED
      BY <1>1, <1>2, <1>6, <1>12, <2>1, SparedBut
  <1>14. Result(TRUE)
    BY <1>4, <1>6, <1>7 DEF Result
  <1>15. DFrames(calls)'
    BY <1>1, <1>2, <1>4, <1>10, <1>11, <1>13, <1>14, TopReturns
  <1>16. Calm(t, {})
    <2>1. /\ Shows(calls) \subseteq Shows(t) \cup ShowOf(Top)
          /\ Loops(t) \subseteq Loops(calls) /\ Ends(t) \subseteq Ends(Tail(calls))
          /\ Ends(calls) \subseteq Ends(t) \cup EndOf(Top) /\ Makes(t) \subseteq Makes(calls)
      <3>1. /\ Shows(calls) \subseteq Shows(t) \cup ShowOf(Top) \cup {d \in {Top.w} : Top.op = "create" /\ ~TRUE}
            /\ Loops(t) \subseteq Loops(calls) /\ Ends(t) \subseteq Ends(Tail(calls))
            /\ Ends(calls) \subseteq Ends(t) \cup EndOf(Top) /\ Makes(t) \subseteq Makes(calls)
        BY <1>1, <1>2, <1>10, ReturnSets
      <3>2. QED
        BY <3>1
    <2>2. Ends(Tail(calls)) \subseteq Ends(calls)
      BY <1>1, <1>2, SetsTop
    <2>3. ShowOf(Top) = {} /\ EndOf(Top) = {}
      BY <1>4 DEF ShowOf, EndOf
    <2>4. w \in Dialogs => w \in Ends(t)
      <3>1. w \in Dialogs => w \in Ends(calls)
        BY <1>6, <1>8 DEF Ends, Ending
      <3>2. QED
        BY <2>1, <2>3, <3>1
    <2>5. QED
      BY <1>1, <1>7, <2>1, <2>2, <2>3, <2>4 DEF Calm
  <1>17. QED
    BY <1>10, <1>15, <1>16, CalmHolds DEF DlgKept

(* An EndDialog that is not the innermost call waits for a valid window.   *)
LEMMA OuterEnds ==
  ASSUME TypeOK, FramesInv, calls # << >>
  PROVE  Ends(Tail(calls)) \subseteq Valid
  <1>1. PICK n \in Nat \ {0} : n = Len(calls)
    BY TopType
  <1>2. Len(Tail(calls)) = n - 1 /\ \A k \in 1 .. n - 1 : Fr(Tail(calls), k) = Fr(calls, k)
    BY <1>1, StackTop DEF TypeOK
  <1>3. ASSUME NEW k \in 1 .. n - 1, Fr(calls, k).op = "end" PROVE Fr(calls, k).w \in Valid
    <2>1. k \in 1 .. Len(calls) - 1 /\ k + 1 \in 1 .. Len(calls) /\ k \in 1 .. Len(calls)
      BY <1>1
    <2>2. Sound(Fr(calls, k)) /\ Sound(Fr(calls, k + 1)) /\ Calls(Fr(calls, k), Fr(calls, k + 1))
      BY <2>1 DEF FramesInv, Frames
    <2>3. Fr(calls, k).pc = "calls"
      BY <1>3, <2>2 DEF Sound, Calls, Waits, Free
    <2>4. Fr(calls, k + 1).op = "destroy" /\ Fr(calls, k + 1).w = Fr(calls, k).w
      BY <1>3, <2>2, <2>3 DEF Calls
    <2>5. QED
      BY <2>2, <2>4 DEF Sound, Pinned
  <1>4. QED
    BY <1>2, <1>3 DEF Ends, Ending

(* EndDialog goes on when its window is destroyed, and the owner is back.  *)
LEMMA DialogEndedDlg ==
  ASSUME AllInv, StepFacts, DialogEnded
  PROVE  DlgKept
  <1>1. /\ calls # << >> /\ Top.op = "end" /\ Top.pc \in {"next", "refused"} /\ Return(TRUE) /\ TRUE \in BOOLEAN
        /\ disabled' = disabled \ {pHosting[Top.w]} /\ UNCHANGED <<DataType, links>>
    BY DEF DialogEnded, Enabled
  <1>2. DlgInv /\ MainInv /\ TypeOK /\ DFrames(calls) /\ calls \in Seq(Call) /\ FramesInv
    BY Facts DEF AllInv, DlgInv
  <1>3. Sound(Top)
    BY <1>1, <1>2, TopSound
  <1>4. PICK n \in Nat \ {0} : n = Len(calls) /\ Top = Fr(calls, n)
    BY <1>1, <1>2, TopType
  <1>5. PICK w \in Windows : w = Top.w
    BY <1>1, <1>2, TopType
  <1>6. w \notin Valid /\ w \in Dialogs
    <2>1. Firm(calls, n)
      BY <1>1, <1>4 DEF Firm
    <2>2. Top.pc = "next"
      BY <1>1, <1>2, <1>4, <2>1 DEF DFrames, DFrame, ReadyOK
    <2>3. QED
      BY <1>1, <1>2, <1>3, <1>4, <1>5, <2>2 DEF DFrames, DFrame, EndOK, Sound
  <1>7. PICK t : t = calls'
    OBVIOUS
  <1>8. PICK m \in Nat : Returned(TRUE, t, m)
    BY <1>1, <1>2, <1>7, ReturnShape
  <1>9. DFrames(calls)'
    <2>1. m \in 0 .. Len(calls)
      BY <1>8 DEF Returned, Keeps
    <2>2. DlgSpared(m)
      BY <1>1, <1>2, <2>1, SparedSame
    <2>3. Result(TRUE)
      BY <1>1, <1>5, <1>6 DEF Result
    <2>4. QED
      BY <1>1, <1>2, <1>7, <1>8, <2>2, <2>3, TopReturns
  <1>10. /\ Shows(calls) \subseteq Shows(t) /\ Loops(t) \subseteq Loops(calls)
         /\ Ends(t) \subseteq Ends(calls) \cap Valid /\ Ends(calls) \subseteq Ends(t) \cup {w}
         /\ Makes(t) \subseteq Makes(calls) /\ w \in Ends(calls)
    <2>1. /\ Shows(calls) \subseteq Shows(t) \cup ShowOf(Top) \cup {d \in {Top.w} : Top.op = "create" /\ ~TRUE}
          /\ Loops(t) \subseteq Loops(calls) /\ Ends(t) \subseteq Ends(Tail(calls))
          /\ Ends(calls) \subseteq Ends(t) \cup EndOf(Top) /\ Makes(t) \subseteq Makes(calls)
      BY <1>1, <1>2, <1>7, ReturnSets
    <2>2. Ends(calls) = Ends(Tail(calls)) \cup EndOf(Top)
      BY <1>1, <1>2, SetsTop
    <2>3. ShowOf(Top) = {} /\ EndOf(Top) = {w}
      BY <1>1, <1>5 DEF ShowOf, EndOf
    <2>4. Ends(Tail(calls)) \subseteq Valid
      BY <1>1, <1>2, OuterEnds
    <2>5. QED
      BY <2>1, <2>2, <2>3, <2>4
  <1>11. OwnersInv'
    <2>1. Shows(calls)' = Shows(t) /\ Loops(calls)' = Loops(t) /\ Ends(calls)' = Ends(t) /\ Makes(calls)' = Makes(t)
      BY <1>7, SetsNext
    <2>2. Valid' = Valid /\ pHosting' = pHosting /\ disabled' = disabled \ {pHosting[w]}
      BY <1>1, <1>5 DEF Valid, links
    <2>3. Current' \subseteq Current \ {w} /\ w \in Current
      BY <1>6, <1>10, <2>1, <2>2 DEF Current
    <2>4. (Valid \cap Dialogs \subseteq Shows(calls))'
      BY <1>10, <2>1, <2>2 DEF AllInv, OwnersInv
    <2>5. \A d, e \in Current' : pHosting'[d] = pHosting'[e] /\ pHosting'[d] # NULL => d = e
      BY <2>2, <2>3 DEF AllInv, OwnersInv
    <2>6. ASSUME NEW d \in (Valid \cap Loops(calls))', pHosting'[d] # NULL PROVE pHosting'[d] \in disabled'
      <3>1. d \in Valid /\ d \in Loops(calls) /\ pHosting[d] # NULL
        BY <1>10, <2>1, <2>2, <2>6
      <3>2. d \in Current /\ d # w
        BY <1>2, <1>6, <3>1, LoopsIn DEF Current
      <3>3. pHosting[d] # pHosting[w]
        BY <2>3, <3>1, <3>2 DEF AllInv, OwnersInv
      <3>4. pHosting[d] \in disabled
        BY <3>1 DEF AllInv, OwnersInv
      <3>5. QED
        BY <2>2, <3>3, <3>4
    <2>7. ASSUME NEW v \in disabled' PROVE \E d \in Dialogs : Back(d)' /\ pHosting'[d] = v
      <3>1. v \in disabled /\ v # pHosting[w]
        BY <2>2
      <3>2. PICK d \in Dialogs : Back(d) /\ pHosting[d] = v
        BY <3>1 DEF AllInv, OwnersInv
      <3>3. d # w
        BY <3>1, <3>2
      <3>4. Back(d)'
        BY <1>10, <2>1, <2>2, <3>2, <3>3 DEF Back
      <3>5. QED
        BY <2>2, <3>2, <3>4
    <2>8. QED
      BY <2>4, <2>5, <2>6, <2>7 DEF OwnersInv
  <1>12. QED
    BY <1>9, <1>11 DEF DlgKept

(* What call l promises depends on the calls up to l only.                 *)
LEMMA PrefixSame ==
  ASSUME NEW s, NEW t, NEW l \in Nat \ {0}, \A k \in 1 .. l : Fr(t, k) = Fr(s, k), DFrame(s, l)
  PROVE  DFrame(t, l)
  <1>1. Fr(t, l) = Fr(s, l) /\ \A k \in 1 .. l - 1 : Fr(t, k) = Fr(s, k)
    OBVIOUS
  <1>2. DialogOK(t, l) /\ EndOK(t, l)
    BY <1>1 DEF DFrame, DialogOK, EndOK, Dlg
  <1>3. CalledOK(t, l)
    <2>1. l > 1 => l - 1 \in 1 .. l - 1
      OBVIOUS
    <2>2. QED
      BY <1>1, <2>1 DEF DFrame, CalledOK
  <1>4. Firm(t, l) => Firm(s, l)
    BY <1>1, FirmKept
  <1>5. ReadyOK(t, l)
    BY <1>1, <1>4 DEF DFrame, ReadyOK, Ready, Dlg
  <1>6. QED
    BY <1>2, <1>3, <1>5 DEF DFrame

(* What v hosts can be ended by what is called on s.                       *)
Fit(s, v) == \A d \in Valid \cap Dialogs : v \in Up(d) => Ready(s, Len(s) + 1, d)

(* A careful program destroys nothing whose boxes cannot be ended.         *)
LEMMA FitCalls ==
  ASSUME AllInv, "refusal" \notin Careless, NEW w \in Windows, MayDestroy(w)
  PROVE  Fit(calls, w)
  <1>1. DlgInv /\ TypeOK /\ calls \in Seq(Call) /\ Len(calls) \in Nat
    BY CallsType DEF AllInv, DlgInv, MainInv, Wits
  <1>2. SUFFICES ASSUME NEW d \in Valid \cap Dialogs, w \in Up(d), NEW e \in Under(d),
                        NEW k \in 1 .. (Len(calls) + 1) - 1, Dlg(calls, k, e)
                 PROVE  Fr(calls, k).pc = "loop"
    BY DEF Fit, Ready
  <1>3. d \in HostedBy(w) \cap Dialogs /\ e \in (HostedBy(d) \ {d}) \cap Dialogs
    BY <1>2 DEF HostedBy, Up, Under, Valid
  <1>4. Endable(e)
    BY <1>3 DEF MayDestroy
  <1>5. PICK i \in DOMAIN calls : calls[i] = New("dialog", e, "loop")
    BY <1>4 DEF Endable
  <1>6. PICK j \in 1 .. Len(calls) : Fr(calls, j) = calls[i]
    <2>1. Len(calls) - i + 1 \in 1 .. Len(calls) /\ Fr(calls, Len(calls) - i + 1) = calls[i]
      BY <1>1 DEF Fr
    <2>2. QED
      BY <2>1
  <1>7. Dlg(calls, j, e) /\ Fr(calls, j).pc = "loop"
    BY <1>5, <1>6 DEF Dlg, New
  <1>8. k \in 1 .. Len(calls)
    BY <1>1
  <1>9. QED
    BY <1>1, <1>2, <1>7, <1>8, OneDialog

(* EndDialog is called on s.                                               *)
LEMMA EndOnDlg ==
  ASSUME TypeOK, HostsRight, NEW s \in Seq(Call), DFrames(s), NEW v \in Valid \cap Dialogs, Fit(s, v),
         \E k \in 1 .. Len(s) : Dlg(s, k, v) /\ Fr(s, k).pc = "loop",
         NEW b \in Call, b.op = "end", b.w = v, b.pc = "calls", NEW u, On(u, b, s)
  PROVE  DFrames(u) /\ Fit(u, v)
  <1>1. PICK n \in Nat : n = Len(s)
    OBVIOUS
  <1>2. /\ u \in Seq(Call) /\ Len(u) = n + 1 /\ Fr(u, n + 1) = b
        /\ \A k \in 1 .. n : Fr(u, k) = Fr(s, k)
    BY <1>1, OnShape
  <1>3. ASSUME NEW l \in 1 .. n PROVE DFrame(u, l)
    <2>1. DFrame(s, l) /\ l \in Nat \ {0} /\ \A k \in 1 .. l : Fr(u, k) = Fr(s, k)
      BY <1>1, <1>2 DEF DFrames
    <2>2. QED
      BY <2>1, PrefixSame
  <1>4. ASSUME NEW d, Ready(s, n + 1, d) PROVE Ready(u, n + 1, d) /\ Ready(u, (n + 1) + 1, d)
    <2>1. Ready(u, n + 1, d)
      BY <1>2, <1>4 DEF Ready, Dlg
    <2>2. ~(b.op = "dialog") /\ \A k \in 1 .. ((n + 1) + 1) - 1 : k \in 1 .. (n + 1) - 1 \/ k = n + 1
      BY <1>1
    <2>3. QED
      BY <1>2, <2>1, <2>2 DEF Ready, Dlg
  <1>5. \A d \in Valid \cap Dialogs : v \in Up(d) => Ready(s, n + 1, d)
    BY <1>1 DEF Fit
  <1>6. v \in Up(v)
    BY UpIn
  <1>7. DFrame(u, n + 1)
    <2>1. EndOK(u, n + 1)
      <3>1. (n + 1) - 1 = n
        BY <1>1
      <3>2. QED
        BY <1>1, <1>2, <3>1 DEF EndOK, Dlg
    <2>2. ReadyOK(u, n + 1)
      BY <1>2, <1>4, <1>5, <1>6 DEF ReadyOK
    <2>3. QED
      BY <1>2, <2>1, <2>2 DEF DFrame, DialogOK, CalledOK
  <1>8. DFrames(u)
    <2>1. \A l \in 1 .. Len(u) : l \in 1 .. n \/ l = n + 1
      BY <1>2
    <2>2. QED
      BY <1>3, <1>7, <2>1 DEF DFrames
  <1>9. Fit(u, v)
    BY <1>2, <1>4, <1>5 DEF Fit
  <1>10. QED
    BY <1>8, <1>9

(* DestroyMainWindow is called on s.                                       *)
LEMMA DestroyOnDlg ==
  ASSUME AllInv, UNCHANGED <<DataType, links, disabled>>,
         NEW s \in Seq(Call), DFrames(s), NEW v \in Valid, Fit(s, v),
         NEW c \in Call, c.op = "destroy", c.w = v, c.pc = "hosted", NEW t, On(t, c, s), t = calls',
         v \in Dialogs => Len(s) # 0 /\ Fr(s, Len(s)).op = "end" /\ Fr(s, Len(s)).pc = "calls",
         v \notin Dialogs /\ Firm(t, Len(s) + 1) => Ready(s, Len(s) + 1, v),
         Shows(s) = Shows(calls), Loops(s) = Loops(calls), Makes(s) = Makes(calls),
         Ends(calls) \subseteq Ends(s), Ends(s) \subseteq Ends(calls) \cup Valid
  PROVE  DlgKept
  <1>1. DlgInv /\ TypeOK /\ HostsRight /\ UNCHANGED <<DataType, pHosting>>
    BY TreeHosts DEF AllInv, DlgInv, MainInv, Wits, links
  <1>2. PICK n \in Nat : n = Len(s)
    OBVIOUS
  <1>3. /\ Len(t) = n + 1 /\ Fr(t, n + 1) = c
        /\ \A k \in 1 .. n : Fr(t, k) = Fr(s, k)
    BY <1>2, OnShape
  <1>4. ASSUME NEW l \in 1 .. n PROVE DFrame(t, l)
    <2>1. DFrame(s, l) /\ l \in Nat \ {0} /\ \A k \in 1 .. l : Fr(t, k) = Fr(s, k)
      BY <1>2, <1>3 DEF DFrames
    <2>2. QED
      BY <2>1, PrefixSame
  <1>5. ASSUME NEW d, Ready(s, n + 1, d) PROVE Ready(t, n + 1, d)
    BY <1>3, <1>5 DEF Ready, Dlg
  <1>6. DFrame(t, n + 1)
    <2>1. \A d \in Valid \cap Dialogs : v \in Up(d) => Ready(t, n + 1, d)
      BY <1>2, <1>5 DEF Fit
    <2>2. Firm(t, n + 1) => Ready(t, n + 1, v)
      <3>1. CASE v \in Dialogs
        BY <1>1, <2>1, <3>1, UpIn
      <3>2. CASE v \notin Dialogs
        BY <1>2, <1>5, <3>2
      <3>3. QED
        BY <3>1, <3>2
    <2>3. CalledOK(t, n + 1)
      <3>1. (n + 1) - 1 = n /\ (n # 0 => n + 1 > 1 /\ n \in 1 .. n)
        BY <1>2
      <3>2. QED
        BY <1>2, <1>3, <3>1 DEF CalledOK
    <2>4. QED
      BY <1>3, <2>1, <2>2, <2>3 DEF DFrame, DialogOK, EndOK, ReadyOK
  <1>7. DFrames(t)'
    <2>1. ASSUME NEW l \in 1 .. Len(t) PROVE DFrame(t, l)'
      <3>1. l \in 1 .. n \/ l = n + 1
        BY <1>3
      <3>2. DFrame(t, l)
        BY <1>4, <1>6, <3>1
      <3>3. QED
        BY <1>1, <3>2, SameDFrame
    <2>2. QED
      BY <2>1 DEF DFrames
  <1>8. Calm(t, {})
    <2>1. /\ Shows(t) = Shows(s) \cup ShowOf(c) /\ Loops(t) = Loops(s) \cup LoopOf(c)
          /\ Ends(t) = Ends(s) \cup EndOf(c) /\ Makes(t) = Makes(s) \cup Made(c)
      BY OnSets
    <2>2. ShowOf(c) = {} /\ LoopOf(c) = {} /\ EndOf(c) = {} /\ Made(c) = {}
      BY DEF ShowOf, LoopOf, EndOf, Made
    <2>3. Valid' = Valid /\ disabled' = disabled
      BY <1>1 DEF Valid
    <2>4. QED
      BY <1>1, <2>1, <2>2, <2>3 DEF Calm
  <1>9. QED
    BY <1>7, <1>8, CalmHolds, DFramesNext DEF DlgKept

(* The call that DestroyMainWindow begins with.                            *)
LEMMA DestroyIs ==
  ASSUME MainInv, NEW w \in Valid
  PROVE  /\ DestroyCall(w) \in Call /\ DestroyCall(w).op = "destroy" /\ DestroyCall(w).w = w
         /\ DestroyCall(w).pc = "hosted"
  <1>1. DestroyCall(w).pc = "hosted"
    BY DEF DestroyCall, New
  <1>2. QED
    BY <1>1, DestroyType

(* ... and EndDialog with it.                                              *)
LEMMA EndCallsDlg ==
  ASSUME AllInv, UNCHANGED <<DataType, links, disabled>>,
         NEW s \in Seq(Call), DFrames(s), NEW v \in Valid \cap Dialogs, Fit(s, v),
         \E k \in 1 .. Len(s) : Dlg(s, k, v) /\ Fr(s, k).pc = "loop",
         calls' = EndCalls(v) \o s,
         Shows(s) = Shows(calls), Loops(s) = Loops(calls), Makes(s) = Makes(calls), Ends(s) = Ends(calls)
  PROVE  DlgKept
  <1>1. MainInv /\ TypeOK /\ HostsRight
    BY TreeHosts DEF AllInv, DlgInv, MainInv, Wits
  <1>2. PICK b \in Call : b = New("end", v, "calls") /\ b.op = "end" /\ b.w = v /\ b.pc = "calls"
    BY NewCall DEF PCs, Valid
  <1>3. PICK c \in Call : c = DestroyCall(v) /\ c.op = "destroy" /\ c.w = v /\ c.pc = "hosted"
    BY <1>1, DestroyIs
  <1>4. PICK u : On(u, b, s)
    BY DEF On
  <1>5. PICK t : On(t, c, u)
    BY DEF On
  <1>6. t = calls'
    <2>1. EndCalls(v) \o s = <<c, b>> \o s
      BY <1>2, <1>3 DEF EndCalls
    <2>2. <<c, b>> \o s = <<c>> \o (<<b>> \o s)
      BY <1>2, <1>3, TwoOnTop
    <2>3. QED
      BY <1>4, <1>5, <2>1, <2>2 DEF On
  <1>7. /\ u \in Seq(Call) /\ Len(u) # 0 /\ Fr(u, Len(u)) = b
    <2>1. u \in Seq(Call) /\ Len(u) = Len(s) + 1 /\ Fr(u, Len(s) + 1) = b /\ Len(s) \in Nat
      BY <1>2, <1>4, OnShape
    <2>2. QED
      BY <2>1
  <1>8. DFrames(u) /\ Fit(u, v)
    BY <1>1, <1>2, <1>4, EndOnDlg
  <1>9. /\ Shows(u) = Shows(s) /\ Loops(u) = Loops(s) /\ Makes(u) = Makes(s)
        /\ Ends(u) = Ends(s) \cup {v}
    <2>1. /\ Shows(u) = Shows(s) \cup ShowOf(b) /\ Loops(u) = Loops(s) \cup LoopOf(b)
          /\ Ends(u) = Ends(s) \cup EndOf(b) /\ Makes(u) = Makes(s) \cup Made(b)
      BY <1>2, <1>4, OnSets
    <2>2. ShowOf(b) = {} /\ LoopOf(b) = {} /\ EndOf(b) = {v} /\ Made(b) = {}
      BY <1>2 DEF ShowOf, LoopOf, EndOf, Made
    <2>3. QED
      BY <2>1, <2>2
  <1>10. PICK x \in Valid : x = v /\ x \in Dialogs
    OBVIOUS
  <1>11. QED
    BY <1>2, <1>3, <1>5, <1>6, <1>7, <1>8, <1>9, <1>10, DestroyOnDlg

(* DestroyMainWindow, called by the program.                               *)
LEMMA DestroyMainWindowDlg ==
  ASSUME AllInv, "refusal" \notin Careless, NEW w \in Windows, DestroyMainWindow(w)
  PROVE  DlgKept
  <1>1. /\ Runs /\ w \in Valid /\ w \notin Dialogs /\ MayDestroy(w) /\ calls' = <<DestroyCall(w)>> \o calls
        /\ UNCHANGED <<DataType, links, disabled>>
    BY DEF DestroyMainWindow, Pushed
  <1>2. MainInv /\ TypeOK /\ calls \in Seq(Call) /\ DFrames(calls)
    BY DEF AllInv, DlgInv, MainInv, Wits, TypeOK
  <1>3. Fit(calls, w)
    BY <1>1, FitCalls
  <1>4. PICK s \in Seq(Call) : s = calls
    BY <1>2
  <1>5. PICK c \in Call : c = DestroyCall(w) /\ c.op = "destroy" /\ c.w = w /\ c.pc = "hosted"
    BY <1>1, <1>2, DestroyIs
  <1>6. PICK t : On(t, c, s)
    BY DEF On
  <1>7. t = calls'
    BY <1>1, <1>4, <1>5, <1>6 DEF On
  <1>8. ~Firm(t, Len(s) + 1)
    <2>1. PICK n \in Nat : n = Len(s)
      BY <1>4
    <2>2. Fr(t, n + 1) = c /\ \A k \in 1 .. n : Fr(t, k) = Fr(s, k)
      BY <1>5, <1>6, <2>1, OnShape
    <2>3. n # 0 => Fr(t, n).pc # "calls"
      <3>1. n # 0 => Top = Fr(calls, n) /\ Top.pc \in Free /\ n \in 1 .. n
        BY <1>1, <1>2, <1>4, <2>1, TopType, CallsType DEF Runs
      <3>2. QED
        BY <1>4, <2>2, <3>1 DEF Free
    <2>4. ASSUME NEW k \in 1 .. n + 1, Fr(t, k).op = "end", \A j \in k .. (n + 1) - 1 : Fr(t, j).pc = "calls"
          PROVE  FALSE
      <3>1. k # n + 1
        BY <1>5, <2>2, <2>4
      <3>2. n \in k .. (n + 1) - 1 /\ n # 0
        BY <3>1
      <3>3. QED
        BY <2>3, <2>4, <3>2
    <2>5. QED
      BY <2>1, <2>4 DEF Firm
  <1>9. DFrames(s) /\ Fit(s, w)
    BY <1>2, <1>3, <1>4
  <1>10. Shows(s) = Shows(calls) /\ Loops(s) = Loops(calls) /\ Makes(s) = Makes(calls) /\ Ends(s) = Ends(calls)
    BY <1>4
  <1>11. PICK v \in Valid : v = w /\ v \notin Dialogs
    BY <1>1
  <1>12. QED
    BY <1>1, <1>5, <1>6, <1>7, <1>8, <1>9, <1>10, <1>11, DestroyOnDlg

(* EndDialog has an effect only where the loop runs.                       *)
LEMMA LoopThere ==
  ASSUME TypeOK, NEW v, Endable(v)
  PROVE  \E k \in 1 .. Len(calls) : Dlg(calls, k, v) /\ Fr(calls, k).pc = "loop"
  <1>1. calls \in Seq(Call) /\ Len(calls) \in Nat
    BY CallsType
  <1>2. PICK i \in DOMAIN calls : calls[i] = New("dialog", v, "loop")
    BY DEF Endable
  <1>3. Len(calls) - i + 1 \in 1 .. Len(calls) /\ Fr(calls, Len(calls) - i + 1) = calls[i]
    BY <1>1 DEF Fr
  <1>4. QED
    BY <1>2, <1>3 DEF Dlg, New

(* EndDialog, called by the program.                                       *)
LEMMA EndDialogDlg ==
  ASSUME AllInv, "refusal" \notin Careless, NEW w \in Windows, EndDialog(w)
  PROVE  DlgKept
  <1>1. /\ Runs /\ w \in Valid \cap Dialogs /\ MayDestroy(w) /\ Endable(w) /\ calls' = EndCalls(w) \o calls
        /\ UNCHANGED <<DataType, links, disabled>>
    BY DEF EndDialog
  <1>2. MainInv /\ TypeOK /\ calls \in Seq(Call) /\ DFrames(calls)
    BY DEF AllInv, DlgInv, MainInv, Wits, TypeOK
  <1>3. Fit(calls, w) /\ \E k \in 1 .. Len(calls) : Dlg(calls, k, w) /\ Fr(calls, k).pc = "loop"
    BY <1>1, <1>2, FitCalls, LoopThere
  <1>4. QED
    BY <1>1, <1>2, <1>3, EndCallsDlg

(* The next hosted window is destroyed, a dialog box by EndDialog.         *)
LEMMA DestroyHostedDlg ==
  ASSUME AllInv, DestroyHosted
  PROVE  DlgKept
  <1>1. /\ calls # << >> /\ Top.pc = "hosted" /\ UNCHANGED <<DataType, links, disabled>>
        /\ MainInv /\ TypeOK /\ Lists /\ HostsRight /\ calls \in Seq(Call) /\ DFrames(calls)
    BY TreeHosts DEF DestroyHosted, AtHosted, At, AllInv, DlgInv, MainInv, Wits, TypeOK
  <1>2. PICK h \in Valid : /\ h = Top.hosted
                          /\ \/ calls' = <<DestroyCall(h)>> \o Waiting(calls, pNextHosted[h]) /\ h \notin Dialogs
                             \/ /\ calls' = EndCalls(h) \o Waiting(calls, pNextHosted[h])
                                /\ h \in Dialogs /\ Endable(h)
    BY DEF DestroyHosted, Waiting
  <1>3. PICK d \in Ranks, r \in Ranks : TreeInv(d) /\ ListInv(r)
    BY <1>1 DEF Lists
  <1>4. PICK y : y = pNextHosted[h]
    OBVIOUS
  <1>5. PICK w \in Valid : w = Top.w
    BY <1>1, <1>2, <1>3, <1>4, InTurn
  <1>6. Top.op = "destroy" /\ pHosting[h] = w /\ y \in Windows \cup {NULL}
    BY <1>1, <1>2, <1>3, <1>4, <1>5, InTurn
  <1>7. PICK c \in Call : c = WaitOf(Top, y) /\ Waiting(calls, y) = <<c>> \o Tail(calls)
    BY <1>1, <1>6, WaitShape DEF Top
  <1>8. c.op = "destroy" /\ c.w = w /\ c.pc = "calls"
    <2>1. Top \in Call
      BY <1>1, TopType
    <2>2. QED
      BY <1>5, <1>6, <1>7, <2>1 DEF WaitOf, Call
  <1>9. PICK n \in Nat \ {0} : n = Len(calls) /\ Top = Fr(calls, n)
    BY <1>1, TopType
  <1>10. PICK s : s = <<c>> \o Tail(calls)
    OBVIOUS
  <1>11. s \in Seq(Call) /\ Len(s) = n /\ Fr(s, n) = c /\ \A k \in 1 .. n - 1 : Fr(s, k) = Fr(calls, k)
    <2>1. s \in Seq(Call) /\ Len(s) = Len(calls) /\ Fr(s, Len(calls)) = c /\ Keeps(calls, s, Len(calls) - 1)
      BY <1>1, <1>10, ReplacedShape
    <2>2. QED
      BY <1>9, <2>1 DEF Keeps
  <1>12. Shows(s) = Shows(calls) /\ Ends(s) = Ends(calls) /\ Makes(s) = Makes(calls) /\ Loops(s) = Loops(calls)
    <2>1. PICK rest \in Seq(Call) : rest = Tail(calls)
      BY <1>1, SetsTop
    <2>2. On(s, c, rest)
      BY <1>10, <2>1 DEF On
    <2>3. /\ Shows(s) = Shows(rest) \cup ShowOf(c) /\ Loops(s) = Loops(rest) \cup LoopOf(c)
          /\ Ends(s) = Ends(rest) \cup EndOf(c) /\ Makes(s) = Makes(rest) \cup Made(c)
      <3>1. c \in Call
        OBVIOUS
      <3>2. rest \in Seq(Call)
        OBVIOUS
      <3>3. QED
        BY <2>2, <3>1, <3>2, OnSets
    <2>4. /\ Shows(calls) = Shows(rest) \cup ShowOf(Top) /\ Loops(calls) = Loops(rest) \cup LoopOf(Top)
          /\ Ends(calls) = Ends(rest) \cup EndOf(Top) /\ Makes(calls) = Makes(rest) \cup Made(Top)
      BY <1>1, <2>1, SetsTop
    <2>5. /\ ShowOf(c) = {} /\ LoopOf(c) = {} /\ EndOf(c) = {} /\ Made(c) = {}
          /\ ShowOf(Top) = {} /\ LoopOf(Top) = {} /\ EndOf(Top) = {} /\ Made(Top) = {}
      BY <1>6, <1>8 DEF ShowOf, LoopOf, EndOf, Made
    <2>6. QED
      BY <2>3, <2>4, <2>5
  <1>13. Firm(s, n) => Firm(calls, n)
    BY <1>6, <1>8, <1>9, <1>11, FirmKept
  <1>14. ASSUME NEW x, Ready(calls, n, x) PROVE Ready(s, n, x) /\ Ready(s, n + 1, x)
    <2>1. Ready(s, n, x)
      BY <1>11, <1>14 DEF Ready, Dlg
    <2>2. c.op # "dialog" /\ \A k \in 1 .. (n + 1) - 1 : k \in 1 .. n - 1 \/ k = n
      BY <1>8
    <2>3. QED
      BY <1>11, <2>1, <2>2 DEF Ready, Dlg
  <1>15. DFrame(calls, n)
    BY <1>1, <1>9 DEF DFrames
  <1>16. DFrames(s)
    <2>1. ASSUME NEW l \in 1 .. n - 1 PROVE DFrame(s, l)
      <3>1. DFrame(calls, l) /\ l \in Nat \ {0} /\ \A k \in 1 .. l : Fr(s, k) = Fr(calls, k)
        BY <1>1, <1>9, <1>11 DEF DFrames
      <3>2. QED
        BY <3>1, PrefixSame
    <2>2. DFrame(s, n)
      <3>1. CalledOK(s, n)
        <4>1. n > 1 => n - 1 \in 1 .. n - 1
          BY <1>9
        <4>2. QED
          BY <1>5, <1>6, <1>8, <1>9, <1>11, <1>15, <4>1 DEF DFrame, CalledOK
      <3>2. ReadyOK(s, n)
        BY <1>5, <1>6, <1>8, <1>9, <1>11, <1>13, <1>14, <1>15 DEF DFrame, ReadyOK
      <3>3. QED
        BY <1>8, <1>11, <3>1, <3>2 DEF DFrame, DialogOK, EndOK
    <2>3. \A l \in 1 .. n : l \in 1 .. n - 1 \/ l = n
      BY <1>9
    <2>4. QED
      BY <1>11, <2>1, <2>2, <2>3 DEF DFrames
  <1>17. pHosting \in Links /\ w # NULL /\ w \in Windows
    BY <1>1, MainWinAssumption DEF TypeOK, Links, Valid
  <1>18. ASSUME NEW e, h \in Up(e) PROVE w \in Up(e)
    BY <1>6, <1>17, <1>18, ReachStep DEF Up
  <1>19. Fit(s, h)
    <2>1. ASSUME NEW e \in Valid \cap Dialogs, h \in Up(e) PROVE Ready(s, n + 1, e)
      <3>1. w \in Up(e)
        BY <1>18, <2>1
      <3>2. Ready(calls, n, e)
        BY <1>5, <1>6, <1>9, <1>15, <3>1 DEF DFrame, ReadyOK
      <3>3. QED
        BY <1>14, <3>2
    <2>2. QED
      BY <1>11, <2>1 DEF Fit
  <1>20. CASE h \notin Dialogs
    <2>1. PICK b \in Call : b = DestroyCall(h) /\ b.op = "destroy" /\ b.w = h /\ b.pc = "hosted"
      BY <1>1, DestroyIs
    <2>2. PICK t : On(t, b, s)
      BY DEF On
    <2>3. t = calls'
      BY <1>2, <1>4, <1>7, <1>10, <1>20, <2>1, <2>2 DEF On
    <2>4. Firm(t, Len(s) + 1) => Ready(s, Len(s) + 1, h)
      <3>1. SUFFICES ASSUME Firm(t, n + 1) PROVE Ready(s, n + 1, h)
        BY <1>11
      <3>2. Fr(t, n + 1) = b /\ \A k \in 1 .. n : Fr(t, k) = Fr(s, k)
        BY <1>11, <2>1, <2>2, OnShape
      <3>3. PICK k \in 1 .. n + 1 : Fr(t, k).op = "end" /\ \A j \in k .. (n + 1) - 1 : Fr(t, j).pc = "calls"
        BY <3>1 DEF Firm
      <3>4. k \in 1 .. n /\ \A j \in k .. n - 1 : j \in k .. (n + 1) - 1 /\ j \in 1 .. n
        BY <2>1, <3>2, <3>3
      <3>5. Firm(s, n)
        BY <3>2, <3>3, <3>4 DEF Firm
      <3>6. Ready(calls, n, w)
        BY <1>5, <1>6, <1>9, <1>13, <1>15, <3>5 DEF DFrame, ReadyOK
      <3>7. h \notin Up(w)
        BY <1>1, <1>3, <1>6, UpAcyclic
      <3>8. \A e \in Under(h) : e \in Under(w)
        <4>1. ASSUME NEW e \in Under(h) PROVE e \in Under(w)
          <5>1. e \in Valid \cap Dialogs /\ h \in Up(e)
            BY DEF Under
          <5>2. w \in Up(e) /\ e # w
            BY <1>18, <3>7, <5>1
          <5>3. QED
            BY <5>1, <5>2 DEF Under
        <4>2. QED
          BY <4>1
      <3>9. Ready(calls, n, h)
        BY <3>6, <3>8 DEF Ready
      <3>10. QED
        BY <1>14, <3>9
    <2>5. QED
      BY <1>1, <1>11, <1>12, <1>16, <1>19, <1>20, <2>1, <2>2, <2>3, <2>4, DestroyOnDlg
  <1>21. CASE h \in Dialogs
    <2>1. PICK k \in 1 .. Len(calls) : Dlg(calls, k, h) /\ Fr(calls, k).pc = "loop"
      BY <1>1, <1>2, <1>21, LoopThere
    <2>2. k \in 1 .. n - 1
      BY <1>6, <1>9, <2>1 DEF Dlg
    <2>3. \E j \in 1 .. Len(s) : Dlg(s, j, h) /\ Fr(s, j).pc = "loop"
      BY <1>9, <1>11, <2>1, <2>2 DEF Dlg
    <2>4. calls' = EndCalls(h) \o s
      BY <1>2, <1>4, <1>7, <1>10, <1>21
    <2>5. QED
      BY <1>1, <1>11, <1>12, <1>16, <1>19, <1>21, <2>3, <2>4, EndCallsDlg
  <1>22. QED
    BY <1>20, <1>21

(* TreeHosts, for the state after a step.                                  *)
LEMMA HostsNext == (TypeOK /\ Lists => HostsRight)'
  BY TreeHosts, PTL

(* The host of a window is valid as long as the window is.                 *)
LEMMA FactsFrom ==
  ASSUME MainInv, MainInv', NoneBack, \A v \in Valid \cap Valid' : pHosting'[v] = pHosting[v]
  PROVE  StepFacts
  <1>1. HostsRight'
    BY HostsNext DEF MainInv, Wits
  <1>2. QED
    BY <1>1 DEF StepFacts, HostsKept, HostsRight

(* A step that leaves the windows alone.                                   *)
LEMMA SameFacts ==
  ASSUME MainInv, MainInv', UNCHANGED <<DataType, pHosting>>
  PROVE  StepFacts
  <1>1. NoneBack /\ \A v \in Valid \cap Valid' : pHosting'[v] = pHosting[v]
    BY DEF NoneBack, Valid
  <1>2. QED
    BY <1>1, FactsFrom

(* The memory of w is freed, or allocated.                                 *)
LEMMA OneFacts ==
  ASSUME MainInv, MainInv', NEW w \in Windows, NEW v, NEW h,
         DataType' = Put(DataType, w, v), pHosting' = Put(pHosting, w, h),
         v = "none" \/ DataType[w] = "none"
  PROVE  StepFacts
  <1>1. TypeOK
    BY DEF MainInv, Wits
  <1>2. w \notin Valid \cap Valid'
    BY <1>1 DEF Valid, Put, TypeOK
  <1>3. NoneBack /\ \A x \in Valid \cap Valid' : pHosting'[x] = pHosting[x]
    BY <1>1, <1>2 DEF NoneBack, Valid, Put, TypeOK
  <1>4. QED
    BY <1>3, FactsFrom

(* A window that is destroyed keeps its memory.                            *)
LEMMA DestroyedFacts ==
  ASSUME MainInv, MainInv', Destroyed
  PROVE  StepFacts
  <1>1. TypeOK /\ DataType' = Put(DataType, Top.w, "TYPE_WINTODEL") /\ pHosting' = pHosting
    BY DEF MainInv, Wits, Destroyed
  <1>2. NoneBack /\ \A x \in Valid \cap Valid' : pHosting'[x] = pHosting[x]
    BY <1>1 DEF NoneBack, Valid, Put, TypeOK
  <1>3. QED
    BY <1>2, FactsFrom

(* The facts of what the program calls,                                    *)
LEMMA ProgramFacts ==
  ASSUME MainInv, MainInv', Program
  PROVE  StepFacts
  <1>1. PICK w \in Windows :
           \/ \E h \in Windows \cup {NULL} : CreateMainWindow(w, h) \/ DialogBox(w, h)
           \/ EndDialog(w) \/ DestroyMainWindow(w) \/ MainWindowCleanup(w)
           \/ SetTimer(w) \/ KillTimer(w) \/ PostMessage(w) \/ GetMessage(w)
    BY DEF Program
  <1>2. ASSUME NEW h, CreateMainWindow(w, h) \/ DialogBox(w, h)
        PROVE  StepFacts
    <2>1. /\ DataType[w] = "none" /\ DataType' = Put(DataType, w, "TYPE_HWND")
          /\ pHosting' = Put(pHosting, w, IF pRootMainWin = NULL THEN NULL ELSE HostFor(h))
      BY <1>2 DEF CreateMainWindow, DialogBox, Allocated
    <2>2. QED
      BY <2>1, OneFacts
  <1>3. CASE MainWindowCleanup(w)
    BY <1>3, OneFacts DEF MainWindowCleanup, Wiped
  <1>4. CASE \/ EndDialog(w) \/ DestroyMainWindow(w)
             \/ SetTimer(w) \/ KillTimer(w) \/ PostMessage(w) \/ GetMessage(w)
    BY <1>4, SameFacts DEF EndDialog, DestroyMainWindow, SetTimer, KillTimer, PostMessage, GetMessage, links
  <1>5. QED
    BY <1>1, <1>2, <1>3, <1>4

(* and of what its window procedures answer and the library does.          *)
LEMMA CallFacts ==
  ASSUME MainInv, MainInv', Answer \/ Library
  PROVE  StepFacts
  <1>1. TypeOK /\ calls # << >>
    BY DEF MainInv, Wits, Answer, NcCreated, NcFailed, Created, CreateFailed, Refuse, Destroyed, At,
           Library, DialogShown, DialogEnds, DialogEnded, DestroyHosted,
           HostedRefuses, NextHosted, Refused, NoneHosted, AtHosted
  <1>2. Top \in Call /\ Top.w \in Windows /\ Sound(Top)
    BY <1>1, TopType, TopSound DEF MainInv, Wits
  <1>3. CASE \/ NcCreated \/ Created \/ Refuse \/ DialogShown \/ DialogEnded \/ DestroyHosted
             \/ HostedRefuses \/ Refused \/ NoneHosted
    BY <1>3, SameFacts DEF NcCreated, Created, Refuse, DialogShown, DialogEnded, DestroyHosted,
                           HostedRefuses, Refused, NoneHosted, AtHosted, links
  <1>4. CASE NcFailed \/ CreateFailed \/ DialogEnds
    BY <1>2, <1>4, OneFacts DEF NcFailed, CreateFailed, DialogEnds, Failed, Wiped
  <1>5. CASE NextHosted
    <2>1. CASE Top.hosted \in Dialogs
      BY <1>5, <2>1, SameFacts DEF NextHosted, links
    <2>2. CASE Top.hosted \notin Dialogs
      <3>1. Top.hosted \in Windows
        BY <1>2, <1>5, <2>2 DEF NextHosted, Sound, Call
      <3>2. QED
        BY <1>5, <2>2, <3>1, OneFacts DEF NextHosted, Wiped
    <2>3. QED
      BY <2>1, <2>2
  <1>6. CASE Destroyed
    BY <1>6, DestroyedFacts
  <1>7. QED
    BY <1>3, <1>4, <1>5, <1>6 DEF Answer, Library

-----------------------------------------------------------------------------
(* A program with one dialog box for an owner at a time, and in which no   *)
(* window that EndDialog is to destroy refuses.                            *)
Modest == {"refusal", "owner"} \cap Careless = {}

(* No window and no call: the invariant holds at first.                    *)
LEMMA InitDlg == Init => AllInv
  <1> SUFFICES ASSUME Init PROVE AllInv
    OBVIOUS
  <1>1. MainInv /\ calls = << >> /\ Len(calls) = 0 /\ disabled = {} /\ Valid = {}
    BY InitHolds, MainWinAssumption DEF Init, Valid
  <1>2. 1 .. 0 = {}
    OBVIOUS
  <1>3. DFrames(calls)
    BY <1>1, <1>2 DEF DFrames
  <1>4. Shows(calls) = {} /\ Loops(calls) = {} /\ Ends(calls) = {}
    BY <1>1, <1>2 DEF Shows, Loops, Looped, Ends, Ending
  <1>5. OwnersInv
    BY <1>1, <1>4 DEF OwnersInv, Current
  <1>6. QED
    BY <1>1, <1>3, <1>5 DEF AllInv, DlgInv

(* What the calls promise, and the owners, are kept by each action;        *)
LEMMA StepDlg ==
  ASSUME AllInv, MainInv', Modest, Next
  PROVE  DlgKept
  <1>1. StepFacts
    BY ProgramFacts, CallFacts DEF Next, AllInv, DlgInv
  <1>2. "refusal" \notin Careless /\ "owner" \notin Careless
    BY DEF Modest
  <1>3. CASE Program
    <2>1. PICK w \in Windows :
             \/ \E h \in Windows \cup {NULL} : CreateMainWindow(w, h) \/ DialogBox(w, h)
             \/ EndDialog(w) \/ DestroyMainWindow(w) \/ MainWindowCleanup(w)
             \/ SetTimer(w) \/ KillTimer(w) \/ PostMessage(w) \/ GetMessage(w)
      BY <1>3 DEF Program
    <2>2. ASSUME NEW h, CreateMainWindow(w, h) PROVE DlgKept
      BY <1>1, <2>2, CreateMainWindowDlg
    <2>3. ASSUME NEW h, DialogBox(w, h) PROVE DlgKept
      BY <1>1, <1>2, <2>3, DialogBoxDlg
    <2>4. CASE EndDialog(w)
      BY <1>2, <2>4, EndDialogDlg
    <2>5. CASE DestroyMainWindow(w)
      BY <1>2, <2>5, DestroyMainWindowDlg
    <2>6. CASE MainWindowCleanup(w)
      BY <1>1, <2>6, CleanupDlg
    <2>7. CASE SetTimer(w) \/ KillTimer(w) \/ PostMessage(w) \/ GetMessage(w)
      <3>1. UNCHANGED <<DataType, links, disabled, calls>>
        BY <2>7 DEF SetTimer, KillTimer, PostMessage, GetMessage
      <3>2. QED
        BY <3>1, TracesDlg
    <2>8. QED
      BY <2>1, <2>2, <2>3, <2>4, <2>5, <2>6, <2>7
  <1>4. CASE NcCreated \/ HostedRefuses \/ NoneHosted
    BY <1>1, <1>4, MovesDlg
  <1>5. CASE NcFailed \/ CreateFailed
    BY <1>1, <1>5, FailedDlg
  <1>6. CASE Created
    BY <1>1, <1>6, CreatedDlg
  <1>7. CASE Refuse \/ Refused
    BY <1>1, <1>2, <1>7, RefusesDlg
  <1>8. CASE Destroyed
    BY <1>1, <1>8, DestroyedDlg
  <1>9. CASE DialogShown
    BY <1>1, <1>9, DialogShownDlg
  <1>10. CASE DialogEnds
    BY <1>1, <1>10, DialogEndsDlg
  <1>11. CASE DialogEnded
    BY <1>1, <1>11, DialogEndedDlg
  <1>12. CASE DestroyHosted
    BY <1>12, DestroyHostedDlg
  <1>13. CASE NextHosted
    BY <1>1, <1>13, NextHostedDlg
  <1>14. QED
    BY <1>3, <1>4, <1>5, <1>6, <1>7, <1>8, <1>9, <1>10, <1>11, <1>12, <1>13 DEF Next, Answer, Library

(* so the invariant is kept by every step,                                 *)
LEMMA DlgStep ==
  ASSUME AllInv, Careful, Modest, [Next]_vars
  PROVE  AllInv'
  <1>1. MainInv'
    BY InvStep DEF AllInv, DlgInv
  <1>2. DlgKept
    <2>1. CASE Next
      BY <1>1, <2>1, StepDlg
    <2>2. CASE UNCHANGED vars
      <3>1. UNCHANGED <<DataType, links, disabled, calls>>
        BY <2>2 DEF vars
      <3>2. QED
        BY <3>1, TracesDlg
    <2>3. QED
      BY <2>1, <2>2
  <1>3. QED
    BY <1>1, <1>2 DEF AllInv, DlgInv, DlgKept

(* and it says of the owners what is to be shown.                          *)
LEMMA OwnersImplied ==
  ASSUME AllInv
  PROVE  OwnersBack
  <1>1. TypeOK /\ OwnersInv /\ calls \in Seq(Call) /\ Len(calls) \in Nat
    BY CallsType DEF AllInv, DlgInv, MainInv, Wits
  <1>2. ASSUME NEW d \in Valid \cap Dialogs, Endable(d), pHosting[d] # NULL
        PROVE  pHosting[d] \in disabled
    <2>1. \E k \in 1 .. Len(calls) : Dlg(calls, k, d) /\ Fr(calls, k).pc = "loop"
      BY <1>1, <1>2, LoopThere
    <2>2. d \in Loops(calls)
      BY <2>1 DEF Loops, Looped, Valid
    <2>3. QED
      BY <1>1, <1>2, <2>2 DEF OwnersInv
  <1>3. ASSUME NEW w \in disabled
        PROVE  \E d \in Dialogs :
                  /\ pHosting[d] = w
                  /\ d \in Valid \/ \E i \in DOMAIN calls : calls[i].op = "end" /\ calls[i].w = d
    <2>1. PICK d \in Dialogs : Back(d) /\ pHosting[d] = w
      BY <1>1, <1>3 DEF OwnersInv
    <2>2. ASSUME d \in Ends(calls)
          PROVE  \E i \in DOMAIN calls : calls[i].op = "end" /\ calls[i].w = d
      <3>1. PICK k \in 1 .. Len(calls) : Fr(calls, k).op = "end" /\ Fr(calls, k).w = d
        BY <2>2 DEF Ends, Ending
      <3>2. Len(calls) - k + 1 \in DOMAIN calls
        BY <1>1, <3>1
      <3>3. QED
        BY <3>1, <3>2 DEF Fr
    <2>3. QED
      BY <2>1, <2>2 DEF Back
  <1>4. QED
    BY <1>2, <1>3 DEF OwnersBack

(* The owner of a dialog box is disabled as long as the loop of DialogBox  *)
(* runs, and is enabled again whenever the box goes, by EndDialog or with  *)
(* a window that hosts it, whatever dialog boxes are open inside it: by a  *)
(* program that has one box for an owner, and in which no window that      *)
(* EndDialog is to destroy refuses.                                        *)
THEOREM OwnersHold ==
  ASSUME Careful, Modest
  PROVE  Spec => []OwnersBack
  <1>1. AllInv /\ [Next]_vars => AllInv'
    BY DlgStep
  <1>2. AllInv => OwnersBack
    BY OwnersImplied
  <1>3. QED
    BY <1>1, <1>2, InitDlg, PTL DEF Spec

-----------------------------------------------------------------------------
(* The window of each call under way has its memory, and what              *)
(* DestroyMainWindow frees next has been destroyed.                        *)
MemoryKept ==
    \A i \in DOMAIN calls :
        /\ DataType[calls[i].w] # "none"
        /\ calls[i].op = "destroy" /\ calls[i].pc = "next" /\ calls[i].hosted \notin Dialogs =>
              calls[i].hosted # NULL /\ DataType[calls[i].hosted] = "TYPE_WINTODEL"

(* No call finds the memory of its window freed when it goes on: DialogBox *)
(* reads the dialog box in its loop, and EndDialog its owner, after others *)
(* have destroyed the box; and DestroyMainWindow frees no hosted window    *)
(* that is still valid, nor twice.                                         *)
THEOREM MemoryHolds ==
  ASSUME Careful, Modest
  PROVE  Spec => []MemoryKept
  <1>1. AllInv /\ [Next]_vars => AllInv'
    BY DlgStep
  <1>2. ASSUME AllInv PROVE MemoryKept
    <2>1. TypeOK /\ FramesInv /\ DFrames(calls)
      BY <1>2 DEF AllInv, DlgInv, MainInv, Wits
    <2>2. ASSUME NEW k \in 1 .. Len(calls), Fr(calls, k).op = "dialog"
          PROVE  DataType[Fr(calls, k).w] # "none"
      BY <2>1, <2>2 DEF DFrames, DFrame, DialogOK
    <2> SUFFICES ASSUME NEW i \in DOMAIN calls
                 PROVE  /\ DataType[calls[i].w] # "none"
                        /\ calls[i].op = "destroy" /\ calls[i].pc = "next"
                               /\ calls[i].hosted \notin Dialogs =>
                              calls[i].hosted # NULL /\ DataType[calls[i].hosted] = "TYPE_WINTODEL"
      BY DEF MemoryKept
    <2>3. PICK k \in 1 .. Len(calls) : calls[i] = Fr(calls, k) /\ calls[i] \in Call
      BY <2>1, FrameOf
    <2> DEFINE f == calls[i]
    <2>4. f = Fr(calls, k) /\ f.op \in {"create", "dialog", "destroy", "end"}
      BY <2>3 DEF Call
    <2>5. Sound(f)
      BY <2>1, <2>4 DEF FramesInv, Frames
    <2> HIDE DEF f
    <2>6. f.op \in {"create", "destroy"} => DataType[f.w] # "none"
      BY <2>5 DEF Sound, Pinned, Valid
    <2>7. f.op = "dialog" => DataType[f.w] # "none"
      BY <2>2, <2>4
    <2>8. ASSUME f.op = "end" PROVE DataType[f.w] # "none"
      <3>1. EndOK(calls, k)
        BY <2>1 DEF DFrames, DFrame
      <3>2. PICK l \in 1 .. k - 1 : Dlg(calls, l, f.w)
        BY <2>4, <2>8, <3>1 DEF EndOK
      <3>3. l \in 1 .. Len(calls)
        BY <2>1 DEF TypeOK
      <3>4. QED
        BY <2>2, <3>2, <3>3 DEF Dlg
    <2>9. f.op = "destroy" /\ f.pc = "next" /\ f.hosted \notin Dialogs =>
              f.hosted # NULL /\ DataType[f.hosted] = "TYPE_WINTODEL"
      BY <2>5 DEF Sound
    <2>10. QED
      BY <2>4, <2>6, <2>7, <2>8, <2>9 DEF f
  <1>3. QED
    BY <1>1, <1>2, InitDlg, PTL DEF Spec
=============================================================================
