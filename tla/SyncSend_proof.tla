---------------------------- MODULE SyncSend_proof ----------------------------
(***************************************************************************)
(* Proofs about SyncSend: whoever sends to whom, and however window        *)
(* procedures and message loops nest, a message is handled once and        *)
(* answered once, so that each call goes through the steps of SyncCall.    *)
(***************************************************************************)
EXTENDS SyncSend, SequenceTheorems, FiniteSetTheorems, WellFoundedInduction, TLAPS

(* A call under way has the thread it is made to; a message loop or a      *)
(* drain is what the calls above it interrupt.                             *)
FrameOK(s) ==
    /\ \A i \in 1 .. Len(s) : s[i].at # "proc" => s[i].peer \in Threads
    /\ \A i \in 2 .. Len(s) : s[i].at \in {"proc", "drain"}

DataOK ==
    /\ syncMsgs \in [Threads -> Seq(Threads)]
    /\ sem \in [Threads -> Nat]
    /\ stack \in [Threads -> Seq(Frame)]
    /\ \A t \in Threads : FrameOK(stack[t])

(* The message of u is the i-th in the list of r, or what the i-th call of *)
(* r handles.                                                              *)
Asks(u, r, i) == i \in 1 .. Len(syncMsgs[r]) /\ syncMsgs[r][i] = u
Handles(u, r, i) ==
    i \in 1 .. Len(stack[r]) /\ stack[r][i].at = "proc" /\ stack[r][i].peer = u

(* It is nowhere, in one list once, or with one procedure.                 *)
Unlisted(u) == \A r \in Threads, i \in Nat : ~Asks(u, r, i)
Untaken(u)  == \A r \in Threads, i \in Nat : ~Handles(u, r, i)
ListedAt(u, r, i) ==
    /\ Asks(u, r, i)
    /\ \A q \in Threads, j \in Nat : Asks(u, q, j) => q = r /\ j = i
TakenAt(u, r, i) ==
    /\ Handles(u, r, i)
    /\ \A q \in Threads, j \in Nat : Handles(u, q, j) => q = r /\ j = i
Listed(u) == \E r \in Threads, i \in Nat : ListedAt(u, r, i)
Taken(u)  == \E r \in Threads, i \in Nat : TakenAt(u, r, i)

(* What the call of u is at, as SyncCall has it.                           *)
IsNone(u)     == ~In(u, "wait") /\ sem[u] = 0 /\ Unlisted(u) /\ Untaken(u)
IsAsked(u)    == In(u, "wait") /\ sem[u] = 0 /\ Listed(u) /\ Untaken(u)
IsHandled(u)  == In(u, "wait") /\ sem[u] = 0 /\ Unlisted(u) /\ Taken(u)
IsAnswered(u) == In(u, "wait") /\ sem[u] = 1 /\ Unlisted(u) /\ Untaken(u)

Where(u) == IsNone(u) \/ IsAsked(u) \/ IsHandled(u) \/ IsAnswered(u)

AnswerInv == DataOK /\ \A u \in Threads : Where(u)

(* A step that is none of the call of u.                                   *)
Same(u) ==
    /\ IsNone(u) => IsNone(u)'
    /\ IsAsked(u) => IsAsked(u)'
    /\ IsHandled(u) => IsHandled(u)'
    /\ IsAnswered(u) => IsAnswered(u)'

-----------------------------------------------------------------------------
(* What the operations on a stack do to its places.                        *)
LEMMA PushFrame ==
  ASSUME NEW s \in Seq(Frame), NEW f \in Frame
  PROVE  /\ <<f>> \o s \in Seq(Frame)
         /\ Len(<<f>> \o s) = Len(s) + 1
         /\ (<<f>> \o s)[1] = f
         /\ \A i \in 2 .. Len(s) + 1 : (<<f>> \o s)[i] = s[i - 1]
         /\ <<f>> \o s # << >> /\ Head(<<f>> \o s) = f
  <1>1. <<f>> \in Seq(Frame) /\ Len(<<f>>) = 1 /\ <<f>>[1] = f
    OBVIOUS
  <1>2. QED
    BY <1>1, ConcatProperties

LEMMA PopFrame ==
  ASSUME NEW S, NEW s \in Seq(S), s # << >>
  PROVE  /\ Tail(s) \in Seq(S)
         /\ Len(s) \in Nat \ {0} /\ Len(Tail(s)) = Len(s) - 1
         /\ Head(s) = s[1]
         /\ \A i \in 1 .. Len(s) - 1 : Tail(s)[i] = s[i + 1]
  BY HeadTailProperties, EmptySeq

(* A call is entered: what the frames handle moves up by one place.        *)
LEMMA Entered ==
  ASSUME DataOK, NEW t \in Threads, NEW at, NEW peer,
         [at |-> at, peer |-> peer] \in Frame,
         at # "proc" => peer \in Threads,
         stack[t] = << >> \/ stack[t][1].at \in {"proc", "drain"},
         Enter(t, at, peer)
  PROVE  /\ stack' \in [Threads -> Seq(Frame)]
         /\ \A r \in Threads : FrameOK(stack'[r])
         /\ \A r \in Threads \ {t} : stack'[r] = stack[r]
         /\ \A a : In(t, a)' <=> a = at
         /\ \A u, r \in Threads, j \in Nat : Handles(u, r, j)' <=>
               IF r = t THEN (j = 1 /\ at = "proc" /\ peer = u) \/ (j > 1 /\ Handles(u, t, j - 1))
                        ELSE Handles(u, r, j)
  <1> DEFINE f == [at |-> at, peer |-> peer]
  <1>1. stack[t] \in Seq(Frame) /\ f \in Frame /\ FrameOK(stack[t])
    BY DEF DataOK
  <1>2. stack' = [stack EXCEPT ![t] = <<f>> \o stack[t]]
    BY DEF Enter
  <1>3. /\ stack' \in [Threads -> Seq(Frame)]
        /\ stack'[t] = <<f>> \o stack[t]
        /\ \A r \in Threads \ {t} : stack'[r] = stack[r]
    BY <1>1, <1>2, PushFrame DEF DataOK
  <1>4. /\ Len(stack[t]) \in Nat
        /\ Len(stack'[t]) = Len(stack[t]) + 1
        /\ stack'[t][1] = f
        /\ \A i \in 2 .. Len(stack[t]) + 1 : stack'[t][i] = stack[t][i - 1]
        /\ stack'[t] # << >> /\ Head(stack'[t]) = f
    <2> HIDE DEF f
    <2>1. QED
      BY <1>1, <1>3, PushFrame, LenProperties
  <1>5. FrameOK(stack'[t])
    <2>1. ASSUME NEW i \in 1 .. Len(stack'[t]), stack'[t][i].at # "proc"
          PROVE  stack'[t][i].peer \in Threads
      <3>1. CASE i = 1
        BY <1>4, <2>1, <3>1
      <3>2. CASE i \in 2 .. Len(stack[t]) + 1
        <4>1. i - 1 \in 1 .. Len(stack[t]) /\ stack'[t][i] = stack[t][i - 1]
          BY <1>4, <3>2
        <4>2. QED
          BY <1>1, <2>1, <4>1 DEF FrameOK
      <3>3. QED
        BY <1>4, <3>1, <3>2
    <2>2. ASSUME NEW i \in 2 .. Len(stack'[t])
          PROVE  stack'[t][i].at \in {"proc", "drain"}
      <3>1. i - 1 \in 1 .. Len(stack[t]) /\ stack'[t][i] = stack[t][i - 1]
        BY <1>4
      <3>2. stack[t] # << >>
        BY <1>1, <3>1, EmptySeq
      <3>3. CASE i = 2
        BY <3>1, <3>2, <3>3
      <3>4. CASE i # 2
        <4>1. i - 1 \in 2 .. Len(stack[t])
          BY <3>1, <3>4
        <4>2. QED
          BY <1>1, <3>1, <4>1 DEF FrameOK
      <3>5. QED
        BY <3>3, <3>4
    <2>3. QED
      BY <2>1, <2>2 DEF FrameOK
  <1>6. ASSUME NEW r \in Threads PROVE FrameOK(stack'[r])
    BY <1>3, <1>5 DEF DataOK
  <1>7. ASSUME NEW u \in Threads, NEW r \in Threads, NEW j \in Nat
        PROVE  Handles(u, r, j)' <=>
               IF r = t THEN (j = 1 /\ at = "proc" /\ peer = u) \/ (j > 1 /\ Handles(u, t, j - 1))
                        ELSE Handles(u, r, j)
    <2>1. CASE r # t
      BY <1>3, <2>1 DEF Handles
    <2>2. CASE r = t /\ j = 1
      BY <1>4, <2>2 DEF Handles
    <2>3. CASE r = t /\ j # 1
      <3>1. Handles(u, t, j)' <=> /\ j \in 2 .. Len(stack[t]) + 1
                                  /\ stack[t][j - 1].at = "proc" /\ stack[t][j - 1].peer = u
        BY <1>4, <2>3 DEF Handles
      <3>2. j \in 2 .. Len(stack[t]) + 1 <=> j > 1 /\ j - 1 \in 1 .. Len(stack[t])
        BY <1>4
      <3>3. QED
        BY <2>3, <3>1, <3>2 DEF Handles
    <2>4. QED
      BY <2>1, <2>2, <2>3
  <1>8. \A a : In(t, a)' <=> a = at
    BY <1>4 DEF In
  <1>9. QED
    BY <1>3, <1>6, <1>7, <1>8

(* A call is left: what the frames handle moves down, and a loop or a      *)
(* drain goes on.                                                          *)
LEMMA Left ==
  ASSUME DataOK, NEW t \in Threads, stack[t] # << >>, Leave(t)
  PROVE  /\ stack' \in [Threads -> Seq(Frame)]
         /\ \A r \in Threads : FrameOK(stack'[r])
         /\ \A r \in Threads \ {t} : stack'[r] = stack[r]
         /\ ~In(t, "wait")'
         /\ \A u, r \in Threads, j \in Nat : Handles(u, r, j)' <=>
               IF r = t THEN j > 0 /\ Handles(u, t, j + 1) ELSE Handles(u, r, j)
  <1>1. stack[t] \in Seq(Frame) /\ FrameOK(stack[t])
    BY DEF DataOK
  <1>2. /\ stack' \in [Threads -> Seq(Frame)]
        /\ stack'[t] = Tail(stack[t])
        /\ \A r \in Threads \ {t} : stack'[r] = stack[r]
    BY <1>1, PopFrame DEF DataOK, Leave
  <1>3. /\ Len(stack[t]) \in Nat \ {0}
        /\ Len(stack'[t]) = Len(stack[t]) - 1
        /\ \A i \in 1 .. Len(stack[t]) - 1 : stack'[t][i] = stack[t][i + 1]
    BY <1>1, <1>2, PopFrame
  <1>4. ASSUME NEW i \in 1 .. Len(stack'[t])
        PROVE  /\ i + 1 \in 2 .. Len(stack[t]) /\ i + 1 \in 1 .. Len(stack[t])
               /\ stack'[t][i] = stack[t][i + 1]
    BY <1>3
  <1>5. FrameOK(stack'[t])
    <2>1. ASSUME NEW i \in 1 .. Len(stack'[t]), stack'[t][i].at # "proc"
          PROVE  stack'[t][i].peer \in Threads
      BY <1>1, <1>4, <2>1 DEF FrameOK
    <2>2. ASSUME NEW i \in 2 .. Len(stack'[t])
          PROVE  stack'[t][i].at \in {"proc", "drain"}
      <3>1. i \in 1 .. Len(stack'[t])
        BY <1>3
      <3>2. QED
        BY <1>1, <1>4, <3>1 DEF FrameOK
    <2>3. QED
      BY <2>1, <2>2 DEF FrameOK
  <1>6. ASSUME NEW r \in Threads PROVE FrameOK(stack'[r])
    BY <1>2, <1>5 DEF DataOK
  <1>7. ~In(t, "wait")'
    <2>1. CASE stack'[t] = << >>
      BY <2>1 DEF In
    <2>2. CASE stack'[t] # << >>
      <3>1. Head(stack'[t]) = stack'[t][1] /\ 1 \in 1 .. Len(stack'[t])
        BY <1>2, <2>2, PopFrame
      <3>2. stack'[t][1].at \in {"proc", "drain"}
        BY <1>1, <1>4, <3>1 DEF FrameOK
      <3>3. QED
        BY <3>1, <3>2 DEF In
    <2>3. QED
      BY <2>1, <2>2
  <1>8. ASSUME NEW u \in Threads, NEW r \in Threads, NEW j \in Nat
        PROVE  Handles(u, r, j)' <=>
               IF r = t THEN j > 0 /\ Handles(u, t, j + 1) ELSE Handles(u, r, j)
    <2>1. CASE r # t
      BY <1>2, <2>1 DEF Handles
    <2>2. CASE r = t
      <3>1. j \in 1 .. Len(stack'[t]) <=> j > 0 /\ j + 1 \in 1 .. Len(stack[t])
        BY <1>3
      <3>2. QED
        BY <1>4, <2>2, <3>1 DEF Handles
    <2>3. QED
      BY <2>1, <2>2
  <1>9. QED
    BY <1>2, <1>6, <1>7, <1>8

(* A call that is no procedure goes on: nothing else moves.                *)
LEMMA GoneOn ==
  ASSUME DataOK, NEW t \in Threads, NEW from, In(t, from), from # "proc",
         NEW at \in {"drain", "enqueue", "wait"}, GoOn(t, at)
  PROVE  /\ stack' \in [Threads -> Seq(Frame)]
         /\ \A r \in Threads : FrameOK(stack'[r])
         /\ \A r \in Threads \ {t} : stack'[r] = stack[r]
         /\ \A a : In(t, a)' <=> a = at
         /\ \A u, r \in Threads, j \in Nat : Handles(u, r, j)' <=> Handles(u, r, j)
  <1>1. stack[t] \in Seq(Frame) /\ FrameOK(stack[t]) /\ stack[t] # << >>
    BY DEF DataOK, In
  <1>2. Len(stack[t]) \in Nat \ {0} /\ stack[t][1].at = from
    BY <1>1, PopFrame DEF In
  <1>3. stack[t][1] \in Frame /\ stack[t][1].peer \in Threads
    BY <1>1, <1>2, ElementOfSeq DEF FrameOK
  <1> DEFINE f == [at |-> at, peer |-> stack[t][1].peer]
  <1>4. f \in Frame /\ f = [stack[t][1] EXCEPT !.at = at]
    BY <1>3 DEF Frame
  <1>5. stack' = [stack EXCEPT ![t] = [stack[t] EXCEPT ![1] = f]]
    BY <1>4 DEF GoOn
  <1> HIDE DEF f
  <1>6. /\ [stack[t] EXCEPT ![1] = f] \in Seq(Frame)
        /\ Len([stack[t] EXCEPT ![1] = f]) = Len(stack[t])
        /\ \A j \in 1 .. Len(stack[t]) : [stack[t] EXCEPT ![1] = f][j] = IF j = 1 THEN f ELSE stack[t][j]
    BY <1>1, <1>2, <1>4, ExceptSeq
  <1>7. /\ stack' \in [Threads -> Seq(Frame)]
        /\ stack'[t] = [stack[t] EXCEPT ![1] = f]
        /\ \A r \in Threads \ {t} : stack'[r] = stack[r]
    BY <1>5, <1>6 DEF DataOK
  <1>8. f.at = at /\ f.peer \in Threads
    BY <1>3 DEF f
  <1>9. FrameOK(stack'[t])
    <2>1. ASSUME NEW s \in Seq(Frame), Len(s) = Len(stack[t]),
                 \A j \in 1 .. Len(stack[t]) : s[j] = IF j = 1 THEN f ELSE stack[t][j]
          PROVE  FrameOK(s)
      BY <1>1, <1>2, <1>8, <2>1 DEF FrameOK
    <2>2. QED
      BY <1>6, <1>7, <2>1
  <1>10. ASSUME NEW r \in Threads PROVE FrameOK(stack'[r])
    BY <1>7, <1>9 DEF DataOK
  <1>11. \A a : In(t, a)' <=> a = at
    <2>1. stack'[t] # << >> /\ Head(stack'[t]) = stack'[t][1]
      BY <1>2, <1>6, <1>7, EmptySeq, PopFrame
    <2>2. stack'[t][1] = f
      BY <1>2, <1>6, <1>7
    <2>3. QED
      BY <1>8, <2>1, <2>2 DEF In
  <1>12. ASSUME NEW u \in Threads, NEW r \in Threads, NEW j \in Nat
         PROVE  Handles(u, r, j)' <=> Handles(u, r, j)
    <2>1. CASE r # t
      BY <1>7, <2>1 DEF Handles
    <2>2. CASE r = t
      <3>1. j \in 1 .. Len(stack'[t]) <=> j \in 1 .. Len(stack[t])
        BY <1>6, <1>7
      <3>2. ~Handles(u, t, 1) /\ ~Handles(u, t, 1)'
        BY <1>2, <1>6, <1>7, <1>8 DEF Handles
      <3>3. j \in 1 .. Len(stack[t]) /\ j # 1 => stack'[t][j] = stack[t][j]
        BY <1>6, <1>7
      <3>4. QED
        BY <2>2, <3>1, <3>2, <3>3 DEF Handles
    <2>3. QED
      BY <2>1, <2>2
  <1>13. QED
    BY <1>7, <1>10, <1>11, <1>12

(* The first message of a list is taken off it.                            *)
LEMMA TakenOff ==
  ASSUME DataOK, NEW t \in Threads, syncMsgs[t] # << >>,
         syncMsgs' = [syncMsgs EXCEPT ![t] = Tail(@)]
  PROVE  /\ syncMsgs' \in [Threads -> Seq(Threads)]
         /\ Head(syncMsgs[t]) \in Threads /\ Asks(Head(syncMsgs[t]), t, 1)
         /\ \A u, r \in Threads, j \in Nat : Asks(u, r, j)' <=>
               IF r = t THEN j > 0 /\ Asks(u, t, j + 1) ELSE Asks(u, r, j)
  <1>1. syncMsgs[t] \in Seq(Threads)
    BY DEF DataOK
  <1>2. /\ syncMsgs' \in [Threads -> Seq(Threads)]
        /\ syncMsgs'[t] = Tail(syncMsgs[t])
        /\ \A r \in Threads \ {t} : syncMsgs'[r] = syncMsgs[r]
    BY <1>1, PopFrame DEF DataOK
  <1>3. /\ Len(syncMsgs[t]) \in Nat \ {0}
        /\ Len(syncMsgs'[t]) = Len(syncMsgs[t]) - 1
        /\ Head(syncMsgs[t]) = syncMsgs[t][1]
        /\ \A i \in 1 .. Len(syncMsgs[t]) - 1 : syncMsgs'[t][i] = syncMsgs[t][i + 1]
    BY <1>1, <1>2, PopFrame
  <1>4. ASSUME NEW u \in Threads, NEW r \in Threads, NEW j \in Nat
        PROVE  Asks(u, r, j)' <=> IF r = t THEN j > 0 /\ Asks(u, t, j + 1) ELSE Asks(u, r, j)
    <2>1. CASE r # t
      BY <1>2, <2>1 DEF Asks
    <2>2. CASE r = t
      <3>1. j \in 1 .. Len(syncMsgs'[t]) <=> j > 0 /\ j + 1 \in 1 .. Len(syncMsgs[t])
        BY <1>3
      <3>2. j \in 1 .. Len(syncMsgs'[t]) => syncMsgs'[t][j] = syncMsgs[t][j + 1]
        BY <1>3
      <3>3. QED
        BY <2>2, <3>1, <3>2 DEF Asks
    <2>3. QED
      BY <2>1, <2>2
  <1>5. Head(syncMsgs[t]) \in Threads /\ Asks(Head(syncMsgs[t]), t, 1)
    BY <1>1, <1>3, ElementOfSeq DEF Asks
  <1>6. QED
    BY <1>2, <1>4, <1>5

(* A message is put at the end of a list.                                  *)
LEMMA PutOn ==
  ASSUME DataOK, NEW t \in Threads, NEW p \in Threads,
         syncMsgs' = [syncMsgs EXCEPT ![p] = Append(@, t)]
  PROVE  /\ syncMsgs' \in [Threads -> Seq(Threads)]
         /\ Len(syncMsgs[p]) \in Nat
         /\ \A u, r \in Threads, j \in Nat : Asks(u, r, j)' <=>
               Asks(u, r, j) \/ (r = p /\ u = t /\ j = Len(syncMsgs[p]) + 1)
  <1>1. syncMsgs[p] \in Seq(Threads)
    BY DEF DataOK
  <1>2. /\ syncMsgs' \in [Threads -> Seq(Threads)]
        /\ syncMsgs'[p] = Append(syncMsgs[p], t)
        /\ \A r \in Threads \ {p} : syncMsgs'[r] = syncMsgs[r]
    BY <1>1, AppendProperties DEF DataOK
  <1>3. /\ Len(syncMsgs[p]) \in Nat
        /\ Len(syncMsgs'[p]) = Len(syncMsgs[p]) + 1
        /\ \A i \in 1 .. Len(syncMsgs[p]) : syncMsgs'[p][i] = syncMsgs[p][i]
        /\ syncMsgs'[p][Len(syncMsgs[p]) + 1] = t
    BY <1>1, <1>2, AppendProperties, LenProperties
  <1>4. ASSUME NEW u \in Threads, NEW r \in Threads, NEW j \in Nat
        PROVE  Asks(u, r, j)' <=> Asks(u, r, j) \/ (r = p /\ u = t /\ j = Len(syncMsgs[p]) + 1)
    <2>1. CASE r # p
      BY <1>2, <2>1 DEF Asks
    <2>2. CASE r = p
      BY <1>3, <2>2 DEF Asks
    <2>3. QED
      BY <2>1, <2>2
  <1>5. QED
    BY <1>2, <1>3, <1>4

-----------------------------------------------------------------------------
(* Where the messages are when places have moved.                          *)
LEMMA TakenUp ==
  ASSUME NEW u \in Threads, NEW t \in Threads,
         \A r \in Threads, j \in Nat : Handles(u, r, j)' <=>
            IF r = t THEN j > 1 /\ Handles(u, t, j - 1) ELSE Handles(u, r, j)
  PROVE  (Untaken(u) => Untaken(u)') /\ (Taken(u) => Taken(u)')
  <1>1. ASSUME Untaken(u) PROVE Untaken(u)'
    <2>1. ASSUME NEW r \in Threads, NEW j \in Nat PROVE ~Handles(u, r, j)'
      <3>1. CASE r = t /\ j > 1
        <4>1. j - 1 \in Nat
          BY <3>1
        <4>2. QED
          BY <1>1, <3>1, <4>1 DEF Untaken
      <3>2. QED
        BY <1>1, <3>1 DEF Untaken
    <2>2. QED
      BY <2>1 DEF Untaken
  <1>2. ASSUME Taken(u) PROVE Taken(u)'
    <2>1. PICK r \in Threads, i \in Nat : TakenAt(u, r, i)
      BY <1>2 DEF Taken
    <2> DEFINE k == IF r = t THEN i + 1 ELSE i
    <2>2. k \in Nat /\ Handles(u, r, k)'
      <3>1. Handles(u, r, i)
        BY <2>1 DEF TakenAt
      <3>2. CASE r = t
        <4>1. i \in Nat \ {0}
          BY <3>1 DEF Handles
        <4>2. i + 1 \in Nat /\ i + 1 > 1 /\ (i + 1) - 1 = i
          BY <4>1
        <4>3. QED
          BY <3>1, <3>2, <4>2
      <3>3. QED
        BY <3>1, <3>2
    <2>3. ASSUME NEW q \in Threads, NEW j \in Nat, Handles(u, q, j)'
          PROVE  q = r /\ j = k
      <3>1. CASE q = t
        <4>1. j > 1 /\ Handles(u, t, j - 1) /\ j - 1 \in Nat
          BY <2>3, <3>1
        <4>2. t = r /\ j - 1 = i
          BY <2>1, <4>1 DEF TakenAt
        <4>3. QED
          BY <3>1, <4>2
      <3>2. CASE q # t
        BY <2>1, <2>3, <3>2 DEF TakenAt
      <3>3. QED
        BY <3>1, <3>2
    <2>4. QED
      BY <2>2, <2>3 DEF Taken, TakenAt
  <1>3. QED
    BY <1>1, <1>2

LEMMA TakenDown ==
  ASSUME NEW u \in Threads, NEW t \in Threads, ~Handles(u, t, 1),
         \A r \in Threads, j \in Nat : Handles(u, r, j)' <=>
            IF r = t THEN j > 0 /\ Handles(u, t, j + 1) ELSE Handles(u, r, j)
  PROVE  (Untaken(u) => Untaken(u)') /\ (Taken(u) => Taken(u)')
  <1>1. ASSUME Untaken(u) PROVE Untaken(u)'
    BY <1>1 DEF Untaken
  <1>2. ASSUME Taken(u) PROVE Taken(u)'
    <2>1. PICK r \in Threads, i \in Nat : TakenAt(u, r, i)
      BY <1>2 DEF Taken
    <2> DEFINE k == IF r = t THEN i - 1 ELSE i
    <2>2. k \in Nat /\ Handles(u, r, k)'
      <3>1. Handles(u, r, i)
        BY <2>1 DEF TakenAt
      <3>2. CASE r = t
        <4>1. i \in Nat \ {0, 1}
          BY <3>1, <3>2 DEF Handles
        <4>2. i - 1 \in Nat /\ i - 1 > 0 /\ (i - 1) + 1 = i
          BY <4>1
        <4>3. QED
          BY <3>1, <3>2, <4>2
      <3>3. QED
        BY <3>1, <3>2
    <2>3. ASSUME NEW q \in Threads, NEW j \in Nat, Handles(u, q, j)'
          PROVE  q = r /\ j = k
      <3>1. CASE q = t
        <4>1. t = r /\ j + 1 = i
          BY <2>1, <2>3, <3>1 DEF TakenAt
        <4>2. QED
          BY <3>1, <4>1
      <3>2. CASE q # t
        BY <2>1, <2>3, <3>2 DEF TakenAt
      <3>3. QED
        BY <3>1, <3>2
    <2>4. QED
      BY <2>2, <2>3 DEF Taken, TakenAt
  <1>3. QED
    BY <1>1, <1>2

LEMMA ListedDown ==
  ASSUME NEW u \in Threads, NEW t \in Threads, ~Asks(u, t, 1),
         \A r \in Threads, j \in Nat : Asks(u, r, j)' <=>
            IF r = t THEN j > 0 /\ Asks(u, t, j + 1) ELSE Asks(u, r, j)
  PROVE  (Unlisted(u) => Unlisted(u)') /\ (Listed(u) => Listed(u)')
  <1>1. ASSUME Unlisted(u) PROVE Unlisted(u)'
    BY <1>1 DEF Unlisted
  <1>2. ASSUME Listed(u) PROVE Listed(u)'
    <2>1. PICK r \in Threads, i \in Nat : ListedAt(u, r, i)
      BY <1>2 DEF Listed
    <2> DEFINE k == IF r = t THEN i - 1 ELSE i
    <2>2. k \in Nat /\ Asks(u, r, k)'
      <3>1. Asks(u, r, i)
        BY <2>1 DEF ListedAt
      <3>2. CASE r = t
        <4>1. i \in Nat \ {0, 1}
          BY <3>1, <3>2 DEF Asks
        <4>2. i - 1 \in Nat /\ i - 1 > 0 /\ (i - 1) + 1 = i
          BY <4>1
        <4>3. QED
          BY <3>1, <3>2, <4>2
      <3>3. QED
        BY <3>1, <3>2
    <2>3. ASSUME NEW q \in Threads, NEW j \in Nat, Asks(u, q, j)'
          PROVE  q = r /\ j = k
      <3>1. CASE q = t
        <4>1. t = r /\ j + 1 = i
          BY <2>1, <2>3, <3>1 DEF ListedAt
        <4>2. QED
          BY <3>1, <4>1
      <3>2. CASE q # t
        BY <2>1, <2>3, <3>2 DEF ListedAt
      <3>3. QED
        BY <3>1, <3>2
    <2>4. QED
      BY <2>2, <2>3 DEF Listed, ListedAt
  <1>3. QED
    BY <1>1, <1>2

(* Nothing has moved.                                                      *)
LEMMA Unmoved ==
  ASSUME NEW u \in Threads,
         \A r \in Threads, j \in Nat : Asks(u, r, j)' <=> Asks(u, r, j)
  PROVE  (Unlisted(u) => Unlisted(u)') /\ (Listed(u) => Listed(u)')
  BY DEF Unlisted, Listed, ListedAt

LEMMA Untouched ==
  ASSUME NEW u \in Threads,
         \A r \in Threads, j \in Nat : Handles(u, r, j)' <=> Handles(u, r, j)
  PROVE  (Untaken(u) => Untaken(u)') /\ (Taken(u) => Taken(u)')
  BY DEF Untaken, Taken, TakenAt

-----------------------------------------------------------------------------
(* The steps.  One that makes up a message of a list ...                   *)
LEMMA DispatchStep ==
  ASSUME AnswerInv, NEW t \in Threads, NEW h, h = Head(syncMsgs[t]),
         Looping(t) \/ In(t, "drain"), Dispatch(t), UNCHANGED sem
  PROVE  /\ DataOK'
         /\ h \in Threads /\ IsAsked(h) /\ IsHandled(h)'
         /\ \A u \in Threads \ {h} : Same(u)
  <1>1. DataOK /\ syncMsgs[t] # << >> /\ syncMsgs' = [syncMsgs EXCEPT ![t] = Tail(@)]
    BY DEF AnswerInv, Dispatch
  <1>2. /\ syncMsgs' \in [Threads -> Seq(Threads)] /\ h \in Threads /\ Asks(h, t, 1)
        /\ \A u, r \in Threads, j \in Nat : Asks(u, r, j)' <=>
               IF r = t THEN j > 0 /\ Asks(u, t, j + 1) ELSE Asks(u, r, j)
    BY <1>1, TakenOff
  <1>3. stack[t] = << >> \/ stack[t][1].at \in {"proc", "drain"}
    <2>1. stack[t] # << >> => Head(stack[t]) = stack[t][1]
      BY <1>1, PopFrame DEF DataOK
    <2>2. QED
      BY <2>1 DEF Looping, In
  <1>4. [at |-> "proc", peer |-> h] \in Frame /\ Enter(t, "proc", h)
    BY <1>2 DEF Frame, Dispatch
  <1>5. /\ stack' \in [Threads -> Seq(Frame)]
        /\ \A r \in Threads : FrameOK(stack'[r])
        /\ \A r \in Threads \ {t} : stack'[r] = stack[r]
        /\ \A a : In(t, a)' <=> a = "proc"
        /\ \A u, r \in Threads, j \in Nat : Handles(u, r, j)' <=>
              IF r = t THEN (j = 1 /\ h = u) \/ (j > 1 /\ Handles(u, t, j - 1))
                       ELSE Handles(u, r, j)
    BY <1>1, <1>3, <1>4, Entered
  <1>6. DataOK'
    BY <1>1, <1>2, <1>5 DEF DataOK
  <1>7. ~In(t, "wait") /\ \A u \in Threads : In(u, "wait")' <=> In(u, "wait")
    <2>1. ~In(t, "wait")
      BY DEF Looping, In
    <2>2. ASSUME NEW u \in Threads PROVE In(u, "wait")' <=> In(u, "wait")
      BY <1>5, <2>1 DEF In
    <2>3. QED
      BY <2>1, <2>2
  <1>8. IsAsked(h) /\ ~Unlisted(h)
    <2>1. Where(h)
      BY <1>2 DEF AnswerInv
    <2>2. ~Unlisted(h)
      BY <1>2 DEF Unlisted
    <2>3. QED
      BY <2>1, <2>2 DEF Where, IsNone, IsAsked, IsHandled, IsAnswered
  <1>9. IsHandled(h)'
    <2>1. PICK r \in Threads, i \in Nat : ListedAt(h, r, i)
      BY <1>8 DEF IsAsked, Listed
    <2>2. \A q \in Threads, j \in Nat : Asks(h, q, j) => q = t /\ j = 1
      BY <1>2, <2>1 DEF ListedAt
    <2>3. Unlisted(h)'
      <3>1. ASSUME NEW q \in Threads, NEW j \in Nat PROVE ~Asks(h, q, j)'
        <4>1. j > 0 => j + 1 \in Nat /\ j + 1 # 1
          OBVIOUS
        <4>2. QED
          BY <1>2, <2>2, <4>1
      <3>2. QED
        BY <3>1 DEF Unlisted
    <2>4. \A q \in Threads, j \in Nat : ~Handles(h, q, j)
      BY <1>8 DEF IsAsked, Untaken
    <2>5. TakenAt(h, t, 1)'
      <3>1. Handles(h, t, 1)'
        BY <1>2, <1>5
      <3>2. ASSUME NEW q \in Threads, NEW j \in Nat, Handles(h, q, j)'
            PROVE  q = t /\ j = 1
        <4>1. j > 1 => j - 1 \in Nat
          OBVIOUS
        <4>2. QED
          BY <1>2, <1>5, <2>4, <3>2, <4>1
      <3>3. QED
        BY <3>1, <3>2 DEF TakenAt
    <2>6. Taken(h)'
      BY <2>5 DEF Taken
    <2>7. QED
      BY <1>2, <1>7, <1>8, <2>3, <2>6 DEF IsAsked, IsHandled
  <1>10. ASSUME NEW u \in Threads, u # h PROVE Same(u)
    <2>1. ~Asks(u, t, 1)
      BY <1>2, <1>10 DEF Asks
    <2>2. (Unlisted(u) => Unlisted(u)') /\ (Listed(u) => Listed(u)')
      BY <1>2, <2>1, ListedDown
    <2>3. \A r \in Threads, j \in Nat : Handles(u, r, j)' <=>
             IF r = t THEN j > 1 /\ Handles(u, t, j - 1) ELSE Handles(u, r, j)
      BY <1>5, <1>10
    <2>4. (Untaken(u) => Untaken(u)') /\ (Taken(u) => Taken(u)')
      BY <2>3, TakenUp
    <2>5. sem'[u] = sem[u] /\ (In(u, "wait")' <=> In(u, "wait"))
      BY <1>7
    <2>6. QED
      BY <2>2, <2>4, <2>5 DEF Same, IsNone, IsAsked, IsHandled, IsAnswered
  <1>11. QED
    BY <1>2, <1>6, <1>8, <1>9, <1>10

(* ... one that enters a call whose message is in no list yet, if it is    *)
(* one ...                                                                 *)
LEMMA EnterStep ==
  ASSUME AnswerInv, SendAssumption, NEW t \in Threads, Looping(t),
         NEW at \in {"proc", "lock", "enqueue", "post"}, NEW peer \in Threads \cup {NoThread},
         at = "proc" <=> peer = NoThread,
         Enter(t, at, peer), UNCHANGED <<syncMsgs, sem>>
  PROVE  DataOK' /\ \A u \in Threads : Same(u)
  <1>1. DataOK /\ NoThread \notin Threads
    BY DEF AnswerInv, SendAssumption
  <1>2. stack[t] = << >> \/ stack[t][1].at \in {"proc", "drain"}
    <2>1. stack[t] # << >> => Head(stack[t]) = stack[t][1]
      BY <1>1, PopFrame DEF DataOK
    <2>2. QED
      BY <2>1 DEF Looping, In
  <1>3. [at |-> at, peer |-> peer] \in Frame /\ (at # "proc" => peer \in Threads)
    BY <1>1 DEF Frame
  <1>4. /\ stack' \in [Threads -> Seq(Frame)]
        /\ \A r \in Threads : FrameOK(stack'[r])
        /\ \A r \in Threads \ {t} : stack'[r] = stack[r]
        /\ \A a : In(t, a)' <=> a = at
        /\ \A u, r \in Threads, j \in Nat : Handles(u, r, j)' <=>
              IF r = t THEN (j = 1 /\ at = "proc" /\ peer = u) \/ (j > 1 /\ Handles(u, t, j - 1))
                       ELSE Handles(u, r, j)
    BY <1>1, <1>2, <1>3, Entered
  <1>5. DataOK'
    BY <1>1, <1>4 DEF DataOK
  <1>6. ASSUME NEW u \in Threads PROVE Same(u)
    <2>1. In(u, "wait")' <=> In(u, "wait")
      BY <1>4 DEF Looping, In
    <2>2. (Unlisted(u) => Unlisted(u)') /\ (Listed(u) => Listed(u)')
      <3>1. \A r \in Threads, j \in Nat : Asks(u, r, j)' <=> Asks(u, r, j)
        BY DEF Asks
      <3>2. QED
        BY <3>1, Unmoved
    <2>3. \A r \in Threads, j \in Nat : Handles(u, r, j)' <=>
             IF r = t THEN j > 1 /\ Handles(u, t, j - 1) ELSE Handles(u, r, j)
      BY <1>1, <1>4
    <2>4. (Untaken(u) => Untaken(u)') /\ (Taken(u) => Taken(u)')
      BY <2>3, TakenUp
    <2>5. QED
      BY <2>1, <2>2, <2>4 DEF Same, IsNone, IsAsked, IsHandled, IsAnswered
  <1>7. QED
    BY <1>5, <1>6

(* ... one by which a call gets on to the point where it is linked ...     *)
LEMMA GoOnStep ==
  ASSUME AnswerInv, NEW t \in Threads, NEW from \in {"lock", "drain"}, In(t, from),
         NEW at \in {"drain", "enqueue"}, GoOn(t, at), UNCHANGED <<syncMsgs, sem>>
  PROVE  DataOK' /\ \A u \in Threads : Same(u)
  <1>1. /\ stack' \in [Threads -> Seq(Frame)]
        /\ \A r \in Threads : FrameOK(stack'[r])
        /\ \A r \in Threads \ {t} : stack'[r] = stack[r]
        /\ \A a : In(t, a)' <=> a = at
        /\ \A u, r \in Threads, j \in Nat : Handles(u, r, j)' <=> Handles(u, r, j)
    BY GoneOn DEF AnswerInv
  <1>2. DataOK'
    BY <1>1 DEF AnswerInv, DataOK
  <1>3. ASSUME NEW u \in Threads PROVE Same(u)
    <2>1. In(u, "wait")' <=> In(u, "wait")
      BY <1>1 DEF In
    <2>2. (Unlisted(u) => Unlisted(u)') /\ (Listed(u) => Listed(u)')
      <3>1. \A r \in Threads, j \in Nat : Asks(u, r, j)' <=> Asks(u, r, j)
        BY DEF Asks
      <3>2. QED
        BY <3>1, Unmoved
    <2>3. (Untaken(u) => Untaken(u)') /\ (Taken(u) => Taken(u)')
      BY <1>1, Untouched
    <2>4. QED
      BY <2>1, <2>2, <2>3 DEF Same, IsNone, IsAsked, IsHandled, IsAnswered
  <1>4. QED
    BY <1>2, <1>3

(* ... the one that links it ...                                           *)
LEMMA EnqueueStep ==
  ASSUME AnswerInv, NEW t \in Threads, Enqueue(t)
  PROVE  /\ DataOK'
         /\ IsNone(t) /\ IsAsked(t)'
         /\ \A u \in Threads \ {t} : Same(u)
  <1>1. DataOK /\ In(t, "enqueue") /\ GoOn(t, "wait") /\ sem' = [sem EXCEPT ![t] = 0]
    BY DEF AnswerInv, Enqueue
  <1>2. /\ stack' \in [Threads -> Seq(Frame)]
        /\ \A r \in Threads : FrameOK(stack'[r])
        /\ \A r \in Threads \ {t} : stack'[r] = stack[r]
        /\ \A a : In(t, a)' <=> a = "wait"
        /\ \A u, r \in Threads, j \in Nat : Handles(u, r, j)' <=> Handles(u, r, j)
    BY <1>1, GoneOn
  <1>3. PICK q \in Threads : q = Peer(t)
    <2>1. stack[t] \in Seq(Frame) /\ stack[t] # << >> /\ FrameOK(stack[t])
      BY <1>1 DEF DataOK, In
    <2>2. Len(stack[t]) \in Nat \ {0} /\ Head(stack[t]) = stack[t][1]
      BY <2>1, PopFrame
    <2>3. QED
      BY <1>1, <2>1, <2>2 DEF FrameOK, In, Peer
  <1>4. /\ syncMsgs' \in [Threads -> Seq(Threads)]
        /\ Len(syncMsgs[q]) \in Nat
        /\ \A u, r \in Threads, j \in Nat : Asks(u, r, j)' <=>
              Asks(u, r, j) \/ (r = q /\ u = t /\ j = Len(syncMsgs[q]) + 1)
    <2>1. syncMsgs' = [syncMsgs EXCEPT ![q] = Append(@, t)]
      BY <1>3 DEF Enqueue, Linked
    <2>2. QED
      BY <1>1, <2>1, PutOn
  <1>5. DataOK'
    BY <1>1, <1>2, <1>4 DEF DataOK
  <1>6. IsNone(t)
    <2>1. Where(t) /\ ~In(t, "wait")
      BY <1>1 DEF AnswerInv, In
    <2>2. QED
      BY <2>1 DEF Where, IsAsked, IsHandled, IsAnswered
  <1>7. IsAsked(t)'
    <2>1. PICK n \in Nat : n = Len(syncMsgs[q]) + 1
      BY <1>4
    <2>2. \A r \in Threads, j \in Nat : Asks(t, r, j)' <=> r = q /\ j = n
      BY <1>4, <1>6, <2>1 DEF IsNone, Unlisted
    <2>3. Listed(t)'
      BY <2>2 DEF Listed, ListedAt
    <2>4. Untaken(t)'
      BY <1>2, <1>6 DEF IsNone, Untaken
    <2>5. In(t, "wait")' /\ sem'[t] = 0
      BY <1>1, <1>2 DEF DataOK
    <2>6. QED
      BY <2>3, <2>4, <2>5 DEF IsAsked
  <1>8. ASSUME NEW u \in Threads, u # t PROVE Same(u)
    <2>1. (In(u, "wait")' <=> In(u, "wait")) /\ sem'[u] = sem[u]
      BY <1>1, <1>2, <1>8 DEF In, DataOK
    <2>2. (Unlisted(u) => Unlisted(u)') /\ (Listed(u) => Listed(u)')
      <3>1. \A r \in Threads, j \in Nat : Asks(u, r, j)' <=> Asks(u, r, j)
        BY <1>4, <1>8
      <3>2. QED
        BY <3>1, Unmoved
    <2>3. (Untaken(u) => Untaken(u)') /\ (Taken(u) => Taken(u)')
      BY <1>2, Untouched
    <2>4. QED
      BY <2>1, <2>2, <2>3 DEF Same, IsNone, IsAsked, IsHandled, IsAnswered
  <1>9. QED
    BY <1>5, <1>6, <1>7, <1>8

(* ... one that leaves a call other than of a sender or for one ...        *)
LEMMA LeaveStep ==
  ASSUME AnswerInv, SendAssumption, NEW t \in Threads, stack[t] # << >>, ~In(t, "wait"),
         In(t, "proc") => Peer(t) = NoThread,
         Leave(t), UNCHANGED <<syncMsgs, sem>>
  PROVE  DataOK' /\ \A u \in Threads : Same(u)
  <1>1. DataOK /\ NoThread \notin Threads
    BY DEF AnswerInv, SendAssumption
  <1>2. /\ stack' \in [Threads -> Seq(Frame)]
        /\ \A r \in Threads : FrameOK(stack'[r])
        /\ \A r \in Threads \ {t} : stack'[r] = stack[r]
        /\ ~In(t, "wait")'
        /\ \A u, r \in Threads, j \in Nat : Handles(u, r, j)' <=>
              IF r = t THEN j > 0 /\ Handles(u, t, j + 1) ELSE Handles(u, r, j)
    BY <1>1, Left
  <1>3. DataOK'
    BY <1>1, <1>2 DEF DataOK
  <1>4. ASSUME NEW u \in Threads PROVE Same(u)
    <2>1. In(u, "wait")' <=> In(u, "wait")
      BY <1>2 DEF In
    <2>2. (Unlisted(u) => Unlisted(u)') /\ (Listed(u) => Listed(u)')
      <3>1. \A r \in Threads, j \in Nat : Asks(u, r, j)' <=> Asks(u, r, j)
        BY DEF Asks
      <3>2. QED
        BY <3>1, Unmoved
    <2>3. ~Handles(u, t, 1)
      <3>1. Head(stack[t]) = stack[t][1]
        BY <1>1, PopFrame DEF DataOK
      <3>2. QED
        BY <1>1, <3>1 DEF Handles, In, Peer
    <2>4. (Untaken(u) => Untaken(u)') /\ (Taken(u) => Taken(u)')
      BY <1>2, <2>3, TakenDown
    <2>5. QED
      BY <2>1, <2>2, <2>4 DEF Same, IsNone, IsAsked, IsHandled, IsAnswered
  <1>5. QED
    BY <1>3, <1>4

(* ... the return of the procedure that handles a message ...              *)
LEMMA ProcReturnStep ==
  ASSUME AnswerInv, SendAssumption, NEW t \in Threads, ProcReturn(t),
         NEW h \in Threads, h = Peer(t)
  PROVE  /\ DataOK'
         /\ IsHandled(h) /\ IsAnswered(h)'
         /\ \A u \in Threads \ {h} : Same(u)
  <1>1. /\ DataOK /\ NoThread \notin Threads /\ In(t, "proc") /\ Leave(t)
        /\ syncMsgs' = syncMsgs /\ sem' = [sem EXCEPT ![h] = @ + 1]
    BY DEF AnswerInv, SendAssumption, ProcReturn, Woken
  <1>2. stack[t] # << >> /\ stack[t] \in Seq(Frame)
    BY <1>1 DEF In, DataOK
  <1>3. /\ stack' \in [Threads -> Seq(Frame)]
        /\ \A r \in Threads : FrameOK(stack'[r])
        /\ \A r \in Threads \ {t} : stack'[r] = stack[r]
        /\ ~In(t, "wait")'
        /\ \A u, r \in Threads, j \in Nat : Handles(u, r, j)' <=>
              IF r = t THEN j > 0 /\ Handles(u, t, j + 1) ELSE Handles(u, r, j)
    BY <1>1, <1>2, Left
  <1>4. DataOK'
    <2>1. sem[h] \in Nat /\ sem[h] + 1 \in Nat
      BY <1>1 DEF DataOK
    <2>2. sem' \in [Threads -> Nat]
      BY <1>1, <2>1 DEF DataOK
    <2>3. QED
      BY <1>1, <1>3, <2>2 DEF DataOK
  <1>5. \A u \in Threads : In(u, "wait")' <=> In(u, "wait")
    BY <1>1, <1>3 DEF In
  <1>6. \A u \in Threads : Handles(u, t, 1) <=> u = h
    <2>1. Head(stack[t]) = stack[t][1] /\ Len(stack[t]) \in Nat \ {0}
      BY <1>2, PopFrame
    <2>2. QED
      BY <1>1, <2>1 DEF Handles, In, Peer
  <1>7. IsHandled(h)
    <2>1. Where(h) /\ ~Untaken(h)
      BY <1>6 DEF AnswerInv, Untaken
    <2>2. QED
      BY <2>1 DEF Where, IsNone, IsAsked, IsAnswered
  <1>8. \A u \in Threads : (Unlisted(u) => Unlisted(u)') /\ (Listed(u) => Listed(u)')
    <2>1. \A u, r \in Threads, j \in Nat : Asks(u, r, j)' <=> Asks(u, r, j)
      BY <1>1 DEF Asks
    <2>2. QED
      BY <2>1, Unmoved
  <1>9. IsAnswered(h)'
    <2>1. PICK r \in Threads, i \in Nat : TakenAt(h, r, i)
      BY <1>7 DEF IsHandled, Taken
    <2>2. \A q \in Threads, j \in Nat : Handles(h, q, j) => q = t /\ j = 1
      BY <1>6, <2>1 DEF TakenAt
    <2>3. Untaken(h)'
      <3>1. ASSUME NEW q \in Threads, NEW j \in Nat PROVE ~Handles(h, q, j)'
        <4>1. j > 0 => j + 1 \in Nat /\ j + 1 # 1
          OBVIOUS
        <4>2. QED
          BY <1>3, <2>2, <4>1
      <3>2. QED
        BY <3>1 DEF Untaken
    <2>4. sem'[h] = 1
      BY <1>1, <1>7 DEF IsHandled, DataOK
    <2>5. QED
      BY <1>5, <1>7, <1>8, <2>3, <2>4 DEF IsHandled, IsAnswered
  <1>10. ASSUME NEW u \in Threads, u # h PROVE Same(u)
    <2>1. sem'[u] = sem[u]
      BY <1>1, <1>10 DEF DataOK
    <2>2. (Untaken(u) => Untaken(u)') /\ (Taken(u) => Taken(u)')
      BY <1>3, <1>6, <1>10, TakenDown
    <2>3. QED
      BY <1>5, <1>8, <2>1, <2>2 DEF Same, IsNone, IsAsked, IsHandled, IsAnswered
  <1>11. QED
    BY <1>4, <1>7, <1>9, <1>10

(* ... and the return to the sender.                                       *)
LEMMA SendReturnStep ==
  ASSUME AnswerInv, NEW t \in Threads, SendReturn(t)
  PROVE  /\ DataOK'
         /\ IsAnswered(t) /\ IsNone(t)'
         /\ \A u \in Threads \ {t} : Same(u)
  <1>1. /\ DataOK /\ In(t, "wait") /\ sem[t] > 0 /\ Leave(t)
        /\ syncMsgs' = syncMsgs /\ sem' = [sem EXCEPT ![t] = @ - 1]
    BY DEF AnswerInv, SendReturn, Answered
  <1>2. stack[t] # << >> /\ stack[t] \in Seq(Frame)
    BY <1>1 DEF In, DataOK
  <1>3. /\ stack' \in [Threads -> Seq(Frame)]
        /\ \A r \in Threads : FrameOK(stack'[r])
        /\ \A r \in Threads \ {t} : stack'[r] = stack[r]
        /\ ~In(t, "wait")'
        /\ \A u, r \in Threads, j \in Nat : Handles(u, r, j)' <=>
              IF r = t THEN j > 0 /\ Handles(u, t, j + 1) ELSE Handles(u, r, j)
    BY <1>1, <1>2, Left
  <1>4. IsAnswered(t)
    <2>1. Where(t)
      BY DEF AnswerInv
    <2>2. QED
      BY <1>1, <2>1 DEF Where, IsNone, IsAsked, IsHandled
  <1>5. DataOK'
    <2>1. sem[t] - 1 \in Nat
      BY <1>4 DEF IsAnswered
    <2>2. sem' \in [Threads -> Nat]
      BY <1>1, <2>1 DEF DataOK
    <2>3. QED
      BY <1>1, <1>3, <2>2 DEF DataOK
  <1>6. \A u \in Threads : (Unlisted(u) => Unlisted(u)') /\ (Listed(u) => Listed(u)')
    <2>1. \A u, r \in Threads, j \in Nat : Asks(u, r, j)' <=> Asks(u, r, j)
      BY <1>1 DEF Asks
    <2>2. QED
      BY <2>1, Unmoved
  <1>7. \A u \in Threads : (Untaken(u) => Untaken(u)') /\ (Taken(u) => Taken(u)')
    <2>1. \A u \in Threads : ~Handles(u, t, 1)
      <3>1. Head(stack[t]) = stack[t][1]
        BY <1>2, PopFrame
      <3>2. QED
        BY <1>1, <3>1 DEF Handles, In
    <2>2. QED
      BY <1>3, <2>1, TakenDown
  <1>8. IsNone(t)'
    <2>1. sem'[t] = 0
      BY <1>1, <1>4 DEF IsAnswered, DataOK
    <2>2. QED
      BY <1>3, <1>4, <1>6, <1>7, <2>1 DEF IsAnswered, IsNone
  <1>9. ASSUME NEW u \in Threads, u # t PROVE Same(u)
    <2>1. sem'[u] = sem[u] /\ (In(u, "wait")' <=> In(u, "wait"))
      BY <1>1, <1>3, <1>9 DEF In, DataOK
    <2>2. QED
      BY <1>6, <1>7, <2>1 DEF Same, IsNone, IsAsked, IsHandled, IsAnswered
  <1>10. QED
    BY <1>4, <1>5, <1>8, <1>9

-----------------------------------------------------------------------------
(* So a step moves one call from one state to the next, or none.           *)
Moves(u) ==
    \/ IsNone(u) /\ IsAsked(u)'
    \/ IsAsked(u) /\ IsHandled(u)'
    \/ IsHandled(u) /\ IsAnswered(u)'
    \/ IsAnswered(u) /\ IsNone(u)'

LEMMA OneMoves ==
  ASSUME AnswerInv, SendAssumption, [Next]_vars
  PROVE  /\ DataOK'
         /\ \/ \A u \in Threads : Same(u)
            \/ \E h \in Threads : Moves(h) /\ \A u \in Threads \ {h} : Same(u)
  <1>1. CASE UNCHANGED vars
    <2>1. DataOK'
      BY <1>1 DEF AnswerInv, vars, DataOK
    <2>2. ASSUME NEW u \in Threads PROVE Same(u)
      <3>1. (Unlisted(u) => Unlisted(u)') /\ (Listed(u) => Listed(u)')
        BY <1>1 DEF vars, Unlisted, Listed, ListedAt, Asks
      <3>2. (Untaken(u) => Untaken(u)') /\ (Taken(u) => Taken(u)')
        BY <1>1 DEF vars, Untaken, Taken, TakenAt, Handles
      <3>3. QED
        BY <1>1, <3>1, <3>2 DEF vars, In, Same, IsNone, IsAsked, IsHandled, IsAnswered
    <2>3. QED
      BY <2>1, <2>2
  <1>2. ASSUME NEW t \in Threads, Step(t)
        PROVE  /\ DataOK'
               /\ \/ \A u \in Threads : Same(u)
                  \/ \E h \in Threads : Moves(h) /\ \A u \in Threads \ {h} : Same(u)
    <2>1. CASE TakeSync(t) \/ Drain(t)
      <3>1. PICK h : h = Head(syncMsgs[t])
        OBVIOUS
      <3>2. (Looping(t) \/ In(t, "drain")) /\ Dispatch(t) /\ UNCHANGED sem
        BY <2>1 DEF TakeSync, Drain
      <3>3. /\ DataOK' /\ h \in Threads /\ IsAsked(h) /\ IsHandled(h)'
            /\ \A u \in Threads \ {h} : Same(u)
        BY <3>1, <3>2, DispatchStep
      <3>4. QED
        BY <3>3 DEF Moves
    <2>2. CASE TakeOther(t)
      BY <2>2, EnterStep DEF TakeOther
    <2>3. CASE ProcReturn(t)
      <3>1. CASE Peer(t) \in Threads
        <4>1. PICK h \in Threads : h = Peer(t)
          BY <3>1
        <4>2. /\ DataOK' /\ IsHandled(h) /\ IsAnswered(h)'
              /\ \A u \in Threads \ {h} : Same(u)
          BY <2>3, <4>1, ProcReturnStep
        <4>3. QED
          BY <4>2 DEF Moves
      <3>2. CASE Peer(t) = NoThread
        BY <2>3, <3>2, LeaveStep DEF ProcReturn, In
      <3>3. Peer(t) \in Threads \cup {NoThread}
        <4>1. stack[t] \in Seq(Frame) /\ stack[t] # << >>
          BY <2>3 DEF AnswerInv, DataOK, ProcReturn, In
        <4>2. Head(stack[t]) \in Frame
          BY <4>1, HeadTailProperties
        <4>3. QED
          BY <4>2 DEF Peer, Frame
      <3>4. QED
        BY <3>1, <3>2, <3>3
    <2>4. ASSUME NEW to \in Threads, Send(t, to) \/ Post(t, to)
          PROVE  DataOK' /\ \A u \in Threads : Same(u)
      <3>1. Looping(t) /\ to # NoThread /\ UNCHANGED <<syncMsgs, sem>>
        BY <2>4 DEF Send, Post, Looping, SendAssumption
      <3>2. PICK at \in {"lock", "enqueue", "post"} : Enter(t, at, to)
        BY <2>4 DEF Send, Post
      <3>3. QED
        BY <3>1, <3>2, EnterStep
    <2>5. CASE LockOwn(t)
      BY <2>5, GoOnStep DEF LockOwn
    <2>6. CASE DrainEnd(t)
      BY <2>6, GoOnStep DEF DrainEnd
    <2>7. CASE Enqueue(t)
      BY <2>7, EnqueueStep DEF Moves
    <2>8. CASE SendReturn(t)
      BY <2>8, SendReturnStep DEF Moves
    <2>9. CASE PostReturn(t)
      BY <2>9, LeaveStep DEF PostReturn, In
    <2>10. QED
      BY <1>2, <2>1, <2>2, <2>3, <2>4, <2>5, <2>6, <2>7, <2>8, <2>9 DEF Step
  <1>3. QED
    BY <1>1, <1>2 DEF Next

LEMMA InitAnswerInv ==
  ASSUME Init PROVE AnswerInv /\ \A u \in Threads : IsNone(u)
  <1>1. DataOK
    <2>1. \A t \in Threads : stack[t] = << >> /\ Len(stack[t]) = 0
      BY DEF Init
    <2>2. \A t \in Threads : FrameOK(stack[t])
      BY <2>1 DEF FrameOK
    <2>3. << >> \in Seq(Threads) /\ << >> \in Seq(Frame)
      OBVIOUS
    <2>4. QED
      BY <2>2, <2>3 DEF Init, DataOK
  <1>2. ASSUME NEW u \in Threads PROVE IsNone(u)
    <2>1. \A r \in Threads : Len(stack[r]) = 0 /\ Len(syncMsgs[r]) = 0
      BY DEF Init
    <2>2. \A r \in Threads, i \in Nat : ~Asks(u, r, i) /\ ~Handles(u, r, i)
      BY <2>1 DEF Asks, Handles
    <2>3. QED
      BY <2>2 DEF Init, In, IsNone, Unlisted, Untaken
  <1>3. QED
    BY <1>1, <1>2 DEF AnswerInv, Where

LEMMA KeepAnswerInv ==
  ASSUME AnswerInv, SendAssumption, [Next]_vars PROVE AnswerInv'
  <1>1. /\ DataOK'
        /\ \/ \A u \in Threads : Same(u)
           \/ \E h \in Threads : Moves(h) /\ \A u \in Threads \ {h} : Same(u)
    BY OneMoves
  <1>2. ASSUME NEW u \in Threads PROVE Where(u)'
    <2>1. Where(u) /\ (Same(u) \/ Moves(u))
      BY <1>1 DEF AnswerInv
    <2>2. QED
      BY <2>1 DEF Where, Same, Moves
  <1>3. QED
    BY <1>1, <1>2 DEF AnswerInv

(* The types, the frames a call lies on, and where each message is: in no  *)
(* list and with no procedure unless its sender waits and has not been     *)
(* woken up, and then in exactly one place (message.c, SendSyncMessage and *)
(* DispatchMessage).                                                       *)
THEOREM AnswerInvHolds == Spec => []AnswerInv
  <1>1. Init => AnswerInv
    BY InitAnswerInv
  <1>2. AnswerInv /\ [Next]_vars => AnswerInv'
    BY KeepAnswerInv, SendAssumption
  <1>3. QED
    BY <1>1, <1>2, PTL DEF Spec

-----------------------------------------------------------------------------
(* A thread holds its own lock as often as it drains its list, in whatever *)
(* calls it is nested: so an unlock never comes without its lock.          *)
Drains(s) == {i \in 1 .. Len(s) : s[i].at = "drain"}

LockInv == TypeOK /\ \A t \in Threads : lock[t] = Cardinality(Drains(stack[t]))

LEMMA DrainsFinite ==
  ASSUME NEW s \in Seq(Frame)
  PROVE  IsFiniteSet(Drains(s)) /\ Cardinality(Drains(s)) \in Nat
  <1>1. IsFiniteSet(1 .. Len(s))
    BY LenProperties, FS_Interval
  <1>2. IsFiniteSet(Drains(s))
    BY <1>1, FS_Subset DEF Drains
  <1>3. QED
    BY <1>2, FS_CardinalityType

LEMMA DrainsShift ==
  ASSUME NEW s \in Seq(Frame), NEW r \in Seq(Frame), Len(r) = Len(s) + 1,
         \A i \in 1 .. Len(s) : r[i + 1] = s[i], r[1].at # "drain"
  PROVE  Cardinality(Drains(r)) = Cardinality(Drains(s))
  <1> DEFINE f == [i \in Drains(s) |-> i + 1]
  <1>1. Len(s) \in Nat /\ Len(r) \in Nat
    BY LenProperties
  <1>2. f \in Bijection(Drains(s), Drains(r))
    <2>1. f \in [Drains(s) -> Drains(r)]
      BY <1>1 DEF Drains
    <2>2. \A a, b \in Drains(s) : f[a] = f[b] => a = b
      BY DEF Drains
    <2>3. ASSUME NEW b \in Drains(r) PROVE \E a \in Drains(s) : f[a] = b
      <3>1. b \in 2 .. Len(s) + 1
        BY <1>1 DEF Drains
      <3>2. b - 1 \in 1 .. Len(s) /\ (b - 1) + 1 = b
        BY <1>1, <3>1
      <3>3. b - 1 \in Drains(s)
        BY <3>2 DEF Drains
      <3>4. QED
        BY <3>2, <3>3
    <2> HIDE DEF f
    <2>4. QED
      BY <2>1, <2>2, <2>3 DEF Bijection, Injection, IsInjective, Surjection
  <1>3. QED
    BY <1>2, DrainsFinite, FS_Bijection DEF ExistsBijection

(* What the three operations on a stack do to the count.                   *)
LEMMA DrainsEntered ==
  ASSUME TypeOK, NEW t \in Threads, NEW at, NEW peer, at # "drain",
         [at |-> at, peer |-> peer] \in Frame, Enter(t, at, peer)
  PROVE  /\ stack' \in [Threads -> Seq(Frame)]
         /\ \A r \in Threads : Cardinality(Drains(stack'[r])) = Cardinality(Drains(stack[r]))
  <1> DEFINE f == [at |-> at, peer |-> peer]
  <1>1. stack[t] \in Seq(Frame) /\ f \in Frame /\ f.at # "drain"
    BY DEF TypeOK
  <1>2. stack' = [stack EXCEPT ![t] = <<f>> \o @]
    BY DEF Enter
  <1> HIDE DEF f
  <1>3. /\ stack' \in [Threads -> Seq(Frame)]
        /\ stack'[t] = <<f>> \o stack[t]
        /\ \A r \in Threads \ {t} : stack'[r] = stack[r]
    BY <1>1, <1>2, PushFrame DEF TypeOK
  <1>4. /\ Len(stack'[t]) = Len(stack[t]) + 1
        /\ stack'[t][1] = f
        /\ \A i \in 1 .. Len(stack[t]) : stack'[t][i + 1] = stack[t][i]
    <2>1. /\ Len(stack[t]) \in Nat
          /\ Len(stack'[t]) = Len(stack[t]) + 1
          /\ stack'[t][1] = f
          /\ \A i \in 2 .. Len(stack[t]) + 1 : stack'[t][i] = stack[t][i - 1]
      BY <1>1, <1>3, PushFrame, LenProperties
    <2>2. \A i \in 1 .. Len(stack[t]) : i + 1 \in 2 .. Len(stack[t]) + 1 /\ (i + 1) - 1 = i
      BY <2>1
    <2>3. QED
      BY <2>1, <2>2
  <1>5. Cardinality(Drains(stack'[t])) = Cardinality(Drains(stack[t]))
    BY <1>1, <1>3, <1>4, DrainsShift
  <1>6. QED
    BY <1>3, <1>5

LEMMA DrainsLeft ==
  ASSUME TypeOK, NEW t \in Threads, stack[t] # << >>, Head(stack[t]).at # "drain", Leave(t)
  PROVE  /\ stack' \in [Threads -> Seq(Frame)]
         /\ \A r \in Threads : Cardinality(Drains(stack'[r])) = Cardinality(Drains(stack[r]))
  <1>1. stack[t] \in Seq(Frame)
    BY DEF TypeOK
  <1>2. /\ stack' \in [Threads -> Seq(Frame)]
        /\ stack'[t] = Tail(stack[t])
        /\ \A r \in Threads \ {t} : stack'[r] = stack[r]
    BY <1>1, PopFrame DEF TypeOK, Leave
  <1>3. /\ Len(stack[t]) = Len(stack'[t]) + 1
        /\ stack[t][1].at # "drain"
        /\ \A i \in 1 .. Len(stack'[t]) : stack[t][i + 1] = stack'[t][i]
    BY <1>1, <1>2, PopFrame
  <1>4. stack'[t] \in Seq(Frame)
    BY <1>2
  <1>5. Cardinality(Drains(stack[t])) = Cardinality(Drains(stack'[t]))
    BY <1>1, <1>3, <1>4, DrainsShift
  <1>6. QED
    BY <1>2, <1>5

LEMMA DrainsGoneOn ==
  ASSUME TypeOK, NEW t \in Threads, stack[t] # << >>,
         NEW at \in {"drain", "enqueue", "wait"}, GoOn(t, at)
  PROVE  /\ stack' \in [Threads -> Seq(Frame)]
         /\ \A r \in Threads \ {t} : stack'[r] = stack[r]
         /\ Drains(stack'[t]) = IF at = "drain" THEN Drains(stack[t]) \cup {1}
                                                ELSE Drains(stack[t]) \ {1}
         /\ 1 \in Drains(stack[t]) <=> In(t, "drain")
  <1>1. stack[t] \in Seq(Frame)
    BY DEF TypeOK
  <1>2. Len(stack[t]) \in Nat \ {0} /\ Head(stack[t]) = stack[t][1] /\ stack[t][1] \in Frame
    BY <1>1, PopFrame, ElementOfSeq
  <1> DEFINE f == [stack[t][1] EXCEPT !.at = at]
  <1>3. f \in Frame /\ f.at = at
    BY <1>2 DEF Frame
  <1>4. stack' = [stack EXCEPT ![t] = [stack[t] EXCEPT ![1] = f]]
    BY DEF GoOn
  <1> HIDE DEF f
  <1>5. /\ [stack[t] EXCEPT ![1] = f] \in Seq(Frame)
        /\ Len([stack[t] EXCEPT ![1] = f]) = Len(stack[t])
        /\ \A j \in 1 .. Len(stack[t]) : [stack[t] EXCEPT ![1] = f][j] = IF j = 1 THEN f ELSE stack[t][j]
    BY <1>1, <1>2, <1>3, ExceptSeq
  <1>6. /\ stack' \in [Threads -> Seq(Frame)]
        /\ stack'[t] = [stack[t] EXCEPT ![1] = f]
        /\ \A r \in Threads \ {t} : stack'[r] = stack[r]
    BY <1>4, <1>5 DEF TypeOK
  <1>7. ASSUME NEW s, Len(s) = Len(stack[t]),
               \A j \in 1 .. Len(stack[t]) : s[j] = IF j = 1 THEN f ELSE stack[t][j]
        PROVE  Drains(s) = IF at = "drain" THEN Drains(stack[t]) \cup {1} ELSE Drains(stack[t]) \ {1}
    BY <1>2, <1>3, <1>7 DEF Drains
  <1>8. Drains(stack'[t]) = IF at = "drain" THEN Drains(stack[t]) \cup {1} ELSE Drains(stack[t]) \ {1}
    BY <1>5, <1>6, <1>7
  <1>9. 1 \in Drains(stack[t]) <=> In(t, "drain")
    BY <1>2 DEF Drains, In
  <1>10. QED
    BY <1>6, <1>8, <1>9

LEMMA KeepLockInv ==
  ASSUME LockInv, AnswerInv, AnswerInv', SendAssumption, [Next]_vars
  PROVE  LockInv'
  <1>1. TypeOK /\ \A t \in Threads : lock[t] = Cardinality(Drains(stack[t]))
    BY DEF LockInv
  <1>2. CASE UNCHANGED vars
    BY <1>1, <1>2 DEF LockInv, TypeOK, vars
  <1>3. ASSUME NEW t \in Threads, Step(t) PROVE LockInv'
    <2>1. calls' \in 0 .. MaxCalls
      BY <1>1, <1>3, SendAssumption
      DEF TypeOK, Step, TakeSync, TakeOther, ProcReturn, Send, Post, LockOwn, Drain, DrainEnd,
          Enqueue, SendReturn, PostReturn, Count
    <2>2. syncMsgs' \in [Threads -> Seq(Threads)] /\ sem' \in [Threads -> Nat]
      BY DEF AnswerInv, DataOK
    <2>3. SUFFICES /\ stack' \in [Threads -> Seq(Frame)]
                   /\ lock' \in [Threads -> Nat]
                   /\ \A r \in Threads : lock'[r] = Cardinality(Drains(stack'[r]))
      BY <2>1, <2>2 DEF LockInv, TypeOK
    <2>4. ASSUME NEW at, NEW peer, at # "drain", [at |-> at, peer |-> peer] \in Frame,
                 Enter(t, at, peer), UNCHANGED lock
          PROVE  /\ stack' \in [Threads -> Seq(Frame)]
                 /\ lock' \in [Threads -> Nat]
                 /\ \A r \in Threads : lock'[r] = Cardinality(Drains(stack'[r]))
      BY <1>1, <2>4, DrainsEntered DEF TypeOK
    <2>5. ASSUME stack[t] # << >>, Head(stack[t]).at # "drain", Leave(t), UNCHANGED lock
          PROVE  /\ stack' \in [Threads -> Seq(Frame)]
                 /\ lock' \in [Threads -> Nat]
                 /\ \A r \in Threads : lock'[r] = Cardinality(Drains(stack'[r]))
      BY <1>1, <2>5, DrainsLeft DEF TypeOK
    <2>6. CASE TakeSync(t) \/ Drain(t)
      <3>1. /\ Enter(t, "proc", Head(syncMsgs[t])) /\ UNCHANGED lock
            /\ syncMsgs[t] # << >> /\ syncMsgs[t] \in Seq(Threads)
        BY <1>1, <2>6 DEF TakeSync, Drain, Dispatch, TypeOK
      <3>2. Head(syncMsgs[t]) \in Threads
        BY <3>1, HeadTailProperties
      <3>3. [at |-> "proc", peer |-> Head(syncMsgs[t])] \in Frame
        BY <3>2 DEF Frame
      <3>4. QED
        BY <2>4, <3>1, <3>3
    <2>7. CASE TakeOther(t)
      <3>1. [at |-> "proc", peer |-> NoThread] \in Frame
        BY DEF Frame
      <3>2. QED
        BY <2>4, <2>7, <3>1 DEF TakeOther
    <2>8. CASE ProcReturn(t)
      BY <2>5, <2>8 DEF ProcReturn, In
    <2>9. ASSUME NEW to \in Threads, Send(t, to) \/ Post(t, to)
          PROVE  /\ stack' \in [Threads -> Seq(Frame)]
                 /\ lock' \in [Threads -> Nat]
                 /\ \A r \in Threads : lock'[r] = Cardinality(Drains(stack'[r]))
      <3>1. PICK at \in {"lock", "enqueue", "post"} : Enter(t, at, to) /\ UNCHANGED lock
        BY <2>9 DEF Send, Post
      <3>2. [at |-> at, peer |-> to] \in Frame
        BY DEF Frame
      <3>3. QED
        BY <2>4, <3>1, <3>2
    <2>10. CASE LockOwn(t)
      <3>1. /\ In(t, "lock") /\ stack[t] # << >> /\ GoOn(t, "drain")
            /\ lock' = [lock EXCEPT ![t] = @ + 1]
        BY <2>10 DEF LockOwn, In
      <3>2. /\ stack' \in [Threads -> Seq(Frame)]
            /\ \A r \in Threads \ {t} : stack'[r] = stack[r]
            /\ Drains(stack'[t]) = Drains(stack[t]) \cup {1}
            /\ 1 \notin Drains(stack[t])
        BY <1>1, <3>1, DrainsGoneOn DEF In
      <3>3. IsFiniteSet(Drains(stack[t]))
        BY <1>1, DrainsFinite DEF TypeOK
      <3>4. Cardinality(Drains(stack'[t])) = Cardinality(Drains(stack[t])) + 1
        BY <3>2, <3>3, FS_AddElement
      <3>5. lock' \in [Threads -> Nat] /\ lock'[t] = lock[t] + 1
        BY <1>1, <3>1 DEF TypeOK
      <3>6. \A r \in Threads \ {t} : lock'[r] = lock[r]
        BY <1>1, <3>1 DEF TypeOK
      <3>7. QED
        BY <1>1, <3>2, <3>4, <3>5, <3>6
    <2>11. CASE DrainEnd(t)
      <3>1. /\ In(t, "drain") /\ stack[t] # << >> /\ GoOn(t, "enqueue")
            /\ lock' = [lock EXCEPT ![t] = @ - 1]
        BY <2>11 DEF DrainEnd, In, Unlock
      <3>2. /\ stack' \in [Threads -> Seq(Frame)]
            /\ \A r \in Threads \ {t} : stack'[r] = stack[r]
            /\ Drains(stack'[t]) = Drains(stack[t]) \ {1}
            /\ 1 \in Drains(stack[t])
        BY <1>1, <3>1, DrainsGoneOn
      <3>3. IsFiniteSet(Drains(stack[t]))
        BY <1>1, DrainsFinite DEF TypeOK
      <3>4. Cardinality(Drains(stack'[t])) = Cardinality(Drains(stack[t])) - 1
        BY <3>2, <3>3, FS_RemoveElement
      <3>5. Cardinality(Drains(stack'[t])) \in Nat
        BY <3>2, DrainsFinite
      <3>6. lock' \in [Threads -> Nat] /\ lock'[t] = lock[t] - 1
        <4>1. lock[t] - 1 \in Nat
          BY <1>1, <3>4, <3>5
        <4>2. QED
          BY <1>1, <3>1, <4>1 DEF TypeOK
      <3>7. \A r \in Threads \ {t} : lock'[r] = lock[r]
        BY <1>1, <3>1 DEF TypeOK
      <3>8. QED
        BY <1>1, <3>2, <3>4, <3>6, <3>7
    <2>12. CASE Enqueue(t)
      <3>1. /\ In(t, "enqueue") /\ stack[t] # << >> /\ GoOn(t, "wait") /\ UNCHANGED lock
        BY <2>12 DEF Enqueue, In
      <3>2. /\ stack' \in [Threads -> Seq(Frame)]
            /\ \A r \in Threads \ {t} : stack'[r] = stack[r]
            /\ Drains(stack'[t]) = Drains(stack[t]) \ {1}
            /\ 1 \notin Drains(stack[t])
        BY <1>1, <3>1, DrainsGoneOn DEF In
      <3>3. Drains(stack'[t]) = Drains(stack[t])
        BY <3>2
      <3>4. QED
        BY <1>1, <3>1, <3>2, <3>3 DEF TypeOK
    <2>13. CASE SendReturn(t) \/ PostReturn(t)
      BY <2>5, <2>13 DEF SendReturn, PostReturn, In
    <2>14. QED
      BY <1>3, <2>6, <2>7, <2>8, <2>9, <2>10, <2>11, <2>12, <2>13 DEF Step
  <1>4. QED
    BY <1>2, <1>3 DEF Next

(* The lock of a queue is held once for each drain its owner is in,        *)
(* however deep the drains nest (message.c, SendSyncMessage).              *)
THEOREM LocksHold == Spec => []LockInv
  <1>1. Init => LockInv
    <2>1. ASSUME Init PROVE TypeOK
      BY <2>1, SendAssumption, InitAnswerInv DEF Init, TypeOK
    <2>2. ASSUME Init, NEW t \in Threads PROVE Cardinality(Drains(stack[t])) = 0
      <3>1. Drains(stack[t]) = {}
        BY <2>2 DEF Init, Drains
      <3>2. QED
        BY <3>1, FS_EmptySet
    <2>3. QED
      BY <2>1, <2>2 DEF LockInv, Init
  <1>2. LockInv /\ AnswerInv /\ AnswerInv' /\ [Next]_vars => LockInv'
    BY KeepLockInv, SendAssumption
  <1>3. QED
    BY <1>1, <1>2, AnswerInvHolds, PTL DEF Spec

(* The types of the variables; that a lock count never falls below zero    *)
(* rests on LockInv.                                                       *)
THEOREM TypesHold == Spec => []TypeOK
  <1>1. LockInv => TypeOK
    BY DEF LockInv
  <1>2. QED
    BY <1>1, LocksHold, PTL

-----------------------------------------------------------------------------
(* The places of a message, counted.                                       *)
LEMMA PlacesOf ==
  ASSUME DataOK, NEW u \in Threads
  PROVE  /\ Unlisted(u) /\ Untaken(u) => Cardinality(Places(u)) = 0
         /\ Listed(u) /\ Untaken(u) => Cardinality(Places(u)) = 1
         /\ Unlisted(u) /\ Taken(u) => Cardinality(Places(u)) = 1
  <1>1. \A r \in Threads : Len(syncMsgs[r]) \in Nat /\ Len(stack[r]) \in Nat
    BY LenProperties DEF DataOK
  <1>2. \A x : x \in Places(u) <=>
            \/ \E r \in Threads : \E i \in 1 .. Len(syncMsgs[r]) :
                  syncMsgs[r][i] = u /\ x = <<"list", r, i>>
            \/ \E r \in Threads : \E i \in 1 .. Len(stack[r]) :
                  stack[r][i].at = "proc" /\ stack[r][i].peer = u /\ x = <<"proc", r, i>>
    <2> DEFINE InList(r) == {<<"list", r, i>> :
                                i \in {j \in 1 .. Len(syncMsgs[r]) : syncMsgs[r][j] = u}}
               InProcs(r) == {<<"proc", r, i>> : i \in {j \in 1 .. Len(stack[r]) :
                                stack[r][j].at = "proc" /\ stack[r][j].peer = u}}
    <2>1. Places(u) = (UNION {InList(r) : r \in Threads}) \cup (UNION {InProcs(r) : r \in Threads})
      BY DEF Places
    <2>2. ASSUME NEW r \in Threads, NEW x
          PROVE  x \in InList(r) <=>
                    \E i \in 1 .. Len(syncMsgs[r]) : syncMsgs[r][i] = u /\ x = <<"list", r, i>>
      OBVIOUS
    <2>3. ASSUME NEW r \in Threads, NEW x
          PROVE  x \in InProcs(r) <=>
                    \E i \in 1 .. Len(stack[r]) :
                       stack[r][i].at = "proc" /\ stack[r][i].peer = u /\ x = <<"proc", r, i>>
      OBVIOUS
    <2> HIDE DEF InList, InProcs
    <2>4. \A x : x \in Places(u) <=> \E r \in Threads : x \in InList(r) \/ x \in InProcs(r)
      BY <2>1
    <2>5. QED
      BY <2>2, <2>3, <2>4
  <1>3. \A x : x \in Places(u) <=>
            \/ \E r \in Threads, i \in Nat : Asks(u, r, i) /\ x = <<"list", r, i>>
            \/ \E r \in Threads, i \in Nat : Handles(u, r, i) /\ x = <<"proc", r, i>>
    BY <1>1, <1>2 DEF Asks, Handles
  <1>4. ASSUME Unlisted(u), Untaken(u) PROVE Cardinality(Places(u)) = 0
    <2>1. Places(u) = {}
      BY <1>3, <1>4 DEF Unlisted, Untaken
    <2>2. QED
      BY <2>1, FS_EmptySet
  <1>5. ASSUME Listed(u), Untaken(u) PROVE Cardinality(Places(u)) = 1
    <2>1. PICK r \in Threads, i \in Nat : ListedAt(u, r, i)
      BY <1>5 DEF Listed
    <2>2. Places(u) = {<<"list", r, i>>}
      BY <1>3, <1>5, <2>1 DEF ListedAt, Untaken
    <2>3. QED
      BY <2>2, FS_Singleton
  <1>6. ASSUME Unlisted(u), Taken(u) PROVE Cardinality(Places(u)) = 1
    <2>1. PICK r \in Threads, i \in Nat : TakenAt(u, r, i)
      BY <1>6 DEF Taken
    <2>2. Places(u) = {<<"proc", r, i>>}
      BY <1>3, <1>6, <2>1 DEF TakenAt, Unlisted
    <2>3. QED
      BY <2>2, FS_Singleton
  <1>7. QED
    BY <1>4, <1>5, <1>6

(* A message is in one place while its sender waits, or its sender has     *)
(* been woken up, once: nested dispatching never answers twice and never   *)
(* forgets (message.c, SendSyncMessage and DispatchMessage).               *)
THEOREM OneAnswerHolds == Spec => []OneAnswer
  <1>1. ASSUME AnswerInv PROVE OneAnswer
    <2>1. ASSUME NEW u \in Threads
          PROVE  sem[u] + Cardinality(Places(u)) = IF In(u, "wait") THEN 1 ELSE 0
      <3>1. /\ Where(u)
            /\ Unlisted(u) /\ Untaken(u) => Cardinality(Places(u)) = 0
            /\ Listed(u) /\ Untaken(u) => Cardinality(Places(u)) = 1
            /\ Unlisted(u) /\ Taken(u) => Cardinality(Places(u)) = 1
        BY <1>1, PlacesOf DEF AnswerInv
      <3>2. CASE IsNone(u)
        BY <3>1, <3>2 DEF IsNone
      <3>3. CASE IsAsked(u)
        BY <3>1, <3>3 DEF IsAsked
      <3>4. CASE IsHandled(u)
        BY <3>1, <3>4 DEF IsHandled
      <3>5. CASE IsAnswered(u)
        BY <3>1, <3>5 DEF IsAnswered
      <3>6. QED
        BY <3>1, <3>2, <3>3, <3>4, <3>5 DEF Where
    <2>2. QED
      BY <2>1 DEF OneAnswer
  <1>2. QED
    BY <1>1, AnswerInvHolds, PTL

-----------------------------------------------------------------------------
(* What SyncCall sees of the call of u.                                    *)
StatusIs(u) ==
    /\ IsNone(u) => Status(u) = "none"
    /\ IsAsked(u) => Status(u) = "asked"
    /\ IsHandled(u) => Status(u) = "handled"
    /\ IsAnswered(u) => Status(u) = "answered"

LEMMA StatusOf == DataOK => \A u \in Threads : StatusIs(u)
  <1> SUFFICES ASSUME DataOK, NEW u \in Threads PROVE StatusIs(u)
    OBVIOUS
  <1>1. \A r \in Threads : Len(syncMsgs[r]) \in Nat
    BY LenProperties DEF DataOK
  <1>2. Unlisted(u) => ~\E r \in Threads : \E i \in 1 .. Len(syncMsgs[r]) : syncMsgs[r][i] = u
    BY <1>1 DEF Unlisted, Asks
  <1>3. Listed(u) => \E r \in Threads : \E i \in 1 .. Len(syncMsgs[r]) : syncMsgs[r][i] = u
    BY DEF Listed, ListedAt, Asks
  <1>4. QED
    BY <1>2, <1>3 DEF StatusIs, Status, IsNone, IsAsked, IsHandled, IsAnswered

LEMMA StepOfCalls ==
  ASSUME AnswerInv, AnswerInv', SendAssumption, [Next]_vars
  PROVE  [Calls!Next]_([t \in Threads |-> Status(t)])
  <1> DEFINE status == [t \in Threads |-> Status(t)]
  <1>1. \A u \in Threads : Where(u)
    BY DEF AnswerInv
  <1>2. \A u \in Threads : StatusIs(u) /\ StatusIs(u)'
    <2>1. (DataOK => \A u \in Threads : StatusIs(u))'
      BY StatusOf, PTL
    <2>2. QED
      BY <2>1, StatusOf DEF AnswerInv
  <1>3. \A u \in Threads : Same(u) => Status(u)' = Status(u)
    BY <1>1, <1>2 DEF StatusIs, Same, Where
  <1>4. CASE \A u \in Threads : Same(u)
    BY <1>3, <1>4
  <1>5. ASSUME NEW h \in Threads, Moves(h), \A u \in Threads \ {h} : Same(u)
        PROVE  Calls!Next
    <2>1. ASSUME NEW to, Status(h)' = to PROVE status' = [status EXCEPT ![h] = to]
      BY <1>3, <1>5, <2>1
    <2>2. \/ Status(h) = "none" /\ Status(h)' = "asked"
          \/ Status(h) = "asked" /\ Status(h)' = "handled"
          \/ Status(h) = "handled" /\ Status(h)' = "answered"
          \/ Status(h) = "answered" /\ Status(h)' = "none"
      BY <1>2, <1>5 DEF StatusIs, Moves
    <2>3. status[h] = Status(h)
      OBVIOUS
    <2>4. Calls!Ask(h) \/ Calls!Handle(h) \/ Calls!Answer(h) \/ Calls!Return(h)
      BY <2>1, <2>2, <2>3 DEF Calls!Ask, Calls!Handle, Calls!Answer, Calls!Return, Calls!Move
    <2>5. QED
      BY <2>4 DEF Calls!Next
  <1>6. QED
    BY <1>4, <1>5, OneMoves

(* SendSyncMessage, with all its nesting, does what SyncCall says of a     *)
(* call between threads (window.h): it is asked, handled once, answered    *)
(* once and returns, in this order.                                        *)
THEOREM SendRefinesCall == Spec => CallsSpec
  <1>1. Init => Calls!Init
    <2>1. ASSUME Init PROVE \A u \in Threads : Status(u) = "none"
      BY <2>1, InitAnswerInv, StatusOf DEF AnswerInv, StatusIs
    <2>2. QED
      BY <2>1 DEF Calls!Init
  <1>2. AnswerInv /\ AnswerInv' /\ [Next]_vars => [Calls!Next]_([t \in Threads |-> Status(t)])
    BY StepOfCalls, SendAssumption
  <1>3. QED
    BY <1>1, <1>2, AnswerInvHolds, PTL DEF Spec, CallsSpec, Calls!Spec

-----------------------------------------------------------------------------
(* Calls go the way SendsTo and PostsTo have them: a message is in the     *)
(* list of a thread, or with one of its procedures, only when its sender   *)
(* sends to that thread, and so for the calls under way.                   *)
Routed(t, f) ==
    /\ f.at = "proc" => f.peer = NoThread \/ t \in SendsTo[f.peer]
    /\ f.at \in {"lock", "drain", "enqueue", "wait"} => f.peer \in SendsTo[t]
    /\ f.at = "post" => f.peer \in PostsTo[t]

Placed(t, s) == \A i \in 1 .. Len(s) : Routed(t, s[i])
Sent(t) == \A u \in Threads, i \in Nat : Asks(u, t, i) => t \in SendsTo[u]

RouteInv == \A t \in Threads : Sent(t) /\ Placed(t, stack[t])

LEMMA PlacedPush ==
  ASSUME DataOK, NEW t \in Threads, Placed(t, stack[t]), NEW at, NEW peer,
         [at |-> at, peer |-> peer] \in Frame, Routed(t, [at |-> at, peer |-> peer]),
         Enter(t, at, peer)
  PROVE  Placed(t, stack'[t]) /\ \A r \in Threads \ {t} : stack'[r] = stack[r]
  <1> DEFINE f == [at |-> at, peer |-> peer]
  <1>1. stack[t] \in Seq(Frame) /\ f \in Frame /\ Routed(t, f)
    BY DEF DataOK
  <1>2. stack' = [stack EXCEPT ![t] = <<f>> \o @]
    BY DEF Enter
  <1> HIDE DEF f
  <1>3. stack'[t] = <<f>> \o stack[t] /\ \A r \in Threads \ {t} : stack'[r] = stack[r]
    BY <1>2 DEF DataOK
  <1>4. /\ Len(stack[t]) \in Nat /\ Len(stack'[t]) = Len(stack[t]) + 1
        /\ stack'[t][1] = f
        /\ \A i \in 2 .. Len(stack[t]) + 1 : stack'[t][i] = stack[t][i - 1]
    BY <1>1, <1>3, PushFrame, LenProperties
  <1>5. ASSUME NEW i \in 1 .. Len(stack'[t]) PROVE Routed(t, stack'[t][i])
    <2>1. CASE i = 1
      BY <1>1, <1>4, <2>1
    <2>2. CASE i # 1
      <3>1. i - 1 \in 1 .. Len(stack[t]) /\ stack'[t][i] = stack[t][i - 1]
        BY <1>4, <2>2
      <3>2. Routed(t, stack[t][i - 1])
        BY <3>1 DEF Placed
      <3>3. QED
        BY <3>1, <3>2
    <2>3. QED
      BY <2>1, <2>2
  <1>6. QED
    BY <1>3, <1>5 DEF Placed

LEMMA PlacedPop ==
  ASSUME DataOK, NEW t \in Threads, Placed(t, stack[t]), stack[t] # << >>, Leave(t)
  PROVE  Placed(t, stack'[t]) /\ \A r \in Threads \ {t} : stack'[r] = stack[r]
  <1>1. stack[t] \in Seq(Frame)
    BY DEF DataOK
  <1>2. stack'[t] = Tail(stack[t]) /\ \A r \in Threads \ {t} : stack'[r] = stack[r]
    BY DEF DataOK, Leave
  <1>3. /\ Len(stack[t]) \in Nat \ {0} /\ Len(stack'[t]) = Len(stack[t]) - 1
        /\ \A i \in 1 .. Len(stack[t]) - 1 : stack'[t][i] = stack[t][i + 1]
    BY <1>1, <1>2, PopFrame
  <1>4. ASSUME NEW i \in 1 .. Len(stack'[t]) PROVE Routed(t, stack'[t][i])
    <2>1. i + 1 \in 1 .. Len(stack[t]) /\ stack'[t][i] = stack[t][i + 1]
      BY <1>3
    <2>2. Routed(t, stack[t][i + 1])
      BY <2>1 DEF Placed
    <2>3. QED
      BY <2>1, <2>2
  <1>5. QED
    BY <1>2, <1>4 DEF Placed

LEMMA PlacedOn ==
  ASSUME DataOK, NEW t \in Threads, Placed(t, stack[t]),
         In(t, "lock") \/ In(t, "drain") \/ In(t, "enqueue"),
         NEW at \in {"drain", "enqueue", "wait"}, GoOn(t, at)
  PROVE  Placed(t, stack'[t]) /\ \A r \in Threads \ {t} : stack'[r] = stack[r]
  <1>1. stack[t] \in Seq(Frame) /\ stack[t] # << >>
    BY DEF DataOK, In
  <1>2. /\ Len(stack[t]) \in Nat \ {0} /\ Head(stack[t]) = stack[t][1]
        /\ stack[t][1] \in Frame /\ Routed(t, stack[t][1])
    BY <1>1, PopFrame, ElementOfSeq DEF Placed
  <1> DEFINE f == [stack[t][1] EXCEPT !.at = at]
  <1>3. stack[t][1].peer \in SendsTo[t]
    BY <1>2 DEF Routed, In
  <1>4. f \in Frame /\ Routed(t, f)
    BY <1>2, <1>3 DEF Frame, Routed
  <1>5. stack' = [stack EXCEPT ![t] = [stack[t] EXCEPT ![1] = f]]
    BY DEF GoOn
  <1> HIDE DEF f
  <1>6. /\ Len([stack[t] EXCEPT ![1] = f]) = Len(stack[t])
        /\ \A j \in 1 .. Len(stack[t]) : [stack[t] EXCEPT ![1] = f][j] = IF j = 1 THEN f ELSE stack[t][j]
    BY <1>1, <1>2, <1>4, ExceptSeq
  <1>7. /\ stack'[t] = [stack[t] EXCEPT ![1] = f]
        /\ \A r \in Threads \ {t} : stack'[r] = stack[r]
    BY <1>5 DEF DataOK
  <1>8. ASSUME NEW s, Len(s) = Len(stack[t]),
               \A j \in 1 .. Len(stack[t]) : s[j] = IF j = 1 THEN f ELSE stack[t][j]
        PROVE  Placed(t, s)
    BY <1>4, <1>8 DEF Placed
  <1>9. QED
    BY <1>6, <1>7, <1>8

LEMMA KeepRouteInv ==
  ASSUME RouteInv, DataOK, DataOK', SendAssumption, [Next]_vars
  PROVE  RouteInv'
  <1>1. CASE UNCHANGED vars
    BY <1>1 DEF vars, RouteInv, Sent, Asks, Placed
  <1>2. ASSUME NEW t \in Threads, Step(t) PROVE RouteInv'
    <2>1. \A r \in Threads : Sent(r) /\ Placed(r, stack[r])
      BY DEF RouteInv
    <2>2. ASSUME Placed(t, stack'[t]), \A r \in Threads \ {t} : stack'[r] = stack[r]
          PROVE  \A r \in Threads : Placed(r, stack'[r])
      BY <2>1, <2>2
    <2>3. UNCHANGED syncMsgs => \A r \in Threads : Sent(r)'
      BY <2>1 DEF Sent, Asks
    <2>4. SUFFICES /\ \A r \in Threads : Sent(r)'
                   /\ \A r \in Threads : Placed(r, stack'[r])
      BY DEF RouteInv, Placed
    <2>5. CASE TakeSync(t) \/ Drain(t)
      <3>1. Dispatch(t)
        BY <2>5 DEF TakeSync, Drain
      <3> DEFINE u == Head(syncMsgs[t])
      <3>2. /\ u \in Threads /\ Asks(u, t, 1)
            /\ \A v, r \in Threads, j \in Nat : Asks(v, r, j)' <=>
                  IF r = t THEN j > 0 /\ Asks(v, t, j + 1) ELSE Asks(v, r, j)
        BY <3>1, TakenOff DEF Dispatch
      <3>3. \A r \in Threads : Sent(r)'
        BY <2>1, <3>2 DEF Sent
      <3>4. t \in SendsTo[u]
        BY <2>1, <3>2 DEF Sent
      <3>5. Enter(t, "proc", u) /\ [at |-> "proc", peer |-> u] \in Frame
        BY <3>1, <3>2 DEF Dispatch, Frame
      <3>6. Routed(t, [at |-> "proc", peer |-> u])
        BY <3>4 DEF Routed
      <3>7. QED
        BY <2>1, <2>2, <3>3, <3>5, <3>6, PlacedPush
    <2>6. CASE TakeOther(t)
      <3>1. /\ [at |-> "proc", peer |-> NoThread] \in Frame
            /\ Routed(t, [at |-> "proc", peer |-> NoThread])
        BY DEF Frame, Routed
      <3>2. QED
        BY <2>1, <2>2, <2>3, <2>6, <3>1, PlacedPush DEF TakeOther
    <2>7. CASE ProcReturn(t) \/ SendReturn(t) \/ PostReturn(t)
      BY <2>1, <2>2, <2>3, <2>7, PlacedPop DEF ProcReturn, SendReturn, PostReturn, In
    <2>8. ASSUME NEW to \in Threads, Send(t, to) PROVE RouteInv'
      <3>1. PICK at \in {"lock", "enqueue"} : Enter(t, at, to)
        BY <2>8 DEF Send
      <3>2. [at |-> at, peer |-> to] \in Frame /\ Routed(t, [at |-> at, peer |-> to])
        BY <2>8 DEF Frame, Routed, Send
      <3>3. QED
        BY <2>1, <2>2, <2>3, <2>8, <3>1, <3>2, PlacedPush DEF Send, RouteInv, Placed
    <2>9. ASSUME NEW to \in Threads, Post(t, to) PROVE RouteInv'
      <3>1. [at |-> "post", peer |-> to] \in Frame /\ Routed(t, [at |-> "post", peer |-> to])
        BY <2>9 DEF Frame, Routed, Post
      <3>2. QED
        BY <2>1, <2>2, <2>3, <2>9, <3>1, PlacedPush DEF Post, RouteInv, Placed
    <2>10. CASE LockOwn(t) \/ DrainEnd(t)
      BY <2>1, <2>2, <2>3, <2>10, PlacedOn DEF LockOwn, DrainEnd
    <2>11. CASE Enqueue(t)
      <3>1. In(t, "enqueue") /\ GoOn(t, "wait") /\ syncMsgs' = [syncMsgs EXCEPT ![Peer(t)] = Append(@, t)]
        BY <2>11 DEF Enqueue, Linked
      <3>2. Placed(t, stack'[t]) /\ \A r \in Threads \ {t} : stack'[r] = stack[r]
        BY <2>1, <3>1, PlacedOn
      <3>3. Peer(t) \in SendsTo[t] /\ Peer(t) \in Threads
        <4>1. stack[t] \in Seq(Frame) /\ stack[t] # << >>
          BY <3>1 DEF DataOK, In
        <4>2. Peer(t) = stack[t][1].peer /\ stack[t][1].at = "enqueue" /\ 1 \in 1 .. Len(stack[t])
          BY <3>1, <4>1, PopFrame DEF Peer, In
        <4>3. Routed(t, stack[t][1])
          BY <2>1, <4>2 DEF Placed
        <4>4. Peer(t) \in SendsTo[t]
          BY <4>2, <4>3 DEF Routed
        <4>5. QED
          BY <4>4, SendAssumption DEF SendAssumption
      <3>4. /\ Len(syncMsgs[Peer(t)]) \in Nat
            /\ \A v, r \in Threads, j \in Nat : Asks(v, r, j)' <=>
                  Asks(v, r, j) \/ (r = Peer(t) /\ v = t /\ j = Len(syncMsgs[Peer(t)]) + 1)
        BY <3>1, <3>3, PutOn
      <3>5. \A r \in Threads : Sent(r)'
        BY <2>1, <3>3, <3>4 DEF Sent
      <3>6. QED
        BY <2>2, <3>2, <3>5
    <2>12. QED
      BY <1>2, <2>5, <2>6, <2>7, <2>8, <2>9, <2>10, <2>11 DEF Step, RouteInv, Placed
  <1>3. QED
    BY <1>1, <1>2 DEF Next

LEMMA RouteInvHolds == Spec => []RouteInv
  <1>1. Init => RouteInv
    BY DEF Init, RouteInv, Sent, Asks, Placed
  <1>2. AnswerInv => DataOK
    BY DEF AnswerInv
  <1>3. RouteInv /\ DataOK /\ DataOK' /\ [Next]_vars => RouteInv'
    BY KeepRouteInv, SendAssumption
  <1>4. QED
    BY <1>1, <1>2, <1>3, AnswerInvHolds, PTL DEF Spec

-----------------------------------------------------------------------------
(* A thread has something to do, and can go on with it: the guards of      *)
(* Step, but for those of new calls.                                       *)
Busy(t) == stack[t] # << >> \/ syncMsgs[t] # << >>
CanGo(t) ==
    \/ stack[t] = << >> /\ syncMsgs[t] # << >>
    \/ In(t, "proc") \/ In(t, "lock") \/ In(t, "drain")
    \/ (In(t, "enqueue") \/ In(t, "post")) /\ Unlocked(Peer(t))
    \/ In(t, "wait") /\ Answered(t)

(* Whom a thread that cannot go on waits for has something to do.          *)
LEMMA WaitsFor ==
  ASSUME AnswerInv, LockInv, RouteInv, SendAssumption,
         NEW t \in Threads, Busy(t), ~CanGo(t)
  PROVE  \E u \in SendsTo[t] \cup PostsTo[t] : Busy(u)
  <1>1. stack[t] # << >> /\ stack[t] \in Seq(Frame)
    BY DEF Busy, CanGo, LockInv, TypeOK
  <1>2. /\ 1 \in 1 .. Len(stack[t]) /\ Head(stack[t]) = stack[t][1]
        /\ stack[t][1] \in Frame
    BY <1>1, PopFrame, ElementOfSeq
  <1>3. Routed(t, stack[t][1])
    BY <1>2 DEF RouteInv, Placed
  <1>4. \/ (In(t, "enqueue") \/ In(t, "post")) /\ ~Unlocked(Peer(t))
        \/ In(t, "wait") /\ ~Answered(t)
    BY <1>1, <1>2 DEF CanGo, In, Frame
  <1>5. CASE (In(t, "enqueue") \/ In(t, "post")) /\ ~Unlocked(Peer(t))
    <2>1. Peer(t) \in SendsTo[t] \cup PostsTo[t]
      BY <1>2, <1>3, <1>5 DEF Routed, In, Peer
    <2>2. Peer(t) \in Threads
      BY <2>1 DEF SendAssumption
    <2>3. Cardinality(Drains(stack[Peer(t)])) # 0
      BY <1>5, <2>2 DEF LockInv, Unlocked
    <2>4. stack[Peer(t)] # << >>
      <3>1. ASSUME stack[Peer(t)] = << >> PROVE FALSE
        <4>1. Drains(stack[Peer(t)]) = {}
          BY <3>1 DEF Drains
        <4>2. QED
          BY <2>3, <4>1, FS_EmptySet
      <3>2. QED
        BY <3>1
    <2>5. QED
      BY <2>1, <2>4 DEF Busy
  <1>6. CASE In(t, "wait") /\ ~Answered(t)
    <2>1. Where(t) /\ sem[t] \in Nat /\ sem[t] = 0
      BY <1>6 DEF AnswerInv, DataOK, Answered
    <2>2. IsAsked(t) \/ IsHandled(t)
      BY <1>6, <2>1 DEF Where, IsNone, IsAnswered
    <2>3. CASE IsAsked(t)
      <3>1. PICK r \in Threads, i \in Nat : Asks(t, r, i)
        BY <2>3 DEF IsAsked, Listed, ListedAt
      <3>2. r \in SendsTo[t]
        BY <3>1 DEF RouteInv, Sent
      <3>3. syncMsgs[r] # << >>
        BY <3>1 DEF Asks
      <3>4. QED
        BY <3>2, <3>3 DEF Busy
    <2>4. CASE IsHandled(t)
      <3>1. PICK r \in Threads, i \in Nat : Handles(t, r, i)
        BY <2>4 DEF IsHandled, Taken, TakenAt
      <3>2. Routed(r, stack[r][i]) /\ stack[r][i].at = "proc" /\ stack[r][i].peer = t
        BY <3>1 DEF RouteInv, Placed, Handles
      <3>3. r \in SendsTo[t]
        BY <3>2 DEF Routed, SendAssumption
      <3>4. stack[r] # << >>
        BY <3>1 DEF Handles
      <3>5. QED
        BY <3>3, <3>4 DEF Busy
    <2>5. QED
      BY <2>2, <2>3, <2>4
  <1>7. QED
    BY <1>4, <1>5, <1>6

LEMMA LeastNat ==
  ASSUME NEW S \in SUBSET Nat, S # {}
  PROVE  \E m \in S : \A k \in S : m <= k
  <1> DEFINE R == OpToRel(<, Nat)
  <1>1. IsWellFoundedOn(R, Nat)
    BY NatLessThanWellFounded
  <1> HIDE DEF R
  <1>2. \A k, m \in Nat : k < m => <<k, m>> \in R
    BY DEF R, OpToRel
  <1>3. PICK m \in S : \A k \in S : ~(<<k, m>> \in R)
    BY <1>1, WFMin
  <1>4. \A k \in S : ~(k < m)
    BY <1>2, <1>3
  <1>5. QED
    BY <1>3, <1>4

(* The threads can be ranked so that each sends and posts only to threads  *)
(* below it.                                                               *)
Ranking(rank) ==
    /\ rank \in [Threads -> Nat]
    /\ \A t \in Threads : \A u \in SendsTo[t] \cup PostsTo[t] : rank[u] < rank[t]

(* A thread with something to do can go on, or one below it can.           *)
OneGoes(rank) ==
    \A t \in Threads : Busy(t) => \E u \in Threads : rank[u] <= rank[t] /\ CanGo(u)

LEMMA SomeoneGoes ==
  ASSUME AnswerInv, LockInv, RouteInv, SendAssumption, NEW rank, Ranking(rank)
  PROVE  OneGoes(rank)
  <1> DEFINE Stuck(t) == Busy(t) /\ \A u \in Threads : rank[u] <= rank[t] => ~CanGo(u)
             B == {t \in Threads : Stuck(t)}
             S == {rank[t] : t \in B}
  <1>1. \A t \in Threads : rank[t] \in Nat
    BY DEF Ranking
  <1>2. SUFFICES ASSUME B # {} PROVE FALSE
    BY <1>2 DEF OneGoes
  <1>3. S \in SUBSET Nat /\ S # {}
    BY <1>1, <1>2
  <1>4. PICK m \in S : \A k \in S : m <= k
    BY <1>3, LeastNat
  <1>5. PICK t \in B : rank[t] = m
    BY <1>4
  <1>6. t \in Threads /\ Busy(t) /\ rank[t] <= rank[t]
    BY <1>1, <1>5
  <1>7. ~CanGo(t)
    BY <1>5, <1>6
  <1>8. PICK u \in SendsTo[t] \cup PostsTo[t] : Busy(u)
    BY <1>6, <1>7, WaitsFor
  <1>9. u \in Threads /\ rank[u] < rank[t]
    BY <1>6, <1>8 DEF SendAssumption, Ranking
  <1>10. \A v \in Threads : rank[v] <= rank[u] => rank[v] <= rank[t]
    BY <1>1, <1>6, <1>9
  <1>11. u \in B
    BY <1>5, <1>8, <1>9, <1>10
  <1> HIDE DEF Stuck, B
  <1>12. rank[u] \in S
    BY <1>11
  <1>13. m <= rank[u] /\ rank[u] < m /\ m \in Nat /\ rank[u] \in Nat
    BY <1>1, <1>4, <1>5, <1>6, <1>9, <1>12
  <1>14. QED
    BY <1>13

(* Where no two threads send to each other, by whatever detour, no threads *)
(* wait for each other for good, although each drains its list with its    *)
(* queue locked and is locked out of the queues of others meanwhile        *)
(* (message.c, SendSyncMessage): whenever a thread is in a call or has a   *)
(* message, it can go on, or a thread it waits for, by however many        *)
(* threads in between, can.                                                *)
THEOREM NoneStuck ==
  ASSUME NEW CONSTANT rank, Ranking(rank)
  PROVE  Spec => []OneGoes(rank)
  <1>1. AnswerInv /\ LockInv /\ RouteInv => OneGoes(rank)
    BY SomeoneGoes, SendAssumption
  <1>2. QED
    BY <1>1, AnswerInvHolds, LocksHold, RouteInvHolds, PTL

=============================================================================
