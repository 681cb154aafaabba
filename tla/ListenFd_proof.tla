---------------------------- MODULE ListenFd_proof ----------------------------
(***************************************************************************)
(* Proofs about ListenFd: the sets and the counts of a thread's            *)
(* descriptors agree with its slots, for all descriptors, types and        *)
(* numbers of slots, if the program is sensible.                           *)
(***************************************************************************)
EXTENDS ListenFd, FiniteSetTheorems, TLAPS

Kind(i) == KindOf(fd_slots[i].type)

(* No descriptor has two slots of the same kind, so that no set keeps a    *)
(* descriptor, or loses it, on behalf of another slot.                     *)
OneEach ==
    \A i, j \in Used : fd_slots[i].fd = fd_slots[j].fd /\ Kind(i) = Kind(j) => i = j

CountInv ==
    /\ TableOK /\ CountsRight /\ OneEach
    /\ \A k \in Kinds : IsFiniteSet(fdset[k])

(* An empty slot is no registration.                                       *)
LEMMA NullIsNone == NULL \notin LISTEN_FD
  BY DEF NULL, LISTEN_FD

(* Every type has a kind.                                                  *)
LEMMA KindType == \A type : KindOf(type) \in Kinds
  BY DEF KindOf, Kinds

(* A new registration fills one slot that was empty and moves no other.    *)
LEMMA PutFills ==
  ASSUME TableOK, NEW new \in LISTEN_FD, Put(new)
  PROVE  /\ nr_fd_slots' \in Nat
         /\ fd_slots' \in [Slots' -> LISTEN_FD \cup {NULL}]
         /\ \E p : /\ p \notin Used /\ Used' = Used \cup {p}
                   /\ fd_slots'[p] = new
                   /\ \A i \in Used : fd_slots'[i] = fd_slots[i]
  <1>1. CASE \E i \in Slots : /\ First(i, Slots \ Used)
                              /\ fd_slots' = [fd_slots EXCEPT ![i] = new]
                              /\ UNCHANGED nr_fd_slots
    <2>1. PICK p \in Slots : /\ p \notin Used
                             /\ fd_slots' = [fd_slots EXCEPT ![p] = new]
                             /\ UNCHANGED nr_fd_slots
      BY <1>1 DEF First
    <2>2. Slots' = Slots
      BY <2>1 DEF Slots
    <2>3. /\ fd_slots'[p] = new
          /\ \A i \in Slots \ {p} : fd_slots'[i] = fd_slots[i]
      BY <2>1 DEF TableOK
    <2>4. Used' = Used \cup {p}
      BY <2>1, <2>2, <2>3, NullIsNone DEF Used
    <2>5. fd_slots' \in [Slots' -> LISTEN_FD \cup {NULL}]
      BY <2>1, <2>2 DEF TableOK
    <2> QED
      BY <2>1, <2>3, <2>4, <2>5 DEF TableOK, Used
  <1>2. CASE /\ Slots \ Used = {}
             /\ nr_fd_slots' = nr_fd_slots + MAX_NR_LISTEN_FD
             /\ fd_slots' = [i \in 1 .. nr_fd_slots + MAX_NR_LISTEN_FD |->
                                IF i <= nr_fd_slots THEN fd_slots[i]
                                ELSE IF i = nr_fd_slots + 1 THEN new ELSE NULL]
    <2> DEFINE p == nr_fd_slots + 1
    <2>1. /\ nr_fd_slots \in Nat /\ nr_fd_slots' \in Nat
          /\ p \in Slots' /\ p \notin Slots /\ Slots \subseteq Slots'
      BY <1>2, ListenAssumption DEF TableOK, Slots
    <2>2. /\ fd_slots'[p] = new
          /\ \A i \in Slots : fd_slots'[i] = fd_slots[i]
          /\ \A i \in Slots' \ (Slots \cup {p}) : fd_slots'[i] = NULL
      BY <1>2, <2>1 DEF Slots
    <2>3. Used' = Used \cup {p}
      BY <2>1, <2>2, NullIsNone DEF Used
    <2>4. ASSUME NEW i \in Slots' PROVE fd_slots'[i] \in LISTEN_FD \cup {NULL}
      BY <2>1, <2>2 DEF TableOK
    <2>5. fd_slots' = [i \in Slots' |-> fd_slots'[i]]
      BY <1>2 DEF Slots
    <2> QED
      BY <2>1, <2>2, <2>3, <2>4, <2>5 DEF Used
  <1> QED
    BY <1>1, <1>2 DEF Put

(* mg_InitMsgQueue: nothing is registered.                                 *)
LEMMA InitCountInv == Init => CountInv
  <1> SUFFICES ASSUME Init PROVE CountInv
    OBVIOUS
  <1>1. Slots = {} /\ Used = {}
    BY DEF Init, Slots, Used
  <1>2. TableOK
    BY <1>1 DEF Init, TableOK
  <1>3. \A k \in Kinds : fdset[k] = {} /\ nr_fds[k] = 0
    BY DEF Init
  <1> QED
    BY <1>1, <1>2, <1>3, FS_EmptySet DEF CountInv, CountsRight, OneEach

(* RegisterListenFD of a sensible program adds one to one set, and counts  *)
(* it.                                                                     *)
LEMMA RegisterCountInv ==
  ASSUME Sensible, CountInv, NEW fd \in Fds, NEW type \in Types,
         RegisterListenFD(fd, type)
  PROVE  CountInv'
  <1> DEFINE k == KindOf(type)
             new == [fd |-> fd, type |-> type]
  <1>1. new \in LISTEN_FD /\ k \in Kinds
    BY KindType DEF LISTEN_FD
  <1>2. /\ fd \notin fdset[k]
        /\ fdset' = [fdset EXCEPT ![k] = @ \cup {fd}]
        /\ nr_fds' = [nr_fds EXCEPT ![k] = @ + 1]
        /\ maxfd' = LastFd(fd)
        /\ Put(new)
    BY DEF RegisterListenFD
  <1>3. PICK p : /\ p \notin Used /\ Used' = Used \cup {p}
                 /\ fd_slots'[p] = new
                 /\ \A i \in Used : fd_slots'[i] = fd_slots[i]
    BY <1>1, <1>2, PutFills DEF CountInv
  <1>4. TableOK'
    <2>1. nr_fd_slots' \in Nat /\ fd_slots' \in [Slots' -> LISTEN_FD \cup {NULL}]
      BY <1>1, <1>2, PutFills DEF CountInv
    <2>2. fdset' \in [Kinds -> SUBSET Fds] /\ nr_fds' \in [Kinds -> Int]
      BY <1>1, <1>2 DEF CountInv, TableOK
    <2>3. maxfd' \in Int
      BY <1>2, ListenAssumption DEF CountInv, TableOK, LastFd
    <2> QED
      BY <2>1, <2>2, <2>3 DEF TableOK
  <1>5. Kind(p)' = k /\ fd_slots'[p].fd = fd /\ \A i \in Used : Kind(i)' = Kind(i)
    BY <1>3 DEF Kind
  <1>6. \A i \in Used : ~(fd_slots[i].fd = fd /\ Kind(i) = k)
    BY <1>1, <1>2 DEF CountInv, CountsRight, Kind
  <1>7. OneEach'
    BY <1>3, <1>5, <1>6 DEF CountInv, OneEach
  <1>8. ASSUME NEW c \in Kinds
        PROVE  /\ IsFiniteSet(fdset'[c]) /\ nr_fds'[c] = Cardinality(fdset'[c])
               /\ fdset'[c] = {fd_slots'[i].fd : i \in {j \in Used' : Kind(j)' = c}}
    <2>1. CASE c = k
      <3>1. fdset'[c] = fdset[c] \cup {fd} /\ nr_fds'[c] = nr_fds[c] + 1
        BY <1>2, <2>1 DEF CountInv, TableOK
      <3>2. IsFiniteSet(fdset'[c]) /\ Cardinality(fdset'[c]) = Cardinality(fdset[c]) + 1
        <4>1. fd \notin fdset[c] /\ IsFiniteSet(fdset[c])
          BY <1>2, <2>1 DEF CountInv
        <4>2. /\ IsFiniteSet(fdset[c] \cup {fd})
              /\ Cardinality(fdset[c] \cup {fd}) = Cardinality(fdset[c]) + 1
          <5> DEFINE S == fdset[c]
          <5> HIDE DEF S
          <5>1. IsFiniteSet(S) /\ fd \notin S
            BY <4>1 DEF S
          <5>2. IsFiniteSet(S \cup {fd}) /\ Cardinality(S \cup {fd}) = Cardinality(S) + 1
            BY <5>1, FS_AddElement
          <5> QED
            BY <5>2 DEF S
        <4> QED
          BY <3>1, <4>2
      <3>3. fdset[c] = {fd_slots[i].fd : i \in {j \in Used : Kind(j) = c}}
        BY DEF CountInv, CountsRight, Kind
      <3>4. fdset'[c] = {fd_slots'[i].fd : i \in {j \in Used' : Kind(j)' = c}}
        BY <1>3, <1>5, <2>1, <3>1, <3>3
      <3> QED
        BY <3>1, <3>2, <3>4 DEF CountInv, CountsRight
    <2>2. CASE c # k
      <3>1. fdset'[c] = fdset[c] /\ nr_fds'[c] = nr_fds[c]
        BY <1>2, <2>2 DEF CountInv, TableOK
      <3>2. fdset[c] = {fd_slots[i].fd : i \in {j \in Used : Kind(j) = c}}
        BY DEF CountInv, CountsRight, Kind
      <3>3. fdset'[c] = {fd_slots'[i].fd : i \in {j \in Used' : Kind(j)' = c}}
        BY <1>3, <1>5, <2>2, <3>1, <3>2
      <3> QED
        BY <3>1, <3>3 DEF CountInv, CountsRight
    <2> QED
      BY <2>1, <2>2
  <1> QED
    BY <1>4, <1>7, <1>8 DEF CountInv, CountsRight, Kind

(* UnregisterListenFD takes one from the set of the slot that it empties.  *)
LEMMA UnregisterCountInv ==
  ASSUME CountInv, NEW fd \in Fds, UnregisterListenFD(fd)
  PROVE  CountInv'
  <1>1. PICK p \in Slots :
            /\ First(p, SlotsOf(fd))
            /\ fdset' = [fdset EXCEPT ![Gone(p)] = @ \ {fd}]
            /\ nr_fds' = [nr_fds EXCEPT ![Gone(p)] = @ - 1]
            /\ fd_slots' = [fd_slots EXCEPT ![p] = NULL]
    BY DEF UnregisterListenFD
  <1> DEFINE k == Kind(p)
  <1>2. p \in Used /\ fd_slots[p].fd = fd /\ k \in Kinds /\ Gone(p) = k
    BY <1>1, KindType DEF First, SlotsOf, Kind, Gone
  <1>3. Slots' = Slots /\ nr_fd_slots' = nr_fd_slots /\ maxfd' = maxfd
    BY DEF UnregisterListenFD, Slots
  <1>4. /\ fd_slots'[p] = NULL
        /\ \A i \in Slots \ {p} : fd_slots'[i] = fd_slots[i]
    BY <1>1 DEF CountInv, TableOK
  <1>5. Used' = Used \ {p}
    BY <1>3, <1>4 DEF Used
  <1>6. TableOK'
    BY <1>1, <1>2, <1>3 DEF CountInv, TableOK
  <1>7. \A i \in Used' : fd_slots'[i] = fd_slots[i] /\ Kind(i)' = Kind(i)
    BY <1>4, <1>5 DEF Used, Kind
  <1>8. OneEach'
    BY <1>5, <1>7 DEF CountInv, OneEach
  <1>9. ASSUME NEW c \in Kinds
        PROVE  /\ IsFiniteSet(fdset'[c]) /\ nr_fds'[c] = Cardinality(fdset'[c])
               /\ fdset'[c] = {fd_slots'[i].fd : i \in {j \in Used' : Kind(j)' = c}}
    <2>1. fdset[c] = {fd_slots[i].fd : i \in {j \in Used : Kind(j) = c}}
      BY DEF CountInv, CountsRight, Kind
    <2>2. CASE c = k
      <3>1. fdset'[c] = fdset[c] \ {fd} /\ nr_fds'[c] = nr_fds[c] - 1
        BY <1>1, <1>2, <2>2 DEF CountInv, TableOK
      <3>2. fd \in fdset[c]
        BY <1>2, <2>1, <2>2
      <3>3. IsFiniteSet(fdset'[c]) /\ Cardinality(fdset'[c]) = Cardinality(fdset[c]) - 1
        BY <3>1, <3>2, FS_RemoveElement DEF CountInv
      <3>4. \A i \in Used' : Kind(i) = c => fd_slots[i].fd # fd
        BY <1>2, <1>5, <2>2 DEF CountInv, OneEach
      <3>5. fdset'[c] = {fd_slots'[i].fd : i \in {j \in Used' : Kind(j)' = c}}
        BY <1>2, <1>5, <1>7, <2>1, <3>1, <3>4
      <3> QED
        BY <3>1, <3>3, <3>5 DEF CountInv, CountsRight
    <2>3. CASE c # k
      <3>1. fdset'[c] = fdset[c] /\ nr_fds'[c] = nr_fds[c]
        BY <1>1, <1>2, <2>3 DEF CountInv, TableOK
      <3>2. fdset'[c] = {fd_slots'[i].fd : i \in {j \in Used' : Kind(j)' = c}}
        BY <1>5, <1>7, <2>1, <2>3, <3>1
      <3> QED
        BY <3>1, <3>2 DEF CountInv, CountsRight
    <2> QED
      BY <2>2, <2>3
  <1> QED
    BY <1>6, <1>8, <1>9 DEF CountInv, CountsRight, Kind

(* The other steps leave the table alone.                                  *)
LEMMA SameTable == CountInv /\ UNCHANGED table => CountInv'
  BY DEF CountInv, TableOK, CountsRight, OneEach, Kind, Used, Slots, table

(* Every step of a sensible program keeps the sets and the counts.         *)
LEMMA NextCountInv ==
  ASSUME Sensible, CountInv, [Next]_vars
  PROVE  CountInv'
  <1>1. ASSUME NEW fd \in Fds, NEW type \in Types, RegisterListenFD(fd, type)
        PROVE  CountInv'
    BY <1>1, RegisterCountInv
  <1>2. ASSUME NEW fd \in Fds, UnregisterListenFD(fd) PROVE CountInv'
    BY <1>2, UnregisterCountInv
  <1>3. ASSUME NEW fd \in Fds, Close(fd) PROVE CountInv'
    BY <1>3, SameTable DEF Close
  <1>4. ASSUME NEW e \in Event, ComesIn(e) PROVE CountInv'
    BY <1>4, SameTable DEF ComesIn
  <1>5. CASE Idle
    BY <1>5, SameTable DEF Idle
  <1>6. CASE PostMessage
    BY <1>6, SameTable DEF PostMessage
  <1>7. CASE Dispatch
    BY <1>7, SameTable DEF Dispatch
  <1>8. CASE UNCHANGED vars
    BY <1>8, SameTable DEF vars, table
  <1> QED
    BY <1>1, <1>2, <1>3, <1>4, <1>5, <1>6, <1>7, <1>8 DEF Next

LEMMA CountInvHolds == Sensible => (Spec => []CountInv)
  <1> SUFFICES ASSUME Sensible PROVE Spec => []CountInv
    OBVIOUS
  <1>1. CountInv /\ [Next]_vars => CountInv'
    BY NextCountInv
  <1> QED
    BY <1>1, InitCountInv, PTL DEF Spec

(* Each count is the size of its set, and each set has the descriptors of  *)
(* the slots of its kind, for all descriptors and however many slots.      *)
THEOREM CountsKept ==
  ASSUME Sensible
  PROVE  Spec => []CountsRight
  <1>1. CountInv => CountsRight
    BY DEF CountInv
  <1> QED
    BY <1>1, CountInvHolds, PTL

-----------------------------------------------------------------------------
(* What select() is given can be reached by it: maxfd is never below a     *)
(* descriptor in a set, and none of them is closed.                        *)
ReachInv == \A k \in Kinds : \A fd \in fdset[k] : fd <= maxfd /\ fd \in open

(* What the idle handler relies on: select() does not fail, and looks at   *)
(* the descriptor of every slot.                                           *)
SelectSound ==
    /\ ~SelectFails
    /\ \A i \in Used : fd_slots[i].fd \in Watched(Kind(i))

LEMMA NextReachInv ==
  ASSUME Sensible, ~ClosesEarly, CountInv, ReachInv, [Next]_vars
  PROVE  ReachInv'
  <1>0. /\ maxfd \in Int /\ fdset \in [Kinds -> SUBSET Fds] /\ Fds \subseteq Nat
        /\ \A k \in Kinds : fdset[k] = {fd_slots[i].fd : i \in {j \in Used : Kind(j) = k}}
    BY ListenAssumption DEF CountInv, TableOK, CountsRight, Kind
  <1>1. ASSUME NEW fd \in Fds, NEW type \in Types, RegisterListenFD(fd, type)
        PROVE  ReachInv'
    <2>1. /\ KindOf(type) \in Kinds
          /\ fdset' = [fdset EXCEPT ![KindOf(type)] = @ \cup {fd}]
          /\ maxfd' = LastFd(fd) /\ open' = open \cup {fd}
      BY <1>1, KindType DEF RegisterListenFD
    <2>2. maxfd' \in Int /\ maxfd <= maxfd' /\ fd <= maxfd'
      BY <1>0, <2>1 DEF LastFd
    <2>3. \A k \in Kinds : fdset'[k] \subseteq fdset[k] \cup {fd}
      BY <1>0, <2>1
    <2>4. \A k \in Kinds : \A g \in fdset[k] : g \in Nat
      BY <1>0
    <2>5. ASSUME NEW k \in Kinds, NEW g \in fdset'[k] PROVE g <= maxfd' /\ g \in open'
      <3>1. CASE g = fd
        BY <2>1, <2>2, <3>1
      <3>2. CASE g \in fdset[k]
        BY <1>0, <2>1, <2>2, <2>4, <3>2 DEF ReachInv
      <3> QED
        BY <2>3, <3>1, <3>2
    <2> QED
      BY <2>5 DEF ReachInv
  <1>2. ASSUME NEW fd \in Fds, UnregisterListenFD(fd) PROVE ReachInv'
    <2>1. /\ \A k \in Kinds : fdset'[k] \subseteq fdset[k]
          /\ maxfd' = maxfd /\ open' = open
      BY <1>0, <1>2 DEF UnregisterListenFD, world
    <2> QED
      BY <2>1 DEF ReachInv
  <1>3. ASSUME NEW fd \in Fds, Close(fd) PROVE ReachInv'
    <2>1. SlotsOf(fd) = {} /\ open' = open \ {fd} /\ fdset' = fdset /\ maxfd' = maxfd
      BY <1>3 DEF Close, table
    <2>2. \A k \in Kinds : fd \notin fdset[k]
      BY <1>0, <2>1 DEF SlotsOf
    <2> QED
      BY <2>1, <2>2 DEF ReachInv
  <1>4. ASSUME NEW e \in Event, ComesIn(e) PROVE ReachInv'
    BY <1>4 DEF ComesIn, table, ReachInv
  <1>5. CASE Idle \/ PostMessage \/ Dispatch
    BY <1>5 DEF Idle, PostMessage, Dispatch, table, ReachInv
  <1>6. CASE UNCHANGED vars
    BY <1>6 DEF vars, ReachInv
  <1> QED
    BY <1>1, <1>2, <1>3, <1>4, <1>5, <1>6 DEF Next

(* A sensible program that closes no descriptor while it is registered     *)
(* makes no select() fail, and std_idle_handler (message.c) looks at every *)
(* registered descriptor: maxfd, which UnregisterListenFD leaves, is never *)
(* too low, and no count is 0 while its set is not empty.                  *)
THEOREM AllWatched ==
  ASSUME Sensible, ~ClosesEarly
  PROVE  Spec => []SelectSound
  <1>1. Init => ReachInv
    BY DEF Init, ReachInv
  <1>2. CountInv /\ ReachInv /\ [Next]_vars => ReachInv'
    BY NextReachInv
  <1>3. CountInv /\ ReachInv => SelectSound
    <2> SUFFICES ASSUME CountInv, ReachInv PROVE SelectSound
      OBVIOUS
    <2>1. ~SelectFails
      BY DEF SelectFails, Watched, ReachInv
    <2>2. ASSUME NEW i \in Used PROVE fd_slots[i].fd \in Watched(Kind(i))
      <3>1. Kind(i) \in Kinds
        BY KindType DEF Kind
      <3>2. fd_slots[i].fd \in fdset[Kind(i)] /\ nr_fds[Kind(i)] = Cardinality(fdset[Kind(i)])
        BY <3>1 DEF CountInv, CountsRight, Kind
      <3>3. Cardinality(fdset[Kind(i)]) # 0
        <4>1. IsFiniteSet(fdset[Kind(i)])
          BY <3>1 DEF CountInv
        <4> QED
          BY <3>2, <4>1, FS_EmptySet
      <3> QED
        BY <3>1, <3>2, <3>3 DEF Watched, ReachInv
    <2> QED
      BY <2>1, <2>2 DEF SelectSound
  <1> QED
    BY <1>1, <1>2, <1>3, CountInvHolds, PTL DEF Spec

=============================================================================
