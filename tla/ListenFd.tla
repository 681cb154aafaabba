------------------------------- MODULE ListenFd -------------------------------
(***************************************************************************)
(* The file descriptors that a message thread listens to                   *)
(* (kernel/listenfd.c, and std_idle_handler of kernel/message.c).  A       *)
(* registration is a slot; one set of descriptors and one count for each   *)
(* kind of event tell the idle handler what to give to select(), and the   *)
(* slots whose descriptor is ready are told to their windows by            *)
(* MSG_FDEVENT, in the ring of posted messages.                            *)
(***************************************************************************)
EXTENDS Integers, Sequences, FiniteSets

CONSTANTS
    Fds,            \* the descriptors; select() looks at them by their number
    Types,          \* the types they are registered with
    MAX_NR_LISTEN_FD,
    QLen,           \* how many messages the ring holds
    Sensible,       \* whether the program registers only what it may, see below
    ClosesEarly,    \* whether it closes descriptors that are registered
    MaxUsed,        \* bound: how many slots are in use
    MaxReady,       \* bound: how often something comes in
    MaxPosts        \* bound: other messages in the ring

(* POLLIN, POLLOUT and POLLERR, in the order in which the code tests them. *)
Kinds == {"in", "out", "err"}

ASSUME ListenAssumption ==
    /\ Fds \subseteq Nat /\ Types \subseteq (SUBSET Kinds) \ {{}}
    /\ MAX_NR_LISTEN_FD \in Nat \ {0} /\ QLen \in Nat \ {0}
    /\ Sensible \in BOOLEAN /\ ClosesEarly \in BOOLEAN
    /\ MaxUsed \in Nat /\ MaxReady \in Nat /\ MaxPosts \in Nat

LISTEN_FD == [fd : Fds, type : Types]
NULL      == [fd |-> "none"]

VARIABLES
    nr_fd_slots, fd_slots,
    fdset,      \* rfdset, wfdset and efdset
    nr_fds,     \* nr_rfds, nr_wfds and nr_efds
    maxfd,
    open,       \* the descriptors that are open
    ready,      \* the events that select() would report, each with its kind
    ring,       \* the posted messages: MSG_FDEVENT with its event, or another
    came, posted

vars  == <<nr_fd_slots, fd_slots, fdset, nr_fds, maxfd, open, ready, ring, came, posted>>
table == <<nr_fd_slots, fd_slots, fdset, nr_fds, maxfd>>
world == <<open, ready, ring, came, posted>>

Other == [fd |-> -1, kind |-> "none"]
Event == [fd : Fds, kind : Kinds]
Slots == 1 .. nr_fd_slots
Used  == {i \in Slots : fd_slots[i] # NULL}

TableOK ==
    /\ nr_fd_slots \in Nat
    /\ fd_slots \in [Slots -> LISTEN_FD \cup {NULL}]
    /\ fdset \in [Kinds -> SUBSET Fds]
    /\ nr_fds \in [Kinds -> Int]
    /\ maxfd \in Int

-----------------------------------------------------------------------------
(* mg_InitMsgQueue                                                         *)
Init ==
    /\ nr_fd_slots = 0 /\ fd_slots = << >>
    /\ fdset = [k \in Kinds |-> {}] /\ nr_fds = [k \in Kinds |-> 0]
    /\ maxfd = 0
    /\ open = {} /\ ready = {} /\ ring = << >> /\ came = 0 /\ posted = 0

(* A type may be several kinds; the code follows the first.                *)
KindOf(type) == IF "in" \in type THEN "in" ELSE IF "out" \in type THEN "out" ELSE "err"

(* For POLLERR the code asks whether the descriptor is in wfdset.          *)
Asked(k) == IF k = "in" THEN "in" ELSE "out"

SlotsOf(fd) == {i \in Used : fd_slots[i].fd = fd}
First(i, S) == i \in S /\ \A j \in S : i <= j

(* The first empty slot, or the first of MAX_NR_LISTEN_FD more.            *)
Put(new) ==
    LET empty == Slots \ Used
    IN  \/ \E i \in Slots : /\ First(i, empty)
                           /\ fd_slots' = [fd_slots EXCEPT ![i] = new]
                           /\ UNCHANGED nr_fd_slots
        \/ /\ empty = {}
           /\ nr_fd_slots' = nr_fd_slots + MAX_NR_LISTEN_FD
           /\ fd_slots' = [i \in 1 .. nr_fd_slots + MAX_NR_LISTEN_FD |->
                              IF i <= nr_fd_slots THEN fd_slots[i]
                              ELSE IF i = nr_fd_slots + 1 THEN new ELSE NULL]

BrokenLast(fd) == maxfd
LastFd(fd) == IF maxfd < fd THEN fd ELSE maxfd

(* The slot is taken also when the call then fails.  A sensible program    *)
(* registers a descriptor once for each kind, and not for POLLERR while it *)
(* is registered for POLLOUT.                                              *)
RegisterListenFD(fd, type) ==
    LET k == KindOf(type)
    IN  /\ Cardinality(Used) < MaxUsed
        /\ Sensible => fd \notin fdset[k] \cup fdset[Asked(k)]
        /\ Put([fd |-> fd, type |-> type])
        /\ IF fd \notin fdset[Asked(k)]
           THEN /\ fdset' = [fdset EXCEPT ![k] = @ \cup {fd}]
                /\ nr_fds' = [nr_fds EXCEPT ![k] = @ + 1]
                /\ maxfd' = LastFd(fd)
           ELSE UNCHANGED <<fdset, nr_fds, maxfd>>
        /\ open' = open \cup {fd}
        /\ UNCHANGED <<ready, ring, came, posted>>

BrokenGone(i) == "in"
Gone(i) == KindOf(fd_slots[i].type)

(* The first slot of the descriptor, whatever its type.                    *)
UnregisterListenFD(fd) ==
    /\ \E i \in Slots :
          /\ First(i, SlotsOf(fd))
          /\ fdset' = [fdset EXCEPT ![Gone(i)] = @ \ {fd}]
          /\ nr_fds' = [nr_fds EXCEPT ![Gone(i)] = @ - 1]
          /\ fd_slots' = [fd_slots EXCEPT ![i] = NULL]
    /\ UNCHANGED <<nr_fd_slots, maxfd, world>>

-----------------------------------------------------------------------------
(* The kernel's side.                                                      *)
ComesIn(e) ==
    /\ e.fd \in open /\ e \notin ready
    /\ came < MaxReady /\ came' = came + 1
    /\ ready' = ready \cup {e}
    /\ UNCHANGED <<table, open, ring, posted>>

Close(fd) ==
    /\ fd \in open /\ (ClosesEarly \/ SlotsOf(fd) = {})
    /\ open' = open \ {fd}
    /\ ready' = {e \in ready : e.fd # fd}
    /\ UNCHANGED <<table, ring, came, posted>>

(* What the idle handler gives to select(): the sets that have a count, up *)
(* to maxfd.  A descriptor in them that is closed makes select() fail.     *)
Watched(k) == IF nr_fds[k] # 0 THEN {fd \in fdset[k] : fd <= maxfd} ELSE {}
Reported   == {e \in ready : e.fd \in Watched(e.kind)}
SelectFails == \E k \in Kinds : Watched(k) \ open # {}

EventOf(i) == [fd |-> fd_slots[i].fd, kind |-> KindOf(fd_slots[i].type)]

(* __mg_kernel_check_listen_fds: slot by slot, as the ring has room.       *)
Events ==
    LET told == SelectSeq([i \in Slots |-> i], LAMBDA i : i \in Used /\ EventOf(i) \in Reported)
    IN  [j \in DOMAIN told |-> EventOf(told[j])]

Room(s) == SubSeq(s, 1, IF Len(s) < QLen THEN Len(s) ELSE QLen)

(* The loop idles when there is no message.                                *)
Idle ==
    /\ ring = << >> /\ ~SelectFails
    /\ ring' = Room(ring \o Events)
    /\ UNCHANGED <<table, open, ready, came, posted>>

PostMessage ==
    /\ posted < MaxPosts /\ posted' = posted + 1
    /\ ring' = Room(Append(ring, Other))
    /\ UNCHANGED <<table, open, ready, came>>

(* The loop dispatches the next message.  The window reads or writes what  *)
(* it was told of.                                                         *)
Dispatch ==
    /\ ring # << >>
    /\ ring' = Tail(ring)
    /\ ready' = ready \ {Head(ring)}
    /\ UNCHANGED <<table, open, came, posted>>

Next ==
    \/ \E fd \in Fds :
          \/ \E type \in Types : RegisterListenFD(fd, type)
          \/ UnregisterListenFD(fd) \/ Close(fd)
    \/ \E e \in Event : ComesIn(e)
    \/ Idle \/ PostMessage \/ Dispatch

Spec == Init /\ [][Next]_vars

(* The message loop runs.                                                  *)
FairSpec == Spec /\ WF_vars(Idle) /\ WF_vars(Dispatch)

-----------------------------------------------------------------------------
(* Each set holds the descriptors of the slots of its kind, and each count *)
(* is the size of its set: the idle handler leaves out no set that has a   *)
(* descriptor, through registrations and removals in any order.            *)
CountsRight ==
    \A k \in Kinds :
        /\ nr_fds[k] = Cardinality(fdset[k])
        /\ fdset[k] = {fd_slots[i].fd : i \in {j \in Used : KindOf(fd_slots[j].type) = k}}

(* What a slot asks for is told to its window when it is there, unless the *)
(* registration or the event goes away - however full the ring is, and     *)
(* whatever else is registered, unregistered or closed.                    *)
Wanted(e) == \E i \in Used : fd_slots[i].fd = e.fd /\ e.kind \in fd_slots[i].type

ReadyTold ==
    \A e \in Event :
        Wanted(e) /\ e \in ready ~>
            \/ \E j \in DOMAIN ring : ring[j] = e
            \/ ~Wanted(e) \/ e \notin ready
=============================================================================
