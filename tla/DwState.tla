------------------------------- MODULE DwState -------------------------------
(***************************************************************************)
(* Who writes dwState, the flags of a message queue, and under which lock  *)
(* (kernel/message.c, timer.c).  Most writers hold the queue's lock; the   *)
(* desktop's QS_DESKTIMER (__mg_update_tick_count) and EmptyMessageQueue   *)
(* do not.  A write is a read-modify-write of one word, which another      *)
(* thread's can come between.                                              *)
(*                                                                         *)
(* The queue is the Owner's, who runs message loops, one inside another;   *)
(* the contents of the queue are a number of posted messages here.         *)
(***************************************************************************)
EXTENDS Integers, FiniteSets

CONSTANTS
    Threads,    \* the other threads
    Owner, NoThread,
    Posters, Quitters,  \* which threads post, and post MSG_QUIT
    Empties,    \* whether the Owner calls EmptyMessageQueue
    IsDesktop,  \* whether the queue is the desktop's
    MaxPosts,   \* bound: how many calls, notifications and nested loops there are
    MaxLoops,   \* bound: how many message loops nest
    Interval,   \* DESKTOP_TIMER_INERTVAL
    IdleTicks,  \* how many ticks pass at most while the thread is idle once
    MaxLag      \* bound: how many ticks a window procedure can take

AllThreads == Threads \cup {Owner}

ASSUME DwStateAssumption ==
    /\ Owner \notin Threads /\ NoThread \notin AllThreads
    /\ Posters \subseteq AllThreads /\ Quitters \subseteq AllThreads
    /\ Empties \in BOOLEAN /\ IsDesktop \in BOOLEAN
    /\ MaxPosts \in Nat /\ MaxLoops \in Nat \ {0}
    /\ Interval \in Nat /\ IdleTicks \in Nat \ {0} /\ MaxLag \in Nat
    /\ IdleTicks <= MaxLag

Flags == {"QS_POSTMSG", "QS_QUIT", "QS_DESKTIMER"}

VARIABLES
    dwState,
    posts,      \* how many posted messages are unread
    loop_depth,
    lock,       \* who holds the queue's lock
    wait,       \* the count of the queue's semaphore
    tpc, reg,   \* where each thread is in a write, and what it has read
    opc,        \* where the Owner's loop is
    loops,      \* how many message loops the Owner is in
    lag,        \* the ticks since last_ticks was set
    since,      \* auxiliary: the ticks since QS_DESKTIMER was last raised
    calls       \* how many calls, notifications and nested loops there have been

queue  == <<dwState, posts, loop_depth>>
writer == <<tpc, reg>>
time   == <<lag, since>>
vars   == <<queue, lock, wait, writer, opc, loops, time, calls>>

TypeOK ==
    /\ dwState \subseteq Flags
    /\ posts \in 0 .. MaxPosts
    /\ loop_depth \in Int
    /\ lock \in AllThreads \cup {NoThread}
    /\ wait \in 0 .. Cardinality(AllThreads)
    /\ tpc \in [AllThreads -> {"run", "post", "quit", "signal", "sem_post"}]
    /\ reg \in [AllThreads -> SUBSET Flags]
    /\ opc \in {"check", "peek", "trywait", "idle", "desktimer", "dispatch",
                "emptied", "gone"}
    /\ loops \in 0 .. MaxLoops
    /\ lag \in 0 .. MaxLag /\ since \in 0 .. 2 * MaxLag + 1
    /\ calls \in 0 .. MaxPosts

Init ==
    /\ dwState = {} /\ posts = 0 /\ loop_depth = 0
    /\ lock = NoThread /\ wait = 0
    /\ tpc = [t \in AllThreads |-> "run"]
    /\ reg = [t \in AllThreads |-> {}]
    /\ opc = "dispatch" /\ loops = 1
    /\ lag = 0 /\ since = 2 * MaxLag + 1
    /\ calls = 0

-----------------------------------------------------------------------------
(* Another thread, or a window procedure of the Owner, calls.              *)
Free(t) ==
    /\ tpc[t] = "run" /\ calls < MaxPosts /\ opc # "gone"
    /\ t = Owner => opc = "dispatch"

BrokenTakeLock(t) == UNCHANGED lock
TakeLock(t) == lock = NoThread /\ lock' = t

(* The first half of a write: LOCK_MSGQ, and dwState is read.              *)
Start(t, what) ==
    /\ Free(t) /\ calls' = calls + 1
    /\ TakeLock(t)
    /\ tpc' = [tpc EXCEPT ![t] = what]
    /\ reg' = [reg EXCEPT ![t] = dwState]
    /\ UNCHANGED <<queue, wait, opc, loops, time>>

PostMessage(t)     == t \in Posters /\ Start(t, "post")
PostQuitMessage(t) == t \in Quitters /\ Start(t, "quit")

(* The second half, which ends with UNLOCK_MSGQ.  POST_MSGQ is left out    *)
(* when the caller is the Owner.                                           *)
Finish(t) ==
    /\ lock' = NoThread
    /\ tpc' = [tpc EXCEPT ![t] = IF t = Owner THEN "run" ELSE "signal"]
    /\ UNCHANGED <<wait, reg, opc, loops, time, calls>>

(* kernel_QueueMessage: the message is in the ring, and QS_POSTMSG set.    *)
Flagged(t) == reg[t] \cup {"QS_POSTMSG"}

Posted(t) ==
    /\ tpc[t] = "post"
    /\ posts' = posts + 1
    /\ dwState' = Flagged(t)
    /\ Finish(t)
    /\ UNCHANGED loop_depth

BrokenCounted(t) == loop_depth' = loop_depth + 1
Counted(t) ==
    loop_depth' = IF "QS_QUIT" \in reg[t] THEN loop_depth ELSE loop_depth + 1

QuitPosted(t) ==
    /\ tpc[t] = "quit"
    /\ Counted(t)
    /\ dwState' = reg[t] \cup {"QS_QUIT"}
    /\ Finish(t)
    /\ UNCHANGED posts

(* POST_MSGQ: sem_getvalue, and sem_post if there was nothing.             *)
GetValue(t) ==
    /\ tpc[t] = "signal"
    /\ tpc' = [tpc EXCEPT ![t] = IF wait = 0 THEN "sem_post" ELSE "run"]
    /\ UNCHANGED <<queue, lock, wait, reg, opc, loops, time, calls>>

SemPost(t) ==
    /\ tpc[t] = "sem_post"
    /\ wait' = wait + 1
    /\ tpc' = [tpc EXCEPT ![t] = "run"]
    /\ UNCHANGED <<queue, lock, reg, opc, loops, time, calls>>

-----------------------------------------------------------------------------
(* PeekMessageEx of the Owner's GetMessage: it locks the queue and reads   *)
(* dwState ...                                                             *)
OwnerAt(at) == opc = at /\ tpc[Owner] = "run"

Check ==
    /\ OwnerAt("check")
    /\ lock = NoThread /\ lock' = Owner
    /\ reg' = [reg EXCEPT ![Owner] = dwState]
    /\ opc' = "peek"
    /\ UNCHANGED <<queue, wait, tpc, loops, time, calls>>

Has(flag) == flag \in reg[Owner]
Unlock    == lock' = NoThread /\ UNCHANGED <<wait, writer, time, calls>>

(* ... and finds that the loop has to end: GetMessage returns FALSE.       *)
BrokenQuitTaken == dwState' = reg[Owner]
QuitTaken ==
    dwState' = IF loop_depth' = 0 THEN reg[Owner] \ {"QS_QUIT"} ELSE dwState

PeekQuit ==
    /\ opc = "peek" /\ Has("QS_QUIT")
    /\ loop_depth' = loop_depth - 1
    /\ QuitTaken
    /\ loops' = loops - 1
    /\ opc' = IF loops = 1 THEN "gone" ELSE "dispatch"
    /\ Unlock
    /\ UNCHANGED posts

(* A notification, which does not count here but for the procedure that it *)
(* runs.                                                                   *)
PeekNotify ==
    /\ opc = "peek" /\ ~Has("QS_QUIT") /\ calls < MaxPosts
    /\ calls' = calls + 1
    /\ opc' = "dispatch"
    /\ lock' = NoThread
    /\ UNCHANGED <<queue, wait, writer, loops, time>>

(* A posted message.                                                       *)
Unread == posts > 0

PeekPost ==
    /\ opc = "peek" /\ ~Has("QS_QUIT") /\ Has("QS_POSTMSG") /\ Unread
    /\ posts' = posts - 1
    /\ opc' = "dispatch"
    /\ Unlock
    /\ UNCHANGED <<dwState, loop_depth, loops>>

(* QS_POSTMSG is cleared when there is none ...                            *)
NoPost == opc = "peek" /\ ~Has("QS_QUIT") /\ (Has("QS_POSTMSG") => ~Unread)

Cleared(flags) ==
    dwState' = IF flags \cap reg[Owner] = {} THEN dwState ELSE reg[Owner] \ flags

(* ... MSG_TIMEOUT is made up for the desktop ...                          *)
BrokenTimeoutTaken == {"QS_POSTMSG"}
TimeoutTaken == {"QS_POSTMSG", "QS_DESKTIMER"}

PeekTimeout ==
    /\ NoPost /\ IsDesktop /\ Has("QS_DESKTIMER")
    /\ Cleared(TimeoutTaken)
    /\ opc' = "dispatch"
    /\ Unlock
    /\ UNCHANGED <<posts, loop_depth, loops>>

(* ... and otherwise there is nothing.                                     *)
PeekNothing ==
    /\ NoPost /\ ~(IsDesktop /\ Has("QS_DESKTIMER"))
    /\ Cleared({"QS_POSTMSG"})
    /\ opc' = "trywait"
    /\ Unlock
    /\ UNCHANGED <<posts, loop_depth, loops>>

TryWait ==
    /\ opc = "trywait"
    /\ wait' = IF wait > 0 THEN wait - 1 ELSE 0
    /\ opc' = IF wait > 0 THEN "check" ELSE "idle"
    /\ UNCHANGED <<queue, lock, writer, loops, time, calls>>

-----------------------------------------------------------------------------
(* Time passes while the Owner waits in its idle handler, and in window    *)
(* procedures.                                                             *)
Tick ==
    /\ \/ opc = "idle" /\ lag < IdleTicks
       \/ opc = "dispatch" /\ lag < MaxLag
    /\ lag' = lag + 1
    /\ since' = IF since > 2 * MaxLag THEN since ELSE since + 1
    /\ UNCHANGED <<queue, lock, wait, writer, opc, loops, calls>>

BrokenOverdue == lag > 0
Overdue == lag > Interval

(* The idle handler: __mg_update_tick_count sets last_ticks, and for the   *)
(* desktop raises QS_DESKTIMER when the interval has passed.               *)
Idle ==
    /\ opc = "idle"
    /\ IF IsDesktop /\ Overdue
       THEN /\ opc' = "desktimer"
            /\ reg' = [reg EXCEPT ![Owner] = dwState]
            /\ since' = 0
       ELSE opc' = "check" /\ UNCHANGED <<reg, since>>
    /\ lag' = 0
    /\ UNCHANGED <<queue, lock, wait, tpc, loops, calls>>

RaiseDeskTimer ==
    /\ opc = "desktimer"
    /\ dwState' = reg[Owner] \cup {"QS_DESKTIMER"}
    /\ tpc' = [tpc EXCEPT ![Owner] = "signal"]
    /\ opc' = "check"
    /\ UNCHANGED <<posts, loop_depth, lock, wait, reg, loops, time, calls>>

-----------------------------------------------------------------------------
(* A window procedure of the Owner: it may run a loop of its own, for a    *)
(* dialog, and empty the queue, before it returns to its loop.             *)
DoModal ==
    /\ OwnerAt("dispatch") /\ loops < MaxLoops /\ calls < MaxPosts
    /\ calls' = calls + 1
    /\ loops' = loops + 1
    /\ opc' = "check"
    /\ UNCHANGED <<queue, lock, wait, writer, time>>

(* EmptyMessageQueue empties the lists first and the flags last.           *)
EmptyMessageQueue ==
    /\ Empties /\ OwnerAt("dispatch")
    /\ posts' = 0
    /\ opc' = "emptied"
    /\ UNCHANGED <<dwState, loop_depth, lock, wait, writer, loops, time, calls>>

Emptied ==
    /\ opc = "emptied"
    /\ dwState' = {}
    /\ opc' = "dispatch"
    /\ UNCHANGED <<posts, loop_depth, lock, wait, writer, loops, time, calls>>

DispatchEnd ==
    /\ OwnerAt("dispatch")
    /\ opc' = "check"
    /\ UNCHANGED <<queue, lock, wait, writer, loops, time, calls>>

Call(t) == PostMessage(t) \/ PostQuitMessage(t)
Go(t)   == Posted(t) \/ QuitPosted(t) \/ GetValue(t) \/ SemPost(t)
Loop == \/ Check \/ PeekQuit \/ PeekNotify \/ PeekPost \/ PeekTimeout \/ PeekNothing
        \/ TryWait \/ Idle \/ RaiseDeskTimer \/ Emptied

Next ==
    \/ \E t \in AllThreads : Call(t) \/ Go(t)
    \/ Loop \/ Tick
    \/ DoModal \/ EmptyMessageQueue \/ DispatchEnd

(* Calls end, the loop goes on, window procedures return and the clock     *)
(* runs.                                                                   *)
Fairness ==
    /\ \A t \in AllThreads : WF_vars(Go(t))
    /\ WF_vars(Loop) /\ SF_vars(DispatchEnd) /\ SF_vars(Tick)

Spec     == Init /\ [][Next]_vars
FairSpec == Spec /\ Fairness

-----------------------------------------------------------------------------
(* An unread message has its flag, or somebody about to set it: GetMessage *)
(* will find it (kernel_QueueMessage, PeekMessageEx).                      *)
PostCovered == posts > 0 => "QS_POSTMSG" \in dwState

(* The loops that PostQuitMessage has still to end: one while QS_QUIT is   *)
(* set, none when it is not.                                               *)
QuitBalance == loop_depth = IF "QS_QUIT" \in dwState THEN 1 ELSE 0

(* MSG_TIMEOUT, which makes the caret blink, is not raised more often than *)
(* every Interval.                                                         *)
TimeoutsSpaced ==
    [][opc = "idle" /\ opc' = "desktimer" => since > Interval]_vars

(* QS_DESKTIMER, when it has been raised, is delivered.                    *)
TimeoutServed ==
    "QS_DESKTIMER" \in dwState ~> "QS_DESKTIMER" \notin dwState \/ opc = "gone"

(* MSG_TIMEOUT comes again and again (timer.c: "the desktop only handles   *)
(* caret blinking in MSG_TIMEOUT message").                                *)
TimeoutsCome == []<>("QS_DESKTIMER" \in dwState)
=============================================================================
