------------------------------ MODULE MsgQueue ------------------------------
(***************************************************************************)
(* The message queue of one MiniGUI message thread (struct _MSGQUEUE,      *)
(* kernel/message.c) in a build with _MGHAVE_VIRTUAL_WINDOW: one thread,   *)
(* the Owner, reads the queue and dispatches its messages, the Threads     *)
(* post, notify, send and invalidate from outside.                         *)
(*                                                                         *)
(* What a function does between LOCK_MSGQ and UNLOCK_MSGQ is one step.     *)
(* __mg_throw_away_messages holds the lock for one step per loop           *)
(* iteration, because it wakes senders up on its way.  POST_MSGQ, which    *)
(* runs after the unlock, is two steps: sem_getvalue, then sem_post.       *)
(*                                                                         *)
(* A SYNCMSG lives in the stack frame of its sender, so a node of the list *)
(* of synchronous messages is named by the sending thread: a thread that   *)
(* returns and sends again reuses the same memory.                         *)
(***************************************************************************)
EXTENDS Integers, Sequences, FiniteSets

CONSTANTS
    Threads,    \* the other threads that use the queue
    Owner,      \* the message thread that reads it
    NoThread,   \* NULL in a pointer to a SYNCMSG
    Windows,    \* the windows that belong to the queue
    MainOf,     \* the main window of each window, itself for a main window
    NoWindow,   \* HWND_INVALID
    Posts,      \* the posted messages: records [hwnd, message, wParam]
    Calls,      \* the Peek/Wait/HavePending calls the Owner makes
    Senders, Notifiers, Posters, Quitters, Painters,
                \* which threads (the Owner among them) make which calls
    Discarded,  \* the windows ThrowAwayMessages may be called with
    Timed,      \* the windows that have a timer without a callback
    Hosted,     \* the windows travel_all_hosted finds from pRootMainWin
    QLen,       \* DEF_MSGQUEUE_LEN
    MaxSends,   \* bound: how many calls put something into the queue
    MaxNest,    \* bound: how deep dispatches nest
    MaxIdle     \* MAX_IDLE_COUNTER

AllThreads == Threads \cup {Owner}

ASSUME QueueAssumption ==
    /\ Owner \notin Threads /\ NoThread \notin AllThreads
    /\ NoWindow \notin Windows
    /\ MainOf \in [Windows -> Windows]
    /\ Senders \subseteq Threads
    /\ Notifiers \subseteq AllThreads /\ Posters \subseteq AllThreads
    /\ Quitters \subseteq AllThreads /\ Painters \subseteq AllThreads
    /\ Discarded \subseteq Windows /\ Timed \subseteq Windows
    /\ Hosted \subseteq Windows
    /\ QLen \in Nat \ {0, 1}
    /\ MaxSends \in Nat /\ MaxNest \in Nat \ {0} /\ MaxIdle \in Nat \ {0}

(* Messages kernel_QueueMessage merges: the last one of the same window    *)
(* and wParam, or the first one of the same window.                        *)
MoveMsgs == {"MSG_MOUSEMOVE"}
TickMsgs == {"MSG_TIMEOUT", "MSG_IDLE"}
PostMsgs == MoveMsgs \cup TickMsgs \cup {"MSG_COMMAND"}
WParams  == {0, 1}
AllMsgs  == PostMsgs \cup {"MSG_NOTIFY", "MSG_SEND", "MSG_PAINT", "MSG_TIMER"}
Flags    == {"QS_SYNCMSG", "QS_NOTIFYMSG", "QS_POSTMSG", "QS_PAINT", "QS_QUIT"}

Msg == [hwnd : Windows \cup {NoWindow}, message : PostMsgs, wParam : WParams,
        lParam : 0 .. MaxSends]

ASSUME PostsAssumption ==
    Posts \subseteq [hwnd : Windows, message : PostMsgs, wParam : WParams]

(* A call: which function, the message filter, PM_REMOVE, bWait.           *)
Call == [api : {"PeekMessageEx", "WaitMessage", "HavePendingMessageEx"},
         wanted : SUBSET AllMsgs, remove : BOOLEAN, wait : BOOLEAN]

ASSUME CallsAssumption ==
    /\ Calls \subseteq Call
    /\ \A c \in Calls : /\ c.api = "WaitMessage" => c.wait
                       /\ c.api = "HavePendingMessageEx" => ~c.wait

VARIABLES
    dwState,        \* the QS_ flags that are set
    notify,         \* the list from pFirstNotifyMsg to pLastNotifyMsg
    pFirstSyncMsg, pLastSyncMsg,    \* the list of synchronous messages
    pNext,          \* SYNCMSG.pNext of each sender's node
    syncHwnd,       \* SYNCMSG.Msg.hwnd of each sender's node
    msg, readpos, writepos,         \* the ring of posted messages
    loop_depth,
    wait,           \* the count of the queue's semaphore
    idle_counter,
    invalid,        \* the windows whose invalid region is not empty
    expired,        \* the windows a timer of which is in expired_timer_mask
    tpc,            \* where each thread is in a call on the queue
    waiting,        \* the threads whose SendSyncMessage has not returned
    sem,            \* the count of each sender's own semaphore
    opc,            \* where the Owner is
    call,           \* the Owner's Peek/Wait/HavePending call
    stack,          \* the Owner's nested dispatches, the innermost first
    walk,           \* the loop variables of __mg_throw_away_messages
    todo,           \* the windows MSG_IDLE has still to be broadcast to
    sends           \* how many calls have put something into the queue

list   == <<notify>>
syncs  == <<pFirstSyncMsg, pLastSyncMsg, pNext, syncHwnd>>
ring   == <<msg, readpos, writepos>>
sender == <<tpc, waiting, sem>>
reader == <<opc, call, stack, walk, todo, idle_counter>>
vars   == <<dwState, list, syncs, ring, loop_depth, wait, invalid, expired,
            sender, reader, sends>>

NoCall == [api |-> "none", wanted |-> {}, remove |-> FALSE, wait |-> FALSE]
NoWalk == [hwnd |-> NoWindow, at |-> 0, prev |-> NoThread, cur |-> NoThread]
Walk   == [hwnd : Windows \cup {NoWindow}, at : Nat,
           prev : Threads \cup {NoThread}, cur : Threads \cup {NoThread}]
Frame  == [message : AllMsgs \cup {"painted"},
           hwnd : Windows \cup {NoWindow}, sync : Threads \cup {NoThread}]

TypeOK ==
    /\ dwState \subseteq Flags
    /\ notify \in Seq(Windows)
    /\ pFirstSyncMsg \in Threads \cup {NoThread}
    /\ pLastSyncMsg \in Threads \cup {NoThread}
    /\ pNext \in [Threads -> Threads \cup {NoThread}]
    /\ syncHwnd \in [Threads -> Windows \cup {NoWindow}]
    /\ msg \in [0 .. QLen - 1 -> Msg]
    /\ readpos \in 0 .. QLen - 1 /\ writepos \in 0 .. QLen - 1
    /\ loop_depth \in Nat
    /\ wait \in Nat
    /\ idle_counter \in 0 .. MaxIdle - 1
    /\ invalid \subseteq Windows /\ expired \subseteq Windows
    /\ tpc \in [AllThreads -> {"run", "paint", "enqueue", "getvalue", "sem_post", "sem_wait"}]
    /\ waiting \subseteq Threads
    /\ sem \in [Threads -> Nat]
    /\ opc \in {"run", "check", "trywait", "onidle", "broadcast",
                "throw_notify", "throw_sync", "throw_next", "throw_post"}
    /\ call \in Call \cup {NoCall}
    /\ stack \in Seq(Frame)
    /\ walk \in Walk
    /\ todo \subseteq Windows
    /\ sends \in 0 .. MaxSends

-----------------------------------------------------------------------------
(* mg_InitMsgQueue, called by mg_AllocMsgQueueForThisThread.               *)
Init ==
    /\ dwState = {}
    /\ notify = << >>
    /\ pFirstSyncMsg = NoThread /\ pLastSyncMsg = NoThread
    /\ pNext = [t \in Threads |-> NoThread]
    /\ syncHwnd = [t \in Threads |-> NoWindow]
    /\ msg = [i \in 0 .. QLen - 1 |-> [hwnd |-> NoWindow, message |-> "MSG_COMMAND",
                                       wParam |-> 0, lParam |-> 0]]
    /\ readpos = 0 /\ writepos = 0
    /\ loop_depth = 0 /\ wait = 0 /\ idle_counter = 0
    /\ invalid = {} /\ expired = {}
    /\ tpc = [t \in AllThreads |-> "run"]
    /\ waiting = {} /\ sem = [t \in Threads |-> 0]
    /\ opc = "run" /\ call = NoCall /\ stack = << >> /\ walk = NoWalk /\ todo = {}
    /\ sends = 0

Throwing == opc \in {"throw_notify", "throw_sync", "throw_next", "throw_post"}

(* A thread can start a call that locks the queue.                         *)
Ready(t) ==
    /\ tpc[t] = "run"
    /\ t = Owner => opc = "run"
    /\ ~Throwing

(* One more call puts something into the queue.                            *)
Count == sends < MaxSends /\ sends' = sends + 1

(* POST_MSGQ follows, unless the target window is in the calling thread.   *)
Signal(t) ==
    tpc' = IF t = Owner THEN tpc ELSE [tpc EXCEPT ![t] = "getvalue"]

-----------------------------------------------------------------------------
(* The ring of posted messages.  (An operator named Broken... is the       *)
(* definition after it with a plausible mistake: the properties that must  *)
(* notice it are listed in PROJECT.json.)                                  *)
Succ(p)    == (p + 1) % QLen
Dist(p, q) == (q - p + QLen) % QLen
Live       == 0 .. Dist(readpos, writepos) - 1
At(i)      == (readpos + i) % QLen
Full       == Succ(writepos) = readpos

(* The posted messages a new one of the same sort is merged into.          *)
Merges(m) ==
    {i \in Live :
        /\ msg[At(i)].message = m.message
        /\ msg[At(i)].hwnd = m.hwnd
        /\ \/ m.message \in MoveMsgs /\ msg[At(i)].wParam = m.wParam
           \/ m.message \in TickMsgs}

(* Of several, a mouse move takes the last, a tick the first.              *)
Merged(m) ==
    CHOOSE i \in Merges(m) :
        \A j \in Merges(m) : IF m.message \in MoveMsgs THEN j <= i ELSE i <= j

Merge(m) ==
    /\ Merges(m) # {}
    /\ msg' = [msg EXCEPT ![At(Merged(m))] =
                   [@ EXCEPT !.wParam = m.wParam, !.lParam = m.lParam]]
    /\ dwState' = dwState \cup {"QS_POSTMSG"}
    /\ UNCHANGED writepos

BrokenPut(m) ==
    /\ ~Full
    /\ msg' = [msg EXCEPT ![writepos] = m]
    /\ writepos' = Succ(writepos)
    /\ dwState' = dwState \cup {"QS_POSTMSG"}

Put(m) ==
    /\ Merges(m) = {} /\ ~Full
    /\ msg' = [msg EXCEPT ![writepos] = m]
    /\ writepos' = Succ(writepos)
    /\ dwState' = dwState \cup {"QS_POSTMSG"}

(* kernel_QueueMessage when the message is accepted.                       *)
Accept(m) == Merge(m) \/ Put(m)

(* kernel_QueueMessage when the ring is full: FALSE, and nothing changes.  *)
Refuse(m) ==
    /\ Merges(m) = {} /\ Full
    /\ UNCHANGED <<msg, writepos, dwState>>

(* PostMessage of a message other than MSG_PAINT; the lParam numbers it.   *)
PostMessage(t, p) ==
    LET m == [hwnd |-> p.hwnd, message |-> p.message, wParam |-> p.wParam,
              lParam |-> sends']
    IN  /\ t \in Posters /\ Ready(t) /\ Count
        /\ \/ Accept(m) /\ Signal(t)
           \/ Refuse(m) /\ UNCHANGED tpc
        /\ UNCHANGED <<list, syncs, readpos, loop_depth, wait, invalid, expired,
                       waiting, sem, reader>>

(* PostMessage of MSG_PAINT, the end of InvalidateRect: the region has     *)
(* been extended under its own lock before.                                *)
Invalidate(t, w) ==
    /\ t \in Painters /\ Ready(t) /\ Count
    /\ invalid' = invalid \cup {w}
    /\ IF t = Owner
       THEN /\ dwState' = dwState \cup {"QS_PAINT"}
            /\ UNCHANGED tpc
       ELSE /\ tpc' = [tpc EXCEPT ![t] = "paint"]
            /\ UNCHANGED dwState
    /\ UNCHANGED <<list, syncs, ring, loop_depth, wait, expired,
                   waiting, sem, reader>>

PostPaint(t) ==
    /\ tpc[t] = "paint" /\ ~Throwing
    /\ dwState' = dwState \cup {"QS_PAINT"}
    /\ Signal(t)
    /\ UNCHANGED <<list, syncs, ring, loop_depth, wait, invalid, expired,
                   waiting, sem, reader, sends>>

(* SendNotifyMessage and NotifyWindow append, SendPriorNotifyMessage puts  *)
(* the message first.                                                      *)
SendNotifyMessage(t, w) ==
    /\ t \in Notifiers /\ Ready(t) /\ Count
    /\ notify' = Append(notify, w)
    /\ dwState' = dwState \cup {"QS_NOTIFYMSG"}
    /\ Signal(t)
    /\ UNCHANGED <<syncs, ring, loop_depth, wait, invalid, expired,
                   waiting, sem, reader>>

SendPriorNotifyMessage(t, w) ==
    /\ t \in Notifiers /\ Ready(t) /\ Count
    /\ notify' = <<w>> \o notify
    /\ dwState' = dwState \cup {"QS_NOTIFYMSG"}
    /\ Signal(t)
    /\ UNCHANGED <<syncs, ring, loop_depth, wait, invalid, expired,
                   waiting, sem, reader>>

BrokenQuitPending == FALSE
QuitPending == "QS_QUIT" \in dwState

PostQuitMessage(t) ==
    /\ t \in Quitters /\ Ready(t) /\ Count
    /\ IF QuitPending
       THEN UNCHANGED <<dwState, loop_depth>>
       ELSE /\ loop_depth' = loop_depth + 1
            /\ dwState' = dwState \cup {"QS_QUIT"}
    /\ Signal(t)
    /\ UNCHANGED <<list, syncs, ring, wait, invalid, expired,
                   waiting, sem, reader>>

(* SendSyncMessage of a thread with no pending synchronous message of its  *)
(* own.  Its node and its semaphore are local variables, initialised       *)
(* before the queue is locked.                                             *)
SendSyncMessage(t, w) ==
    /\ t \in Senders /\ tpc[t] = "run" /\ Count
    /\ waiting' = waiting \cup {t}
    /\ sem' = [sem EXCEPT ![t] = 0]
    /\ syncHwnd' = [syncHwnd EXCEPT ![t] = w]
    /\ pNext' = [pNext EXCEPT ![t] = NoThread]
    /\ tpc' = [tpc EXCEPT ![t] = "enqueue"]
    /\ UNCHANGED <<dwState, list, pFirstSyncMsg, pLastSyncMsg, ring, loop_depth,
                   wait, invalid, expired, reader>>

BrokenLink(t) == pFirstSyncMsg' = t /\ UNCHANGED pNext
Link(t) ==
    IF pFirstSyncMsg = NoThread
    THEN pFirstSyncMsg' = t /\ UNCHANGED pNext
    ELSE pNext' = [pNext EXCEPT ![pLastSyncMsg] = t] /\ UNCHANGED pFirstSyncMsg

SyncEnqueue(t) ==
    /\ tpc[t] = "enqueue" /\ ~Throwing
    /\ Link(t) /\ pLastSyncMsg' = t
    /\ dwState' = dwState \cup {"QS_SYNCMSG"}
    /\ Signal(t)
    /\ UNCHANGED <<list, syncHwnd, ring, loop_depth, wait, invalid, expired,
                   waiting, sem, reader, sends>>

(* POST_MSGQ: the value is read and the semaphore posted in two calls.     *)
Posted(t) ==
    tpc' = [tpc EXCEPT ![t] = IF t \in waiting THEN "sem_wait" ELSE "run"]

BrokenSemGetValue(t) ==
    /\ tpc[t] = "getvalue"
    /\ IF wait < 0 THEN tpc' = [tpc EXCEPT ![t] = "sem_post"] ELSE Posted(t)
    /\ UNCHANGED <<dwState, list, syncs, ring, loop_depth, wait, invalid, expired,
                   waiting, sem, reader, sends>>

SemGetValue(t) ==
    /\ tpc[t] = "getvalue"
    /\ IF wait <= 0 THEN tpc' = [tpc EXCEPT ![t] = "sem_post"] ELSE Posted(t)
    /\ UNCHANGED <<dwState, list, syncs, ring, loop_depth, wait, invalid, expired,
                   waiting, sem, reader, sends>>

SemPost(t) ==
    /\ tpc[t] = "sem_post"
    /\ wait' = wait + 1
    /\ Posted(t)
    /\ UNCHANGED <<dwState, list, syncs, ring, loop_depth, invalid, expired,
                   waiting, sem, reader, sends>>

(* The sender is woken up: SendSyncMessage returns and its frame is gone.  *)
SyncReturn(t) ==
    /\ tpc[t] = "sem_wait" /\ sem[t] > 0
    /\ sem' = [sem EXCEPT ![t] = @ - 1]
    /\ waiting' = waiting \ {t}
    /\ tpc' = [tpc EXCEPT ![t] = "run"]
    /\ UNCHANGED <<dwState, list, syncs, ring, loop_depth, wait, invalid, expired,
                   reader, sends>>

-----------------------------------------------------------------------------
(* The message filter looks at the head of each list only.                 *)
Wanted(m) == m \in call.wanted

SyncPending   == "QS_SYNCMSG" \in dwState /\ pFirstSyncMsg # NoThread
NotifyPending == "QS_NOTIFYMSG" \in dwState /\ notify # << >>
PostPending   == "QS_POSTMSG" \in dwState /\ readpos # writepos

TakeSync   == SyncPending /\ Wanted("MSG_SEND")
TakeNotify == NotifyPending /\ Wanted("MSG_NOTIFY")
TakePost   == PostPending /\ Wanted(msg[readpos].message)
TakePaint  == "QS_PAINT" \in dwState /\ Wanted("MSG_PAINT") /\ invalid # {}
TakeTimer  == expired # {} /\ Wanted("MSG_TIMER")

(* The flags the scan clears on its way past an empty list.                *)
StaleSync   == IF SyncPending THEN {} ELSE {"QS_SYNCMSG"}
BrokenStaleNotify == StaleSync \cup {"QS_NOTIFYMSG", "QS_POSTMSG"}
StaleNotify == StaleSync \cup (IF NotifyPending THEN {} ELSE {"QS_NOTIFYMSG"})
BrokenStalePost == StaleNotify \cup {"QS_POSTMSG", "QS_PAINT"}
StalePost   == StaleNotify \cup (IF PostPending THEN {} ELSE {"QS_POSTMSG"})
BrokenStalePaint == StalePost \cup {"QS_PAINT"}
StalePaint  == StalePost \cup (IF Wanted("MSG_PAINT") THEN {"QS_PAINT"} ELSE {})

(* The Owner is at a place of its code, with no POST_MSGQ to finish.       *)
OwnerAt(place) == opc = place /\ tpc[Owner] = "run"

(* The Owner calls PeekMessageEx, WaitMessage or HavePendingMessageEx.     *)
Enter(c) ==
    /\ OwnerAt("run") /\ Len(stack) < MaxNest
    /\ opc' = "check" /\ call' = c
    /\ idle_counter' = IF c.api = "WaitMessage" THEN 0 ELSE idle_counter
    /\ UNCHANGED <<dwState, list, syncs, ring, loop_depth, wait, invalid, expired,
                   sender, stack, walk, todo, sends>>

Peeking == OwnerAt("check") /\ call.api = "PeekMessageEx"

(* The call returns; what a Peek has removed is dispatched.                *)
Return == opc' = "run" /\ call' = NoCall /\ UNCHANGED <<walk, todo>>

Deliver(f) ==
    /\ Return
    /\ idle_counter' = 0
    /\ stack' = IF call.remove THEN <<f>> \o stack ELSE stack

PeekQuit ==
    /\ Peeking /\ "QS_QUIT" \in dwState
    /\ IF call.remove
       THEN /\ loop_depth' = loop_depth - 1
            /\ dwState' = IF loop_depth = 1 THEN dwState \ {"QS_QUIT"} ELSE dwState
       ELSE UNCHANGED <<loop_depth, dwState>>
    /\ Return
    /\ UNCHANGED <<list, syncs, ring, wait, invalid, expired, sender,
                   stack, idle_counter, sends>>

BrokenUnlink == UNCHANGED pFirstSyncMsg
Unlink == pFirstSyncMsg' = IF call.remove THEN pNext[pFirstSyncMsg] ELSE pFirstSyncMsg

PeekSync ==
    /\ Peeking /\ "QS_QUIT" \notin dwState /\ TakeSync
    /\ Deliver([message |-> "MSG_SEND", hwnd |-> syncHwnd[pFirstSyncMsg],
                sync |-> pFirstSyncMsg])
    /\ Unlink
    /\ UNCHANGED <<dwState, list, pLastSyncMsg, pNext, syncHwnd, ring, loop_depth,
                   wait, invalid, expired, sender, sends>>

PeekNotify ==
    /\ Peeking /\ "QS_QUIT" \notin dwState /\ ~TakeSync /\ TakeNotify
    /\ Deliver([message |-> "MSG_NOTIFY", hwnd |-> Head(notify), sync |-> NoThread])
    /\ notify' = IF call.remove THEN Tail(notify) ELSE notify
    /\ dwState' = dwState \ StaleSync
    /\ UNCHANGED <<syncs, ring, loop_depth, wait, invalid, expired, sender, sends>>

PeekPost ==
    /\ Peeking /\ "QS_QUIT" \notin dwState /\ ~TakeSync /\ ~TakeNotify /\ TakePost
    /\ Deliver([message |-> msg[readpos].message, hwnd |-> msg[readpos].hwnd,
                sync |-> NoThread])
    /\ readpos' = IF call.remove THEN Succ(readpos) ELSE readpos
    /\ dwState' = dwState \ StaleNotify
    /\ UNCHANGED <<list, syncs, msg, writepos, loop_depth, wait, invalid, expired,
                   sender, sends>>

NoMessage == "QS_QUIT" \notin dwState /\ ~TakeSync /\ ~TakeNotify /\ ~TakePost

(* MSG_PAINT is made up while some window's region is invalid, whether the *)
(* call removes or not.                                                    *)
PeekPaint ==
    /\ Peeking /\ NoMessage /\ TakePaint
    /\ \E w \in invalid :
          Deliver([message |-> "MSG_PAINT", hwnd |-> w, sync |-> NoThread])
    /\ dwState' = dwState \ StalePost
    /\ UNCHANGED <<list, syncs, ring, loop_depth, wait, invalid, expired, sender, sends>>

(* A timer without a callback: its bit is cleared even with PM_NOREMOVE.   *)
PeekTimer ==
    /\ Peeking /\ NoMessage /\ ~TakePaint /\ TakeTimer
    /\ \E w \in expired :
          /\ Deliver([message |-> "MSG_TIMER", hwnd |-> w, sync |-> NoThread])
          /\ expired' = expired \ {w}
    /\ dwState' = dwState \ StalePaint
    /\ UNCHANGED <<list, syncs, ring, loop_depth, wait, invalid, sender, sends>>

PeekNothing ==
    /\ Peeking /\ NoMessage /\ ~TakePaint /\ ~TakeTimer
    /\ dwState' = dwState \ StalePaint
    /\ opc' = IF call.wait THEN "trywait" ELSE "onidle"
    /\ UNCHANGED <<list, syncs, ring, loop_depth, wait, invalid, expired, sender,
                   call, stack, walk, todo, idle_counter, sends>>

(* The tests of WaitMessage and HavePendingMessageEx, which clear nothing. *)
PendingByFlags ==
    \/ SyncPending \/ NotifyPending \/ PostPending
    \/ dwState \cap {"QS_QUIT", "QS_PAINT"} # {}
    \/ expired # {}

Look ==
    /\ OwnerAt("check") /\ call.api # "PeekMessageEx"
    /\ IF PendingByFlags
       THEN Return
       ELSE /\ opc' = IF call.api = "WaitMessage" THEN "trywait" ELSE "onidle"
            /\ UNCHANGED <<call, walk, todo>>
    /\ UNCHANGED <<dwState, list, syncs, ring, loop_depth, wait, invalid, expired,
                   sender, stack, idle_counter, sends>>

(* Waiting: sem_trywait, then the idle handler, then another check.        *)
TryWait ==
    /\ OwnerAt("trywait")
    /\ IF wait > 0 THEN wait' = wait - 1 /\ opc' = "check"
                   ELSE opc' = "onidle" /\ UNCHANGED wait
    /\ UNCHANGED <<dwState, list, syncs, ring, loop_depth, invalid, expired, sender,
                   call, stack, walk, todo, idle_counter, sends>>

(* Where the Owner goes from the idle handler: a waiting call checks       *)
(* again, another one returns.                                             *)
Resume ==
    IF call.wait
    THEN opc' = "check" /\ UNCHANGED call
    ELSE opc' = "run" /\ call' = NoCall

(* OnIdle (std_idle_handler) finds expired timers and POSTs the queue.     *)
IdleExpires ==
    /\ OwnerAt("onidle")
    /\ \E w \in Timed \ expired : expired' = expired \cup {w}
    /\ tpc' = [tpc EXCEPT ![Owner] = "getvalue"]
    /\ Resume
    /\ UNCHANGED <<dwState, list, syncs, ring, loop_depth, wait, invalid, waiting,
                   sem, stack, walk, todo, idle_counter, sends>>

(* OnIdle finds nothing: PeekMessageEx and WaitMessage go on with          *)
(* handle_idle_message, HavePendingMessageEx does not.                     *)
IdleNothing ==
    /\ OwnerAt("onidle")
    /\ IF call.api = "HavePendingMessageEx"
       THEN Resume /\ UNCHANGED <<idle_counter, todo>>
       ELSE IF idle_counter + 1 < MaxIdle
            THEN Resume /\ idle_counter' = idle_counter + 1 /\ UNCHANGED todo
            ELSE /\ opc' = "broadcast" /\ UNCHANGED call
                 /\ idle_counter' = 0 /\ todo' = Hosted
    /\ UNCHANGED <<dwState, list, syncs, ring, loop_depth, wait, invalid, expired,
                   sender, stack, walk, sends>>

(* __mg_broadcast_message: one kernel_QueueMessage for each window.        *)
Broadcast ==
    /\ OwnerAt("broadcast")
    /\ \/ \E w \in todo :
             /\ LET m == [hwnd |-> w, message |-> "MSG_IDLE", wParam |-> 0, lParam |-> 0]
                IN  Accept(m) \/ Refuse(m)
             /\ todo' = todo \ {w}
             /\ UNCHANGED <<opc, call>>
       \/ /\ todo = {}
          /\ Resume
          /\ UNCHANGED <<dwState, msg, writepos, todo>>
    /\ UNCHANGED <<list, syncs, readpos, loop_depth, wait, invalid, expired, sender,
                   stack, walk, idle_counter, sends>>

(* PeekPostMessage looks at the head of the ring and at nothing else; with *)
(* PM_NOREMOVE it changes nothing.                                         *)
PeekPostMessage(wanted) ==
    /\ OwnerAt("run") /\ Len(stack) < MaxNest
    /\ PostPending /\ msg[readpos].message \in wanted
    /\ readpos' = Succ(readpos)
    /\ stack' = <<[message |-> msg[readpos].message, hwnd |-> msg[readpos].hwnd,
                  sync |-> NoThread]>> \o stack
    /\ UNCHANGED <<dwState, list, syncs, msg, writepos, loop_depth, wait, invalid,
                   expired, sender, opc, call, walk, todo, idle_counter, sends>>

(* DispatchMessage.  The window procedure may call any of the functions    *)
(* here, and for MSG_PAINT it calls BeginPaint, which empties the region.  *)
BeginPaint ==
    /\ OwnerAt("run") /\ stack # << >> /\ Head(stack).message = "MSG_PAINT"
    /\ invalid' = invalid \ {Head(stack).hwnd}
    /\ stack' = [stack EXCEPT ![1].message = "painted"]
    /\ UNCHANGED <<dwState, list, syncs, ring, loop_depth, wait, expired, sender,
                   opc, call, walk, todo, idle_counter, sends>>

BrokenWakeUp(t) == UNCHANGED sem
WakeUp(t) == sem' = [s \in Threads |-> IF s = t THEN sem[s] + 1 ELSE sem[s]]

(* The window procedure has returned; a synchronous sender is woken up.    *)
DispatchEnd ==
    /\ OwnerAt("run") /\ stack # << >> /\ Head(stack).message # "MSG_PAINT"
    /\ stack' = Tail(stack)
    /\ WakeUp(Head(stack).sync)
    /\ UNCHANGED <<dwState, list, syncs, ring, loop_depth, wait, invalid, expired,
                   tpc, waiting, opc, call, walk, todo, idle_counter, sends>>

-----------------------------------------------------------------------------
(* __mg_throw_away_messages (hWnd), one step for each loop iteration.      *)
BrokenDoomed(h) == h = walk.hwnd
Doomed(h) ==
    \/ h = walk.hwnd
    \/ h \in Windows /\ MainOf[h] # h /\ MainOf[h] = walk.hwnd

Without(s, i) == SubSeq(s, 1, i - 1) \o SubSeq(s, i + 1, Len(s))

ThrowStart(w) ==
    /\ w \in Discarded /\ OwnerAt("run") /\ Count
    /\ opc' = "throw_notify"
    /\ walk' = [NoWalk EXCEPT !.hwnd = w, !.at = 1]
    /\ UNCHANGED <<dwState, list, syncs, ring, loop_depth, wait, invalid, expired,
                   sender, call, stack, todo, idle_counter>>

ThrowNotify ==
    /\ opc = "throw_notify"
    /\ IF walk.at > Len(notify)
       THEN /\ opc' = "throw_sync"
            /\ walk' = [walk EXCEPT !.cur = pFirstSyncMsg]
            /\ UNCHANGED notify
       ELSE /\ UNCHANGED opc
            /\ IF Doomed(notify[walk.at])
               THEN notify' = Without(notify, walk.at) /\ UNCHANGED walk
               ELSE walk' = [walk EXCEPT !.at = @ + 1] /\ UNCHANGED notify
    /\ UNCHANGED <<dwState, syncs, ring, loop_depth, wait, invalid, expired, sender,
                   call, stack, todo, idle_counter, sends>>

(* Waking the sender of the current node up lets it return, and so reuse   *)
(* the node, while the walk goes on.                                       *)
ThrowSync ==
    /\ opc = "throw_sync" /\ walk.cur # NoThread /\ Doomed(syncHwnd[walk.cur])
    /\ syncHwnd' = [syncHwnd EXCEPT ![walk.cur] = NoWindow]
    /\ WakeUp(walk.cur)
    /\ IF walk.prev = NoThread
       THEN /\ pFirstSyncMsg' = pNext[walk.cur]
            /\ walk' = [walk EXCEPT !.cur = pNext[walk.cur]]
            /\ UNCHANGED <<pNext, opc>>
       ELSE /\ pNext' = [pNext EXCEPT ![walk.prev] = pNext[walk.cur]]
            /\ opc' = "throw_next"
            /\ UNCHANGED <<pFirstSyncMsg, walk>>
    /\ UNCHANGED <<dwState, list, pLastSyncMsg, ring, loop_depth, wait, invalid,
                   expired, tpc, waiting, call, stack, todo, idle_counter, sends>>

(* pSyncPrev = pSyncMsg; pSyncMsg = pSyncMsg->pNext                        *)
ThrowNext ==
    /\ walk.cur # NoThread
    /\ \/ opc = "throw_next"
       \/ opc = "throw_sync" /\ ~Doomed(syncHwnd[walk.cur])
    /\ walk' = [walk EXCEPT !.prev = walk.cur, !.cur = pNext[walk.cur]]
    /\ opc' = "throw_sync"
    /\ UNCHANGED <<dwState, list, syncs, ring, loop_depth, wait, invalid, expired,
                   sender, call, stack, todo, idle_counter, sends>>

ThrowSyncEnd ==
    /\ opc = "throw_sync" /\ walk.cur = NoThread
    /\ opc' = "throw_post"
    /\ walk' = [walk EXCEPT !.at = readpos]
    /\ UNCHANGED <<dwState, list, syncs, ring, loop_depth, wait, invalid, expired,
                   sender, call, stack, todo, idle_counter, sends>>

BrokenClose(p) == [msg EXCEPT ![p].hwnd = NoWindow]

(* A doomed message is overwritten by its successors, moved down by one.   *)
Close(p) ==
    [i \in 0 .. QLen - 1 |->
        IF Dist(p, i) < Dist(p, writepos) - 1 THEN msg[Succ(i)]
        ELSE IF i = p THEN [msg[p] EXCEPT !.hwnd = NoWindow] ELSE msg[i]]

ThrowPost ==
    /\ opc = "throw_post" /\ walk.at # writepos
    /\ IF Doomed(msg[walk.at].hwnd)
       THEN /\ msg' = Close(walk.at)
            /\ writepos' = IF writepos > 0 THEN writepos - 1 ELSE QLen - 1
            /\ UNCHANGED walk
       ELSE /\ walk' = [walk EXCEPT !.at = Succ(@)]
            /\ UNCHANGED <<msg, writepos>>
    /\ UNCHANGED <<dwState, list, syncs, readpos, loop_depth, wait, invalid, expired,
                   sender, opc, call, stack, todo, idle_counter, sends>>

(* The expired timers of the window are forgotten and the lock released.   *)
ThrowEnd ==
    /\ opc = "throw_post" /\ walk.at = writepos
    /\ expired' = {w \in expired : ~Doomed(w)}
    /\ opc' = "run" /\ walk' = NoWalk
    /\ UNCHANGED <<dwState, list, syncs, ring, loop_depth, wait, invalid, sender,
                   call, stack, todo, idle_counter, sends>>

-----------------------------------------------------------------------------
Post       == \E t \in AllThreads, p \in Posts : PostMessage(t, p)
Paint      == \E t \in AllThreads, w \in Windows : Invalidate(t, w)
Notify     == \E t \in AllThreads, w \in Windows :
                  SendNotifyMessage(t, w) \/ SendPriorNotifyMessage(t, w)
Quit       == \E t \in AllThreads : PostQuitMessage(t)
Send       == \E t \in Threads, w \in Windows : SendSyncMessage(t, w)
InPostMsgq == \E t \in AllThreads : SemGetValue(t) \/ SemPost(t)
InCall(t)  == PostPaint(t) \/ SyncEnqueue(t) \/ SyncReturn(t)

Peek == \/ PeekQuit \/ PeekSync \/ PeekNotify \/ PeekPost \/ PeekPaint
        \/ PeekTimer \/ PeekNothing
Idle == TryWait \/ IdleExpires \/ IdleNothing \/ Broadcast
Throw == \/ ThrowNotify \/ ThrowSync \/ ThrowNext \/ ThrowSyncEnd
         \/ ThrowPost \/ ThrowEnd

Next ==
    \/ Post \/ Paint \/ Notify \/ Quit \/ Send
    \/ InPostMsgq \/ \E t \in Threads : InCall(t)
    \/ \E c \in Calls : Enter(c)
    \/ Peek \/ Look \/ Idle
    \/ PeekPostMessage(PostMsgs)
    \/ BeginPaint \/ DispatchEnd
    \/ \E w \in Windows : ThrowStart(w)
    \/ Throw

(* A thread inside a call goes on; the Owner goes on inside its calls, its *)
(* window procedures return, and it keeps calling GetMessage.              *)
Fairness ==
    /\ \A t \in AllThreads : WF_vars(SemGetValue(t) \/ SemPost(t))
    /\ \A t \in Threads : WF_vars(InCall(t))
    /\ WF_vars(Peek \/ Look \/ Idle) /\ WF_vars(Throw)
    /\ SF_vars(BeginPaint) /\ SF_vars(DispatchEnd)
    /\ SF_vars(\E c \in Calls : Enter(c))

Spec     == Init /\ [][Next]_vars
FairSpec == Spec /\ Fairness

-----------------------------------------------------------------------------
(* The tests of every reader look at the flags first, and a flag is        *)
(* cleared by whoever finds its list empty: whatever the interleaving of   *)
(* readers, writers and __mg_throw_away_messages, a list that is not empty *)
(* has its flag set (PeekMessageEx, kernel_QueueMessage).                  *)
FlagsCover ==
    /\ pFirstSyncMsg # NoThread => "QS_SYNCMSG" \in dwState
    /\ notify # << >> => "QS_NOTIFYMSG" \in dwState
    /\ readpos # writepos => "QS_POSTMSG" \in dwState

(* InvalidateRect extends the region before it posts MSG_PAINT, and        *)
(* PeekMessageEx clears QS_PAINT only when it has seen no region: an       *)
(* invalid window is never left without the flag or a post under way.      *)
PaintCover ==
    invalid # {} => "QS_PAINT" \in dwState \/ \E t \in Threads : tpc[t] = "paint"

(* PostQuitMessage counts a quit only if none is pending and PeekMessageEx *)
(* takes it back: the flag is set exactly while loop_depth is 1, so one    *)
(* quit ends one message loop.                                             *)
QuitBalance == loop_depth = IF "QS_QUIT" \in dwState THEN 1 ELSE 0

(* What the Owner's call would return if it looked now.                    *)
Visible ==
    IF call.api = "PeekMessageEx"
    THEN "QS_QUIT" \in dwState \/ TakeSync \/ TakeNotify \/ TakePost \/ TakePaint
    ELSE PendingByFlags /\ expired = {}

(* A message that arrives after the Owner has looked leaves the semaphore  *)
(* posted, or a thread about to post it: sem_wait (or sem_trywait) never   *)
(* misses it, although POST_MSGQ posts only at 0 and runs without the lock.*)
NoLostWakeup ==
    opc = "trywait" /\ Visible =>
        wait > 0 \/ \E t \in Threads : tpc[t] \in {"getvalue", "sem_post"}

(* kernel_QueueMessage merges repeated messages: at most one tick of a     *)
(* sort for a window, one move for a window and a wParam, also while       *)
(* __mg_throw_away_messages closes gaps.                                   *)
OneOfASort == \A i \in Live : Cardinality(Merges(msg[At(i)])) <= 1

(* The senders on the list, as far as the links lead: the least set that   *)
(* holds the first node and, with a node, the one it points to.            *)
Chain ==
    {t \in Threads :
        \A S \in SUBSET Threads :
            {pFirstSyncMsg} \cup {pNext[u] : u \in S} \subseteq S \cup {NoThread} => t \in S}

(* A sender in SendSyncMessage can still be answered: it has been woken    *)
(* up, its node is on the list, or its message is being dispatched.        *)
SyncServed ==
    \A t \in waiting :
        \/ tpc[t] = "enqueue" \/ sem[t] > 0 \/ t \in Chain
        \/ \E i \in 1 .. Len(stack) : stack[i].sync = t

(* A sender is woken up once and only while it waits: neither              *)
(* DispatchMessage nor __mg_throw_away_messages touches the semaphore of a *)
(* frame that is gone.                                                     *)
WokenOnce ==
    [][\A t \in Threads : sem'[t] > sem[t] =>
          t \in waiting /\ sem[t] = 0 /\ tpc[t] # "enqueue"]_vars

(* ThrowAwayMessages leaves no message for the window, or for a control    *)
(* in it, behind in any of the three lists.                                *)
Belongs(h) == h \in Windows /\ walk.hwnd \in {h, MainOf[h]}

ThrowsAll ==
    [][ThrowEnd => /\ \A t \in Chain : syncHwnd[t] # NoWindow /\ ~Belongs(syncHwnd[t])
                   /\ \A i \in 1 .. Len(notify) : ~Belongs(notify[i])
                   /\ \A i \in Live : ~Belongs(msg[At(i)].hwnd)]_vars

(* A posted message is read or thrown away, however much goes first.       *)
PostsServed ==
    \A n \in 1 .. MaxSends :
        (\E i \in Live : msg[At(i)].lParam = n) ~> ~(\E i \in Live : msg[At(i)].lParam = n)

(* SendSyncMessage returns.                                                *)
SyncReturns == \A t \in Threads : t \in waiting ~> t \notin waiting

(* An invalid region is painted.                                           *)
PaintServed == \A w \in Windows : w \in invalid ~> w \notin invalid

(* The contents of the ring are those of a queue of at most QLen - 1       *)
(* messages.                                                               *)
Contents == [i \in 1 .. Dist(readpos, writepos) |-> msg[At(i - 1)]]

Fifo == INSTANCE PostFifo WITH q <- Contents, Cap <- QLen - 1, Messages <- Msg

FifoSpec == Fifo!Spec
=============================================================================
