------------------------------ MODULE SyncSend ------------------------------
(***************************************************************************)
(* SendSyncMessage between message threads (kernel/message.c, a build with *)
(* _MGHAVE_VIRTUAL_WINDOW).  Every thread runs a message loop; its window  *)
(* procedures send synchronous messages to windows of other threads and    *)
(* post messages to them.  Before a message thread puts its message into   *)
(* the target's list it dispatches what has been sent to itself, and it    *)
(* does so with its own queue locked; the lock is recursive, and whatever  *)
(* another thread puts into that queue has to wait for it.                 *)
(*                                                                         *)
(* The list of synchronous messages is a sequence here, named by the       *)
(* senders (a SYNCMSG lives in its sender's stack frame); MsgQueue models  *)
(* its links, its flag and the semaphore the message loop waits for.       *)
(***************************************************************************)
EXTENDS Integers, Sequences, FiniteSets

CONSTANTS
    Threads,    \* the threads
    NoThread,   \* the sender of a message that is not synchronous
    Plain,      \* those that are not message threads and have no queue
    SendsTo,    \* whom the code of each thread sends messages to
    PostsTo,    \* whom it posts messages to
    MaxCalls    \* bound: how many calls are made in all

ASSUME SendAssumption ==
    /\ NoThread \notin Threads
    /\ Plain \subseteq Threads
    /\ SendsTo \in [Threads -> SUBSET (Threads \ Plain)]
    /\ PostsTo \in [Threads -> SUBSET (Threads \ Plain)]
    /\ \A t \in Threads : t \notin SendsTo[t] \cup PostsTo[t]
    /\ MaxCalls \in Nat

VARIABLES
    syncMsgs,   \* the list of synchronous messages of each queue
    lock,       \* how often each thread holds the lock of its own queue
    sem,        \* the semaphore of each thread's SYNCMSG
    stack,      \* the calls each thread is in, the innermost first
    calls       \* how many calls have been made

vars == <<syncMsgs, lock, sem, stack, calls>>

(* A window procedure that handles a message of peer, or a call that puts  *)
(* a message into the queue of peer and where it is.                       *)
Frame == [at : {"proc", "lock", "drain", "enqueue", "wait", "post"},
          peer : Threads \cup {NoThread}]

TypeOK ==
    /\ syncMsgs \in [Threads -> Seq(Threads)]
    /\ lock \in [Threads -> Nat]
    /\ sem \in [Threads -> Nat]
    /\ stack \in [Threads -> Seq(Frame)]
    /\ calls \in 0 .. MaxCalls

Init ==
    /\ syncMsgs = [t \in Threads |-> << >>]
    /\ lock = [t \in Threads |-> 0]
    /\ sem = [t \in Threads |-> 0]
    /\ stack = [t \in Threads |-> << >>]
    /\ calls = 0

Count == calls < MaxCalls /\ calls' = calls + 1

In(t, at) == stack[t] # << >> /\ Head(stack[t]).at = at
Peer(t)   == Head(stack[t]).peer
Enter(t, at, peer) == stack' = [stack EXCEPT ![t] = <<[at |-> at, peer |-> peer]>> \o @]
GoOn(t, at) == stack' = [stack EXCEPT ![t][1].at = at]
Leave(t)    == stack' = [stack EXCEPT ![t] = Tail(@)]

(* Another thread can lock the queue of t.                                 *)
Unlocked(t) == lock[t] = 0

-----------------------------------------------------------------------------
(* A message loop of t runs: the outermost, or that of a dialog, say,      *)
(* which a window procedure runs.                                          *)
Looping(t) == stack[t] = << >> \/ In(t, "proc")

(* DispatchMessage of the first synchronous message.                       *)
Dispatch(t) ==
    /\ syncMsgs[t] # << >>
    /\ Enter(t, "proc", Head(syncMsgs[t]))
    /\ syncMsgs' = [syncMsgs EXCEPT ![t] = Tail(@)]

(* PeekMessageEx takes it; t may have locked its queue before.             *)
TakeSync(t) ==
    /\ Looping(t)
    /\ Dispatch(t)
    /\ UNCHANGED <<lock, sem, calls>>

(* The loop handles any other message; a thread without a queue runs code  *)
(* of its own.                                                             *)
TakeOther(t) ==
    /\ Looping(t) /\ Count
    /\ Enter(t, "proc", NoThread)
    /\ UNCHANGED <<syncMsgs, lock, sem>>

(* DispatchMessage: the procedure returns and the sender is woken up.      *)
BrokenWoken(t) == [sem EXCEPT ![Peer(t)] = @ + 2]
Woken(t) == [sem EXCEPT ![Peer(t)] = @ + 1]

ProcReturn(t) ==
    /\ In(t, "proc")
    /\ Leave(t)
    /\ sem' = IF Peer(t) = NoThread THEN sem ELSE Woken(t)
    /\ UNCHANGED <<syncMsgs, lock, calls>>

-----------------------------------------------------------------------------
(* SendSyncMessage.  A message thread locks its own queue ...              *)
Send(t, to) ==
    /\ In(t, "proc") /\ to \in SendsTo[t] /\ Count
    /\ Enter(t, IF t \in Plain THEN "enqueue" ELSE "lock", to)
    /\ UNCHANGED <<syncMsgs, lock, sem>>

LockOwn(t) ==
    /\ In(t, "lock")
    /\ lock' = [lock EXCEPT ![t] = @ + 1]
    /\ GoOn(t, "drain")
    /\ UNCHANGED <<syncMsgs, sem, calls>>

(* ... dispatches what has been sent to it ...                             *)
Drain(t) ==
    /\ In(t, "drain")
    /\ Dispatch(t)
    /\ UNCHANGED <<lock, sem, calls>>

BrokenUnlock(t) == UNCHANGED lock
Unlock(t) == lock' = [lock EXCEPT ![t] = @ - 1]

BrokenDrained(t) == FALSE
Drained(t) == syncMsgs[t] = << >>

DrainEnd(t) ==
    /\ In(t, "drain") /\ Drained(t)
    /\ Unlock(t)
    /\ GoOn(t, "enqueue")
    /\ UNCHANGED <<syncMsgs, sem, calls>>

(* ... and then links its own message and waits to be woken up.  The       *)
(* semaphore is a new one.                                                 *)
BrokenLinked(t) == [syncMsgs EXCEPT ![Peer(t)] = <<t>>]
Linked(t) == [syncMsgs EXCEPT ![Peer(t)] = Append(@, t)]

Enqueue(t) ==
    /\ In(t, "enqueue") /\ Unlocked(Peer(t))
    /\ syncMsgs' = Linked(t)
    /\ sem' = [sem EXCEPT ![t] = 0]
    /\ GoOn(t, "wait")
    /\ UNCHANGED <<lock, calls>>

Answered(t) == sem[t] > 0

SendReturn(t) ==
    /\ In(t, "wait") /\ Answered(t)
    /\ sem' = [sem EXCEPT ![t] = @ - 1]
    /\ Leave(t)
    /\ UNCHANGED <<syncMsgs, lock, calls>>

(* PostMessage and the notification calls lock the target's queue.         *)
Post(t, to) ==
    /\ In(t, "proc") /\ to \in PostsTo[t] /\ Count
    /\ Enter(t, "post", to)
    /\ UNCHANGED <<syncMsgs, lock, sem>>

PostReturn(t) ==
    /\ In(t, "post") /\ Unlocked(Peer(t))
    /\ Leave(t)
    /\ UNCHANGED <<syncMsgs, lock, sem, calls>>

Step(t) ==
    \/ TakeSync(t) \/ TakeOther(t) \/ ProcReturn(t)
    \/ \E to \in Threads : Send(t, to) \/ Post(t, to)
    \/ LockOwn(t) \/ Drain(t) \/ DrainEnd(t) \/ Enqueue(t) \/ SendReturn(t)
    \/ PostReturn(t)

Next == \E t \in Threads : Step(t)

(* Every thread keeps running while it can: its message loop is called     *)
(* again and its window procedures return.                                 *)
Spec     == Init /\ [][Next]_vars
FairSpec == Spec /\ \A t \in Threads : WF_vars(Step(t))

-----------------------------------------------------------------------------
(* The places where the message of t can be.                               *)
Places(t) ==
    (UNION {{<<"list", r, i>> : i \in {j \in 1 .. Len(syncMsgs[r]) : syncMsgs[r][j] = t}}
               : r \in Threads}) \cup
    (UNION {{<<"proc", r, i>> : i \in {j \in 1 .. Len(stack[r]) :
                  stack[r][j].at = "proc" /\ stack[r][j].peer = t}} : r \in Threads})

(* A SYNCMSG is in one place while its sender waits, or the sender has     *)
(* been woken up, once; when the sender's frame is gone, nobody knows of   *)
(* it: nested dispatching never answers twice and never forgets.           *)
OneAnswer ==
    \A t \in Threads :
        sem[t] + Cardinality(Places(t)) = IF In(t, "wait") THEN 1 ELSE 0

(* The call each thread makes, as SyncCall sees it.                        *)
Status(t) ==
    IF ~In(t, "wait") THEN "none"
    ELSE IF sem[t] > 0 THEN "answered"
    ELSE IF \E r \in Threads : \E i \in 1 .. Len(syncMsgs[r]) : syncMsgs[r][i] = t
         THEN "asked" ELSE "handled"

Calls == INSTANCE SyncCall WITH status <- [t \in Threads |-> Status(t)]

CallsSpec == Calls!Spec

(* SendMessage returns "until the message-handling process returns"        *)
(* (window.h): it does return.                                             *)
SendsReturn == \A t \in Threads : In(t, "wait") ~> ~In(t, "wait")

(* PostMessage "posts a message ... and returns immediately" (window.h):   *)
(* at least it returns.                                                    *)
PostsReturn == \A t \in Threads : In(t, "post") ~> ~In(t, "post")
=============================================================================
