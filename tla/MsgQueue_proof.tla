--------------------------- MODULE MsgQueue_proof ---------------------------
(***************************************************************************)
(* Proofs about MsgQueue, for every set of threads and windows, every ring *)
(* length and every bound: its type and its quit counter, then that a flag *)
(* is never missed - the lists are covered by their flags, an invalid      *)
(* window by QS_PAINT, and an Owner about to wait by its semaphore - and   *)
(* that the ring of posted messages is a bounded queue - and last, for a   *)
(* queue of one main window, that no sender of a synchronous message is    *)
(* lost or answered twice and ThrowAwayMessages leaves nothing behind.     *)
(***************************************************************************)
EXTENDS MsgQueue, SequenceTheorems, FiniteSetTheorems, WellFoundedInduction, TLAPS

(* Positions of the ring stay in the ring.                                 *)
LEMMA SuccType == \A p \in Int : Succ(p) \in 0 .. QLen - 1
  BY QueueAssumption DEF Succ

(* Removing one element of a sequence leaves a sequence.                   *)
LEMMA WithoutType ==
  ASSUME NEW S, NEW s \in Seq(S), NEW i \in 1 .. Len(s)
  PROVE  Without(s, i) \in Seq(S)
  <1>1. SubSeq(s, 1, i - 1) \in Seq(S)
    BY SubSeqProperties, ElementOfSeq
  <1>2. SubSeq(s, i + 1, Len(s)) \in Seq(S)
    BY SubSeqProperties, ElementOfSeq, LenProperties
  <1> QED
    BY <1>1, <1>2, ConcatProperties DEF Without

(* Typing of what kernel_QueueMessage writes.                              *)
LEMMA AcceptType ==
  ASSUME TypeOK, NEW m \in Msg, Accept(m) \/ Refuse(m)
  PROVE  /\ msg' \in [0 .. QLen - 1 -> Msg]
         /\ writepos' \in 0 .. QLen - 1
         /\ dwState' \subseteq Flags
  <1>1. CASE Merge(m)
    <2> DEFINE i == At(Merged(m))
               n == [msg[i] EXCEPT !.wParam = m.wParam, !.lParam = m.lParam]
    <2>1. msg' = [msg EXCEPT ![i] = n]
      BY <1>1 DEF Merge
    <2>2. i \in 0 .. QLen - 1 => n \in Msg
      <3>1. i \in 0 .. QLen - 1 => msg[i] \in Msg
        BY DEF TypeOK
      <3> HIDE DEF i
      <3> QED
        BY <3>1 DEF Msg
    <2>3. msg' \in [0 .. QLen - 1 -> Msg]
      <3> HIDE DEF i, n
      <3> QED
        BY <2>1, <2>2 DEF TypeOK
    <2>4. writepos' = writepos /\ dwState' = dwState \cup {"QS_POSTMSG"}
      BY <1>1 DEF Merge
    <2> QED
      BY <2>3, <2>4 DEF TypeOK, Flags
  <1>2. CASE Put(m)
    <2>1. Succ(writepos) \in 0 .. QLen - 1
      BY SuccType DEF TypeOK
    <2> QED
      BY <1>2, <2>1 DEF TypeOK, Put, Flags
  <1>3. CASE Refuse(m)
    BY <1>3 DEF TypeOK, Refuse
  <1> QED
    BY <1>1, <1>2, <1>3 DEF Accept

-----------------------------------------------------------------------------
(* Typing and the quit counter go together: PeekMessageEx counts           *)
(* loop_depth down, which stays natural because the flag is set only while *)
(* it is 1.                                                                *)
TypeInv == TypeOK /\ QuitBalance

(* mg_InitMsgQueue gives every variable a value of its type.               *)
LEMMA InitTypeInv == Init => TypeInv
  BY QueueAssumption, EmptySeq DEF Init, TypeInv, TypeOK, QuitBalance, AllThreads,
     Flags, Msg, PostMsgs, MoveMsgs, TickMsgs, WParams, NoCall, NoWalk, Walk

(* kernel_QueueMessage, up to its POST_MSGQ, keeps the types.              *)
LEMMA PostTypeInv == TypeInv /\ Post => TypeInv'
  <1> SUFFICES ASSUME TypeInv, NEW t \in AllThreads, NEW p \in Posts, PostMessage(t, p)
               PROVE  TypeInv'
    BY DEF Post
  <1> DEFINE m == [hwnd |-> p.hwnd, message |-> p.message, wParam |-> p.wParam,
                   lParam |-> sends']
  <1>1. sends' \in 0 .. MaxSends
    BY QueueAssumption DEF PostMessage, Count, TypeInv, TypeOK
  <1>2. m \in Msg
    BY <1>1, PostsAssumption DEF Msg
  <1>3. Accept(m) \/ Refuse(m)
    BY DEF PostMessage
  <1>4. /\ msg' \in [0 .. QLen - 1 -> Msg]
        /\ writepos' \in 0 .. QLen - 1
        /\ dwState' \subseteq Flags
    BY <1>2, <1>3, AcceptType DEF TypeInv
  <1>5. "QS_QUIT" \in dwState' <=> "QS_QUIT" \in dwState
    BY <1>3 DEF Accept, Merge, Put, Refuse
  <1>6. tpc' \in [AllThreads -> {"run", "paint", "enqueue", "getvalue", "sem_post",
                               "sem_wait"}]
    BY DEF PostMessage, Signal, TypeInv, TypeOK
  <1> HIDE DEF m
  <1> QED
    BY <1>1, <1>4, <1>5, <1>6 DEF PostMessage, TypeInv, TypeOK, QuitBalance,
       list, syncs, reader

(* Typing of the places the threads are at.                                *)
Places == {"run", "paint", "enqueue", "getvalue", "sem_post", "sem_wait"}

(* The positions between the two ends of the ring are positions of it.     *)
LEMMA PlacesType ==
  ASSUME tpc \in [AllThreads -> Places], NEW t \in AllThreads,
         Signal(t) \/ Posted(t) \/ \E p \in Places : tpc' = [tpc EXCEPT ![t] = p]
  PROVE  tpc' \in [AllThreads -> Places]
  BY DEF Signal, Posted, Places

(* The calls of the other threads, and the Owner's own calls of the same   *)
(* functions.                                                              *)
LEMMA CallTypeInv ==
  TypeInv /\ (Paint \/ Notify \/ Quit \/ Send \/ InPostMsgq \/ \E t \in Threads : InCall(t))
     => TypeInv'
  <1> SUFFICES ASSUME TypeInv,
                      Paint \/ Notify \/ Quit \/ Send \/ InPostMsgq
                        \/ \E t \in Threads : InCall(t)
               PROVE  TypeInv'
    OBVIOUS
  <1> USE DEF TypeInv, TypeOK, QuitBalance, list, syncs, ring, sender, reader
  <1>0. /\ tpc \in [AllThreads -> Places] /\ Threads \subseteq AllThreads
        /\ {"run", "paint", "enqueue", "getvalue", "sem_post", "sem_wait"} = Places
    BY DEF Places, AllThreads
  <1>a. Count => sends' \in 0 .. MaxSends
    BY QueueAssumption DEF Count
  <1>1. ASSUME NEW t \in AllThreads, NEW w \in Windows, Invalidate(t, w)
        PROVE  TypeInv'
    <2>1. tpc' \in [AllThreads -> Places]
      BY <1>0, <1>1 DEF Invalidate, Places
    <2>2. dwState' = dwState \/ dwState' = dwState \cup {"QS_PAINT"}
      BY <1>1 DEF Invalidate
    <2>3. /\ dwState' \subseteq Flags
          /\ "QS_QUIT" \in dwState' <=> "QS_QUIT" \in dwState
      BY <2>2 DEF Flags
    <2> QED
      BY <1>0, <1>a, <1>1, <2>1, <2>3 DEF Invalidate
  <1>2. ASSUME NEW t \in AllThreads, NEW w \in Windows,
               SendNotifyMessage(t, w) \/ SendPriorNotifyMessage(t, w)
        PROVE  TypeInv'
    <2>1. Append(notify, w) \in Seq(Windows)
      BY AppendProperties
    <2>2. <<w>> \o notify \in Seq(Windows)
      BY ConcatProperties
    <2>3. tpc' \in [AllThreads -> Places]
      BY <1>0, <1>2, PlacesType DEF SendNotifyMessage, SendPriorNotifyMessage
    <2> QED
      BY <1>0, <1>a, <1>2, <2>1, <2>2, <2>3
         DEF SendNotifyMessage, SendPriorNotifyMessage, Flags
  <1>3. ASSUME NEW t \in AllThreads, PostQuitMessage(t)
        PROVE  TypeInv'
    <2>1. tpc' \in [AllThreads -> Places]
      BY <1>0, <1>3, PlacesType DEF PostQuitMessage, QuitPending
    <2>2. /\ dwState' \subseteq Flags
          /\ loop_depth' = IF "QS_QUIT" \in dwState' THEN 1 ELSE 0
          /\ loop_depth' \in Nat
      <3>1. CASE "QS_QUIT" \in dwState
        BY <1>3, <3>1 DEF PostQuitMessage, QuitPending
      <3>2. CASE "QS_QUIT" \notin dwState
        <4>1. loop_depth' = loop_depth + 1 /\ dwState' = dwState \cup {"QS_QUIT"}
          BY <1>3, <3>2 DEF PostQuitMessage, QuitPending
        <4>2. loop_depth = 0
          BY <3>2
        <4> QED
          BY <4>1, <4>2 DEF Flags
      <3> QED
        BY <3>1, <3>2
    <2> QED
      BY <1>0, <1>a, <1>3, <2>1, <2>2 DEF PostQuitMessage, QuitPending
  <1>4. ASSUME NEW t \in Threads, NEW w \in Windows, SendSyncMessage(t, w)
        PROVE  TypeInv'
    <2>1. tpc' \in [AllThreads -> Places]
      BY <1>0, <1>4 DEF SendSyncMessage, Places
    <2> QED
      BY <1>0, <1>a, <1>4, <2>1 DEF SendSyncMessage
  <1>5. ASSUME NEW t \in AllThreads, SemGetValue(t) \/ SemPost(t)
        PROVE  TypeInv'
    <2>1. tpc' \in [AllThreads -> Places]
      BY <1>0, <1>5, PlacesType DEF SemGetValue, SemPost, Places
    <2> QED
      BY <1>0, <1>5, <2>1 DEF SemGetValue, SemPost
  <1>6. ASSUME NEW t \in Threads, PostPaint(t)
        PROVE  TypeInv'
    <2>1. tpc' \in [AllThreads -> Places]
      BY <1>0, <1>6, PlacesType DEF PostPaint
    <2> QED
      BY <1>0, <1>6, <2>1 DEF PostPaint, Flags
  <1>7. ASSUME NEW t \in Threads, SyncEnqueue(t)
        PROVE  TypeInv'
    <2>1. tpc' \in [AllThreads -> Places]
      BY <1>0, <1>7, PlacesType DEF SyncEnqueue, Link
    <2>2. pNext' \in [Threads -> Threads \cup {NoThread}]
      BY <1>7 DEF SyncEnqueue, Link
    <2> QED
      BY <1>0, <1>7, <2>1, <2>2 DEF SyncEnqueue, Link, Flags
  <1>8. ASSUME NEW t \in Threads, SyncReturn(t)
        PROVE  TypeInv'
    <2>1. tpc' \in [AllThreads -> Places]
      BY <1>0, <1>8, PlacesType DEF SyncReturn, Places
    <2> QED
      BY <1>0, <1>8, <2>1 DEF SyncReturn
  <1> QED
    BY <1>1, <1>2, <1>3, <1>4, <1>5, <1>6, <1>7, <1>8
       DEF Paint, Notify, Quit, Send, InPostMsgq, InCall

(* Pushing a frame of a delivered message.                                 *)
LEMMA DeliverType ==
  ASSUME TypeOK, NEW f \in Frame, Deliver(f)
  PROVE  /\ opc' = "run" /\ call' = NoCall /\ walk' = walk /\ todo' = todo
         /\ idle_counter' \in 0 .. MaxIdle - 1
         /\ stack' \in Seq(Frame)
  <1>1. <<f>> \o stack \in Seq(Frame)
    BY ConcatProperties DEF TypeOK
  <1> QED
    BY <1>1, QueueAssumption DEF Deliver, Return, TypeOK

(* Each branch of PeekMessageEx keeps the types.                           *)
LEMMA PeekTypeInv == TypeInv /\ Peek => TypeInv'
  <1> SUFFICES ASSUME TypeInv, Peek
               PROVE  TypeInv'
    OBVIOUS
  <1> USE QueueAssumption DEF TypeInv, TypeOK, QuitBalance, Peeking, OwnerAt,
          list, syncs, ring, sender, reader
  <1>1. CASE PeekQuit
    BY <1>1 DEF PeekQuit, Return
  <1>2. CASE PeekSync
    <2> DEFINE f == [message |-> "MSG_SEND", hwnd |-> syncHwnd[pFirstSyncMsg],
                     sync |-> pFirstSyncMsg]
    <2>1. f \in Frame
      BY <1>2 DEF PeekSync, Unlink, TakeSync, SyncPending, Frame, AllMsgs
    <2>2. Deliver(f)
      BY <1>2 DEF PeekSync, Unlink
    <2> HIDE DEF f
    <2>3. pFirstSyncMsg' \in Threads \cup {NoThread}
      BY <1>2 DEF PeekSync, Unlink, TakeSync, SyncPending
    <2> QED
      BY <1>2, <2>1, <2>2, <2>3, DeliverType DEF PeekSync, Unlink
  <1>3. CASE PeekNotify
    <2> DEFINE f == [message |-> "MSG_NOTIFY", hwnd |-> Head(notify), sync |-> NoThread]
    <2>1. Head(notify) \in Windows /\ Tail(notify) \in Seq(Windows)
      BY <1>3, HeadTailProperties DEF PeekNotify, TakeNotify, NotifyPending
    <2>2. f \in Frame
      BY <2>1 DEF Frame, AllMsgs
    <2>3. Deliver(f)
      BY <1>3 DEF PeekNotify
    <2> HIDE DEF f
    <2> QED
      BY <1>3, <2>1, <2>2, <2>3, DeliverType DEF PeekNotify, StaleSync
  <1>4. CASE PeekPost
    <2> DEFINE f == [message |-> msg[readpos].message, hwnd |-> msg[readpos].hwnd,
                     sync |-> NoThread]
    <2>1. f \in Frame
      BY DEF Frame, AllMsgs, Msg
    <2>2. Deliver(f)
      BY <1>4 DEF PeekPost
    <2> HIDE DEF f
    <2>a. readpos \in Int
      OBVIOUS
    <2>3. Succ(readpos) \in 0 .. QLen - 1
      BY <2>a, SuccType
    <2> QED
      BY <1>4, <2>1, <2>2, <2>3, DeliverType DEF PeekPost, StaleNotify, StaleSync
  <1>5. CASE PeekPaint
    <2> PICK w \in invalid :
          Deliver([message |-> "MSG_PAINT", hwnd |-> w, sync |-> NoThread])
      BY <1>5 DEF PeekPaint
    <2>1. [message |-> "MSG_PAINT", hwnd |-> w, sync |-> NoThread] \in Frame
      BY DEF Frame, AllMsgs
    <2> QED
      BY <1>5, <2>1, DeliverType DEF PeekPaint, StalePost, StaleNotify, StaleSync
  <1>6. CASE PeekTimer
    <2> PICK w \in expired :
          /\ Deliver([message |-> "MSG_TIMER", hwnd |-> w, sync |-> NoThread])
          /\ expired' = expired \ {w}
      BY <1>6 DEF PeekTimer
    <2>1. [message |-> "MSG_TIMER", hwnd |-> w, sync |-> NoThread] \in Frame
      BY DEF Frame, AllMsgs
    <2> QED
      BY <1>6, <2>1, DeliverType DEF PeekTimer, StalePaint, StalePost, StaleNotify, StaleSync
  <1>7. CASE PeekNothing
    BY <1>7 DEF PeekNothing, StalePaint, StalePost, StaleNotify, StaleSync
  <1> QED
    BY <1>1, <1>2, <1>3, <1>4, <1>5, <1>6, <1>7 DEF Peek

(* So do the other steps of the thread that owns the queue.                *)
LEMMA OwnerTypeInv ==
  TypeInv /\ ((\E c \in Calls : Enter(c)) \/ Look \/ Idle \/ PeekPostMessage(PostMsgs)
                \/ BeginPaint \/ DispatchEnd)
     => TypeInv'
  <1> SUFFICES ASSUME TypeInv,
                      (\E c \in Calls : Enter(c)) \/ Look \/ Idle
                        \/ PeekPostMessage(PostMsgs) \/ BeginPaint \/ DispatchEnd
               PROVE  TypeInv'
    OBVIOUS
  <1> USE QueueAssumption DEF TypeInv, TypeOK, QuitBalance, OwnerAt, list, syncs, ring,
          sender, reader
  <1>1. ASSUME NEW c \in Calls, Enter(c)
        PROVE  TypeInv'
    BY <1>1, CallsAssumption DEF Enter
  <1>2. CASE Look
    BY <1>2 DEF Look, Return
  <1>3. CASE TryWait
    BY <1>3 DEF TryWait
  <1>4. CASE IdleExpires
    <2>1. tpc' \in [AllThreads -> {"run", "paint", "enqueue", "getvalue", "sem_post",
                                  "sem_wait"}]
      BY <1>4 DEF IdleExpires
    <2> QED
      BY <1>4, <2>1 DEF IdleExpires, Resume
  <1>5. CASE IdleNothing
    BY <1>5 DEF IdleNothing, Resume
  <1>6. CASE Broadcast
    <2>1. CASE \E w \in todo :
                  /\ LET m == [hwnd |-> w, message |-> "MSG_IDLE", wParam |-> 0, lParam |-> 0]
                     IN  Accept(m) \/ Refuse(m)
                  /\ todo' = todo \ {w}
                  /\ UNCHANGED <<opc, call>>
      <3> PICK w \in todo :
              /\ LET m == [hwnd |-> w, message |-> "MSG_IDLE", wParam |-> 0, lParam |-> 0]
                 IN  Accept(m) \/ Refuse(m)
              /\ todo' = todo \ {w}
              /\ UNCHANGED <<opc, call>>
        BY <2>1
      <3> DEFINE m == [hwnd |-> w, message |-> "MSG_IDLE", wParam |-> 0, lParam |-> 0]
      <3>1. m \in Msg
        BY DEF Msg, PostMsgs, TickMsgs, WParams
      <3>2. /\ msg' \in [0 .. QLen - 1 -> Msg]
            /\ writepos' \in 0 .. QLen - 1
            /\ dwState' \subseteq Flags
        BY <3>1, AcceptType
      <3>3. "QS_QUIT" \in dwState' <=> "QS_QUIT" \in dwState
        BY DEF Accept, Merge, Put, Refuse
      <3> HIDE DEF m
      <3> QED
        BY <1>6, <3>2, <3>3 DEF Broadcast
    <2>2. CASE todo = {} /\ Resume /\ UNCHANGED <<dwState, msg, writepos, todo>>
      BY <1>6, <2>2 DEF Broadcast, Resume
    <2> QED
      BY <1>6, <2>1, <2>2 DEF Broadcast
  <1>7. CASE PeekPostMessage(PostMsgs)
    <2>a. readpos \in Int
      OBVIOUS
    <2>1. Succ(readpos) \in 0 .. QLen - 1
      BY <2>a, SuccType
    <2> DEFINE f == [message |-> msg[readpos].message, hwnd |-> msg[readpos].hwnd,
                     sync |-> NoThread]
    <2>2. f \in Frame
      BY DEF Frame, AllMsgs, Msg
    <2>3. <<f>> \o stack \in Seq(Frame)
      BY <2>2, ConcatProperties
    <2> HIDE DEF f
    <2> QED
      BY <1>7, <2>1, <2>3 DEF PeekPostMessage, f
  <1>8. CASE BeginPaint
    <2>1. stack' \in Seq(Frame)
      <3> DEFINE f == [stack[1] EXCEPT !.message = "painted"]
      <3>1. 1 \in 1 .. Len(stack)
        BY <1>8, EmptySeq DEF BeginPaint
      <3>a. stack[1] \in Frame
        BY <3>1, ElementOfSeq
      <3>2. f \in Frame
        BY <3>a DEF Frame
      <3>3. stack' = [stack EXCEPT ![1] = f]
        BY <1>8 DEF BeginPaint
      <3> HIDE DEF f
      <3> QED
        BY <3>1, <3>2, <3>3, ExceptSeq
    <2> QED
      BY <1>8, <2>1 DEF BeginPaint
  <1>9. CASE DispatchEnd
    <2>1. stack' \in Seq(Frame)
      BY <1>9, HeadTailProperties DEF DispatchEnd, WakeUp
    <2>2. sem' \in [Threads -> Nat]
      BY <1>9 DEF DispatchEnd, WakeUp
    <2> QED
      BY <1>9, <2>1, <2>2 DEF DispatchEnd, WakeUp
  <1> QED
    BY <1>1, <1>2, <1>3, <1>4, <1>5, <1>6, <1>7, <1>8, <1>9 DEF Idle

(* The steps of __mg_throw_away_messages keep the type of its variables.   *)
LEMMA WalkType ==
  /\ \A w \in Windows : [NoWalk EXCEPT !.hwnd = w, !.at = 1] \in Walk
  /\ \A k \in Walk, a \in Nat : [k EXCEPT !.at = a] \in Walk
  /\ \A k \in Walk, c \in Threads \cup {NoThread} : [k EXCEPT !.cur = c] \in Walk
  BY DEF Walk, NoWalk

(* A send that is counted stays within its bound.                          *)
LEMMA CountType == sends \in 0 .. MaxSends /\ Count => sends' \in 0 .. MaxSends
  BY QueueAssumption DEF Count

(* __mg_throw_away_messages keeps the types.                               *)
LEMMA ThrowTypeInv ==
  TypeInv /\ ((\E w \in Windows : ThrowStart(w)) \/ Throw) => TypeInv'
  <1> SUFFICES ASSUME TypeInv, (\E w \in Windows : ThrowStart(w)) \/ Throw
               PROVE  TypeInv'
    OBVIOUS
  <1> USE DEF TypeInv, TypeOK, QuitBalance, list, syncs, ring, sender, reader
  <1>0. /\ walk.at \in Nat
        /\ walk.prev \in Threads \cup {NoThread} /\ walk.cur \in Threads \cup {NoThread}
    BY DEF Walk
  <1>1. ASSUME NEW w \in Windows, ThrowStart(w)
        PROVE  TypeInv'
    <2>1. walk' = [NoWalk EXCEPT !.hwnd = w, !.at = 1]
      BY <1>1 DEF ThrowStart
    <2>3. walk' \in Walk
      BY <1>0, <2>1, WalkType
    <2>2. sends' \in 0 .. MaxSends
      BY <1>1, CountType DEF ThrowStart
    <2> QED
      BY <1>1, <2>2, <2>3 DEF ThrowStart
  <1>2. CASE ThrowNotify
    <2>1. CASE walk.at > Len(notify)
      <3>1. walk' = [walk EXCEPT !.cur = pFirstSyncMsg]
        BY <1>2, <2>1 DEF ThrowNotify
      <3>2. walk' \in Walk
        BY <3>1 DEF Walk
      <3> QED
        BY <1>2, <2>1, <3>2 DEF ThrowNotify
    <2>2. CASE ~(walk.at > Len(notify)) /\ Doomed(notify[walk.at])
      <3>1. walk.at \in Nat /\ Len(notify) \in Nat
        BY <1>0, LenProperties
      <3>2. walk.at = 0 \/ walk.at \in 1 .. Len(notify)
        BY <2>2, <3>1
      <3>3. CASE walk.at = 0
        <4>1. Without(notify, 0) \in Seq(Windows)
          <5>1. SubSeq(notify, 1, 0 - 1) \in Seq(Windows)
            BY SubSeqProperties
          <5>2. SubSeq(notify, 0 + 1, Len(notify)) \in Seq(Windows)
            BY <3>1, SubSeqProperties, ElementOfSeq
          <5> QED
            BY <5>1, <5>2, ConcatProperties DEF Without
        <4> QED
          BY <1>2, <2>2, <3>3, <4>1 DEF ThrowNotify
      <3>4. CASE walk.at \in 1 .. Len(notify)
        BY <1>2, <2>2, <3>4, WithoutType DEF ThrowNotify
      <3> QED
        BY <3>2, <3>3, <3>4
    <2>3. CASE ~(walk.at > Len(notify)) /\ ~Doomed(notify[walk.at])
      <3>1. walk' = [walk EXCEPT !.at = @ + 1]
        BY <1>2, <2>3 DEF ThrowNotify
      <3>2. walk.at + 1 \in Nat
        BY <1>0
      <3>3. walk' \in Walk
        BY <1>0, <3>1, <3>2, WalkType
      <3> QED
        BY <1>2, <2>3, <3>3 DEF ThrowNotify
    <2> QED
      BY <2>1, <2>2, <2>3
  <1>3. CASE ThrowSync
    <2>1. walk.cur \in Threads
      BY <1>0, <1>3 DEF ThrowSync, WakeUp
    <2>2. walk' = walk \/ walk' = [walk EXCEPT !.cur = pNext[walk.cur]]
      BY <1>3 DEF ThrowSync, WakeUp
    <2>3. walk' \in Walk
      BY <2>1, <2>2 DEF Walk
    <2>4. pNext' \in [Threads -> Threads \cup {NoThread}]
      BY <1>3, <2>1 DEF ThrowSync, WakeUp
    <2>5. syncHwnd' \in [Threads -> Windows \cup {NoWindow}] /\ sem' \in [Threads -> Nat]
      BY <1>3, <2>1 DEF ThrowSync, WakeUp
    <2>6. pFirstSyncMsg' \in Threads \cup {NoThread}
      BY <1>3, <2>1 DEF ThrowSync, WakeUp
    <2>7. opc' = opc \/ opc' = "throw_next"
      BY <1>3 DEF ThrowSync, WakeUp
    <2> QED
      BY <1>3, <2>3, <2>4, <2>5, <2>6, <2>7 DEF ThrowSync, WakeUp
  <1>4. CASE ThrowNext
    <2>1. walk' = [walk EXCEPT !.prev = walk.cur, !.cur = pNext[walk.cur]]
      BY <1>4 DEF ThrowNext
    <2>2. walk.cur \in Threads
      BY <1>0, <1>4 DEF ThrowNext
    <2>3. walk' \in Walk
      BY <2>1, <2>2 DEF Walk
    <2> QED
      BY <1>4, <2>3 DEF ThrowNext
  <1>5. CASE ThrowSyncEnd
    <2>1. readpos \in Nat
      BY QueueAssumption
    <2>2. walk' \in Walk
      BY <1>5, <2>1 DEF ThrowSyncEnd, Walk
    <2> QED
      BY <1>5, <2>2 DEF ThrowSyncEnd
  <1>6. CASE ThrowPost
    <2>1. CASE Doomed(msg[walk.at].hwnd)
      <3>1. Close(walk.at) \in [0 .. QLen - 1 -> Msg]
        <4> SUFFICES ASSUME NEW i \in 0 .. QLen - 1
                     PROVE  Close(walk.at)[i] \in Msg
          BY DEF Close
        <4>1. i \in Int
          BY QueueAssumption
        <4>2. msg[Succ(i)] \in Msg
          BY <4>1, SuccType
        <4>3. msg[i] \in Msg
          OBVIOUS
        <4>4. i = walk.at => [msg[walk.at] EXCEPT !.hwnd = NoWindow] \in Msg
          BY <4>3 DEF Msg
        <4> QED
          BY <4>2, <4>3, <4>4 DEF Close
      <3>2. writepos' \in 0 .. QLen - 1
        <4>1. writepos' = IF writepos > 0 THEN writepos - 1 ELSE QLen - 1
          BY <1>6, <2>1 DEF ThrowPost
        <4> QED
          BY <4>1, QueueAssumption
      <3> QED
        BY <1>6, <2>1, <3>1, <3>2 DEF ThrowPost
    <2>2. CASE ~Doomed(msg[walk.at].hwnd)
      <3>1. Succ(walk.at) \in Nat
        <4>1. walk.at \in Int
          BY <1>0
        <4>2. Succ(walk.at) \in 0 .. QLen - 1
          BY ONLY <4>1, SuccType
        <4> QED
          BY ONLY <4>2
      <3>2. walk' = [walk EXCEPT !.at = Succ(@)]
        BY <1>6, <2>2 DEF ThrowPost
      <3>3. walk' \in Walk
        BY <1>0, <3>1, <3>2, WalkType
      <3> QED
        BY <1>6, <2>2, <3>3 DEF ThrowPost
    <2> QED
      BY <2>1, <2>2
  <1>7. CASE ThrowEnd
    BY <1>7 DEF ThrowEnd, NoWalk, Walk
  <1> QED
    BY <1>1, <1>2, <1>3, <1>4, <1>5, <1>6, <1>7 DEF Throw

(* A step that changes nothing keeps the types.                            *)
LEMMA StutterTypeInv == TypeInv /\ UNCHANGED vars => TypeInv'
  BY DEF TypeInv, TypeOK, QuitBalance, vars, list, syncs, ring, sender, reader

(* Every step keeps the types.                                             *)
LEMMA NextTypeInv == TypeInv /\ [Next]_vars => TypeInv'
  BY PostTypeInv, CallTypeInv, PeekTypeInv, OwnerTypeInv, ThrowTypeInv, StutterTypeInv
     DEF Next

(* Every variable keeps its type, loop_depth included.                     *)
THEOREM TypeCorrect == Spec => []TypeOK
  <1>1. TypeInv => TypeOK
    BY DEF TypeInv
  <1> QED
    BY <1>1, InitTypeInv, NextTypeInv, PTL DEF Spec

(* A quit ends one message loop: PostQuitMessage counts it only when none  *)
(* is pending and PeekMessageEx takes it back, so that QS_QUIT is set      *)
(* exactly while loop_depth is 1.                                          *)
THEOREM QuitBalanced == Spec => []QuitBalance
  <1>1. TypeInv => QuitBalance
    BY DEF TypeInv
  <1> QED
    BY <1>1, InitTypeInv, NextTypeInv, PTL DEF Spec

-----------------------------------------------------------------------------

(* One step of the ring of positions, and the distance between two.        *)
LEMMA SuccValue ==
  \A p \in 0 .. QLen - 1 : Succ(p) = IF p = QLen - 1 THEN 0 ELSE p + 1
  BY QueueAssumption DEF Succ

(* How far one position of the ring is from another, by cases.             *)
LEMMA DistValue ==
  \A p, q \in 0 .. QLen - 1 : Dist(p, q) = IF p <= q THEN q - p ELSE q - p + QLen
  BY QueueAssumption DEF Dist

(* Moving towards r, one step leads one further from p.                    *)
LEMMA DistSucc ==
  ASSUME NEW p \in 0 .. QLen - 1, NEW q \in 0 .. QLen - 1, NEW r \in 0 .. QLen - 1,
         Dist(p, q) < Dist(p, r)
  PROVE  Succ(q) \in 0 .. QLen - 1 /\ Dist(p, Succ(q)) <= Dist(p, r)
  <1>1. CASE q = QLen - 1
    <2>1. Succ(q) = 0 /\ 0 \in 0 .. QLen - 1
      BY <1>1, SuccValue, QueueAssumption
    <2>2. Dist(p, q) = q - p /\ Dist(p, 0) = IF p = 0 THEN 0 ELSE QLen - p
      BY <1>1, <2>1, DistValue, QueueAssumption
    <2>3. Dist(p, r) = IF p <= r THEN r - p ELSE r - p + QLen
      BY DistValue
    <2> QED
      BY <1>1, <2>1, <2>2, <2>3, QueueAssumption
  <1>2. CASE q # QLen - 1
    <2>1. Succ(q) = q + 1 /\ q + 1 \in 0 .. QLen - 1
      BY <1>2, SuccValue, QueueAssumption
    <2>2. Dist(p, q) = IF p <= q THEN q - p ELSE q - p + QLen
      BY DistValue
    <2>3. Dist(p, q + 1) = IF p <= q + 1 THEN q + 1 - p ELSE q + 1 - p + QLen
      BY <2>1, DistValue
    <2>4. Dist(p, r) = IF p <= r THEN r - p ELSE r - p + QLen
      BY DistValue
    <2> QED
      BY <2>1, <2>2, <2>3, <2>4, QueueAssumption
  <1> QED
    BY <1>1, <1>2

-----------------------------------------------------------------------------
(* What __mg_throw_away_messages knows of its loop variables: it starts at *)
(* the head of the synchronous list and stays within the live posts.       *)
WalkInv ==
    /\ opc = "throw_notify" => walk.at >= 1
    /\ opc = "throw_sync" /\ walk.prev = NoThread => walk.cur = pFirstSyncMsg
    /\ opc = "throw_post" =>
          walk.at \in 0 .. QLen - 1 /\ Dist(readpos, walk.at) <= Dist(readpos, writepos)

FlagsInv == FlagsCover /\ WalkInv

(* Every step leaves the flags of the three lists covering what they hold. *)
LEMMA FlagsStep ==
  ASSUME TypeInv, FlagsInv, [Next]_vars
  PROVE  FlagsInv'
  <1> USE DEF FlagsInv, FlagsCover, WalkInv, list, syncs, ring, sender, reader
  <1>0. CASE UNCHANGED vars
    BY <1>0 DEF vars
  <1>1. ASSUME NEW t \in AllThreads, NEW p \in Posts, PostMessage(t, p)
        PROVE  FlagsInv'
    BY <1>1 DEF PostMessage, Ready, Throwing, Accept, Put, Merge, Refuse
  <1>2. ASSUME NEW t \in AllThreads, NEW w \in Windows, Invalidate(t, w)
        PROVE  FlagsInv'
    BY <1>2 DEF Invalidate
  <1>3. ASSUME NEW t \in Threads, PostPaint(t)
        PROVE  FlagsInv'
    BY <1>3 DEF PostPaint
  <1>4. ASSUME NEW t \in AllThreads, NEW w \in Windows, SendNotifyMessage(t, w)
        PROVE  FlagsInv'
    BY <1>4 DEF SendNotifyMessage, Ready, Throwing
  <1>5. ASSUME NEW t \in AllThreads, NEW w \in Windows, SendPriorNotifyMessage(t, w)
        PROVE  FlagsInv'
    BY <1>5 DEF SendPriorNotifyMessage, Ready, Throwing
  <1>6. ASSUME NEW t \in AllThreads, PostQuitMessage(t)
        PROVE  FlagsInv'
    BY <1>6 DEF PostQuitMessage, QuitPending
  <1>7. ASSUME NEW t \in Threads, NEW w \in Windows, SendSyncMessage(t, w)
        PROVE  FlagsInv'
    BY <1>7 DEF SendSyncMessage
  <1>8. ASSUME NEW t \in Threads, SyncEnqueue(t)
        PROVE  FlagsInv'
    BY <1>8 DEF SyncEnqueue, Throwing, Link
  <1>9. ASSUME NEW t \in AllThreads, SemGetValue(t)
        PROVE  FlagsInv'
    BY <1>9 DEF SemGetValue
  <1>10. ASSUME NEW t \in AllThreads, SemPost(t)
        PROVE  FlagsInv'
    BY <1>10 DEF SemPost
  <1>11. ASSUME NEW t \in Threads, SyncReturn(t)
        PROVE  FlagsInv'
    BY <1>11 DEF SyncReturn
  <1>12. ASSUME NEW c \in Calls, Enter(c)
        PROVE  FlagsInv'
    BY <1>12 DEF Enter, OwnerAt
  <1>13. CASE PeekQuit
    BY <1>13 DEF PeekQuit, Peeking, OwnerAt, Return
  <1>14. CASE PeekSync
    BY <1>14 DEF PeekSync, Peeking, OwnerAt, Return, Deliver, Unlink, NoMessage, TakeSync, TakeNotify, TakePost, TakePaint, TakeTimer, StaleSync, StaleNotify, StalePost, StalePaint, SyncPending, NotifyPending, PostPending
  <1>15. CASE PeekNotify
    BY <1>15 DEF PeekNotify, Peeking, OwnerAt, Return, Deliver, NoMessage, TakeSync, TakeNotify, TakePost, TakePaint, TakeTimer, StaleSync, StaleNotify, StalePost, StalePaint, SyncPending, NotifyPending, PostPending
  <1>16. CASE PeekPost
    BY <1>16 DEF PeekPost, Peeking, OwnerAt, Return, Deliver, NoMessage, TakeSync, TakeNotify, TakePost, TakePaint, TakeTimer, StaleSync, StaleNotify, StalePost, StalePaint, SyncPending, NotifyPending, PostPending
  <1>17. CASE PeekPaint
    BY <1>17 DEF PeekPaint, Peeking, OwnerAt, Return, Deliver, NoMessage, TakeSync, TakeNotify, TakePost, TakePaint, TakeTimer, StaleSync, StaleNotify, StalePost, StalePaint, SyncPending, NotifyPending, PostPending
  <1>18. CASE PeekTimer
    BY <1>18 DEF PeekTimer, Peeking, OwnerAt, Return, Deliver, NoMessage, TakeSync, TakeNotify, TakePost, TakePaint, TakeTimer, StaleSync, StaleNotify, StalePost, StalePaint, SyncPending, NotifyPending, PostPending
  <1>19. CASE PeekNothing
    BY <1>19 DEF PeekNothing, Peeking, OwnerAt, NoMessage, TakeSync, TakeNotify, TakePost, TakePaint, TakeTimer, StaleSync, StaleNotify, StalePost, StalePaint, SyncPending, NotifyPending, PostPending
  <1>20. CASE Look
    BY <1>20 DEF Look, OwnerAt, Return
  <1>21. CASE TryWait
    BY <1>21 DEF TryWait, OwnerAt, Resume
  <1>22. CASE IdleExpires
    BY <1>22 DEF IdleExpires, OwnerAt, Resume
  <1>23. CASE IdleNothing
    BY <1>23 DEF IdleNothing, OwnerAt, Resume
  <1>24. CASE Broadcast
    BY <1>24 DEF Broadcast, OwnerAt, Resume, Accept, Put, Merge, Refuse
  <1>25. CASE PeekPostMessage(PostMsgs)
    BY <1>25 DEF PeekPostMessage, OwnerAt, PostPending
  <1>26. CASE BeginPaint
    BY <1>26 DEF BeginPaint
  <1>27. CASE DispatchEnd
    BY <1>27 DEF DispatchEnd
  <1>28. ASSUME NEW w \in Windows, ThrowStart(w)
        PROVE  FlagsInv'
    BY <1>28 DEF ThrowStart, OwnerAt, NoWalk
  <1>29. CASE ThrowNotify
    <2>1. walk.at \in Nat /\ Len(notify) \in Nat /\ walk \in Walk
      BY LenProperties DEF TypeInv, TypeOK, Walk
    <2>2. walk.at >= 1 /\ (~(walk.at > Len(notify)) => notify # << >>)
      <3>1. notify = << >> => Len(notify) = 0
        OBVIOUS
      <3> QED
        BY <1>29, <2>1, <3>1 DEF ThrowNotify
    <2>3. CASE walk.at > Len(notify)
      BY <1>29, <2>1, <2>3 DEF ThrowNotify, Walk
    <2>4. CASE ~(walk.at > Len(notify)) /\ Doomed(notify[walk.at])
      <3>1. "QS_NOTIFYMSG" \in dwState
        BY <2>2, <2>4
      <3> QED
        BY <1>29, <2>2, <2>4, <3>1 DEF ThrowNotify
    <2>5. CASE ~(walk.at > Len(notify)) /\ ~Doomed(notify[walk.at])
      <3>1. walk' = [walk EXCEPT !.at = @ + 1]
        BY <1>29, <2>5 DEF ThrowNotify
      <3>2. walk'.at >= 1
        BY <2>1, <2>2, <3>1 DEF Walk
      <3> QED
        BY <1>29, <2>5, <3>2 DEF ThrowNotify
    <2> QED
      BY <2>3, <2>4, <2>5
  <1>30. CASE ThrowSync
    BY <1>30 DEF ThrowSync, Walk, TypeInv, TypeOK
  <1>31. CASE ThrowNext
    BY <1>31 DEF ThrowNext, Walk, TypeInv, TypeOK
  <1>32. CASE ThrowSyncEnd
    <2>1. readpos \in 0 .. QLen - 1 /\ writepos \in 0 .. QLen - 1 /\ walk \in Walk
      BY DEF TypeInv, TypeOK
    <2>2. walk'.at = readpos
      BY <1>32, <2>1 DEF ThrowSyncEnd, Walk
    <2>3. Dist(readpos, readpos) <= Dist(readpos, writepos)
      BY <2>1, DistValue, QueueAssumption
    <2> QED
      BY <1>32, <2>1, <2>2, <2>3 DEF ThrowSyncEnd, Dist
  <1>33. CASE ThrowPost
    <2> DEFINE at == walk.at
    <2>1. /\ readpos \in 0 .. QLen - 1 /\ writepos \in 0 .. QLen - 1 /\ walk \in Walk
          /\ at \in 0 .. QLen - 1 /\ Dist(readpos, at) <= Dist(readpos, writepos)
          /\ at # writepos
      BY <1>33 DEF ThrowPost, TypeInv, TypeOK
    <2>2. Dist(readpos, at) < Dist(readpos, writepos) /\ readpos # writepos
      <3> HIDE DEF at
      <3> QED
        BY ONLY <2>1, DistValue, QueueAssumption
    <2>3. CASE Doomed(msg[at].hwnd)
      <3>1. writepos' = (IF writepos > 0 THEN writepos - 1 ELSE QLen - 1)
            /\ readpos' = readpos /\ walk' = walk
        BY <1>33, <2>3 DEF ThrowPost
      <3>2. writepos' \in 0 .. QLen - 1 /\ Dist(readpos, at) <= Dist(readpos, writepos')
        <4> HIDE DEF at
        <4> QED
          BY ONLY <2>1, <2>2, <3>1, DistValue, QueueAssumption
      <3> QED
        BY <1>33, <2>1, <2>2, <3>1, <3>2 DEF ThrowPost, Dist
    <2>4. CASE ~Doomed(msg[at].hwnd)
      <3>1. walk' = [walk EXCEPT !.at = Succ(at)] /\ writepos' = writepos /\ readpos' = readpos
        BY <1>33, <2>4 DEF ThrowPost
      <3>2. walk'.at = Succ(at)
        BY <2>1, <3>1 DEF Walk
      <3>3. Succ(at) \in 0 .. QLen - 1 /\ Dist(readpos, Succ(at)) <= Dist(readpos, writepos)
        <4> HIDE DEF at
        <4> QED
          BY ONLY <2>1, <2>2, DistSucc
      <3> QED
        BY <1>33, <3>1, <3>2, <3>3 DEF ThrowPost, Dist
    <2> QED
      BY <2>3, <2>4
  <1>34. CASE ThrowEnd
    BY <1>34 DEF ThrowEnd
  <1> QED
    BY <1>0, <1>1, <1>2, <1>3, <1>4, <1>5, <1>6, <1>7, <1>8, <1>9, <1>10,
       <1>11, <1>12, <1>13, <1>14, <1>15, <1>16, <1>17, <1>18, <1>19, <1>20,
       <1>21, <1>22, <1>23, <1>24, <1>25, <1>26, <1>27, <1>28, <1>29, <1>30,
       <1>31, <1>32, <1>33, <1>34
    DEF Next, Post, Paint, Notify, Quit, Send, InPostMsgq, InCall, Peek, Idle, Throw

(* A list that is not empty has its flag set, at every step of every       *)
(* reader, writer and of __mg_throw_away_messages: PeekMessageEx never     *)
(* skips a message because a flag is missing.                              *)
THEOREM FlagsCovered == Spec => []FlagsCover
  <1>1. Init => FlagsInv
    BY DEF Init, FlagsInv, FlagsCover, WalkInv
  <1>2. TypeInv /\ FlagsInv /\ [Next]_vars => FlagsInv'
    BY FlagsStep
  <1>3. FlagsInv => FlagsCover
    BY DEF FlagsInv
  <1> QED
    BY <1>1, <1>2, <1>3, InitTypeInv, NextTypeInv, PTL DEF Spec


-----------------------------------------------------------------------------
(* InvalidateRect extends the region before the flag is set, PeekMessageEx *)
(* clears the flag only under a filter that wants MSG_PAINT and when it    *)
(* has seen no region.                                                     *)
LEMMA PaintStep ==
  ASSUME TypeInv, PaintCover, [Next]_vars
  PROVE  PaintCover'
  <1> USE DEF PaintCover, TypeInv, TypeOK, list, syncs, ring, sender, reader
  <1>0. CASE UNCHANGED vars
    BY <1>0 DEF vars
  <1>1. ASSUME NEW t \in AllThreads, NEW p \in Posts, PostMessage(t, p)
        PROVE  PaintCover'
    BY <1>1 DEF PostMessage, Ready, Throwing, Accept, Put, Merge, Refuse, Signal, AllThreads
  <1>2. ASSUME NEW t \in AllThreads, NEW w \in Windows, Invalidate(t, w)
        PROVE  PaintCover'
    BY <1>2 DEF Invalidate, AllThreads
  <1>3. ASSUME NEW t \in Threads, PostPaint(t)
        PROVE  PaintCover'
    BY <1>3 DEF PostPaint, Signal, AllThreads
  <1>4. ASSUME NEW t \in AllThreads, NEW w \in Windows, SendNotifyMessage(t, w)
        PROVE  PaintCover'
    BY <1>4 DEF SendNotifyMessage, Ready, Throwing, Signal, AllThreads
  <1>5. ASSUME NEW t \in AllThreads, NEW w \in Windows, SendPriorNotifyMessage(t, w)
        PROVE  PaintCover'
    BY <1>5 DEF SendPriorNotifyMessage, Ready, Throwing, Signal, AllThreads
  <1>6. ASSUME NEW t \in AllThreads, PostQuitMessage(t)
        PROVE  PaintCover'
    BY <1>6 DEF PostQuitMessage, Ready, Throwing, QuitPending, Signal, AllThreads
  <1>7. ASSUME NEW t \in Threads, NEW w \in Windows, SendSyncMessage(t, w)
        PROVE  PaintCover'
    BY <1>7 DEF SendSyncMessage
  <1>8. ASSUME NEW t \in Threads, SyncEnqueue(t)
        PROVE  PaintCover'
    BY <1>8 DEF SyncEnqueue, Link, Signal, AllThreads
  <1>9. ASSUME NEW t \in AllThreads, SemGetValue(t)
        PROVE  PaintCover'
    BY <1>9 DEF SemGetValue, Posted, AllThreads
  <1>10. ASSUME NEW t \in AllThreads, SemPost(t)
        PROVE  PaintCover'
    BY <1>10 DEF SemPost, Posted, AllThreads
  <1>11. ASSUME NEW t \in Threads, SyncReturn(t)
        PROVE  PaintCover'
    BY <1>11 DEF SyncReturn
  <1>12. ASSUME NEW c \in Calls, Enter(c)
        PROVE  PaintCover'
    BY <1>12 DEF Enter, OwnerAt
  <1>13. CASE PeekQuit
    BY <1>13 DEF PeekQuit, Peeking, OwnerAt, Return
  <1>14. CASE PeekSync
    BY <1>14 DEF PeekSync, Peeking, OwnerAt, Return, Deliver, Unlink, NoMessage, TakeSync, TakeNotify, TakePost, TakePaint, TakeTimer, StaleSync, StaleNotify, StalePost, StalePaint, SyncPending, NotifyPending, PostPending
  <1>15. CASE PeekNotify
    BY <1>15 DEF PeekNotify, Peeking, OwnerAt, Return, Deliver, NoMessage, TakeSync, TakeNotify, TakePost, TakePaint, TakeTimer, StaleSync, StaleNotify, StalePost, StalePaint, SyncPending, NotifyPending, PostPending
  <1>16. CASE PeekPost
    BY <1>16 DEF PeekPost, Peeking, OwnerAt, Return, Deliver, NoMessage, TakeSync, TakeNotify, TakePost, TakePaint, TakeTimer, StaleSync, StaleNotify, StalePost, StalePaint, SyncPending, NotifyPending, PostPending
  <1>17. CASE PeekPaint
    BY <1>17 DEF PeekPaint, Peeking, OwnerAt, Return, Deliver, NoMessage, TakeSync, TakeNotify, TakePost, TakePaint, TakeTimer, StaleSync, StaleNotify, StalePost, StalePaint, SyncPending, NotifyPending, PostPending
  <1>18. CASE PeekTimer
    BY <1>18 DEF PeekTimer, Peeking, OwnerAt, Return, Deliver, NoMessage, TakeSync, TakeNotify, TakePost, TakePaint, TakeTimer, StaleSync, StaleNotify, StalePost, StalePaint, SyncPending, NotifyPending, PostPending
  <1>19. CASE PeekNothing
    BY <1>19 DEF PeekNothing, Peeking, OwnerAt, NoMessage, TakeSync, TakeNotify, TakePost, TakePaint, TakeTimer, StaleSync, StaleNotify, StalePost, StalePaint, SyncPending, NotifyPending, PostPending
  <1>20. CASE Look
    BY <1>20 DEF Look, OwnerAt, Return
  <1>21. CASE TryWait
    BY <1>21 DEF TryWait, OwnerAt, Resume
  <1>22. CASE IdleExpires
    BY <1>22 DEF IdleExpires, OwnerAt, Resume
  <1>23. CASE IdleNothing
    BY <1>23 DEF IdleNothing, OwnerAt, Resume
  <1>24. CASE Broadcast
    BY <1>24 DEF Broadcast, OwnerAt, Resume, Accept, Put, Merge, Refuse
  <1>25. CASE PeekPostMessage(PostMsgs)
    BY <1>25 DEF PeekPostMessage, OwnerAt, PostPending
  <1>26. CASE BeginPaint
    BY <1>26 DEF BeginPaint
  <1>27. CASE DispatchEnd
    BY <1>27 DEF DispatchEnd
  <1>28. ASSUME NEW w \in Windows, ThrowStart(w)
        PROVE  PaintCover'
    BY <1>28 DEF ThrowStart
  <1>29. CASE ThrowNotify
    BY <1>29 DEF ThrowNotify
  <1>30. CASE ThrowSync
    BY <1>30 DEF ThrowSync
  <1>31. CASE ThrowNext
    BY <1>31 DEF ThrowNext
  <1>32. CASE ThrowSyncEnd
    BY <1>32 DEF ThrowSyncEnd
  <1>33. CASE ThrowPost
    BY <1>33 DEF ThrowPost
  <1>34. CASE ThrowEnd
    BY <1>34 DEF ThrowEnd
  <1> QED
    BY <1>0, <1>1, <1>2, <1>3, <1>4, <1>5, <1>6, <1>7, <1>8, <1>9, <1>10,
       <1>11, <1>12, <1>13, <1>14, <1>15, <1>16, <1>17, <1>18, <1>19, <1>20,
       <1>21, <1>22, <1>23, <1>24, <1>25, <1>26, <1>27, <1>28, <1>29, <1>30,
       <1>31, <1>32, <1>33, <1>34
    DEF Next, Post, Paint, Notify, Quit, Send, InPostMsgq, InCall, Peek, Idle, Throw

(* An invalid window is never left without QS_PAINT, unless a thread is    *)
(* about to set it.                                                        *)
THEOREM PaintCovered == Spec => []PaintCover
  <1>1. Init => PaintCover
    BY DEF Init, PaintCover
  <1>2. TypeInv /\ PaintCover /\ [Next]_vars => PaintCover'
    BY PaintStep
  <1> QED
    BY <1>1, <1>2, InitTypeInv, NextTypeInv, PTL DEF Spec

-----------------------------------------------------------------------------
(* What makes the Owner's call return, QS_PAINT counted even when no       *)
(* region is invalid: the flag may be stale now and true later.            *)
Noticed ==
    IF call.api = "PeekMessageEx"
    THEN \/ "QS_QUIT" \in dwState \/ TakeSync \/ TakeNotify \/ TakePost
         \/ "QS_PAINT" \in dwState /\ Wanted("MSG_PAINT")
    ELSE PendingByFlags /\ expired = {}

Waking == wait > 0 \/ \E t \in Threads : tpc[t] \in {"getvalue", "sem_post"}

WakeInv == opc = "trywait" /\ Noticed => Waking


(* Whatever makes the call return once the Owner has looked is followed by *)
(* POST_MSGQ, and only the Owner takes the semaphore back.                 *)
LEMMA WakeStep ==
  ASSUME TypeInv, WakeInv, [Next]_vars
  PROVE  WakeInv'
  <1> USE DEF WakeInv, Waking, Noticed, TakeSync, TakeNotify, TakePost, Wanted, PendingByFlags, SyncPending, NotifyPending, PostPending, TypeInv, TypeOK, list, syncs, ring, sender, reader
  <1>0. CASE UNCHANGED vars
    BY <1>0 DEF vars
  <1>1. ASSUME NEW t \in AllThreads, NEW p \in Posts, PostMessage(t, p)
        PROVE  WakeInv'
    BY <1>1 DEF PostMessage, Ready, Throwing, Accept, Put, Merge, Refuse, Signal, AllThreads
  <1>2. ASSUME NEW t \in AllThreads, NEW w \in Windows, Invalidate(t, w)
        PROVE  WakeInv'
    BY <1>2 DEF Invalidate, Ready, Throwing, AllThreads
  <1>3. ASSUME NEW t \in Threads, PostPaint(t)
        PROVE  WakeInv'
    <2>1. t # Owner /\ t \in AllThreads
      BY QueueAssumption DEF AllThreads
    <2>2. tpc'[t] = "getvalue"
      BY <1>3, <2>1 DEF PostPaint, Signal
    <2>3. Waking'
      BY <2>2 DEF Waking
    <2> QED
      BY <2>3
  <1>4. ASSUME NEW t \in AllThreads, NEW w \in Windows, SendNotifyMessage(t, w)
        PROVE  WakeInv'
    BY <1>4 DEF SendNotifyMessage, Ready, Throwing, Signal, AllThreads
  <1>5. ASSUME NEW t \in AllThreads, NEW w \in Windows, SendPriorNotifyMessage(t, w)
        PROVE  WakeInv'
    BY <1>5 DEF SendPriorNotifyMessage, Ready, Throwing, Signal, AllThreads
  <1>6. ASSUME NEW t \in AllThreads, PostQuitMessage(t)
        PROVE  WakeInv'
    BY <1>6 DEF PostQuitMessage, Ready, Throwing, QuitPending, Signal, AllThreads
  <1>7. ASSUME NEW t \in Threads, NEW w \in Windows, SendSyncMessage(t, w)
        PROVE  WakeInv'
    BY <1>7 DEF SendSyncMessage
  <1>8. ASSUME NEW t \in Threads, SyncEnqueue(t)
        PROVE  WakeInv'
    <2>1. t # Owner /\ t \in AllThreads
      BY QueueAssumption DEF AllThreads
    <2>2. tpc'[t] = "getvalue"
      BY <1>8, <2>1 DEF SyncEnqueue, Signal
    <2>3. Waking'
      BY <2>2 DEF Waking
    <2> QED
      BY <2>3
  <1>9. ASSUME NEW t \in AllThreads, SemGetValue(t)
        PROVE  WakeInv'
    BY <1>9 DEF SemGetValue, Posted, AllThreads
  <1>10. ASSUME NEW t \in AllThreads, SemPost(t)
        PROVE  WakeInv'
    BY <1>10 DEF SemPost, Posted, AllThreads
  <1>11. ASSUME NEW t \in Threads, SyncReturn(t)
        PROVE  WakeInv'
    BY <1>11 DEF SyncReturn
  <1>12. ASSUME NEW c \in Calls, Enter(c)
        PROVE  WakeInv'
    BY <1>12 DEF Enter, OwnerAt
  <1>13. CASE PeekQuit
    BY <1>13 DEF PeekQuit, Peeking, OwnerAt, Return
  <1>14. CASE PeekSync
    BY <1>14 DEF PeekSync, Peeking, OwnerAt, Return, Deliver, Unlink, NoMessage, TakeSync, TakeNotify, TakePost, TakePaint, TakeTimer, StaleSync, StaleNotify, StalePost, StalePaint, SyncPending, NotifyPending, PostPending
  <1>15. CASE PeekNotify
    BY <1>15 DEF PeekNotify, Peeking, OwnerAt, Return, Deliver, NoMessage, TakeSync, TakeNotify, TakePost, TakePaint, TakeTimer, StaleSync, StaleNotify, StalePost, StalePaint, SyncPending, NotifyPending, PostPending
  <1>16. CASE PeekPost
    BY <1>16 DEF PeekPost, Peeking, OwnerAt, Return, Deliver, NoMessage, TakeSync, TakeNotify, TakePost, TakePaint, TakeTimer, StaleSync, StaleNotify, StalePost, StalePaint, SyncPending, NotifyPending, PostPending
  <1>17. CASE PeekPaint
    BY <1>17 DEF PeekPaint, Peeking, OwnerAt, Return, Deliver, NoMessage, TakeSync, TakeNotify, TakePost, TakePaint, TakeTimer, StaleSync, StaleNotify, StalePost, StalePaint, SyncPending, NotifyPending, PostPending
  <1>18. CASE PeekTimer
    BY <1>18 DEF PeekTimer, Peeking, OwnerAt, Return, Deliver, NoMessage, TakeSync, TakeNotify, TakePost, TakePaint, TakeTimer, StaleSync, StaleNotify, StalePost, StalePaint, SyncPending, NotifyPending, PostPending
  <1>19. CASE PeekNothing
    BY <1>19 DEF PeekNothing, Peeking, OwnerAt, NoMessage, TakeSync, TakeNotify, TakePost, TakePaint, TakeTimer, StaleSync, StaleNotify, StalePost, StalePaint, SyncPending, NotifyPending, PostPending
  <1>20. CASE Look
    BY <1>20 DEF Look, OwnerAt, Return
  <1>21. CASE TryWait
    BY <1>21 DEF TryWait, OwnerAt, Resume
  <1>22. CASE IdleExpires
    BY <1>22 DEF IdleExpires, OwnerAt, Resume
  <1>23. CASE IdleNothing
    BY <1>23 DEF IdleNothing, OwnerAt, Resume
  <1>24. CASE Broadcast
    BY <1>24 DEF Broadcast, OwnerAt, Resume, Accept, Put, Merge, Refuse
  <1>25. CASE PeekPostMessage(PostMsgs)
    BY <1>25 DEF PeekPostMessage, OwnerAt, PostPending
  <1>26. CASE BeginPaint
    BY <1>26 DEF BeginPaint
  <1>27. CASE DispatchEnd
    BY <1>27 DEF DispatchEnd
  <1>28. ASSUME NEW w \in Windows, ThrowStart(w)
        PROVE  WakeInv'
    BY <1>28 DEF ThrowStart
  <1>29. CASE ThrowNotify
    BY <1>29 DEF ThrowNotify
  <1>30. CASE ThrowSync
    BY <1>30 DEF ThrowSync
  <1>31. CASE ThrowNext
    BY <1>31 DEF ThrowNext
  <1>32. CASE ThrowSyncEnd
    BY <1>32 DEF ThrowSyncEnd
  <1>33. CASE ThrowPost
    BY <1>33 DEF ThrowPost
  <1>34. CASE ThrowEnd
    BY <1>34 DEF ThrowEnd
  <1> QED
    BY <1>0, <1>1, <1>2, <1>3, <1>4, <1>5, <1>6, <1>7, <1>8, <1>9, <1>10,
       <1>11, <1>12, <1>13, <1>14, <1>15, <1>16, <1>17, <1>18, <1>19, <1>20,
       <1>21, <1>22, <1>23, <1>24, <1>25, <1>26, <1>27, <1>28, <1>29, <1>30,
       <1>31, <1>32, <1>33, <1>34
    DEF Next, Post, Paint, Notify, Quit, Send, InPostMsgq, InCall, Peek, Idle, Throw

(* A message that arrives after the Owner has looked wakes it up: the      *)
(* count of the semaphore, or a thread about to post it, is never lost     *)
(* although POST_MSGQ runs after the unlock and posts only at zero.        *)
THEOREM WakeupKept == Spec => []NoLostWakeup
  <1>1. Init => WakeInv
    BY DEF Init, WakeInv
  <1>2. TypeInv /\ WakeInv /\ [Next]_vars => WakeInv'
    BY WakeStep
  <1>3. WakeInv => NoLostWakeup
    BY DEF WakeInv, Noticed, Waking, NoLostWakeup, Visible, TakePaint
  <1> QED
    BY <1>1, <1>2, <1>3, InitTypeInv, NextTypeInv, PTL DEF Spec

-----------------------------------------------------------------------------
(* The ring read from r up to w as a sequence, and where its i-th message  *)
(* is.                                                                     *)
Pos(r, i)     == (r + (i - 1)) % QLen
Ring(m, r, w) == [i \in 1 .. Dist(r, w) |-> m[Pos(r, i)]]

(* The ring has room for a message.                                        *)
LEMMA RingLength == QLen \in Nat /\ QLen >= 2
  BY QueueAssumption

(* An interval from 1 shows its length.                                    *)
LEMMA SameLength == \A a, b \in Nat : 1 .. a = 1 .. b => a = b
  <1> SUFFICES ASSUME NEW a \in Nat, NEW b \in Nat, 1 .. a = 1 .. b
               PROVE  a = b
    OBVIOUS
  <1>1. /\ a > 0 => a \in 1 .. b
        /\ b > 0 => b \in 1 .. a
    OBVIOUS
  <1> QED
    BY <1>1

(* The i-th position from r, by cases.                                     *)
LEMMA PosValue ==
  \A r \in 0 .. QLen - 1, i \in 1 .. QLen :
     /\ Pos(r, i) = IF r + (i - 1) < QLen THEN r + (i - 1) ELSE r + (i - 1) - QLen
     /\ Pos(r, i) \in 0 .. QLen - 1
  BY RingLength DEF Pos

(* Two places of the sequence are two positions of the ring.               *)
LEMMA PosApart ==
  \A r \in 0 .. QLen - 1 : \A i, j \in 1 .. QLen : Pos(r, i) = Pos(r, j) => i = j
  <1> SUFFICES ASSUME NEW r \in 0 .. QLen - 1, NEW i \in 1 .. QLen, NEW j \in 1 .. QLen,
                      Pos(r, i) = Pos(r, j)
               PROVE  i = j
    OBVIOUS
  <1>1. /\ Pos(r, i) = IF r + (i - 1) < QLen THEN r + (i - 1) ELSE r + (i - 1) - QLen
        /\ Pos(r, j) = IF r + (j - 1) < QLen THEN r + (j - 1) ELSE r + (j - 1) - QLen
    BY PosValue
  <1>2. PICK a \in Int, b \in Int : a = i - 1 /\ b = j - 1
    OBVIOUS
  <1>3. (IF r + a < QLen THEN r + a ELSE r + a - QLen) = IF r + b < QLen THEN r + b ELSE r + b - QLen
    BY <1>1, <1>2
  <1>4. a \in 0 .. QLen - 1 /\ b \in 0 .. QLen - 1
    BY <1>2, RingLength
  <1>5. a = b
    BY ONLY <1>3, <1>4, RingLength, r \in 0 .. QLen - 1
  <1> QED
    BY <1>2, <1>5

(* The ring as a sequence.                                                 *)
LEMMA RingSeq ==
  ASSUME NEW m \in [0 .. QLen - 1 -> Msg],
         NEW r \in 0 .. QLen - 1, NEW w \in 0 .. QLen - 1
  PROVE  /\ Dist(r, w) \in 0 .. QLen - 1
         /\ Ring(m, r, w) \in Seq(Msg)
         /\ Len(Ring(m, r, w)) = Dist(r, w)
         /\ \A i \in 1 .. Dist(r, w) : Ring(m, r, w)[i] = m[Pos(r, i)]
  <1>1. Dist(r, w) \in 0 .. QLen - 1
    <2>1. Dist(r, w) = IF r <= w THEN w - r ELSE w - r + QLen
      BY DistValue
    <2>2. QED
      BY <2>1, RingLength
  <1>2. PICK n \in Nat : n = Dist(r, w) /\ n <= QLen - 1
    BY <1>1, RingLength
  <1>3. \A i \in 1 .. n : m[Pos(r, i)] \in Msg
    <2>1. \A i \in 1 .. n : i \in 1 .. QLen
      BY <1>2, RingLength
    <2>2. QED
      BY <2>1, PosValue
  <1>4. Ring(m, r, w) \in [1 .. n -> Msg] /\ \A i \in 1 .. n : Ring(m, r, w)[i] = m[Pos(r, i)]
    BY <1>2, <1>3 DEF Ring
  <1>5. PICK q : q = Ring(m, r, w)
    OBVIOUS
  <1>6. q \in Seq(Msg)
    BY <1>4, <1>5, SeqDef
  <1>7. Len(q) = n
    <2>1. Len(q) \in Nat /\ DOMAIN q = 1 .. Len(q)
      BY <1>6, LenProperties
    <2>2. DOMAIN q = 1 .. n
      BY <1>4, <1>5
    <2>3. QED
      BY <2>1, <2>2, SameLength
  <1>8. QED
    BY <1>1, <1>2, <1>4, <1>5, <1>6, <1>7

(* The ring holds the messages of a sequence.                              *)
Holds(m, r, w, q) ==
    Len(q) = Dist(r, w) /\ \A i \in 1 .. Dist(r, w) : m[Pos(r, i)] = q[i]

(* Then it is that sequence.                                               *)
LEMMA RingEqual ==
  ASSUME NEW m \in [0 .. QLen - 1 -> Msg], NEW r \in 0 .. QLen - 1, NEW w \in 0 .. QLen - 1,
         NEW q \in Seq(Msg), Holds(m, r, w, q)
  PROVE  Ring(m, r, w) = q
  <1>1. PICK s \in Seq(Msg) : s = Ring(m, r, w)
    BY RingSeq
  <1>2. Len(s) = Len(q) /\ \A i \in 1 .. Len(s) : s[i] = q[i]
    <2>1. Len(s) = Dist(r, w) /\ \A i \in 1 .. Dist(r, w) : s[i] = m[Pos(r, i)]
      BY <1>1, RingSeq
    <2>2. QED
      BY <2>1 DEF Holds
  <1>3. s = q
    BY <1>2, SeqEqual
  <1>4. QED
    BY <1>1, <1>3

(* A ring that is not full.                                                *)
LEMMA RoomLeft ==
  \A r, w \in 0 .. QLen - 1 :
     Succ(w) # r => /\ Dist(r, w) < QLen - 1
                    /\ Dist(r, Succ(w)) = Dist(r, w) + 1
                    /\ Succ(w) \in 0 .. QLen - 1
                    /\ Pos(r, Dist(r, w) + 1) = w
  <1> SUFFICES ASSUME NEW r \in 0 .. QLen - 1, NEW w \in 0 .. QLen - 1, Succ(w) # r
               PROVE  /\ Dist(r, w) < QLen - 1
                      /\ Dist(r, Succ(w)) = Dist(r, w) + 1
                      /\ Succ(w) \in 0 .. QLen - 1
                      /\ Pos(r, Dist(r, w) + 1) = w
    OBVIOUS
  <1>1. PICK s : s = Succ(w)
    OBVIOUS
  <1>2. s = (IF w = QLen - 1 THEN 0 ELSE w + 1) /\ s \in 0 .. QLen - 1 /\ s # r
    BY <1>1, SuccValue, RingLength
  <1>3. /\ Dist(r, w) = IF r <= w THEN w - r ELSE w - r + QLen
        /\ Dist(r, s) = IF r <= s THEN s - r ELSE s - r + QLen
    BY <1>2, DistValue
  <1>4. Dist(r, w) < QLen - 1 /\ Dist(r, s) = Dist(r, w) + 1
    BY <1>2, <1>3, RingLength
  <1>5. Dist(r, w) + 1 \in 1 .. QLen
    BY <1>3, <1>4, RingLength
  <1>6. PICK d : d = Dist(r, w) + 1
    OBVIOUS
  <1>7. Pos(r, d) = IF r + (d - 1) < QLen THEN r + (d - 1) ELSE r + (d - 1) - QLen
    BY <1>5, <1>6, PosValue
  <1>8. Pos(r, d) = w
    BY <1>3, <1>6, <1>7, RingLength
  <1>9. QED
    BY <1>1, <1>2, <1>4, <1>6, <1>8

(* A message written behind the last is appended.                          *)
LEMMA RingPut ==
  ASSUME NEW m \in [0 .. QLen - 1 -> Msg], NEW x \in Msg,
         NEW r \in 0 .. QLen - 1, NEW w \in 0 .. QLen - 1, Succ(w) # r
  PROVE  Ring([m EXCEPT ![w] = x], r, Succ(w)) = Append(Ring(m, r, w), x)
  <1>1. /\ Dist(r, w) < QLen - 1 /\ Dist(r, Succ(w)) = Dist(r, w) + 1
        /\ Succ(w) \in 0 .. QLen - 1 /\ Pos(r, Dist(r, w) + 1) = w
    BY RoomLeft
  <1>2. PICK s \in 0 .. QLen - 1 : s = Succ(w)
    BY <1>1
  <1>3. PICK n \in Nat : n = Dist(r, w) /\ n < QLen - 1
    <2>1. Dist(r, w) \in 0 .. QLen - 1
      BY RingSeq
    <2>2. QED
      BY <1>1, <2>1, RingLength
  <1>4. PICK k : k = [m EXCEPT ![w] = x]
    OBVIOUS
  <1>5. k \in [0 .. QLen - 1 -> Msg] /\ \A i \in 0 .. QLen - 1 : k[i] = IF i = w THEN x ELSE m[i]
    BY <1>4
  <1>6. PICK q \in Seq(Msg) : q = Ring(m, r, w)
    BY RingSeq
  <1>7. Len(q) = n /\ \A i \in 1 .. n : q[i] = m[Pos(r, i)]
    BY <1>3, <1>6, RingSeq
  <1>8. PICK a : a = Append(q, x)
    OBVIOUS
  <1>9. a \in Seq(Msg) /\ Len(a) = n + 1 /\ (\A i \in 1 .. n : a[i] = q[i]) /\ a[n + 1] = x
    BY <1>7, <1>8, AppendProperties
  <1>10. ASSUME NEW i \in 1 .. n + 1 PROVE k[Pos(r, i)] = a[i]
    <2>1. i \in 1 .. QLen /\ n + 1 \in 1 .. QLen
      BY <1>3, RingLength
    <2>2. CASE i = n + 1
      BY <1>1, <1>3, <1>5, <1>9, <2>2
    <2>3. CASE i # n + 1
      <3>1. i \in 1 .. n
        BY <2>3
      <3>2. Pos(r, i) # w /\ Pos(r, i) \in 0 .. QLen - 1
        BY <1>1, <1>3, <2>1, <2>3, PosApart, PosValue
      <3>3. QED
        BY <1>5, <1>7, <1>9, <3>1, <3>2
    <2>4. QED
      BY <2>2, <2>3
  <1>11. Ring(k, r, s) = a
    <2>1. Dist(r, s) = n + 1
      BY <1>1, <1>2, <1>3
    <2>2. Holds(k, r, s, a)
      BY <1>9, <1>10, <2>1 DEF Holds
    <2>3. QED
      BY <1>5, <1>9, <2>2, RingEqual
  <1>12. QED
    BY <1>2, <1>4, <1>6, <1>8, <1>11

(* Reading the first message leaves the rest.                              *)
LEMMA RingTake ==
  ASSUME NEW m \in [0 .. QLen - 1 -> Msg],
         NEW r \in 0 .. QLen - 1, NEW w \in 0 .. QLen - 1, r # w
  PROVE  /\ Ring(m, r, w) # << >>
         /\ Ring(m, Succ(r), w) = Tail(Ring(m, r, w))
  <1>1. PICK s \in 0 .. QLen - 1 : s = Succ(r)
    BY SuccValue, RingLength
  <1>2. PICK n \in Nat : n = Dist(r, w) /\ n <= QLen - 1
    <2>1. Dist(r, w) \in 0 .. QLen - 1
      BY RingSeq
    <2>2. QED
      BY <2>1, RingLength
  <1>3. n > 0 /\ Dist(s, w) = n - 1
    <2>1. s = IF r = QLen - 1 THEN 0 ELSE r + 1
      BY <1>1, SuccValue
    <2>2. /\ n = IF r <= w THEN w - r ELSE w - r + QLen
          /\ Dist(s, w) = IF s <= w THEN w - s ELSE w - s + QLen
      BY <1>2, DistValue
    <2>3. QED
      BY <2>1, <2>2, RingLength
  <1>4. PICK q \in Seq(Msg) : q = Ring(m, r, w)
    BY RingSeq
  <1>5. Len(q) = n /\ \A i \in 1 .. n : q[i] = m[Pos(r, i)]
    BY <1>2, <1>4, RingSeq
  <1>6. q # << >>
    BY <1>3, <1>5, EmptySeq
  <1>7. PICK t : t = Tail(q)
    OBVIOUS
  <1>8. t \in Seq(Msg) /\ Len(t) = n - 1 /\ \A i \in 1 .. n - 1 : t[i] = q[i + 1]
    BY <1>5, <1>6, <1>7, HeadTailProperties
  <1>9. ASSUME NEW i \in 1 .. n - 1 PROVE m[Pos(s, i)] = t[i]
    <2>1. i \in 1 .. QLen /\ i + 1 \in 1 .. QLen /\ i + 1 \in 1 .. n
      BY <1>2, RingLength
    <2>2. s = IF r = QLen - 1 THEN 0 ELSE r + 1
      BY <1>1, SuccValue
    <2>3. /\ Pos(s, i) = IF s + (i - 1) < QLen THEN s + (i - 1) ELSE s + (i - 1) - QLen
          /\ Pos(r, i + 1) = IF r + i < QLen THEN r + i ELSE r + i - QLen
      <3>1. (i + 1) - 1 = i
        OBVIOUS
      <3>2. QED
        BY <2>1, <3>1, PosValue
    <2>4. Pos(s, i) = Pos(r, i + 1)
      BY <2>2, <2>3, RingLength
    <2>5. QED
      BY <1>5, <1>8, <2>1, <2>4
  <1>10. Ring(m, s, w) = t
    <2>1. Holds(m, s, w, t)
      BY <1>3, <1>8, <1>9 DEF Holds
    <2>2. QED
      BY <1>8, <2>1, RingEqual
  <1>11. QED
    BY <1>1, <1>4, <1>6, <1>7, <1>10

(* x in the place of the i-th.                                             *)
Written(f, i, x) == [f EXCEPT ![i] = x]

(* A message written over the j-th takes its place.                        *)
LEMMA RingMerge ==
  ASSUME NEW m \in [0 .. QLen - 1 -> Msg], NEW x \in Msg,
         NEW r \in 0 .. QLen - 1, NEW w \in 0 .. QLen - 1,
         NEW j \in 1 .. Dist(r, w), NEW p \in 0 .. QLen - 1, p = Pos(r, j)
  PROVE  Ring(Written(m, p, x), r, w) = Written(Ring(m, r, w), j, x)
  <1>1. PICK n \in Nat : n = Dist(r, w) /\ n <= QLen - 1
    <2>1. Dist(r, w) \in 0 .. QLen - 1
      BY RingSeq
    <2>2. QED
      BY <2>1, RingLength
  <1>3. PICK k : k = [m EXCEPT ![p] = x]
    OBVIOUS
  <1>4. k \in [0 .. QLen - 1 -> Msg] /\ \A i \in 0 .. QLen - 1 : k[i] = IF i = p THEN x ELSE m[i]
    BY <1>3
  <1>5. PICK q \in Seq(Msg) : q = Ring(m, r, w)
    BY RingSeq
  <1>6. Len(q) = n /\ \A i \in 1 .. n : q[i] = m[Pos(r, i)]
    <2>1. Len(Ring(m, r, w)) = Dist(r, w) /\ \A i \in 1 .. Dist(r, w) : Ring(m, r, w)[i] = m[Pos(r, i)]
      BY RingSeq
    <2>2. QED
      BY <1>1, <1>5, <2>1
  <1>7. PICK a : a = [q EXCEPT ![j] = x]
    OBVIOUS
  <1>8. a \in Seq(Msg) /\ Len(a) = n /\ \A i \in 1 .. n : a[i] = IF i = j THEN x ELSE q[i]
    BY <1>1, <1>6, <1>7, ExceptSeq
  <1>9. ASSUME NEW i \in 1 .. n PROVE k[Pos(r, i)] = a[i]
    <2>0. i \in 1 .. QLen /\ j \in 1 .. QLen
      BY <1>1, RingLength
    <2>1. i \in 1 .. QLen /\ j \in 1 .. QLen /\ Pos(r, i) \in 0 .. QLen - 1
      BY <2>0, PosValue
    <2>2. Pos(r, i) = p <=> i = j
      BY <2>1, PosApart
    <2>3. QED
      BY <1>4, <1>6, <1>8, <2>1, <2>2
  <1>10. Ring(k, r, w) = a
    <2>1. Holds(k, r, w, a)
      BY <1>1, <1>8, <1>9 DEF Holds
    <2>2. QED
      BY <1>4, <1>8, <2>1, RingEqual
  <1>11. QED
    BY <1>3, <1>5, <1>7, <1>10 DEF Written

(* The position behind the last message of the ring.                       *)
LEMMA EndPos ==
  \A r, w \in 0 .. QLen - 1 : Dist(r, w) + 1 \in 1 .. QLen /\ Pos(r, Dist(r, w) + 1) = w
  <1> SUFFICES ASSUME NEW r \in 0 .. QLen - 1, NEW w \in 0 .. QLen - 1
               PROVE  Dist(r, w) + 1 \in 1 .. QLen /\ Pos(r, Dist(r, w) + 1) = w
    OBVIOUS
  <1>1. PICK n : n = Dist(r, w)
    OBVIOUS
  <1>2. n = IF r <= w THEN w - r ELSE w - r + QLen
    BY <1>1, DistValue
  <1>3. n \in Nat /\ n + 1 \in 1 .. QLen
    BY <1>2, RingLength
  <1>4. PICK d : d = n + 1
    OBVIOUS
  <1>5. Pos(r, d) = IF r + (d - 1) < QLen THEN r + (d - 1) ELSE r + (d - 1) - QLen
    BY <1>3, <1>4, PosValue
  <1>6. Pos(r, d) = w
    BY <1>2, <1>3, <1>4, <1>5, RingLength
  <1> QED
    BY <1>1, <1>3, <1>4, <1>6

(* One step of the ring is the next place of the sequence.                 *)
LEMMA SuccPos ==
  \A r \in 0 .. QLen - 1 : \A i \in 1 .. QLen - 1 : Succ(Pos(r, i)) = Pos(r, i + 1)
  <1> SUFFICES ASSUME NEW r \in 0 .. QLen - 1, NEW i \in 1 .. QLen - 1
               PROVE  Succ(Pos(r, i)) = Pos(r, i + 1)
    OBVIOUS
  <1>1. PICK d : d = i + 1
    OBVIOUS
  <1>2. PICK p : p = Pos(r, i)
    OBVIOUS
  <1>3. i \in 1 .. QLen /\ d \in 1 .. QLen
    BY <1>1, RingLength
  <1>4. /\ p = IF r + (i - 1) < QLen THEN r + (i - 1) ELSE r + (i - 1) - QLen
        /\ p \in 0 .. QLen - 1
        /\ Pos(r, d) = IF r + (d - 1) < QLen THEN r + (d - 1) ELSE r + (d - 1) - QLen
    BY <1>2, <1>3, PosValue
  <1>5. Succ(p) = IF p = QLen - 1 THEN 0 ELSE p + 1
    BY <1>4, SuccValue
  <1>6. Succ(p) = Pos(r, d)
    BY <1>1, <1>4, <1>5, RingLength
  <1> QED
    BY <1>1, <1>2, <1>6

(* The distance between two places.                                        *)
LEMMA DistPos ==
  \A r \in 0 .. QLen - 1 : \A i, j \in 1 .. QLen :
     Dist(Pos(r, j), Pos(r, i)) = IF j <= i THEN i - j ELSE QLen - (j - i)
  <1> SUFFICES ASSUME NEW r \in 0 .. QLen - 1, NEW i \in 1 .. QLen, NEW j \in 1 .. QLen
               PROVE  Dist(Pos(r, j), Pos(r, i)) = IF j <= i THEN i - j ELSE QLen - (j - i)
    OBVIOUS
  <1>1. PICK p : p = Pos(r, j)
    OBVIOUS
  <1>2. PICK s : s = Pos(r, i)
    OBVIOUS
  <1>3. /\ p = IF r + (j - 1) < QLen THEN r + (j - 1) ELSE r + (j - 1) - QLen
        /\ s = IF r + (i - 1) < QLen THEN r + (i - 1) ELSE r + (i - 1) - QLen
        /\ p \in 0 .. QLen - 1 /\ s \in 0 .. QLen - 1
    BY <1>1, <1>2, PosValue
  <1>4. Dist(p, s) = IF p <= s THEN s - p ELSE s - p + QLen
    BY <1>3, DistValue
  <1>5. Dist(p, s) = IF j <= i THEN i - j ELSE QLen - (j - i)
    BY <1>3, <1>4, RingLength
  <1> QED
    BY <1>1, <1>2, <1>5

(* What is left of a sequence when its j-th element is taken out.          *)
LEMMA WithoutElements ==
  ASSUME NEW S, NEW q \in Seq(S), NEW j \in 1 .. Len(q)
  PROVE  /\ Without(q, j) \in Seq(S) /\ Len(Without(q, j)) = Len(q) - 1
         /\ \A i \in 1 .. Len(q) - 1 : Without(q, j)[i] = IF i < j THEN q[i] ELSE q[i + 1]
  <1>0. PICK n \in Nat : n = Len(q) /\ j \in 1 .. n
    BY LenProperties
  <1>1. PICK s, t : s = SubSeq(q, 1, j - 1) /\ t = SubSeq(q, j + 1, n)
    OBVIOUS
  <1>2. \A i \in 1 .. n : q[i] \in S
    BY <1>0, ElementOfSeq
  <1>3. s \in Seq(S) /\ Len(s) = j - 1 /\ \A i \in 1 .. j - 1 : s[i] = q[i]
    <2>1. \A i \in 1 .. j - 1 : q[i] \in S
      BY <1>0, <1>2
    <2>2. /\ s \in Seq(S) /\ Len(s) = IF 1 <= j - 1 THEN (j - 1) - 1 + 1 ELSE 0
          /\ \A i \in 1 .. (j - 1) - 1 + 1 : s[i] = q[1 + i - 1]
      BY <1>1, <2>1, SubSeqProperties
    <2>3. \A i \in 1 .. j - 1 : i \in 1 .. (j - 1) - 1 + 1 /\ 1 + i - 1 = i
      OBVIOUS
    <2>4. (IF 1 <= j - 1 THEN (j - 1) - 1 + 1 ELSE 0) = j - 1
      BY <1>0
    <2>5. QED
      BY <2>2, <2>3, <2>4
  <1>4. t \in Seq(S) /\ Len(t) = n - j /\ \A i \in 1 .. n - j : t[i] = q[i + j]
    <2>1. \A i \in j + 1 .. n : q[i] \in S
      BY <1>0, <1>2
    <2>2. /\ t \in Seq(S) /\ Len(t) = IF j + 1 <= n THEN n - (j + 1) + 1 ELSE 0
          /\ \A i \in 1 .. n - (j + 1) + 1 : t[i] = q[(j + 1) + i - 1]
      BY <1>1, <2>1, SubSeqProperties
    <2>3. \A i \in 1 .. n - j : i \in 1 .. n - (j + 1) + 1 /\ (j + 1) + i - 1 = i + j
      BY <1>0
    <2>4. (IF j + 1 <= n THEN n - (j + 1) + 1 ELSE 0) = n - j
      BY <1>0
    <2>5. QED
      BY <2>2, <2>3, <2>4
  <1>5. PICK a : a = Without(q, j)
    OBVIOUS
  <1>10. a = s \o t
    BY <1>0, <1>1, <1>5 DEF Without
  <1>6. /\ a \in Seq(S) /\ Len(a) = (j - 1) + (n - j)
        /\ \A i \in 1 .. (j - 1) + (n - j) : a[i] = IF i <= j - 1 THEN s[i] ELSE t[i - (j - 1)]
    <2>1. /\ s \o t \in Seq(S) /\ Len(s \o t) = Len(s) + Len(t)
          /\ \A i \in 1 .. Len(s) + Len(t) :
                (s \o t)[i] = IF i <= Len(s) THEN s[i] ELSE t[i - Len(s)]
      BY <1>3, <1>4, ConcatProperties
    <2>2. Len(s) = j - 1 /\ Len(t) = n - j
      BY <1>3, <1>4
    <2>3. QED
      BY <1>10, <2>1, <2>2
  <1>7. ASSUME NEW i \in 1 .. n - 1 PROVE a[i] = IF i < j THEN q[i] ELSE q[i + 1]
    <2>1. i \in 1 .. (j - 1) + (n - j)
      BY <1>0
    <2>2. CASE i < j
      <3>1. i <= j - 1 /\ i \in 1 .. j - 1
        BY <1>0, <2>2
      <3>2. QED
        BY <1>3, <1>6, <2>1, <2>2, <3>1
    <2>3. CASE ~(i < j)
      <3>1. /\ ~(i <= j - 1) /\ i - (j - 1) \in 1 .. n - j
            /\ (i - (j - 1)) + j = i + 1
        BY <1>0, <2>3
      <3>2. a[i] = t[i - (j - 1)]
        BY <1>6, <2>1, <3>1
      <3>3. QED
        BY <1>4, <2>3, <3>1, <3>2
    <2>4. QED
      BY <2>2, <2>3
  <1>8. (j - 1) + (n - j) = n - 1
    BY <1>0
  <1>9. QED
    BY <1>0, <1>5, <1>6, <1>7, <1>8

(* __mg_throw_away_messages overwrites the message at p by its successors. *)
Before(w)       == IF w > 0 THEN w - 1 ELSE QLen - 1
Closed(m, w, p) ==
    [i \in 0 .. QLen - 1 |->
        IF Dist(p, i) < Dist(p, w) - 1 THEN m[Succ(i)]
        ELSE IF i = p THEN [m[p] EXCEPT !.hwnd = NoWindow] ELSE m[i]]

(* The ring is a ring of messages after it.                                *)
LEMMA ClosedMsg ==
  ASSUME NEW m \in [0 .. QLen - 1 -> Msg], NEW w, NEW p \in 0 .. QLen - 1
  PROVE  Closed(m, w, p) \in [0 .. QLen - 1 -> Msg]
  <1>1. PICK x \in Msg : x = [m[p] EXCEPT !.hwnd = NoWindow]
    <2>1. m[p] \in Msg
      OBVIOUS
    <2>2. QED
      BY <2>1 DEF Msg
  <1>2. \A i \in 0 .. QLen - 1 : m[Succ(i)] \in Msg /\ m[i] \in Msg
    BY SuccType
  <1> QED
    BY <1>1, <1>2 DEF Closed

(* Closing the gap of the j-th message takes it out.                       *)
LEMMA RingDrop ==
  ASSUME NEW m \in [0 .. QLen - 1 -> Msg],
         NEW r \in 0 .. QLen - 1, NEW w \in 0 .. QLen - 1, NEW j \in 1 .. Dist(r, w)
  PROVE  /\ Before(w) \in 0 .. QLen - 1
         /\ Ring(Closed(m, w, Pos(r, j)), r, Before(w)) = Without(Ring(m, r, w), j)
  <1>1. PICK n \in Nat : n = Dist(r, w) /\ n <= QLen - 1
    <2>1. Dist(r, w) \in 0 .. QLen - 1
      BY RingSeq
    <2>2. QED
      BY <2>1, RingLength
  <1>2. j \in 1 .. n /\ j \in 1 .. QLen /\ n + 1 \in 1 .. QLen /\ j <= n + 1 /\ n \in 1 .. QLen
    BY <1>1, RingLength
  <1>3. PICK p \in 0 .. QLen - 1 : p = Pos(r, j)
    BY <1>2, PosValue
  <1>4. w = Pos(r, n + 1)
    BY <1>1, EndPos
  <1>5. Dist(p, w) = (n + 1) - j
    BY <1>2, <1>3, <1>4, DistPos
  <1>6. PICK v \in 0 .. QLen - 1 : v = Before(w)
    BY RingLength DEF Before
  <1>7. Dist(r, v) = n - 1
    <2>1. n = IF r <= w THEN w - r ELSE w - r + QLen
      BY <1>1, DistValue
    <2>2. Dist(r, v) = IF r <= v THEN v - r ELSE v - r + QLen
      BY DistValue
    <2>3. v = IF w > 0 THEN w - 1 ELSE QLen - 1
      BY <1>6 DEF Before
    <2>4. QED
      BY <1>2, <2>1, <2>2, <2>3, RingLength
  <1>8. PICK k : k = Closed(m, w, p)
    OBVIOUS
  <1>9. k \in [0 .. QLen - 1 -> Msg]
    BY <1>8, ClosedMsg
  <1>10. PICK q \in Seq(Msg) : q = Ring(m, r, w)
    BY RingSeq
  <1>11. Len(q) = n /\ \A i \in 1 .. n : q[i] = m[Pos(r, i)]
    <2>1. Len(Ring(m, r, w)) = Dist(r, w) /\ \A i \in 1 .. Dist(r, w) : Ring(m, r, w)[i] = m[Pos(r, i)]
      BY RingSeq
    <2>2. QED
      BY <1>1, <1>10, <2>1
  <1>12. PICK a : a = Without(q, j)
    OBVIOUS
  <1>13. /\ a \in Seq(Msg) /\ Len(a) = n - 1
         /\ \A i \in 1 .. n - 1 : a[i] = IF i < j THEN q[i] ELSE q[i + 1]
    BY <1>2, <1>11, <1>12, WithoutElements
  <1>14. ASSUME NEW i \in 1 .. n - 1 PROVE k[Pos(r, i)] = a[i]
    <2>1. i \in 1 .. n /\ i \in 1 .. QLen /\ i \in 1 .. QLen - 1 /\ i + 1 \in 1 .. n
      BY <1>1, RingLength
    <2>2. PICK s \in 0 .. QLen - 1 : s = Pos(r, i)
      BY <2>1, PosValue
    <2>3. Dist(p, s) = IF j <= i THEN i - j ELSE QLen - (j - i)
      BY <1>2, <1>3, <2>1, <2>2, DistPos
    <2>4. k[s] = IF Dist(p, s) < Dist(p, w) - 1 THEN m[Succ(s)]
                 ELSE IF s = p THEN [m[p] EXCEPT !.hwnd = NoWindow] ELSE m[s]
      BY <1>8 DEF Closed
    <2>5. CASE i < j
      <3>1. ~(Dist(p, s) < Dist(p, w) - 1)
        BY <1>1, <1>2, <1>5, <2>1, <2>3, <2>5, RingLength
      <3>2. s # p
        BY <1>2, <1>3, <2>1, <2>2, <2>5, PosApart
      <3>3. QED
        BY <1>11, <1>13, <2>1, <2>2, <2>4, <2>5, <3>1, <3>2
    <2>6. CASE ~(i < j)
      <3>1. Dist(p, s) < Dist(p, w) - 1
        BY <1>1, <1>2, <1>5, <2>1, <2>3, <2>6
      <3>2. Succ(s) = Pos(r, i + 1)
        BY <2>1, <2>2, SuccPos
      <3>3. QED
        BY <1>11, <1>13, <2>1, <2>2, <2>4, <2>6, <3>1, <3>2
    <2>7. QED
      BY <2>5, <2>6
  <1>15. Ring(k, r, v) = a
    <2>1. Holds(k, r, v, a)
      BY <1>7, <1>13, <1>14 DEF Holds
    <2>2. QED
      BY <1>9, <1>13, <2>1, RingEqual
  <1>16. QED
    BY <1>3, <1>6, <1>8, <1>10, <1>12, <1>15

-----------------------------------------------------------------------------
(* No two messages are of one sort.                                        *)
OneEach(q) ==
    \A i, j \in 1 .. Len(q) : Fifo!SameSort(q[i], q[j]) => i = j

(* The posted messages are the ring, read as a sequence.                   *)
LEMMA ContentsRing ==
  ASSUME TypeInv
  PROVE  /\ Contents = Ring(msg, readpos, writepos)
         /\ Contents \in Seq(Msg) /\ Len(Contents) = Dist(readpos, writepos)
         /\ Dist(readpos, writepos) \in 0 .. QLen - 1
         /\ \A i \in 1 .. Len(Contents) : Contents[i] = msg[At(i - 1)]
  <1>1. Contents = Ring(msg, readpos, writepos)
    BY DEF Contents, Ring, At, Pos
  <1>2. msg \in [0 .. QLen - 1 -> Msg] /\ readpos \in 0 .. QLen - 1 /\ writepos \in 0 .. QLen - 1
    BY DEF TypeInv, TypeOK
  <1>3. \A i : At(i - 1) = Pos(readpos, i)
    BY DEF At, Pos
  <1>4. PICK q : q = Ring(msg, readpos, writepos)
    OBVIOUS
  <1>5. /\ Dist(readpos, writepos) \in 0 .. QLen - 1
        /\ q \in Seq(Msg) /\ Len(q) = Dist(readpos, writepos)
        /\ \A i \in 1 .. Dist(readpos, writepos) : q[i] = msg[Pos(readpos, i)]
    BY <1>2, <1>4, RingSeq
  <1>6. QED
    BY <1>1, <1>3, <1>4, <1>5

(* They are a sequence of messages.                                        *)
LEMMA ContentsSeq == TypeInv => Contents \in Seq(Msg)
  BY ContentsRing

(* The places of the ring and those of the sequence.                       *)
LEMMA LiveContents ==
  ASSUME TypeInv, NEW m \in Msg
  PROVE  /\ \A i \in Live : /\ i \in Nat /\ i + 1 \in 1 .. Len(Contents)
                            /\ Contents[i + 1] = msg[At(i)]
         /\ \A i \in 1 .. Len(Contents) : i - 1 \in Live
         /\ \A i \in Live : i \in Merges(m) <=> Fifo!SameSort(Contents[i + 1], m)
  <1>1. PICK n \in Nat : n = Dist(readpos, writepos) /\ n = Len(Contents)
    BY ContentsRing
  <1>2. ASSUME NEW i \in Live
        PROVE  i \in Nat /\ i + 1 \in 1 .. Len(Contents) /\ Contents[i + 1] = msg[At(i)]
    <2>1. i \in Nat /\ i + 1 \in 1 .. n /\ (i + 1) - 1 = i
      BY <1>1 DEF Live
    <2>2. \A k \in 1 .. Len(Contents) : Contents[k] = msg[At(k - 1)]
      BY ContentsRing
    <2>3. QED
      BY <1>1, <2>1, <2>2
  <1>3. ASSUME NEW i \in 1 .. Len(Contents) PROVE i - 1 \in Live
    BY <1>1 DEF Live
  <1>4. ASSUME NEW i \in Live
        PROVE  i \in Merges(m) <=> Fifo!SameSort(Contents[i + 1], m)
    BY <1>2 DEF Merges, Fifo!SameSort, MoveMsgs, TickMsgs
  <1>5. QED
    BY <1>2, <1>3, <1>4

(* A message of the same window and kind, with the new parameters, is the  *)
(* new message.                                                            *)
LEMMA Overwrite ==
  ASSUME NEW x \in Msg, NEW m \in Msg, x.hwnd = m.hwnd, x.message = m.message
  PROVE  [x EXCEPT !.wParam = m.wParam, !.lParam = m.lParam] = m
  BY DEF Msg

(* kernel_QueueMessage puts a message behind the others.                   *)
LEMMA PutStep ==
  ASSUME TypeInv, NEW m \in Msg, Put(m), UNCHANGED readpos
  PROVE  Fifo!Put(m)
  <1>1. PICK k \in [0 .. QLen - 1 -> Msg] : k = msg
    BY DEF TypeInv, TypeOK
  <1>2. PICK r \in 0 .. QLen - 1 : r = readpos
    BY DEF TypeInv, TypeOK
  <1>3. PICK w \in 0 .. QLen - 1 : w = writepos
    BY DEF TypeInv, TypeOK
  <1>4. Succ(w) # r /\ msg' = [k EXCEPT ![w] = m] /\ writepos' = Succ(w) /\ readpos' = r
    BY <1>1, <1>2, <1>3 DEF Put, Full
  <1>5. Contents' = Ring([k EXCEPT ![w] = m], r, Succ(w))
    BY <1>4 DEF Contents, Ring, At, Pos
  <1>6. Contents' = Append(Contents, m)
    <2>1. Ring([k EXCEPT ![w] = m], r, Succ(w)) = Append(Ring(k, r, w), m)
      BY <1>4, RingPut
    <2>2. Contents = Ring(k, r, w)
      BY <1>1, <1>2, <1>3, ContentsRing
    <2>3. QED
      BY <1>5, <2>1, <2>2
  <1>7. Len(Contents) < QLen - 1
    BY <1>2, <1>3, <1>4, RoomLeft, ContentsRing
  <1>8. Fifo!Alone(m)
    <2>1. ASSUME NEW i \in 1 .. Len(Contents) PROVE ~Fifo!SameSort(Contents[i], m)
      <3>1. i - 1 \in Live /\ (i - 1) + 1 = i
        BY LiveContents
      <3>2. Merges(m) = {}
        BY DEF Put
      <3>3. QED
        BY <3>1, <3>2, LiveContents
    <2>2. QED
      BY <2>1 DEF Fifo!Alone
  <1>9. QED
    BY <1>6, <1>7, <1>8 DEF Fifo!Put

(* Of the messages of a sort there is one, and the new message replaces it.*)
LEMMA MergeStep ==
  ASSUME TypeInv, OneEach(Contents), NEW m \in Msg, Merge(m), UNCHANGED readpos
  PROVE  Fifo!Merge(m)
  <1>1. PICK k \in [0 .. QLen - 1 -> Msg] : k = msg
    BY DEF TypeInv, TypeOK
  <1>2. PICK r \in 0 .. QLen - 1 : r = readpos
    BY DEF TypeInv, TypeOK
  <1>3. PICK w \in 0 .. QLen - 1 : w = writepos
    BY DEF TypeInv, TypeOK
  <1>4. PICK i \in Merges(m) : TRUE
    BY DEF Merge
  <1>5. \A j \in Merges(m) : j = i
    <2>1. ASSUME NEW j \in Merges(m) PROVE j = i
      <3>1. i \in Live /\ j \in Live
        BY <1>4 DEF Merges
      <3>2. /\ i \in Nat /\ j \in Nat
            /\ i + 1 \in 1 .. Len(Contents) /\ j + 1 \in 1 .. Len(Contents)
            /\ Fifo!SameSort(Contents[i + 1], m) /\ Fifo!SameSort(Contents[j + 1], m)
        BY <3>1, LiveContents
      <3>3. Fifo!SameSort(Contents[j + 1], Contents[i + 1])
        BY <3>2 DEF Fifo!SameSort, MoveMsgs, TickMsgs
      <3>4. j + 1 = i + 1
        BY <3>2, <3>3 DEF OneEach
      <3>5. QED
        BY <3>2, <3>4
    <2>2. QED
      BY <2>1
  <1>6. PICK j \in 1 .. Len(Contents) : j = i + 1 /\ i = j - 1 /\ Fifo!SameSort(Contents[j], m)
    <2>1. i \in Live
      BY <1>4 DEF Merges
    <2>2. QED
      BY <1>4, <2>1, LiveContents
  <1>7. Merged(m) = i
    <2>1. Merged(m) \in Merges(m)
      <3>1. \A j1 \in Merges(m) : IF m.message \in MoveMsgs THEN j1 <= i ELSE i <= j1
        BY <1>5, <1>6
      <3>2. QED
        BY <1>4, <3>1 DEF Merged
    <2>2. QED
      BY <1>5, <2>1
  <1>8. j \in 1 .. Dist(r, w) /\ At(i) = Pos(r, j)
    <2>1. Len(Contents) = Dist(r, w)
      BY <1>2, <1>3, ContentsRing
    <2>2. QED
      BY <1>2, <1>6, <2>1 DEF At, Pos
  <1>9. PICK p \in 0 .. QLen - 1 : p = Pos(r, j)
    <2>1. Dist(r, w) \in 0 .. QLen - 1
      BY RingSeq
    <2>2. j \in 1 .. QLen
      BY <1>8, <2>1, RingLength
    <2>3. QED
      BY <2>2, PosValue
  <1>10. [k[p] EXCEPT !.wParam = m.wParam, !.lParam = m.lParam] = m
    <2>1. k[p] \in Msg /\ k[p] = Contents[j]
      BY <1>1, <1>6, <1>8, <1>9, ContentsRing
    <2>2. k[p].hwnd = m.hwnd /\ k[p].message = m.message
      BY <1>6, <2>1 DEF Fifo!SameSort
    <2>3. QED
      BY <2>1, <2>2, Overwrite
  <1>11. msg' = [k EXCEPT ![p] = m] /\ writepos' = w /\ readpos' = r
    <2>1. msg' = [k EXCEPT ![p] = [k[p] EXCEPT !.wParam = m.wParam, !.lParam = m.lParam]]
      BY <1>1, <1>7, <1>8, <1>9 DEF Merge
    <2>2. QED
      BY <1>2, <1>3, <1>10, <2>1 DEF Merge
  <1>12. Contents' = Ring([k EXCEPT ![p] = m], r, w)
    BY <1>11 DEF Contents, Ring, At, Pos
  <1>13. Contents' = [Contents EXCEPT ![j] = m]
    <2>1. Ring(Written(k, p, m), r, w) = Written(Ring(k, r, w), j, m)
      BY <1>8, <1>9, RingMerge
    <2>2. Contents = Ring(k, r, w)
      BY <1>1, <1>2, <1>3, ContentsRing
    <2>3. QED
      BY <1>12, <2>1, <2>2 DEF Written
  <1>14. QED
    BY <1>6, <1>13 DEF Fifo!Merge

(* PeekMessageEx and PeekPostMessage take the first.                       *)
LEMMA TakeStep ==
  ASSUME TypeInv, readpos # writepos, readpos' = Succ(readpos), UNCHANGED <<msg, writepos>>
  PROVE  Fifo!Take
  <1>1. PICK k \in [0 .. QLen - 1 -> Msg] : k = msg
    BY DEF TypeInv, TypeOK
  <1>2. PICK r \in 0 .. QLen - 1 : r = readpos
    BY DEF TypeInv, TypeOK
  <1>3. PICK w \in 0 .. QLen - 1 : w = writepos
    BY DEF TypeInv, TypeOK
  <1>4. Contents' = Ring(k, Succ(r), w)
    BY <1>1, <1>2, <1>3 DEF Contents, Ring, At, Pos
  <1>5. QED
    BY <1>1, <1>2, <1>3, <1>4, RingTake, ContentsRing DEF Fifo!Take

(* __mg_throw_away_messages takes one out of the middle.                   *)
LEMMA DropStep ==
  ASSUME TypeInv, FlagsInv, ThrowPost
  PROVE  UNCHANGED Contents \/ Fifo!Drop
  <1>1. PICK k \in [0 .. QLen - 1 -> Msg] : k = msg
    BY DEF TypeInv, TypeOK
  <1>2. PICK r \in 0 .. QLen - 1 : r = readpos
    BY DEF TypeInv, TypeOK
  <1>3. PICK w \in 0 .. QLen - 1 : w = writepos
    BY DEF TypeInv, TypeOK
  <1>4. PICK p \in 0 .. QLen - 1 : p = walk.at /\ Dist(r, p) <= Dist(r, w) /\ p # w
    BY <1>2, <1>3 DEF ThrowPost, FlagsInv, WalkInv
  <1>5. PICK j \in 1 .. Dist(r, w) : p = Pos(r, j)
    <2>1. Dist(r, p) + 1 \in 1 .. QLen /\ p = Pos(r, Dist(r, p) + 1) /\ w = Pos(r, Dist(r, w) + 1)
      BY EndPos
    <2>2. Dist(r, p) \in 0 .. QLen - 1 /\ Dist(r, w) \in 0 .. QLen - 1 /\ Dist(r, p) # Dist(r, w)
      BY <1>4, <2>1, RingSeq, <1>1
    <2>3. Dist(r, p) + 1 \in 1 .. Dist(r, w)
      BY <1>4, <2>2, RingLength
    <2>4. QED
      BY <2>1, <2>3
  <1>6. CASE Doomed(msg[walk.at].hwnd)
    <2>1. msg' = Closed(k, w, p) /\ writepos' = Before(w) /\ readpos' = r
      BY <1>1, <1>2, <1>3, <1>4, <1>6 DEF ThrowPost, Close, Closed, Before
    <2>2. Contents' = Ring(Closed(k, w, p), r, Before(w))
      BY <2>1 DEF Contents, Ring, At, Pos
    <2>3. Contents' = Without(Contents, j) /\ j \in 1 .. Len(Contents)
      BY <1>1, <1>2, <1>3, <1>5, <2>2, RingDrop, ContentsRing
    <2>4. QED
      BY <2>3 DEF Fifo!Drop, Without
  <1>7. CASE ~Doomed(msg[walk.at].hwnd)
    BY <1>7 DEF ThrowPost, Contents, At
  <1>8. QED
    BY <1>6, <1>7

(* A step that leaves the ring alone leaves its messages alone.            *)
LEMMA RingKept == UNCHANGED ring => UNCHANGED Contents
  BY DEF ring, Contents, At

(* The abstract queue keeps one message of each sort.                      *)
LEMMA OneEachKept ==
  ASSUME Contents \in Seq(Msg), Contents' \in Seq(Msg), OneEach(Contents),
         [Fifo!Next]_Contents
  PROVE  OneEach(Contents)'
  <1>1. PICK q \in Seq(Msg) : q = Contents
    OBVIOUS
  <1>2. PICK t \in Seq(Msg) : t = Contents'
    OBVIOUS
  <1>3. Len(q) \in Nat /\ \A i, j \in 1 .. Len(q) : Fifo!SameSort(q[i], q[j]) => i = j
    BY <1>1, LenProperties DEF OneEach
  <1>4. OneEach(t)
    <2>0. CASE t = q
      BY <1>3, <2>0 DEF OneEach
    <2>1. ASSUME NEW m \in Msg, Fifo!Put(m) PROVE OneEach(t)
      <3>1. t = Append(q, m) /\ \A i \in 1 .. Len(q) : ~Fifo!SameSort(q[i], m)
        BY <1>1, <1>2, <2>1 DEF Fifo!Put, Fifo!Alone
      <3>2. /\ Len(t) = Len(q) + 1 /\ t[Len(q) + 1] = m
            /\ \A i \in 1 .. Len(q) : t[i] = q[i]
        BY <3>1, AppendProperties
      <3>3. ASSUME NEW i \in 1 .. Len(t), NEW j \in 1 .. Len(t), Fifo!SameSort(t[i], t[j])
            PROVE  i = j
        <4>1. /\ i \in 1 .. Len(q) \/ i = Len(q) + 1
              /\ j \in 1 .. Len(q) \/ j = Len(q) + 1
          BY <1>3, <3>2
        <4>2. Fifo!SameSort(t[j], t[i])
          BY <3>3 DEF Fifo!SameSort, MoveMsgs, TickMsgs
        <4>3. QED
          BY <1>3, <3>1, <3>2, <3>3, <4>1, <4>2
      <3>4. QED
        BY <3>3 DEF OneEach
    <2>2. ASSUME NEW m \in Msg, Fifo!Merge(m) PROVE OneEach(t)
      <3>1. PICK k \in 1 .. Len(q) : Fifo!SameSort(q[k], m) /\ t = [q EXCEPT ![k] = m]
        BY <1>1, <1>2, <2>2 DEF Fifo!Merge
      <3>2. Len(t) = Len(q) /\ \A i \in 1 .. Len(q) : t[i] = IF i = k THEN m ELSE q[i]
        BY <3>1, ExceptSeq
      <3>3. ASSUME NEW i \in 1 .. Len(t), NEW j \in 1 .. Len(t), Fifo!SameSort(t[i], t[j])
            PROVE  i = j
        <4>1. /\ i = k => Fifo!SameSort(q[k], t[j])
              /\ j = k => Fifo!SameSort(t[i], q[k])
          BY <3>1, <3>2, <3>3 DEF Fifo!SameSort, MoveMsgs, TickMsgs
        <4>2. i \in 1 .. Len(q) /\ j \in 1 .. Len(q)
          BY <3>2
        <4>3. QED
          BY <1>3, <3>2, <3>3, <4>1, <4>2
      <3>4. QED
        BY <3>3 DEF OneEach
    <2>3. CASE Fifo!Take
      <3>1. q # << >> /\ t = Tail(q)
        BY <1>1, <1>2, <2>3 DEF Fifo!Take
      <3>2. Len(t) = Len(q) - 1 /\ \A i \in 1 .. Len(t) : t[i] = q[i + 1]
        BY <3>1, HeadTailProperties
      <3>3. ASSUME NEW i \in 1 .. Len(t), NEW j \in 1 .. Len(t), Fifo!SameSort(t[i], t[j])
            PROVE  i = j
        <4>1. i + 1 \in 1 .. Len(q) /\ j + 1 \in 1 .. Len(q)
          BY <1>3, <3>2
        <4>2. i + 1 = j + 1
          BY <1>3, <3>2, <3>3, <4>1
        <4>3. QED
          BY <4>2
      <3>4. QED
        BY <3>3 DEF OneEach
    <2>4. CASE Fifo!Drop
      <3>1. PICK k \in 1 .. Len(q) : t = Without(q, k)
        BY <1>1, <1>2, <2>4 DEF Fifo!Drop, Without
      <3>2. /\ Len(t) = Len(q) - 1
            /\ \A i \in 1 .. Len(q) - 1 : t[i] = IF i < k THEN q[i] ELSE q[i + 1]
        BY <3>1, WithoutElements
      <3>3. ASSUME NEW i \in 1 .. Len(t), NEW j \in 1 .. Len(t), Fifo!SameSort(t[i], t[j])
            PROVE  i = j
        <4>1. PICK a \in 1 .. Len(q) : a = (IF i < k THEN i ELSE i + 1) /\ t[i] = q[a]
          BY <1>3, <3>2
        <4>2. PICK b \in 1 .. Len(q) : b = (IF j < k THEN j ELSE j + 1) /\ t[j] = q[b]
          BY <1>3, <3>2
        <4>3. a = b
          BY <1>3, <3>3, <4>1, <4>2
        <4>4. QED
          BY <4>1, <4>2, <4>3
      <3>4. QED
        BY <3>3 DEF OneEach
    <2>5. QED
      BY <1>1, <1>2, <2>0, <2>1, <2>2, <2>3, <2>4 DEF Fifo!Next
  <1>5. QED
    BY <1>2, <1>4 DEF OneEach

(* Every step of the queue is a step of the bounded queue, or none.        *)
LEMMA FifoStep ==
  ASSUME TypeInv, FlagsInv, OneEach(Contents), [Next]_vars
  PROVE  [Fifo!Next]_Contents
  <1> SUFFICES UNCHANGED ring \/ Fifo!Next \/ UNCHANGED Contents
    BY RingKept
  <1>0. ASSUME NEW m \in Msg, UNCHANGED readpos, Accept(m) PROVE Fifo!Next
    <2>1. Fifo!Put(m) \/ Fifo!Merge(m)
      BY <1>0, PutStep, MergeStep DEF Accept
    <2>2. QED
      BY <2>1 DEF Fifo!Next
  <1>a. Fifo!Take => Fifo!Next
    BY DEF Fifo!Next
  <1>b. Fifo!Drop => Fifo!Next
    BY DEF Fifo!Next
  <1>1. ASSUME NEW t \in AllThreads, NEW p \in Posts, PostMessage(t, p)
        PROVE  UNCHANGED ring \/ Fifo!Next
    <2> DEFINE m == [hwnd |-> p.hwnd, message |-> p.message, wParam |-> p.wParam,
                     lParam |-> sends']
    <2>1. m \in Msg
      <3>1. sends' \in 0 .. MaxSends
        BY <1>1, CountType DEF PostMessage, TypeInv, TypeOK
      <3>2. QED
        BY <3>1, PostsAssumption DEF Msg
    <2>2. (Accept(m) \/ Refuse(m)) /\ UNCHANGED readpos
      BY <1>1 DEF PostMessage
    <2> HIDE DEF m
    <2>3. Refuse(m) => UNCHANGED <<msg, writepos>>
      BY DEF Refuse
    <2>4. QED
      BY <1>0, <2>1, <2>2, <2>3 DEF ring
  <1>2. CASE Broadcast
    <2>1. UNCHANGED readpos
      BY <1>2 DEF Broadcast
    <2>2. CASE UNCHANGED <<msg, writepos>>
      BY <2>1, <2>2 DEF ring
    <2>3. CASE ~UNCHANGED <<msg, writepos>>
      <3>1. PICK w \in todo :
               LET m == [hwnd |-> w, message |-> "MSG_IDLE", wParam |-> 0, lParam |-> 0]
               IN  Accept(m) \/ Refuse(m)
        BY <1>2, <2>3 DEF Broadcast
      <3> DEFINE m == [hwnd |-> w, message |-> "MSG_IDLE", wParam |-> 0, lParam |-> 0]
      <3>2. m \in Msg
        BY QueueAssumption DEF Msg, PostMsgs, TickMsgs, WParams, TypeInv, TypeOK
      <3>3. Accept(m) \/ Refuse(m)
        BY <3>1
      <3> HIDE DEF m
      <3>4. Refuse(m) => UNCHANGED <<msg, writepos>>
        BY DEF Refuse
      <3>5. QED
        BY <1>0, <2>1, <2>3, <3>2, <3>3, <3>4
    <2>4. QED
      BY <2>2, <2>3
  <1>3. CASE PeekPost
    <2>1. readpos # writepos /\ UNCHANGED <<msg, writepos>>
      BY <1>3 DEF PeekPost, TakePost, PostPending
    <2>2. readpos' = Succ(readpos) \/ readpos' = readpos
      BY <1>3 DEF PeekPost
    <2>3. QED
      BY <1>a, <2>1, <2>2, TakeStep DEF ring
  <1>4. CASE PeekPostMessage(PostMsgs)
    <2>1. /\ readpos # writepos /\ UNCHANGED <<msg, writepos>>
          /\ readpos' = Succ(readpos)
      BY <1>4 DEF PeekPostMessage, PostPending
    <2>2. QED
      BY <1>a, <2>1, TakeStep
  <1>5. CASE ThrowPost
    BY <1>b, <1>5, DropStep
  <1>6. CASE UNCHANGED vars
    BY <1>6 DEF vars
  <1>7. CASE Paint \/ Notify \/ Quit \/ Send \/ InPostMsgq \/ \E t \in Threads : InCall(t)
    BY <1>7 DEF Paint, Notify, Quit, Send, InPostMsgq, InCall, Invalidate, SendNotifyMessage,
       SendPriorNotifyMessage, PostQuitMessage, SendSyncMessage, SemGetValue, SemPost,
       PostPaint, SyncEnqueue, SyncReturn
  <1>8. CASE \/ \E c \in Calls : Enter(c)
             \/ PeekQuit \/ PeekSync \/ PeekNotify \/ PeekPaint \/ PeekTimer \/ PeekNothing
             \/ Look \/ TryWait \/ IdleExpires \/ IdleNothing \/ BeginPaint \/ DispatchEnd
    BY <1>8 DEF Enter, PeekQuit, PeekSync, PeekNotify, PeekPaint, PeekTimer, PeekNothing,
       Look, TryWait, IdleExpires, IdleNothing, BeginPaint, DispatchEnd
  <1>9. CASE \/ \E w \in Windows : ThrowStart(w)
             \/ ThrowNotify \/ ThrowSync \/ ThrowNext \/ ThrowSyncEnd \/ ThrowEnd
    BY <1>9 DEF ThrowStart, ThrowNotify, ThrowSync, ThrowNext, ThrowSyncEnd, ThrowEnd
  <1>10. QED
    BY <1>1, <1>2, <1>3, <1>4, <1>5, <1>6, <1>7, <1>8, <1>9
    DEF Next, Post, Peek, Idle, Throw

(* The ring is empty when the queue is made.                               *)
LEMMA InitContents == Init => Contents = << >> /\ OneEach(Contents)
  <1> SUFFICES ASSUME Init PROVE Contents = << >> /\ OneEach(Contents)
    OBVIOUS
  <1>1. TypeInv /\ readpos = 0 /\ writepos = 0
    BY InitTypeInv DEF Init
  <1>2. Dist(readpos, writepos) = 0
    BY <1>1, DistValue, RingLength
  <1>3. PICK q \in Seq(Msg) : q = Contents /\ Len(q) = 0
    BY <1>1, <1>2, ContentsRing
  <1>4. q = << >>
    BY <1>3, EmptySeq
  <1>5. QED
    BY <1>3, <1>4 DEF OneEach

(* What keeps the ring: its types, the walk's place in it, and one message *)
(* of each sort.                                                           *)
RingInv == TypeInv /\ FlagsInv /\ OneEach(Contents)

(* Every step keeps them, and is a step of the bounded queue.              *)
LEMMA RingInvStep == RingInv /\ [Next]_vars => RingInv' /\ [Fifo!Next]_Contents
  <1> SUFFICES ASSUME RingInv, [Next]_vars PROVE RingInv' /\ [Fifo!Next]_Contents
    OBVIOUS
  <1>1. TypeInv' /\ FlagsInv'
    BY NextTypeInv, FlagsStep DEF RingInv
  <1>2. [Fifo!Next]_Contents
    BY FifoStep DEF RingInv
  <1>3. Contents \in Seq(Msg)
    BY ContentsRing DEF RingInv
  <1>4. Contents' \in Seq(Msg)
    <2>1. (TypeInv => Contents \in Seq(Msg))'
      BY ContentsSeq, PTL
    <2>2. QED
      BY <1>1, <2>1
  <1>5. OneEach(Contents)'
    BY <1>2, <1>3, <1>4, OneEachKept DEF RingInv
  <1>6. QED
    BY <1>1, <1>2, <1>5 DEF RingInv

(* They hold when the queue is made.                                       *)
LEMMA InitRingInv == Init => RingInv
  BY InitTypeInv, InitContents DEF RingInv, FlagsInv, FlagsCover, WalkInv, Init

(* The ring of positions, written and read in its lock by several threads, *)
(* merged into and closed up, is a bounded queue: kernel_QueueMessage      *)
(* appends or replaces the one message of the sort, the Owner reads the    *)
(* first, __mg_throw_away_messages takes out single ones.                  *)
THEOREM RingIsFifo == Spec => FifoSpec
  <1>1. Init => Fifo!Init
    BY InitContents DEF Fifo!Init
  <1>2. RingInv /\ [Next]_vars => RingInv' /\ [Fifo!Next]_Contents
    BY RingInvStep
  <1> QED
    BY <1>1, <1>2, InitRingInv, PTL DEF Spec, FifoSpec, Fifo!Spec

(* At most one mouse move of a window and wParam, one tick of a window, is *)
(* in the ring, also while and after __mg_throw_away_messages closes gaps. *)
THEOREM OneOfEach == Spec => []OneOfASort
  <1>1. RingInv /\ [Next]_vars => RingInv'
    BY RingInvStep
  <1>2. RingInv => OneOfASort
    <2> SUFFICES ASSUME RingInv, NEW i \in Live PROVE Cardinality(Merges(msg[At(i)])) <= 1
      BY DEF OneOfASort
    <2>1. PICK m : m = msg[At(i)]
      OBVIOUS
    <2>2. TypeInv /\ OneEach(Contents)
      BY DEF RingInv
    <2>3. m = Contents[i + 1] /\ i + 1 \in 1 .. Len(Contents) /\ m \in Msg
      <3>1. msg \in [0 .. QLen - 1 -> Msg] /\ At(i) \in 0 .. QLen - 1
        <4>1. i \in Int /\ readpos \in Int
          BY <2>2 DEF TypeInv, TypeOK, Live
        <4>2. QED
          BY <2>2, <4>1, RingLength DEF TypeInv, TypeOK, At
      <3>2. m \in Msg
        BY <2>1, <3>1
      <3>3. QED
        BY <2>1, <2>2, <3>2, LiveContents
    <2>4. ASSUME NEW j \in Merges(m) PROVE j = i
      <3>1. j \in Live
        BY DEF Merges
      <3>2. /\ j + 1 \in 1 .. Len(Contents) /\ Fifo!SameSort(Contents[j + 1], m)
            /\ j \in Nat /\ i \in Nat
        BY <2>2, <2>3, <3>1, LiveContents
      <3>3. j + 1 = i + 1
        BY <2>2, <2>3, <3>2 DEF OneEach
      <3>4. QED
        BY <3>2, <3>3
    <2>5. Merges(m) = {} \/ Merges(m) = {i}
      BY <2>4
    <2>6. Cardinality(Merges(m)) \in {0, 1}
      BY <2>5, FS_EmptySet, FS_Singleton
    <2>7. QED
      BY <2>1, <2>6
  <1> QED
    BY <1>1, <1>2, InitRingInv, PTL DEF Spec

-----------------------------------------------------------------------------
(* Synchronous messages: where each sender's message is.                   *)

(* A non-empty set of natural numbers has a least one.                     *)
LEMMA LeastNat ==
  ASSUME NEW S \in SUBSET Nat, S # {}
  PROVE  \E m \in S : \A k \in S : m <= k
  <1> DEFINE R == OpToRel(<, Nat)
  <1>1. IsWellFoundedOn(R, Nat)
    BY NatLessThanWellFounded
  <1> HIDE DEF R
  <1>2. \A k, m \in Nat : k < m => <<k, m>> \in R
    BY DEF R, OpToRel
  <1>3. PICK m \in S : \A k \in S : ~(<<k, m>> \in R)
    BY <1>1, WFMin
  <1>4. ASSUME NEW k \in S PROVE m <= k
    <2>1. ~(k < m)
      BY <1>2, <1>3
    <2>2. QED
      BY <2>1
  <1>5. QED
    BY <1>4

(* The list of synchronous messages is the sequence s of their senders.    *)
Queued(s, t) == \E i \in 1 .. Len(s) : s[i] = t
Linked(s) ==
    /\ s \in Seq(Threads)
    /\ \A i, j \in 1 .. Len(s) : s[i] = s[j] => i = j
    /\ IF s = << >> THEN pFirstSyncMsg = NoThread
       ELSE /\ pFirstSyncMsg = s[1]
            /\ pLastSyncMsg = s[Len(s)] /\ pNext[s[Len(s)]] = NoThread
    /\ \A i \in 1 .. Len(s) - 1 : pNext[s[i]] = s[i + 1]

(* Chain is what the sequence holds.                                       *)
LEMMA ChainQueued ==
  ASSUME NEW s, Linked(s)
  PROVE  \A t \in Threads : t \in Chain <=> Queued(s, t)
  <1>1. PICK n \in Nat : n = Len(s)
    BY LenProperties DEF Linked
  <1>2. \A i \in 1 .. n : s[i] \in Threads
    BY <1>1, ElementOfSeq DEF Linked
  <1>3. NoThread \notin Threads
    BY QueueAssumption DEF AllThreads
  <1>4. n = 0 <=> s = << >>
    BY <1>1, EmptySeq DEF Linked
  <1>5. ASSUME NEW t \in Threads, t \in Chain PROVE Queued(s, t)
    <2>1. PICK S \in SUBSET Threads : S = {u \in Threads : Queued(s, u)}
      OBVIOUS
    <2>2. pFirstSyncMsg \in S \cup {NoThread}
      BY <1>1, <1>2, <1>4, <2>1 DEF Linked, Queued
    <2>3. ASSUME NEW u \in S PROVE pNext[u] \in S \cup {NoThread}
      <3>1. PICK i \in 1 .. n : s[i] = u
        BY <1>1, <2>1 DEF Queued
      <3>2. CASE i = n
        BY <1>1, <1>4, <3>1, <3>2 DEF Linked
      <3>3. CASE i # n
        <4>1. i \in 1 .. n - 1 /\ i + 1 \in 1 .. n
          BY <3>3
        <4>2. pNext[u] = s[i + 1]
          BY <1>1, <3>1, <4>1 DEF Linked
        <4>3. QED
          BY <1>1, <1>2, <2>1, <4>1, <4>2 DEF Queued
      <3>4. QED
        BY <3>2, <3>3
    <2>4. {pFirstSyncMsg} \cup {pNext[u] : u \in S} \subseteq S \cup {NoThread}
      BY <2>2, <2>3
    <2>5. t \in S
      BY <1>5, <2>4 DEF Chain
    <2>6. QED
      BY <2>1, <2>5
  <1>6. ASSUME NEW t \in Threads, Queued(s, t) PROVE t \in Chain
    <2>1. ASSUME NEW S \in SUBSET Threads,
                 {pFirstSyncMsg} \cup {pNext[u] : u \in S} \subseteq S \cup {NoThread}
          PROVE  t \in S
      <3>1. PICK B \in SUBSET Nat : B = {i \in Nat : i \in 1 .. n /\ s[i] \notin S}
        OBVIOUS
      <3>2. B = {}
        <4>1. SUFFICES ASSUME B # {} PROVE FALSE
          OBVIOUS
        <4>2. PICK m \in B : \A k \in B : m <= k
          BY <4>1, LeastNat
        <4>3. m \in 1 .. n /\ s[m] \notin S /\ s[m] \in Threads
          BY <1>2, <3>1, <4>2
        <4>4. CASE m = 1
          <5>1. pFirstSyncMsg = s[1]
            BY <1>1, <1>4, <4>3 DEF Linked
          <5>2. QED
            BY <1>3, <2>1, <4>3, <4>4, <5>1
        <4>5. CASE m # 1
          <5>1. m - 1 \in 1 .. n /\ m - 1 \in 1 .. n - 1 /\ (m - 1) + 1 = m /\ ~(m <= m - 1)
            BY <4>3, <4>5
          <5>2. s[m - 1] \in S
            BY <3>1, <4>2, <5>1
          <5>3. pNext[s[m - 1]] = s[m]
            BY <1>1, <5>1 DEF Linked
          <5>4. pNext[s[m - 1]] \in S \cup {NoThread}
            BY <2>1, <5>2
          <5>5. QED
            BY <1>3, <4>3, <5>3, <5>4
        <4>6. QED
          BY <4>4, <4>5
      <3>3. PICK i \in 1 .. n : s[i] = t
        BY <1>1, <1>6 DEF Queued
      <3>4. QED
        BY <3>1, <3>2, <3>3
    <2>2. QED
      BY <2>1 DEF Chain
  <1>7. QED
    BY <1>5, <1>6

(* A new sender is linked behind the last.                                 *)
LEMMA LinkStep ==
  ASSUME TypeInv, NEW s, Linked(s), NEW t \in Threads, ~Queued(s, t),
         pNext[t] = NoThread, Link(t), pLastSyncMsg' = t
  PROVE  /\ Linked(Append(s, t))'
         /\ \A u : Queued(Append(s, t), u) <=> Queued(s, u) \/ u = t
  <1>1. PICK n \in Nat : n = Len(s)
    BY LenProperties DEF Linked
  <1>2. \A i \in 1 .. n : s[i] \in Threads
    BY <1>1, ElementOfSeq DEF Linked
  <1>3. n = 0 <=> s = << >>
    BY <1>1, EmptySeq DEF Linked
  <1>4. PICK q : q = Append(s, t)
    OBVIOUS
  <1>5. /\ q \in Seq(Threads) /\ q # << >> /\ Len(q) = n + 1
        /\ (\A i \in 1 .. n : q[i] = s[i]) /\ q[n + 1] = t
    BY <1>1, <1>4, AppendProperties DEF Linked
  <1>6. \A u : Queued(q, u) <=> Queued(s, u) \/ u = t
    <2>1. ASSUME NEW u, Queued(q, u) PROVE Queued(s, u) \/ u = t
      <3>1. PICK i \in 1 .. n + 1 : q[i] = u
        BY <1>5, <2>1 DEF Queued
      <3>2. i = n + 1 \/ i \in 1 .. n
        OBVIOUS
      <3>3. QED
        BY <1>1, <1>5, <3>1, <3>2 DEF Queued
    <2>2. ASSUME NEW u, Queued(s, u) \/ u = t PROVE Queued(q, u)
      <3>1. n + 1 \in 1 .. Len(q) /\ \A i \in 1 .. n : i \in 1 .. Len(q)
        BY <1>5
      <3>2. QED
        BY <1>1, <1>5, <2>2, <3>1 DEF Queued
    <2>3. QED
      BY <2>1, <2>2
  <1>7. \A i, j \in 1 .. n + 1 : q[i] = q[j] => i = j
    <2>1. ASSUME NEW i \in 1 .. n + 1, NEW j \in 1 .. n + 1, q[i] = q[j] PROVE i = j
      <3>1. (i = n + 1 \/ i \in 1 .. n) /\ (j = n + 1 \/ j \in 1 .. n)
        OBVIOUS
      <3>2. \A k \in 1 .. n : q[k] # t
        BY <1>1, <1>5 DEF Queued
      <3>3. QED
        BY <1>1, <1>5, <2>1, <3>1, <3>2 DEF Linked
    <2>2. QED
      BY <2>1
  <1>8. pNext \in [Threads -> Threads \cup {NoThread}]
    BY DEF TypeInv, TypeOK
  <1>9. CASE n = 0
    <2>1. pFirstSyncMsg' = t /\ pNext' = pNext
      BY <1>3, <1>9 DEF Linked, Link
    <2>2. \A i \in 1 .. Len(q) - 1 : FALSE
      BY <1>5, <1>9
    <2>3. q[1] = t /\ q[Len(q)] = t
      BY <1>5, <1>9
    <2>4. Linked(q)'
      BY <1>5, <1>7, <2>1, <2>2, <2>3 DEF Linked
    <2>5. QED
      BY <1>4, <1>6, <2>4
  <1>10. CASE n # 0
    <2>1. PICK l \in Threads : l = s[n]
      BY <1>2, <1>10
    <2>2. /\ pFirstSyncMsg = s[1] /\ pFirstSyncMsg \in Threads /\ pLastSyncMsg = l
          /\ 1 \in 1 .. n /\ n \in 1 .. n
      BY <1>1, <1>2, <1>3, <1>10, <2>1 DEF Linked
    <2>3. pFirstSyncMsg' = pFirstSyncMsg /\ pNext' = [pNext EXCEPT ![l] = t]
      BY <2>2, QueueAssumption DEF Link, AllThreads
    <2>4. l # t
      BY <1>1, <2>1, <2>2 DEF Queued
    <2>5. pNext'[t] = NoThread /\ pNext'[l] = t /\ \A u \in Threads : u # l => pNext'[u] = pNext[u]
      BY <1>8, <2>3, <2>4
    <2>6. ASSUME NEW i \in 1 .. n PROVE pNext'[q[i]] = q[i + 1]
      <3>1. CASE i = n
        BY <1>5, <2>1, <2>5, <3>1
      <3>2. CASE i # n
        <4>1. i \in 1 .. n - 1 /\ i + 1 \in 1 .. n
          BY <3>2
        <4>2. s[i] # l
          BY <1>1, <2>1, <2>2, <3>2 DEF Linked
        <4>3. pNext'[s[i]] = s[i + 1]
          BY <1>1, <1>2, <2>5, <4>1, <4>2 DEF Linked
        <4>4. QED
          BY <1>5, <4>1, <4>3
      <3>3. QED
        BY <3>1, <3>2
    <2>7. Linked(q)'
      <3>1. q[1] = s[1] /\ Len(q) - 1 = n
        BY <1>5, <2>2
      <3>2. pFirstSyncMsg' = q[1] /\ pLastSyncMsg' = q[Len(q)] /\ pNext'[q[Len(q)]] = NoThread
        BY <1>5, <2>2, <2>3, <2>5, <3>1
      <3>3. \A i \in 1 .. Len(q) - 1 : pNext'[q[i]] = q[i + 1]
        BY <2>6, <3>1
      <3>4. QED
        BY <1>5, <1>7, <3>2, <3>3 DEF Linked
    <2>8. QED
      BY <1>4, <1>6, <2>7
  <1>11. QED
    BY <1>9, <1>10

(* The first sender is taken off.                                          *)
LEMMA UnlinkStep ==
  ASSUME TypeInv, NEW s, Linked(s), pFirstSyncMsg # NoThread,
         pFirstSyncMsg' = pNext[pFirstSyncMsg], UNCHANGED <<pLastSyncMsg, pNext>>
  PROVE  /\ Linked(Tail(s))' /\ pFirstSyncMsg \in Threads
         /\ \A u : Queued(Tail(s), u) <=> Queued(s, u) /\ u # pFirstSyncMsg
         /\ Queued(s, pFirstSyncMsg)
  <1>1. PICK n \in Nat : n = Len(s)
    BY LenProperties DEF Linked
  <1>2. \A i \in 1 .. n : s[i] \in Threads
    BY <1>1, ElementOfSeq DEF Linked
  <1>3. n # 0 /\ s # << >> /\ 1 \in 1 .. n /\ n \in 1 .. n
    BY <1>1, EmptySeq DEF Linked
  <1>4. PICK q : q = Tail(s)
    OBVIOUS
  <1>5. q \in Seq(Threads) /\ Len(q) = n - 1 /\ \A i \in 1 .. n - 1 : q[i] = s[i + 1]
    BY <1>1, <1>3, <1>4, HeadTailProperties DEF Linked
  <1>6. pFirstSyncMsg = s[1] /\ pLastSyncMsg = s[n] /\ pNext[s[n]] = NoThread
    BY <1>1, <1>3 DEF Linked
  <1>7. \A i, j \in 1 .. n : s[i] = s[j] => i = j
    BY <1>1 DEF Linked
  <1>8. ASSUME NEW u PROVE Queued(q, u) <=> Queued(s, u) /\ u # s[1]
    <2>1. ASSUME Queued(q, u) PROVE Queued(s, u) /\ u # s[1]
      <3>1. PICK i \in 1 .. n - 1 : q[i] = u
        BY <1>5, <2>1 DEF Queued
      <3>2. i + 1 \in 1 .. n /\ i + 1 # 1 /\ s[i + 1] = u
        BY <1>5, <3>1
      <3>3. QED
        BY <1>1, <1>3, <1>7, <3>2 DEF Queued
    <2>2. ASSUME Queued(s, u), u # s[1] PROVE Queued(q, u)
      <3>1. PICK i \in 1 .. n : s[i] = u
        BY <1>1, <2>2 DEF Queued
      <3>2. i # 1
        BY <2>2, <3>1
      <3>3. i - 1 \in 1 .. n - 1 /\ (i - 1) + 1 = i
        BY <3>2
      <3>4. q[i - 1] = u
        BY <1>5, <3>1, <3>3
      <3>5. QED
        BY <1>5, <3>3, <3>4 DEF Queued
    <2>3. QED
      BY <2>1, <2>2
  <1>9. \A i, j \in 1 .. n - 1 : q[i] = q[j] => i = j
    <2>1. ASSUME NEW i \in 1 .. n - 1, NEW j \in 1 .. n - 1, q[i] = q[j] PROVE i = j
      <3>1. i + 1 \in 1 .. n /\ j + 1 \in 1 .. n
        OBVIOUS
      <3>2. i + 1 = j + 1
        BY <1>5, <1>7, <2>1, <3>1
      <3>3. QED
        BY <3>2
    <2>2. QED
      BY <2>1
  <1>10. \A i \in 1 .. n - 1 : pNext[s[i]] = s[i + 1]
    BY <1>1 DEF Linked
  <1>11. \A i \in 1 .. (n - 1) - 1 : pNext[q[i]] = q[i + 1]
    <2>1. ASSUME NEW i \in 1 .. (n - 1) - 1 PROVE pNext[q[i]] = q[i + 1]
      <3>1. i \in 1 .. n - 1 /\ i + 1 \in 1 .. n - 1
        OBVIOUS
      <3>2. QED
        BY <1>5, <1>10, <3>1
    <2>2. QED
      BY <2>1
  <1>12. IF q = << >> THEN pFirstSyncMsg' = NoThread
         ELSE /\ pFirstSyncMsg' = q[1] /\ pLastSyncMsg = q[Len(q)]
              /\ pNext[q[Len(q)]] = NoThread
    <2>1. CASE n = 1
      <3>1. q = << >>
        BY <1>5, <2>1, EmptySeq
      <3>2. QED
        BY <1>6, <2>1, <3>1
    <2>2. CASE n # 1
      <3>1. 1 \in 1 .. n - 1 /\ n - 1 \in 1 .. n - 1 /\ (n - 1) + 1 = n /\ 1 + 1 = 2
        BY <1>3, <2>2
      <3>2. q[1] = s[2] /\ q[n - 1] = s[n] /\ pNext[s[1]] = s[2]
        BY <1>5, <1>10, <3>1
      <3>3. q # << >>
        BY <1>5, <3>1, EmptySeq
      <3>4. QED
        BY <1>5, <1>6, <3>2, <3>3
    <2>3. QED
      BY <2>1, <2>2
  <1>13. Linked(q)'
    BY <1>5, <1>9, <1>11, <1>12 DEF Linked
  <1>14. QED
    BY <1>1, <1>2, <1>3, <1>4, <1>6, <1>8, <1>13 DEF Queued

(* Where the message of a sender is: not linked yet, linked, dispatched or *)
(* answered - at one of these places while its sender waits, at none else. *)
Handled(k, t) == \E i \in 1 .. Len(k) : k[i].sync = t
Once(k) ==
    \A i, j \in 1 .. Len(k) : k[i].sync = k[j].sync /\ k[i].sync \in Threads => i = j

Enqueues(t) == tpc[t] = "enqueue"
Woken(t)    == sem[t] = 1

Placed(s, t) ==
    /\ sem[t] \in {0, 1}
    /\ t \in waiting => tpc[t] \in {"enqueue", "getvalue", "sem_post", "sem_wait"}
    /\ Enqueues(t) => pNext[t] = NoThread
    /\ Enqueues(t) \/ Queued(s, t) => syncHwnd[t] \in Windows
    /\ \/ t \notin waiting /\ ~Enqueues(t) /\ ~Queued(s, t) /\ ~Handled(stack, t) /\ ~Woken(t)
       \/ t \in waiting /\ Enqueues(t) /\ ~Queued(s, t) /\ ~Handled(stack, t) /\ ~Woken(t)
       \/ t \in waiting /\ ~Enqueues(t) /\ Queued(s, t) /\ ~Handled(stack, t) /\ ~Woken(t)
       \/ t \in waiting /\ ~Enqueues(t) /\ ~Queued(s, t) /\ Handled(stack, t) /\ ~Woken(t)
       \/ t \in waiting /\ ~Enqueues(t) /\ ~Queued(s, t) /\ ~Handled(stack, t) /\ Woken(t)

Sending(s) == Linked(s) /\ Once(stack) /\ \A t \in Threads : Placed(s, t)

(* __mg_throw_away_messages is called for windows that stand for all of    *)
(* the queue's: one main window with its controls.                         *)
ThrownWhole ==
    \A w \in Discarded, h \in Windows : h = w \/ (MainOf[h] # h /\ MainOf[h] = w)

(* Then its walk over the synchronous messages stays at the head.          *)
Straight ==
    /\ Throwing => walk.hwnd \in Discarded
    /\ opc \in {"throw_notify", "throw_sync"} => walk.prev = NoThread
    /\ opc # "throw_next"
    /\ opc = "throw_post" => pFirstSyncMsg = NoThread

(* A frame is put on the stack.                                            *)
LEMMA PushFrame ==
  ASSUME TypeInv, NEW f \in Frame, Once(stack), f.sync \in Threads => ~Handled(stack, f.sync)
  PROVE  /\ Once(<<f>> \o stack)
         /\ \A t \in Threads : Handled(<<f>> \o stack, t) <=> t = f.sync \/ Handled(stack, t)
  <1>1. PICK k \in Seq(Frame) : k = stack
    BY DEF TypeInv, TypeOK
  <1>2. PICK n \in Nat : n = Len(k)
    BY LenProperties
  <1>3. PICK q : q = <<f>> \o k
    OBVIOUS
  <1>4. Len(q) = n + 1 /\ q[1] = f /\ \A i \in 2 .. n + 1 : q[i] = k[i - 1]
    <2>1. <<f>> \in Seq(Frame) /\ Len(<<f>>) = 1 /\ <<f>>[1] = f
      OBVIOUS
    <2>2. /\ Len(<<f>> \o k) = Len(<<f>>) + Len(k)
          /\ \A i \in 1 .. Len(<<f>>) + Len(k) :
                (<<f>> \o k)[i] = IF i <= Len(<<f>>) THEN <<f>>[i] ELSE k[i - Len(<<f>>)]
      BY <2>1, ConcatProperties
    <2>3. /\ Len(q) = 1 + n
          /\ \A i \in 1 .. 1 + n : q[i] = IF i <= 1 THEN f ELSE k[i - 1]
      BY <1>2, <1>3, <2>1, <2>2
    <2>4. QED
      BY <2>3
  <1>5. ASSUME NEW t PROVE Handled(q, t) <=> t = f.sync \/ Handled(k, t)
    <2>1. ASSUME Handled(q, t) PROVE t = f.sync \/ Handled(k, t)
      <3>1. PICK i \in 1 .. n + 1 : q[i].sync = t
        BY <1>4, <2>1 DEF Handled
      <3>2. CASE i = 1
        BY <1>4, <3>1, <3>2
      <3>3. CASE i # 1
        <4>1. i \in 2 .. n + 1 /\ i - 1 \in 1 .. n
          BY <3>3
        <4>2. QED
          BY <1>2, <1>4, <3>1, <4>1 DEF Handled
      <3>4. QED
        BY <3>2, <3>3
    <2>2. ASSUME Handled(k, t) PROVE Handled(q, t)
      <3>1. PICK i \in 1 .. n : k[i].sync = t
        BY <1>2, <2>2 DEF Handled
      <3>2. i + 1 \in 2 .. n + 1 /\ i + 1 \in 1 .. n + 1 /\ (i + 1) - 1 = i
        OBVIOUS
      <3>3. q[i + 1].sync = t
        BY <1>4, <3>1, <3>2
      <3>4. QED
        BY <1>4, <3>2, <3>3 DEF Handled
    <2>3. t = f.sync => Handled(q, t)
      <3>1. 1 \in 1 .. n + 1
        OBVIOUS
      <3>2. QED
        BY <1>4, <3>1 DEF Handled
    <2>4. QED
      BY <2>1, <2>2, <2>3
  <1>6. ASSUME NEW i \in 1 .. n + 1, NEW j \in 1 .. n + 1,
               q[i].sync = q[j].sync, q[i].sync \in Threads
        PROVE  i = j
    <2>1. /\ i = 1 \/ (i \in 2 .. n + 1 /\ i - 1 \in 1 .. n)
          /\ j = 1 \/ (j \in 2 .. n + 1 /\ j - 1 \in 1 .. n)
      OBVIOUS
    <2>2. i \in 2 .. n + 1 => q[i] = k[i - 1]
      BY <1>4
    <2>3. j \in 2 .. n + 1 => q[j] = k[j - 1]
      BY <1>4
    <2>4. f.sync \in Threads => \A l \in 1 .. n : k[l].sync # f.sync
      BY <1>1, <1>2 DEF Handled
    <2>5. CASE i = 1 \/ j = 1
      BY <1>4, <1>6, <2>1, <2>2, <2>3, <2>4, <2>5
    <2>6. CASE i # 1 /\ j # 1
      <3>1. i - 1 = j - 1
        BY <1>1, <1>2, <1>6, <2>1, <2>2, <2>3, <2>6 DEF Once
      <3>2. QED
        BY <3>1
    <2>7. QED
      BY <2>5, <2>6
  <1>7. Once(q)
    BY <1>4, <1>6 DEF Once
  <1>8. QED
    BY <1>1, <1>3, <1>5, <1>7

(* The innermost frame is taken off.                                       *)
LEMMA PopFrame ==
  ASSUME TypeInv, Once(stack), stack # << >>
  PROVE  /\ Once(Tail(stack))
         /\ \A t \in Threads : Handled(Tail(stack), t) <=> t # Head(stack).sync /\ Handled(stack, t)
         /\ Handled(stack, Head(stack).sync)
  <1>1. PICK k \in Seq(Frame) : k = stack
    BY DEF TypeInv, TypeOK
  <1>2. PICK n \in Nat : n = Len(k) /\ n # 0
    BY <1>1, LenProperties, EmptySeq
  <1>3. PICK q : q = Tail(k)
    OBVIOUS
  <1>4. Len(q) = n - 1 /\ \A i \in 1 .. n - 1 : q[i] = k[i + 1]
    BY <1>1, <1>2, <1>3, HeadTailProperties
  <1>5. Head(k) = k[1] /\ 1 \in 1 .. n
    BY <1>1, <1>2
  <1>6. ASSUME NEW t \in Threads
        PROVE  Handled(q, t) <=> t # k[1].sync /\ Handled(k, t)
    <2>1. ASSUME Handled(q, t) PROVE t # k[1].sync /\ Handled(k, t)
      <3>1. PICK i \in 1 .. n - 1 : q[i].sync = t
        BY <1>4, <2>1 DEF Handled
      <3>2. i + 1 \in 1 .. n /\ i + 1 # 1 /\ k[i + 1].sync = t
        BY <1>4, <3>1
      <3>3. QED
        BY <1>1, <1>2, <1>5, <3>2 DEF Handled, Once
    <2>2. ASSUME t # k[1].sync, Handled(k, t) PROVE Handled(q, t)
      <3>1. PICK i \in 1 .. n : k[i].sync = t
        BY <1>2, <2>2 DEF Handled
      <3>2. i # 1
        BY <2>2, <3>1
      <3>3. i - 1 \in 1 .. n - 1 /\ (i - 1) + 1 = i
        BY <3>2
      <3>4. q[i - 1].sync = t
        BY <1>4, <3>1, <3>3
      <3>5. QED
        BY <1>4, <3>3, <3>4 DEF Handled
    <2>3. QED
      BY <2>1, <2>2
  <1>7. ASSUME NEW i \in 1 .. n - 1, NEW j \in 1 .. n - 1,
               q[i].sync = q[j].sync, q[i].sync \in Threads
        PROVE  i = j
    <2>1. i + 1 \in 1 .. n /\ j + 1 \in 1 .. n
      OBVIOUS
    <2>2. i + 1 = j + 1
      BY <1>1, <1>2, <1>4, <1>7, <2>1 DEF Once
    <2>3. QED
      BY <2>2
  <1>8. Once(q)
    BY <1>4, <1>7 DEF Once
  <1>9. Handled(k, k[1].sync)
    BY <1>2, <1>5 DEF Handled
  <1>10. QED
    BY <1>1, <1>3, <1>5, <1>6, <1>8, <1>9

(* BeginPaint changes the innermost frame and leaves its sender.           *)
LEMMA PaintFrame ==
  ASSUME TypeInv, stack # << >>
  PROVE  LET q == [stack EXCEPT ![1].message = "painted"]
         IN  (Once(stack) => Once(q)) /\ \A t : Handled(q, t) <=> Handled(stack, t)
  <1>1. PICK k \in Seq(Frame) : k = stack
    BY DEF TypeInv, TypeOK
  <1>2. PICK q : q = [k EXCEPT ![1].message = "painted"]
    OBVIOUS
  <1>3. PICK n \in Nat : n = Len(k) /\ n # 0
    BY <1>1, LenProperties, EmptySeq
  <1>4. PICK f \in Frame : f = [k[1] EXCEPT !.message = "painted"]
    <2>1. k[1] \in Frame
      BY <1>3, ElementOfSeq
    <2>2. QED
      BY <2>1 DEF Frame
  <1>5. f.sync = k[1].sync
    <2>1. k[1] \in Frame
      BY <1>3, ElementOfSeq
    <2>2. QED
      BY <1>4, <2>1 DEF Frame
  <1>6. q = [k EXCEPT ![1] = f]
    BY <1>2, <1>4
  <1>7. Len(q) = n /\ \A i \in 1 .. n : q[i] = IF i = 1 THEN f ELSE k[i]
    BY <1>3, <1>6, ExceptSeq
  <1>8. \A i \in 1 .. n : q[i].sync = k[i].sync
    BY <1>5, <1>7
  <1>9. (Once(k) => Once(q)) /\ \A t : Handled(q, t) <=> Handled(k, t)
    BY <1>3, <1>7, <1>8 DEF Once, Handled
  <1>10. QED
    BY <1>1, <1>2, <1>9

(* What a step leaves alone when it is about something else.               *)
Quiet ==
    /\ UNCHANGED <<pFirstSyncMsg, pLastSyncMsg, pNext, syncHwnd, waiting, sem>>
    /\ \A t \in Threads : /\ tpc'[t] = "enqueue" <=> tpc[t] = "enqueue"
                          /\ t \in waiting => tpc'[t] \in {"enqueue", "getvalue", "sem_post",
                                                           "sem_wait"}
    /\ Once(stack) => Once(stack)'
    /\ \A t \in Threads : Handled(stack, t)' <=> Handled(stack, t)

(* Such a step keeps every message where it is.                            *)
LEMMA QuietStep ==
  ASSUME NEW s, Sending(s), Quiet
  PROVE  Sending(s)'
  <1>1. Linked(s)' /\ Once(stack)'
    BY DEF Sending, Quiet, Linked
  <1>2. ASSUME NEW t \in Threads PROVE Placed(s, t)'
    BY DEF Sending, Quiet, Placed, Enqueues, Woken, Queued
  <1>3. QED
    BY <1>1, <1>2 DEF Sending

(* A step that neither sends, nor links, nor wakes a sender up.            *)
LEMMA QuietNext ==
  ASSUME TypeInv, NEW s, Sending(s), Straight, [Next]_vars,
         ~(\/ \E t \in Threads, w \in Windows : SendSyncMessage(t, w)
           \/ \E t \in Threads : SyncEnqueue(t) \/ SyncReturn(t)
           \/ PeekSync \/ DispatchEnd \/ ThrowSync)
  PROVE  Quiet
  <1> USE DEF list, syncs, ring, sender, reader
  <1>0. \A t \in Threads : /\ t # Owner /\ t \in AllThreads
                           /\ t \in waiting => tpc[t] \in {"enqueue", "getvalue", "sem_post", "sem_wait"}
                           /\ tpc \in [AllThreads -> Places]
    BY QueueAssumption DEF AllThreads, Sending, Placed, TypeInv, TypeOK, Places
  <1>1. CASE UNCHANGED vars
    BY <1>0, <1>1 DEF vars, Quiet
  <1>2. ASSUME NEW t \in AllThreads, NEW p \in Posts, PostMessage(t, p)
        PROVE  Quiet
    BY <1>0, <1>2 DEF PostMessage, Ready, Signal, Quiet
  <1>3. ASSUME NEW t \in AllThreads, NEW w \in Windows,
               Invalidate(t, w) \/ SendNotifyMessage(t, w) \/ SendPriorNotifyMessage(t, w)
        PROVE  Quiet
    BY <1>0, <1>3 DEF Invalidate, SendNotifyMessage, SendPriorNotifyMessage, Ready, Signal, Quiet
  <1>4. ASSUME NEW t \in AllThreads, PostQuitMessage(t)
        PROVE  Quiet
    BY <1>0, <1>4 DEF PostQuitMessage, Ready, Signal, Quiet
  <1>5. ASSUME NEW t \in AllThreads, SemGetValue(t) \/ SemPost(t)
        PROVE  Quiet
    BY <1>0, <1>5 DEF SemGetValue, SemPost, Posted, Quiet
  <1>6. ASSUME NEW t \in Threads, PostPaint(t)
        PROVE  Quiet
    BY <1>0, <1>6 DEF PostPaint, Signal, Quiet
  <1>7. CASE \/ \E c \in Calls : Enter(c)
             \/ PeekQuit \/ PeekNothing \/ Look \/ TryWait \/ IdleNothing \/ Broadcast
    BY <1>0, <1>7 DEF Enter, PeekQuit, PeekNothing, Look, TryWait, IdleNothing, Broadcast, Quiet
  <1>8. CASE IdleExpires
    BY <1>0, <1>8 DEF IdleExpires, Quiet
  <1>9. ASSUME NEW f \in Frame, f.sync = NoThread, stack' = <<f>> \o stack
        PROVE  /\ Once(stack)'
               /\ \A t \in Threads : Handled(stack, t)' <=> Handled(stack, t)
    <2>1. NoThread \notin Threads /\ Once(stack)
      BY QueueAssumption DEF AllThreads, Sending
    <2>2. /\ Once(<<f>> \o stack)
          /\ \A t \in Threads : Handled(<<f>> \o stack, t) <=> t = f.sync \/ Handled(stack, t)
      BY <1>9, <2>1, PushFrame
    <2>3. QED
      BY <1>9, <2>1, <2>2
  <1>10. ASSUME NEW f \in Frame, f.sync = NoThread, Deliver(f),
                UNCHANGED <<pFirstSyncMsg, pLastSyncMsg, pNext, syncHwnd, waiting, sem, tpc>>
         PROVE  Quiet
    <2>1. stack' = stack \/ stack' = <<f>> \o stack
      BY <1>10 DEF Deliver
    <2>2. /\ Once(stack)'
          /\ \A t \in Threads : Handled(stack, t)' <=> Handled(stack, t)
      BY <1>9, <1>10, <2>1 DEF Sending
    <2>3. QED
      BY <1>0, <1>10, <2>2 DEF Quiet
  <1>11. CASE PeekNotify
    <2> DEFINE f == [message |-> "MSG_NOTIFY", hwnd |-> Head(notify), sync |-> NoThread]
    <2>1. Head(notify) \in Windows
      BY <1>11, HeadTailProperties DEF PeekNotify, TakeNotify, NotifyPending, TypeInv, TypeOK
    <2>2. f \in Frame /\ f.sync = NoThread
      BY <2>1 DEF Frame, AllMsgs
    <2>3. Deliver(f) /\ UNCHANGED <<pFirstSyncMsg, pLastSyncMsg, pNext, syncHwnd, waiting, sem, tpc>>
      BY <1>11 DEF PeekNotify
    <2> HIDE DEF f
    <2>4. QED
      BY <1>10, <2>2, <2>3
  <1>12. CASE PeekPost \/ PeekPostMessage(PostMsgs)
    <2> DEFINE f == [message |-> msg[readpos].message, hwnd |-> msg[readpos].hwnd,
                     sync |-> NoThread]
    <2>1. f \in Frame /\ f.sync = NoThread
      BY DEF Frame, AllMsgs, Msg, TypeInv, TypeOK
    <2>2. UNCHANGED <<pFirstSyncMsg, pLastSyncMsg, pNext, syncHwnd, waiting, sem, tpc>>
      BY <1>12 DEF PeekPost, PeekPostMessage
    <2>3. Deliver(f) \/ stack' = <<f>> \o stack
      BY <1>12 DEF PeekPost, PeekPostMessage
    <2> HIDE DEF f
    <2>4. CASE Deliver(f)
      BY <1>10, <2>1, <2>2, <2>4
    <2>5. CASE stack' = <<f>> \o stack
      BY <1>0, <1>9, <2>1, <2>2, <2>5 DEF Quiet
    <2>6. QED
      BY <2>3, <2>4, <2>5
  <1>13. CASE PeekPaint
    <2>1. PICK w \in invalid :
             Deliver([message |-> "MSG_PAINT", hwnd |-> w, sync |-> NoThread])
      BY <1>13 DEF PeekPaint
    <2> DEFINE f == [message |-> "MSG_PAINT", hwnd |-> w, sync |-> NoThread]
    <2>2. f \in Frame /\ f.sync = NoThread
      BY DEF Frame, AllMsgs, TypeInv, TypeOK
    <2>3. Deliver(f) /\ UNCHANGED <<pFirstSyncMsg, pLastSyncMsg, pNext, syncHwnd, waiting, sem, tpc>>
      BY <1>13, <2>1 DEF PeekPaint
    <2> HIDE DEF f
    <2>4. QED
      BY <1>10, <2>2, <2>3
  <1>14. CASE PeekTimer
    <2>1. PICK w \in expired :
             Deliver([message |-> "MSG_TIMER", hwnd |-> w, sync |-> NoThread])
      BY <1>14 DEF PeekTimer
    <2> DEFINE f == [message |-> "MSG_TIMER", hwnd |-> w, sync |-> NoThread]
    <2>2. f \in Frame /\ f.sync = NoThread
      BY DEF Frame, AllMsgs, TypeInv, TypeOK
    <2>3. Deliver(f) /\ UNCHANGED <<pFirstSyncMsg, pLastSyncMsg, pNext, syncHwnd, waiting, sem, tpc>>
      BY <1>14, <2>1 DEF PeekTimer
    <2> HIDE DEF f
    <2>4. QED
      BY <1>10, <2>2, <2>3
  <1>15. CASE BeginPaint
    <2>1. stack # << >> /\ stack' = [stack EXCEPT ![1].message = "painted"]
          /\ UNCHANGED <<pFirstSyncMsg, pLastSyncMsg, pNext, syncHwnd, waiting, sem, tpc>>
      BY <1>15 DEF BeginPaint
    <2>2. (Once(stack) => Once(stack)') /\ \A t : Handled(stack, t)' <=> Handled(stack, t)
      BY <2>1, PaintFrame
    <2>3. QED
      BY <1>0, <2>1, <2>2 DEF Quiet
  <1>16. CASE \/ \E w \in Windows : ThrowStart(w)
              \/ ThrowNotify \/ ThrowNext \/ ThrowSyncEnd \/ ThrowPost \/ ThrowEnd
    BY <1>0, <1>16 DEF ThrowStart, ThrowNotify, ThrowNext, ThrowSyncEnd, ThrowPost, ThrowEnd, Quiet
  <1>17. QED
    BY <1>1, <1>2, <1>3, <1>4, <1>5, <1>6, <1>7, <1>8, <1>11, <1>12, <1>13, <1>14, <1>15, <1>16
    DEF Next, Post, Paint, Notify, Quit, Send, InPostMsgq, InCall, Peek, Idle, Throw

(* SendSyncMessage prepares its node.                                      *)
LEMMA SendStep ==
  ASSUME TypeInv, NEW s, Sending(s), NEW t \in Threads, NEW w \in Windows, SendSyncMessage(t, w)
  PROVE  Sending(s)' /\ \A u \in Threads : ~(sem'[u] > sem[u])
  <1> USE DEF list, syncs, ring, sender, reader
  <1>1. /\ sem \in [Threads -> Nat] /\ pNext \in [Threads -> Threads \cup {NoThread}]
        /\ syncHwnd \in [Threads -> Windows \cup {NoWindow}] /\ tpc \in [AllThreads -> Places]
        /\ Threads \subseteq AllThreads
    BY DEF TypeInv, TypeOK, AllThreads, Places
  <1>2. /\ tpc[t] = "run" /\ Placed(s, t)
        /\ waiting' = waiting \cup {t} /\ sem' = [sem EXCEPT ![t] = 0]
        /\ syncHwnd' = [syncHwnd EXCEPT ![t] = w] /\ pNext' = [pNext EXCEPT ![t] = NoThread]
        /\ tpc' = [tpc EXCEPT ![t] = "enqueue"]
        /\ UNCHANGED <<pFirstSyncMsg, pLastSyncMsg, stack>>
    BY DEF SendSyncMessage, Sending
  <1>3. t \notin waiting /\ ~Queued(s, t) /\ ~Handled(stack, t)
    BY <1>2 DEF Placed
  <1>4. \A u \in Threads : u # t => /\ sem'[u] = sem[u] /\ syncHwnd'[u] = syncHwnd[u]
                                    /\ pNext'[u] = pNext[u] /\ tpc'[u] = tpc[u]
                                    /\ (u \in waiting' <=> u \in waiting)
    BY <1>1, <1>2
  <1>5. /\ sem'[t] = 0 /\ syncHwnd'[t] = w /\ pNext'[t] = NoThread /\ tpc'[t] = "enqueue"
        /\ t \in waiting'
    BY <1>1, <1>2
  <1>6. ASSUME NEW u \in Threads PROVE Placed(s, u)'
    <2>1. CASE u = t
      BY <1>2, <1>3, <1>5, <2>1 DEF Placed, Enqueues, Woken, Queued, Handled
    <2>2. CASE u # t
      <3>1. Placed(s, u)
        BY DEF Sending
      <3>2. QED
        BY <1>2, <1>4, <2>2, <3>1 DEF Placed, Enqueues, Woken, Queued, Handled
    <2>3. QED
      BY <2>1, <2>2
  <1>7. Linked(s)'
    <2>1. Linked(s)
      BY DEF Sending
    <2>2. \A i \in 1 .. Len(s) : s[i] \in Threads /\ s[i] # t
      BY <1>3, <2>1, ElementOfSeq DEF Linked, Queued
    <2>3. s # << >> => Len(s) \in 1 .. Len(s)
      BY <2>1, EmptySeq DEF Linked
    <2>4. \A i \in 1 .. Len(s) - 1 : i \in 1 .. Len(s)
      BY <2>1, LenProperties DEF Linked
    <2>5. QED
      BY <1>2, <1>4, <2>1, <2>2, <2>3, <2>4 DEF Linked
  <1>8. Once(stack)'
    BY <1>2 DEF Sending, Once
  <1>9. \A u \in Threads : ~(sem'[u] > sem[u])
    BY <1>1, <1>4, <1>5
  <1>10. QED
    BY <1>6, <1>7, <1>8, <1>9 DEF Sending

(* ... and links it.                                                       *)
LEMMA EnqueueStep ==
  ASSUME TypeInv, NEW s, Sending(s), NEW t \in Threads, SyncEnqueue(t)
  PROVE  Sending(Append(s, t))' /\ UNCHANGED sem
  <1> USE DEF list, syncs, ring, sender, reader
  <1>1. /\ pNext \in [Threads -> Threads \cup {NoThread}] /\ tpc \in [AllThreads -> Places]
        /\ Threads \subseteq AllThreads /\ t # Owner
    BY QueueAssumption DEF TypeInv, TypeOK, AllThreads, Places
  <1>2. /\ tpc[t] = "enqueue" /\ Placed(s, t) /\ Link(t) /\ pLastSyncMsg' = t
        /\ tpc' = [tpc EXCEPT ![t] = "getvalue"]
        /\ UNCHANGED <<syncHwnd, waiting, sem, stack>>
    BY <1>1 DEF SyncEnqueue, Sending, Signal
  <1>3. t \in waiting /\ ~Queued(s, t) /\ ~Handled(stack, t) /\ pNext[t] = NoThread
        /\ ~Woken(t) /\ syncHwnd[t] \in Windows
    BY <1>2 DEF Placed, Enqueues
  <1>4. PICK q : q = Append(s, t)
    OBVIOUS
  <1>5. Linked(q)' /\ \A u : Queued(q, u) <=> Queued(s, u) \/ u = t
    BY <1>2, <1>3, <1>4, LinkStep DEF Sending
  <1>6. \A u \in Threads : u # t => tpc'[u] = tpc[u]
    BY <1>1, <1>2
  <1>7. tpc'[t] = "getvalue"
    BY <1>1, <1>2
  <1>8. \A u \in Threads : tpc[u] = "enqueue" /\ u # t => pNext'[u] = pNext[u]
    <2>1. ASSUME NEW u \in Threads, tpc[u] = "enqueue", u # t PROVE pNext'[u] = pNext[u]
      <3>1. ~Queued(s, u)
        BY <2>1 DEF Sending, Placed, Enqueues
      <3>2. CASE pFirstSyncMsg = NoThread
        BY <1>2, <3>2 DEF Link
      <3>3. CASE pFirstSyncMsg # NoThread
        <4>1. s # << >> /\ pLastSyncMsg = s[Len(s)] /\ s \in Seq(Threads)
          BY <3>3 DEF Sending, Linked
        <4>2. Len(s) \in 1 .. Len(s)
          BY <4>1, EmptySeq
        <4>3. pLastSyncMsg # u
          BY <3>1, <4>1, <4>2 DEF Queued
        <4>4. QED
          BY <1>1, <1>2, <3>3, <4>3 DEF Link
      <3>4. QED
        BY <3>2, <3>3
    <2>2. QED
      BY <2>1
  <1>9. ASSUME NEW u \in Threads PROVE Placed(q, u)'
    <2>1. CASE u = t
      <3>1. Queued(q, u)
        BY <1>5, <2>1
      <3>2. QED
        BY <1>2, <1>3, <1>7, <2>1, <3>1 DEF Placed, Enqueues, Woken, Queued, Handled
    <2>2. CASE u # t
      <3>1. Placed(s, u) /\ (Queued(q, u) <=> Queued(s, u))
        BY <1>5, <2>2 DEF Sending
      <3>2. tpc'[u] = tpc[u] /\ (tpc[u] = "enqueue" => pNext'[u] = pNext[u])
        BY <1>6, <1>8, <2>2
      <3>3. QED
        BY <1>2, <3>1, <3>2 DEF Placed, Enqueues, Woken, Handled
    <2>3. QED
      BY <2>1, <2>2
  <1>10. Once(stack)'
    BY <1>2 DEF Sending, Once
  <1>11. QED
    BY <1>2, <1>4, <1>5, <1>9, <1>10 DEF Sending

(* SendSyncMessage returns.                                                *)
LEMMA ReturnStep ==
  ASSUME TypeInv, NEW s, Sending(s), NEW t \in Threads, SyncReturn(t)
  PROVE  Sending(s)' /\ \A u \in Threads : ~(sem'[u] > sem[u])
  <1> USE DEF list, syncs, ring, sender, reader
  <1>1. sem \in [Threads -> Nat] /\ tpc \in [AllThreads -> Places] /\ Threads \subseteq AllThreads
    BY DEF TypeInv, TypeOK, AllThreads, Places
  <1>2. /\ tpc[t] = "sem_wait" /\ sem[t] > 0 /\ Placed(s, t)
        /\ sem' = [sem EXCEPT ![t] = @ - 1] /\ waiting' = waiting \ {t}
        /\ tpc' = [tpc EXCEPT ![t] = "run"]
        /\ UNCHANGED <<pFirstSyncMsg, pLastSyncMsg, pNext, syncHwnd, stack>>
    BY DEF SyncReturn, Sending
  <1>3. sem[t] = 1 /\ ~Queued(s, t) /\ ~Handled(stack, t)
    BY <1>1, <1>2 DEF Placed, Woken
  <1>4. sem'[t] = 0 /\ tpc'[t] = "run" /\ t \notin waiting'
    BY <1>1, <1>2, <1>3
  <1>5. \A u \in Threads : u # t => sem'[u] = sem[u] /\ tpc'[u] = tpc[u] /\ (u \in waiting' <=> u \in waiting)
    BY <1>1, <1>2
  <1>6. ASSUME NEW u \in Threads PROVE Placed(s, u)'
    <2>1. CASE u = t
      BY <1>2, <1>3, <1>4, <2>1 DEF Placed, Enqueues, Woken, Queued, Handled
    <2>2. CASE u # t
      <3>1. Placed(s, u)
        BY DEF Sending
      <3>2. QED
        BY <1>2, <1>5, <2>2, <3>1 DEF Placed, Enqueues, Woken, Queued, Handled
    <2>3. QED
      BY <2>1, <2>2
  <1>7. Linked(s)' /\ Once(stack)'
    BY <1>2 DEF Sending, Linked, Once
  <1>8. QED
    BY <1>1, <1>3, <1>4, <1>5, <1>6, <1>7 DEF Sending

(* PeekMessageEx takes the first sender's message and dispatches it.       *)
LEMMA PeekSyncStep ==
  ASSUME TypeInv, NEW s, Sending(s), PeekSync
  PROVE  (Sending(s)' \/ Sending(Tail(s))') /\ UNCHANGED sem
  <1> USE DEF list, syncs, ring, sender, reader
  <1>1. PICK f : f = [message |-> "MSG_SEND", hwnd |-> syncHwnd[pFirstSyncMsg],
                      sync |-> pFirstSyncMsg]
    OBVIOUS
  <1>2. /\ Deliver(f) /\ Unlink /\ pFirstSyncMsg # NoThread
        /\ UNCHANGED <<pLastSyncMsg, pNext, syncHwnd, tpc, waiting, sem>>
    BY <1>1 DEF PeekSync, TakeSync, SyncPending
  <1>3. CASE ~call.remove
    <2>1. UNCHANGED <<pFirstSyncMsg, stack>>
      BY <1>2, <1>3 DEF Deliver, Unlink
    <2>2. Linked(s)' /\ Once(stack)'
      BY <1>2, <2>1 DEF Sending, Linked, Once
    <2>3. \A t \in Threads : Placed(s, t)'
      BY <1>2, <2>1 DEF Sending, Placed, Enqueues, Woken, Queued, Handled
    <2>4. QED
      BY <1>2, <2>2, <2>3 DEF Sending
  <1>4. CASE call.remove
    <2>1. stack' = <<f>> \o stack /\ pFirstSyncMsg' = pNext[pFirstSyncMsg]
      BY <1>2, <1>4 DEF Deliver, Unlink
    <2>2. PICK q : q = Tail(s)
      OBVIOUS
    <2>3. PICK p : p = pFirstSyncMsg
      OBVIOUS
    <2>4. /\ Linked(q)' /\ p \in Threads /\ Queued(s, p)
          /\ \A u : Queued(q, u) <=> Queued(s, u) /\ u # p
      BY <1>2, <2>1, <2>2, <2>3, UnlinkStep DEF Sending
    <2>5. f \in Frame /\ f.sync = p
      BY <1>1, <2>3, <2>4 DEF Frame, AllMsgs, TypeInv, TypeOK
    <2>6. Placed(s, p) /\ ~Handled(stack, p)
      BY <2>4 DEF Sending, Placed
    <2>7. /\ Once(stack)'
          /\ \A t \in Threads : Handled(stack, t)' <=> t = p \/ Handled(stack, t)
      BY <2>1, <2>5, <2>6, PushFrame DEF Sending
    <2>8. ASSUME NEW t \in Threads PROVE Placed(q, t)'
      <3>1. Placed(s, t)
        BY DEF Sending
      <3>2. /\ Handled(stack, t)' <=> t = p \/ Handled(stack, t)
            /\ Queued(q, t) <=> Queued(s, t) /\ t # p
        BY <2>4, <2>7
      <3>3. t = p => Queued(s, t)
        BY <2>4
      <3>4. QED
        BY <1>2, <3>1, <3>2, <3>3 DEF Placed, Enqueues, Woken
    <2>9. QED
      BY <1>2, <2>2, <2>4, <2>7, <2>8 DEF Sending
  <1>5. QED
    BY <1>3, <1>4

(* Waking a sender up counts for it alone.                                 *)
LEMMA WakeUpValue ==
  ASSUME TypeInv, NEW c, WakeUp(c)
  PROVE  \A t \in Threads : sem'[t] = IF t = c THEN sem[t] + 1 ELSE sem[t]
  BY DEF WakeUp

(* The sender of a dispatched message is answered.                         *)
LEMMA DispatchStep ==
  ASSUME TypeInv, NEW s, Sending(s), DispatchEnd
  PROVE  /\ Sending(s)'
         /\ \A t \in Threads : sem'[t] > sem[t] => t \in waiting /\ sem[t] = 0 /\ tpc[t] # "enqueue"
  <1> USE DEF list, syncs, ring, sender, reader
  <1>1. PICK c : c = Head(stack).sync
    OBVIOUS
  <1>2. /\ stack # << >> /\ stack' = Tail(stack) /\ WakeUp(c)
        /\ UNCHANGED <<pFirstSyncMsg, pLastSyncMsg, pNext, syncHwnd, tpc, waiting>>
    BY <1>1 DEF DispatchEnd
  <1>3. /\ Once(stack)' /\ Handled(stack, c)
        /\ \A t \in Threads : Handled(stack, t)' <=> t # c /\ Handled(stack, t)
    BY <1>1, <1>2, PopFrame DEF Sending
  <1>4. \A t \in Threads : sem'[t] = IF t = c THEN sem[t] + 1 ELSE sem[t]
    BY <1>2, WakeUpValue
  <1>5. \A t \in Threads : t = c => /\ t \in waiting /\ sem[t] = 0 /\ tpc[t] # "enqueue"
                                    /\ ~Queued(s, t)
    BY <1>3 DEF Sending, Placed, Enqueues, Woken
  <1>6. ASSUME NEW t \in Threads PROVE Placed(s, t)'
    <2>1. Placed(s, t)
      BY DEF Sending
    <2>2. CASE t = c
      <3>1. sem'[t] = 1 /\ ~Handled(stack, t)'
        BY <1>3, <1>4, <1>5, <2>2
      <3>2. QED
        BY <1>2, <1>5, <2>1, <2>2, <3>1 DEF Placed, Enqueues, Woken, Queued
    <2>3. CASE t # c
      <3>1. sem'[t] = sem[t] /\ (Handled(stack, t)' <=> Handled(stack, t))
        BY <1>3, <1>4, <2>3
      <3>2. QED
        BY <1>2, <2>1, <3>1 DEF Placed, Enqueues, Woken, Queued
    <2>4. QED
      BY <2>2, <2>3
  <1>7. Linked(s)'
    BY <1>2 DEF Sending, Linked
  <1>8. \A t \in Threads : sem'[t] > sem[t] => t = c
    BY <1>4 DEF TypeInv, TypeOK
  <1>9. QED
    BY <1>3, <1>5, <1>6, <1>7, <1>8 DEF Sending

(* Under these calls the walk is at the head of the list: what it unlinks  *)
(* is the first.                                                           *)
LEMMA ThrowSyncHead ==
  ASSUME TypeInv, FlagsInv, NEW s, Sending(s), Straight, opc = "throw_sync"
  PROVE  walk.prev = NoThread /\ walk.cur = pFirstSyncMsg
  BY DEF Straight, FlagsInv, WalkInv

(* A sender whose message is thrown away is answered at once.              *)
LEMMA ThrowSyncStep ==
  ASSUME TypeInv, FlagsInv, NEW s, Sending(s), Straight, ThrowSync
  PROVE  /\ Sending(Tail(s))'
         /\ \A t \in Threads : sem'[t] > sem[t] => t \in waiting /\ sem[t] = 0 /\ tpc[t] # "enqueue"
  <1> USE DEF list, syncs, ring, sender, reader
  <1>1. PICK c : c = walk.cur
    OBVIOUS
  <1>2. /\ c = pFirstSyncMsg /\ walk.prev = NoThread /\ c # NoThread
    BY <1>1, ThrowSyncHead DEF ThrowSync
  <1>3. /\ pFirstSyncMsg' = pNext[c] /\ WakeUp(c)
        /\ syncHwnd' = [syncHwnd EXCEPT ![c] = NoWindow]
        /\ UNCHANGED <<pLastSyncMsg, pNext, tpc, waiting, stack>>
    BY <1>1, <1>2 DEF ThrowSync
  <1>4. PICK q : q = Tail(s)
    OBVIOUS
  <1>5. /\ Linked(q)' /\ c \in Threads /\ Queued(s, c)
        /\ \A u : Queued(q, u) <=> Queued(s, u) /\ u # c
    BY <1>2, <1>3, <1>4, UnlinkStep DEF Sending
  <1>6. \A t \in Threads : sem'[t] = IF t = c THEN sem[t] + 1 ELSE sem[t]
    BY <1>3, WakeUpValue
  <1>7. c \in waiting /\ sem[c] = 0 /\ tpc[c] # "enqueue" /\ ~Handled(stack, c)
    BY <1>5 DEF Sending, Placed, Enqueues, Woken
  <1>8. \A t \in Threads : t # c => syncHwnd'[t] = syncHwnd[t]
    BY <1>3 DEF TypeInv, TypeOK
  <1>9. ASSUME NEW t \in Threads PROVE Placed(q, t)'
    <2>1. Placed(s, t)
      BY DEF Sending
    <2>2. CASE t = c
      <3>1. sem'[t] = 1 /\ ~Queued(q, t)
        BY <1>5, <1>6, <1>7, <2>2
      <3>2. QED
        BY <1>3, <1>7, <2>1, <2>2, <3>1 DEF Placed, Enqueues, Woken, Handled
    <2>3. CASE t # c
      <3>1. sem'[t] = sem[t] /\ (Queued(q, t) <=> Queued(s, t)) /\ syncHwnd'[t] = syncHwnd[t]
        BY <1>5, <1>6, <1>8, <2>3
      <3>2. QED
        BY <1>3, <2>1, <3>1 DEF Placed, Enqueues, Woken, Handled
    <2>4. QED
      BY <2>2, <2>3
  <1>10. Once(stack)'
    BY <1>3 DEF Sending, Once
  <1>11. \A t \in Threads : sem'[t] > sem[t] => t = c
    BY <1>6 DEF TypeInv, TypeOK
  <1>12. QED
    BY <1>4, <1>5, <1>7, <1>9, <1>10, <1>11 DEF Sending

(* Every message in the list is thrown away.                               *)
LEMMA ThrowSyncAll ==
  ASSUME ThrownWhole, TypeInv, FlagsInv, NEW s, Sending(s), Straight, opc = "throw_sync",
         walk.cur # NoThread
  PROVE  Doomed(syncHwnd[walk.cur])
  <1>1. walk.cur = pFirstSyncMsg
    BY ThrowSyncHead
  <1>2. s # << >> /\ pFirstSyncMsg = s[1] /\ s \in Seq(Threads)
    BY <1>1 DEF Sending, Linked
  <1>3. 1 \in 1 .. Len(s)
    BY <1>2, EmptySeq
  <1>4. s[1] \in Threads /\ Queued(s, s[1])
    BY <1>2, <1>3, ElementOfSeq DEF Queued
  <1>5. syncHwnd[walk.cur] \in Windows
    BY <1>1, <1>2, <1>4 DEF Sending, Placed
  <1>6. walk.hwnd \in Discarded
    BY DEF Straight, Throwing
  <1>7. QED
    BY <1>5, <1>6 DEF ThrownWhole, Doomed

(* The walk stays straight.                                                *)
LEMMA StraightStep ==
  ASSUME ThrownWhole, TypeInv, FlagsInv, NEW s, Sending(s), Straight, [Next]_vars
  PROVE  Straight'
  <1> USE DEF list, syncs, ring, sender, reader, Throwing
  <1>0. walk \in Walk
    BY DEF TypeInv, TypeOK
  <1>1. CASE UNCHANGED vars
    BY <1>1 DEF vars, Straight
  <1>2. CASE Post \/ Paint \/ Notify \/ Quit \/ Send \/ InPostMsgq
    BY <1>2 DEF Straight, Post, Paint, Notify, Quit, Send, InPostMsgq, PostMessage, Invalidate,
       SendNotifyMessage, SendPriorNotifyMessage, PostQuitMessage, SendSyncMessage,
       SemGetValue, SemPost
  <1>3. ASSUME NEW t \in Threads, InCall(t) PROVE Straight'
    BY <1>3 DEF Straight, InCall, PostPaint, SyncEnqueue, SyncReturn
  <1>4. CASE (\E c \in Calls : Enter(c)) \/ PeekPostMessage(PostMsgs) \/ BeginPaint \/ DispatchEnd
    BY <1>4 DEF Straight, Enter, OwnerAt, PeekPostMessage, BeginPaint, DispatchEnd
  <1>5. CASE Peek
    BY <1>5 DEF Straight, Peek, PeekQuit, PeekSync, PeekNotify, PeekPost, PeekPaint, PeekTimer,
       PeekNothing, Deliver, Return
  <1>6. CASE Look \/ Idle
    BY <1>6 DEF Straight, Look, Idle, TryWait, IdleExpires, IdleNothing, Broadcast, Resume,
       Return, OwnerAt
  <1>7. ASSUME NEW w \in Windows, ThrowStart(w) PROVE Straight'
    BY <1>7 DEF Straight, ThrowStart, NoWalk
  <1>8. CASE ThrowNotify
    BY <1>0, <1>8 DEF Straight, ThrowNotify, Walk
  <1>9. CASE ThrowSync
    <2>1. walk.prev = NoThread /\ opc = "throw_sync"
      BY <1>9, ThrowSyncHead DEF ThrowSync
    <2>2. opc' = opc /\ walk' = [walk EXCEPT !.cur = pNext[walk.cur]]
      BY <1>9, <2>1 DEF ThrowSync
    <2>3. walk'.hwnd = walk.hwnd /\ walk'.prev = walk.prev
      BY <1>0, <2>2 DEF Walk
    <2>4. QED
      BY <2>1, <2>2, <2>3 DEF Straight
  <1>10. CASE ThrowNext
    BY <1>10, ThrowSyncAll DEF ThrowNext, Straight
  <1>11. CASE ThrowSyncEnd
    <2>1. pFirstSyncMsg = NoThread /\ pFirstSyncMsg' = pFirstSyncMsg
      BY <1>11, ThrowSyncHead DEF ThrowSyncEnd
    <2>2. opc' = "throw_post" /\ walk' = [walk EXCEPT !.at = readpos] /\ opc = "throw_sync"
      BY <1>11 DEF ThrowSyncEnd
    <2>3. walk'.hwnd = walk.hwnd
      BY <1>0, <2>2 DEF Walk
    <2>4. QED
      BY <2>1, <2>2, <2>3 DEF Straight
  <1>12. CASE ThrowPost
    <2>1. opc' = opc /\ opc = "throw_post" /\ pFirstSyncMsg' = pFirstSyncMsg
          /\ (walk' = walk \/ walk' = [walk EXCEPT !.at = Succ(@)])
      BY <1>12 DEF ThrowPost
    <2>2. walk'.hwnd = walk.hwnd
      BY <1>0, <2>1 DEF Walk
    <2>3. QED
      BY <2>1, <2>2 DEF Straight
  <1>13. CASE ThrowEnd
    BY <1>13 DEF Straight, ThrowEnd
  <1>14. QED
    BY <1>1, <1>2, <1>3, <1>4, <1>5, <1>6, <1>7, <1>8, <1>9, <1>10, <1>11, <1>12, <1>13
    DEF Next, Throw

(* The invariant of SendSyncMessage, DispatchMessage and the walk.         *)
SyncInv == TypeInv /\ FlagsInv /\ Straight /\ \E s \in Seq(Threads) : Sending(s)

(* Only a sender that waits for its answer has its semaphore posted.       *)
Answered ==
    \A t \in Threads : sem'[t] > sem[t] => t \in waiting /\ sem[t] = 0 /\ tpc[t] # "enqueue"

(* Every step keeps the places, and answers nobody twice.                  *)
LEMMA SendingStep ==
  ASSUME TypeInv, FlagsInv, Straight, NEW s \in Seq(Threads), Sending(s), [Next]_vars
  PROVE  Answered /\ \E q \in Seq(Threads) : Sending(q)'
  <1>0. sem \in [Threads -> Nat]
    BY DEF TypeInv, TypeOK
  <1>1. \A q : Sending(q)' => q \in Seq(Threads)
    BY DEF Sending, Linked
  <1>2. CASE ~(\/ \E t \in Threads, w \in Windows : SendSyncMessage(t, w)
               \/ \E t \in Threads : SyncEnqueue(t) \/ SyncReturn(t)
               \/ PeekSync \/ DispatchEnd \/ ThrowSync)
    <2>1. Quiet
      BY <1>2, QuietNext
    <2>2. Sending(s)'
      BY <2>1, QuietStep
    <2>3. UNCHANGED sem
      BY <2>1 DEF Quiet
    <2>4. QED
      BY <1>0, <1>1, <2>2, <2>3 DEF Answered
  <1>3. ASSUME NEW t \in Threads, NEW w \in Windows, SendSyncMessage(t, w)
        PROVE  Answered /\ Sending(s)'
    BY <1>3, SendStep DEF Answered
  <1>4. ASSUME NEW t \in Threads, SyncEnqueue(t)
        PROVE  Answered /\ Sending(Append(s, t))'
    <2>1. Sending(Append(s, t))' /\ UNCHANGED sem
      BY <1>4, EnqueueStep
    <2>2. QED
      BY <1>0, <2>1 DEF Answered
  <1>5. ASSUME NEW t \in Threads, SyncReturn(t) PROVE Answered /\ Sending(s)'
    BY <1>5, ReturnStep DEF Answered
  <1>6. CASE PeekSync
    <2>1. (Sending(s)' \/ Sending(Tail(s))') /\ UNCHANGED sem
      BY <1>6, PeekSyncStep
    <2>2. QED
      BY <1>0, <1>1, <2>1 DEF Answered
  <1>7. CASE DispatchEnd
    BY <1>7, DispatchStep DEF Answered
  <1>8. CASE ThrowSync
    <2>1. Answered /\ Sending(Tail(s))'
      BY <1>8, ThrowSyncStep DEF Answered
    <2>2. QED
      BY <1>1, <2>1
  <1>9. QED
    BY <1>1, <1>2, <1>3, <1>4, <1>5, <1>6, <1>7, <1>8

(* Every step keeps the invariant, when the windows thrown away stand for  *)
(* all of the queue's.                                                     *)
LEMMA SyncStep ==
  ASSUME ThrownWhole, SyncInv, [Next]_vars
  PROVE  SyncInv' /\ Answered
  <1>1. PICK s \in Seq(Threads) : Sending(s)
    BY DEF SyncInv
  <1>2. TypeInv /\ FlagsInv /\ Straight
    BY DEF SyncInv
  <1>3. TypeInv' /\ FlagsInv'
    BY <1>2, NextTypeInv, FlagsStep
  <1>4. Straight'
    BY <1>1, <1>2, StraightStep
  <1>5. Answered /\ \E q \in Seq(Threads) : Sending(q)'
    BY <1>1, <1>2, SendingStep
  <1>6. (\E q \in Seq(Threads) : Sending(q))'
    BY <1>5
  <1>7. QED
    BY <1>3, <1>4, <1>5, <1>6 DEF SyncInv

(* At first nobody sends.                                                  *)
LEMMA InitSync == Init => SyncInv
  <1> SUFFICES ASSUME Init PROVE SyncInv
    OBVIOUS
  <1>1. TypeInv
    BY InitTypeInv
  <1>2. FlagsInv
    BY DEF Init, FlagsInv, FlagsCover, WalkInv
  <1>3. Straight
    BY DEF Init, Straight, Throwing
  <1>4. << >> \in Seq(Threads) /\ Len(<< >>) = 0
    OBVIOUS
  <1>5. PICK s \in Seq(Threads) : s = << >> /\ Len(s) = 0
    BY <1>4
  <1>6. Linked(s)
    BY <1>5 DEF Linked, Init
  <1>7. Once(stack)
    <2>1. Len(stack) = 0
      BY DEF Init
    <2>2. QED
      BY <2>1 DEF Once
  <1>8. ASSUME NEW t \in Threads PROVE Placed(s, t)
    <2>1. ~Queued(s, t)
      BY <1>5 DEF Queued
    <2>2. ~Handled(stack, t)
      <3>1. Len(stack) = 0
        BY DEF Init
      <3>2. QED
        BY <3>1 DEF Handled
    <2>3. tpc[t] = "run" /\ t \notin waiting /\ sem[t] = 0
      BY DEF Init, AllThreads
    <2>4. QED
      BY <2>1, <2>2, <2>3 DEF Placed, Enqueues, Woken
  <1>9. QED
    BY <1>1, <1>2, <1>3, <1>6, <1>7, <1>8 DEF SyncInv, Sending

(* A thread in SendSyncMessage can still be answered: its message is about *)
(* to be linked, in the list, dispatched, or answered already - if what    *)
(* __mg_throw_away_messages is called for is the queue's one main window.  *)
(* Without that the walk leaves pLastSyncMsg on a node that is gone        *)
(* (message.c:1504) and the next message is linked behind it.              *)
THEOREM SendersServed ==
  ASSUME ThrownWhole
  PROVE  Spec => []SyncServed
  <1>1. SyncInv /\ [Next]_vars => SyncInv'
    BY SyncStep
  <1>2. SyncInv => SyncServed
    <2> SUFFICES ASSUME SyncInv, NEW t \in waiting
                 PROVE  \/ tpc[t] = "enqueue" \/ sem[t] > 0 \/ t \in Chain
                        \/ \E i \in 1 .. Len(stack) : stack[i].sync = t
      BY DEF SyncServed
    <2>1. PICK s \in Seq(Threads) : Sending(s)
      BY DEF SyncInv
    <2>2. t \in Threads
      BY DEF SyncInv, TypeInv, TypeOK
    <2>3. t \in Chain <=> Queued(s, t)
      BY <2>1, <2>2, ChainQueued DEF Sending
    <2>4. Placed(s, t)
      BY <2>1, <2>2 DEF Sending
    <2>5. QED
      BY <2>3, <2>4 DEF Placed, Enqueues, Woken, Handled
  <1> QED
    BY <1>1, <1>2, InitSync, PTL DEF Spec

(* DispatchMessage and __mg_throw_away_messages post the semaphore of a    *)
(* sender once for each message, while it waits, under the same condition. *)
THEOREM WokenOnlyOnce ==
  ASSUME ThrownWhole
  PROVE  Spec => WokenOnce
  <1>1. SyncInv /\ [Next]_vars => SyncInv'
    BY SyncStep
  <1>2. SyncInv /\ [Next]_vars =>
          [\A t \in Threads : sem'[t] > sem[t] =>
              t \in waiting /\ sem[t] = 0 /\ tpc[t] # "enqueue"]_vars
    BY SyncStep DEF Answered
  <1> QED
    BY <1>1, <1>2, InitSync, PTL DEF Spec, WokenOnce

(* What __mg_throw_away_messages has passed, it has cleared.               *)
Spared(q, n) == \A i \in 1 .. n : ~Doomed(q[i])

Swept ==
    /\ opc = "throw_notify" => Spared(notify, walk.at - 1)
    /\ opc \in {"throw_sync", "throw_next", "throw_post"} => Spared(notify, Len(notify))
    /\ opc = "throw_post" =>
          \A i \in 1 .. Dist(readpos, walk.at) : ~Doomed(Contents[i].hwnd)

(* The walk over the notifications passes those it keeps.                  *)
LEMMA NotifySwept ==
  ASSUME TypeInv, FlagsInv, Swept, ThrowNotify
  PROVE  Swept'
  <1>0. walk \in Walk /\ notify \in Seq(Windows)
    BY DEF TypeInv, TypeOK
  <1>1. opc = "throw_notify" /\ walk.at >= 1 /\ Spared(notify, walk.at - 1)
    BY DEF ThrowNotify, FlagsInv, WalkInv, Swept
  <1>2. PICK n \in Nat : n = Len(notify)
    BY <1>0, LenProperties
  <1>3. walk.at \in Nat
    BY <1>0 DEF Walk
  <1>4. CASE walk.at > n
    <2>1. opc' = "throw_sync" /\ notify' = notify /\ walk' = [walk EXCEPT !.cur = pFirstSyncMsg]
      BY <1>2, <1>4 DEF ThrowNotify
    <2>2. walk'.hwnd = walk.hwnd
      BY <1>0, <2>1 DEF Walk
    <2>3. \A i \in 1 .. n : i \in 1 .. walk.at - 1
      BY <1>3, <1>4
    <2>4. Spared(notify, n)'
      BY <1>1, <2>1, <2>2, <2>3 DEF Spared, Doomed
    <2>5. QED
      BY <1>2, <2>1, <2>4 DEF Swept
  <1>5. CASE walk.at <= n /\ Doomed(notify[walk.at])
    <2>1. opc' = opc /\ walk' = walk /\ notify' = Without(notify, walk.at)
      BY <1>2, <1>3, <1>5 DEF ThrowNotify
    <2>2. walk.at \in 1 .. Len(notify)
      BY <1>1, <1>2, <1>3, <1>5
    <2>3. \A i \in 1 .. Len(notify) - 1 :
             notify'[i] = IF i < walk.at THEN notify[i] ELSE notify[i + 1]
      BY <1>0, <2>1, <2>2, WithoutElements
    <2>4. \A i \in 1 .. walk.at - 1 : i \in 1 .. Len(notify) - 1 /\ i < walk.at
      BY <1>2, <1>3, <2>2
    <2>5. Spared(notify, walk.at - 1)'
      BY <1>1, <2>1, <2>3, <2>4 DEF Spared, Doomed
    <2>6. QED
      BY <1>1, <2>1, <2>5 DEF Swept
  <1>6. CASE walk.at <= n /\ ~Doomed(notify[walk.at])
    <2>1. opc' = opc /\ walk' = [walk EXCEPT !.at = @ + 1] /\ notify' = notify
      BY <1>2, <1>3, <1>6 DEF ThrowNotify
    <2>2. walk'.hwnd = walk.hwnd /\ walk'.at = walk.at + 1
      BY <1>0, <2>1 DEF Walk
    <2>3. \A i \in 1 .. walk'.at - 1 : i \in 1 .. walk.at - 1 \/ i = walk.at
      BY <1>3, <2>2
    <2>4. Spared(notify, walk.at - 1)'
      BY <1>1, <1>6, <2>1, <2>2, <2>3 DEF Spared, Doomed
    <2>5. QED
      BY <1>1, <2>1, <2>4 DEF Swept
  <1>7. QED
    BY <1>2, <1>3, <1>4, <1>5, <1>6

(* The walk over the ring does too.                                        *)
LEMMA PostSwept ==
  ASSUME TypeInv, FlagsInv, Swept, ThrowPost
  PROVE  Swept'
  <1>0. walk \in Walk /\ opc = "throw_post" /\ opc' = "throw_post"
    BY DEF TypeInv, TypeOK, ThrowPost
  <1>1. PICK k \in [0 .. QLen - 1 -> Msg] : k = msg
    BY DEF TypeInv, TypeOK
  <1>2. PICK r \in 0 .. QLen - 1 : r = readpos
    BY DEF TypeInv, TypeOK
  <1>3. PICK w \in 0 .. QLen - 1 : w = writepos
    BY DEF TypeInv, TypeOK
  <1>4. PICK p \in 0 .. QLen - 1 : p = walk.at /\ Dist(r, p) <= Dist(r, w) /\ p # w
    BY <1>0, <1>2, <1>3 DEF ThrowPost, FlagsInv, WalkInv
  <1>5. PICK n \in Nat : n = Dist(r, w) /\ n <= QLen - 1
    <2>1. Dist(r, w) \in 0 .. QLen - 1
      BY RingSeq, <1>1
    <2>2. QED
      BY <2>1, RingLength
  <1>6. PICK j \in 1 .. n : p = Pos(r, j) /\ Dist(r, p) = j - 1
    <2>1. Dist(r, p) + 1 \in 1 .. QLen /\ p = Pos(r, Dist(r, p) + 1) /\ w = Pos(r, Dist(r, w) + 1)
      BY EndPos
    <2>2. Dist(r, p) \in 0 .. QLen - 1 /\ Dist(r, p) # Dist(r, w)
      BY <1>4, <2>1, RingSeq, <1>1
    <2>3. Dist(r, p) + 1 \in 1 .. n /\ Dist(r, p) = (Dist(r, p) + 1) - 1
      BY <1>4, <1>5, <2>2, RingLength
    <2>4. QED
      BY <2>1, <2>3
  <1>7. \A i \in 1 .. j - 1 : ~Doomed(Contents[i].hwnd)
    BY <1>0, <1>2, <1>4, <1>6 DEF Swept
  <1>8. notify' = notify /\ readpos' = r /\ Spared(notify, Len(notify))
    BY <1>0, <1>2 DEF ThrowPost, Swept, list
  <1>9. Contents \in Seq(Msg) /\ Len(Contents) = n
    BY <1>2, <1>3, <1>5, ContentsRing
  <1>10. CASE Doomed(msg[walk.at].hwnd)
    <2>1. msg' = Closed(k, w, p) /\ writepos' = Before(w) /\ walk' = walk
      BY <1>1, <1>2, <1>3, <1>4, <1>10 DEF ThrowPost, Close, Closed, Before
    <2>2. Contents' = Ring(Closed(k, w, p), r, Before(w))
      BY <1>8, <2>1 DEF Contents, Ring, At, Pos
    <2>3. Contents' = Without(Contents, j)
      BY <1>1, <1>2, <1>3, <1>5, <1>6, <2>2, RingDrop, ContentsRing
    <2>4. \A i \in 1 .. n - 1 : Contents'[i] = IF i < j THEN Contents[i] ELSE Contents[i + 1]
      BY <1>6, <1>9, <2>3, WithoutElements
    <2>5. \A i \in 1 .. j - 1 : i \in 1 .. n - 1 /\ i < j
      BY <1>6
    <2>6. \A i \in 1 .. j - 1 : ~Doomed(Contents[i].hwnd)'
      BY <1>7, <2>1, <2>4, <2>5 DEF Doomed
    <2>7. Dist(readpos, walk.at)' = j - 1
      BY <1>4, <1>6, <1>8, <2>1
    <2>8. Spared(notify, Len(notify))'
      BY <1>8, <2>1 DEF Spared, Doomed
    <2>9. QED
      BY <1>0, <2>6, <2>7, <2>8 DEF Swept
  <1>11. CASE ~Doomed(msg[walk.at].hwnd)
    <2>1. UNCHANGED <<msg, writepos>> /\ walk' = [walk EXCEPT !.at = Succ(@)]
      BY <1>11 DEF ThrowPost
    <2>2. walk'.hwnd = walk.hwnd /\ walk'.at = Succ(p)
      BY <1>0, <1>4, <2>1 DEF Walk
    <2>3. Contents' = Contents
      BY <1>2, <1>8, <2>1 DEF Contents, At
    <2>4. Contents[j] = msg[p]
      <3>1. Contents = Ring(k, r, w)
        BY <1>1, <1>2, <1>3, ContentsRing
      <3>2. QED
        BY <1>1, <1>5, <1>6, <3>1 DEF Ring
    <2>5. Dist(readpos, walk.at)' = j
      <3>1. Succ(p) = Pos(r, j + 1) /\ j + 1 \in 1 .. QLen
        BY <1>5, <1>6, SuccPos, RingLength
      <3>2. Dist(r, Pos(r, j + 1)) = j
        <4>1. Pos(r, 1) = r /\ 1 \in 1 .. QLen
          BY RingLength DEF Pos
        <4>2. Dist(Pos(r, 1), Pos(r, j + 1)) = (j + 1) - 1
          BY <1>6, <3>1, <4>1, DistPos
        <4>3. QED
          BY <1>6, <4>1, <4>2
      <3>3. QED
        BY <1>8, <2>2, <3>1, <3>2
    <2>6. \A i \in 1 .. j : i \in 1 .. j - 1 \/ i = j
      BY <1>6
    <2>7. \A i \in 1 .. j : ~Doomed(Contents[i].hwnd)'
      BY <1>4, <1>7, <1>11, <2>2, <2>3, <2>4, <2>6 DEF Doomed
    <2>8. Spared(notify, Len(notify))'
      BY <1>8, <2>2 DEF Spared, Doomed
    <2>9. QED
      BY <1>0, <2>5, <2>7, <2>8 DEF Swept
  <1>12. QED
    BY <1>10, <1>11

(* The walk over the synchronous messages leaves the other lists alone.    *)
LEMMA SyncSwept ==
  ASSUME TypeInv, Swept, ThrowSync \/ ThrowNext \/ ThrowSyncEnd
  PROVE  Swept'
  <1> USE DEF list, syncs, ring, sender, reader
  <1>0. walk \in Walk /\ readpos \in 0 .. QLen - 1
    BY DEF TypeInv, TypeOK
  <1>1. opc \in {"throw_sync", "throw_next"} /\ Spared(notify, Len(notify))
    BY DEF ThrowSync, ThrowNext, ThrowSyncEnd, Swept
  <1>2. notify' = notify /\ readpos' = readpos
    BY DEF ThrowSync, ThrowNext, ThrowSyncEnd
  <1>3. \/ walk' = walk
        \/ walk' = [walk EXCEPT !.cur = pNext[walk.cur]]
        \/ walk' = [walk EXCEPT !.prev = walk.cur, !.cur = pNext[walk.cur]]
        \/ walk' = [walk EXCEPT !.at = readpos]
    BY DEF ThrowSync, ThrowNext, ThrowSyncEnd
  <1>4. walk'.hwnd = walk.hwnd
    BY <1>0, <1>3 DEF Walk
  <1>5. Spared(notify, Len(notify))'
    BY <1>1, <1>2, <1>4 DEF Spared, Doomed
  <1>6. CASE ThrowSync \/ ThrowNext
    <2>1. opc' \in {"throw_sync", "throw_next"}
      BY <1>1, <1>6 DEF ThrowSync, ThrowNext
    <2>2. QED
      BY <1>5, <2>1 DEF Swept
  <1>7. CASE ThrowSyncEnd
    <2>1. opc' = "throw_post" /\ walk' = [walk EXCEPT !.at = readpos]
      BY <1>7 DEF ThrowSyncEnd
    <2>2. walk'.at = readpos
      BY <1>0, <2>1 DEF Walk
    <2>3. Dist(readpos, readpos) = 0
      BY <1>0, DistValue
    <2>4. Dist(readpos, walk.at)' = 0
      BY <1>2, <2>2, <2>3
    <2>5. QED
      BY <1>5, <2>1, <2>4 DEF Swept
  <1>8. QED
    BY <1>6, <1>7

(* The lock keeps everybody else away.                                     *)
LEMMA SweptStep ==
  ASSUME TypeInv, FlagsInv, Swept, [Next]_vars
  PROVE  Swept'
  <1> USE DEF list, syncs, ring, sender, reader
  <1>1. ASSUME ~Throwing' PROVE Swept'
    BY <1>1 DEF Swept, Throwing
  <1>2. ASSUME UNCHANGED <<notify, opc, walk, msg, readpos, writepos>> PROVE Swept'
    <2>1. Contents' = Contents
      BY <1>2 DEF Contents, At
    <2>2. QED
      BY <1>2, <2>1 DEF Swept, Spared, Doomed
  <1>3. CASE UNCHANGED vars
    BY <1>2, <1>3 DEF vars
  <1>4. CASE Post \/ Paint \/ Notify \/ Quit
    <2>1. ~Throwing'
      BY <1>4 DEF Post, Paint, Notify, Quit, PostMessage, Invalidate, SendNotifyMessage,
         SendPriorNotifyMessage, PostQuitMessage, Ready, Throwing
    <2>2. QED
      BY <1>1, <2>1
  <1>5. CASE Send \/ InPostMsgq
    BY <1>2, <1>5 DEF Send, InPostMsgq, SendSyncMessage, SemGetValue, SemPost
  <1>6. ASSUME NEW t \in Threads, InCall(t) PROVE Swept'
    BY <1>2, <1>6 DEF InCall, PostPaint, SyncEnqueue, SyncReturn
  <1>7. CASE \/ (\E c \in Calls : Enter(c)) \/ PeekPostMessage(PostMsgs) \/ BeginPaint \/ DispatchEnd
    <2>1. ~Throwing'
      BY <1>7 DEF Enter, OwnerAt, PeekPostMessage, BeginPaint, DispatchEnd, Throwing
    <2>2. QED
      BY <1>1, <2>1
  <1>8. CASE Peek \/ Look \/ Idle
    <2>1. ~Throwing'
      BY <1>8 DEF Peek, PeekQuit, PeekSync, PeekNotify, PeekPost, PeekPaint, PeekTimer,
         PeekNothing, Deliver, Return, Look, Idle, TryWait, IdleExpires, IdleNothing,
         Broadcast, Resume, OwnerAt, Throwing
    <2>2. QED
      BY <1>1, <2>1
  <1>9. ASSUME NEW w \in Windows, ThrowStart(w) PROVE Swept'
    <2>1. opc' = "throw_notify" /\ walk'.at = 1
      BY <1>9 DEF ThrowStart, NoWalk
    <2>2. QED
      BY <2>1 DEF Swept, Spared
  <1>10. CASE ThrowEnd
    <2>1. ~Throwing'
      BY <1>10 DEF ThrowEnd, Throwing
    <2>2. QED
      BY <1>1, <2>1
  <1>11. QED
    BY <1>3, <1>4, <1>5, <1>6, <1>7, <1>8, <1>9, <1>10, NotifySwept, PostSwept, SyncSwept
    DEF Next, Throw

(* The invariant of the three walks.                                       *)
SweepInv == SyncInv /\ Swept

(* When __mg_throw_away_messages unlocks the queue, none of the three      *)
(* lists holds a message for the window or for a control in it, under the  *)
(* same condition: of two doomed synchronous messages in a row behind one  *)
(* that is kept, the walk passes over the second (message.c:1507).         *)
THEOREM AllThrownAway ==
  ASSUME ThrownWhole
  PROVE  Spec => ThrowsAll
  <1>1. SweepInv /\ [Next]_vars => SweepInv'
    BY SyncStep, SweptStep DEF SweepInv, SyncInv
  <1>2. Init => SweepInv
    BY InitSync DEF SweepInv, Swept, Init
  <1>3. ASSUME SweepInv, ThrowEnd
        PROVE  /\ \A t \in Chain : syncHwnd[t] # NoWindow /\ ~Belongs(syncHwnd[t])
               /\ \A i \in 1 .. Len(notify) : ~Belongs(notify[i])
               /\ \A i \in Live : ~Belongs(msg[At(i)].hwnd)
    <2>1. opc = "throw_post" /\ walk.at = writepos
      BY <1>3 DEF ThrowEnd
    <2>2. \A h : ~Doomed(h) => ~Belongs(h)
      BY DEF Doomed, Belongs
    <2>3. Chain = {}
      <3>1. PICK s \in Seq(Threads) : Sending(s)
        BY <1>3 DEF SweepInv, SyncInv
      <3>2. pFirstSyncMsg = NoThread
        BY <1>3, <2>1 DEF SweepInv, SyncInv, Straight
      <3>3. s = << >>
        <4>1. ASSUME s # << >> PROVE FALSE
          <5>1. 1 \in 1 .. Len(s)
            BY <4>1, EmptySeq, LenProperties
          <5>2. s[1] \in Threads
            BY <5>1, ElementOfSeq
          <5>3. s[1] = NoThread
            BY <3>1, <3>2, <4>1 DEF Sending, Linked
          <5>4. QED
            BY <5>2, <5>3, QueueAssumption DEF AllThreads
        <4>2. QED
          BY <4>1
      <3>4. \A t \in Threads : ~Queued(s, t)
        BY <3>3 DEF Queued
      <3>5. \A t \in Chain : t \in Threads
        BY DEF Chain
      <3>6. QED
        BY <3>1, <3>4, <3>5, ChainQueued DEF Sending
    <2>4. \A i \in 1 .. Len(notify) : ~Belongs(notify[i])
      BY <1>3, <2>1, <2>2 DEF SweepInv, Swept, Spared
    <2>5. ASSUME NEW i \in Live PROVE ~Belongs(msg[At(i)].hwnd)
      <3>1. TypeInv
        BY <1>3 DEF SweepInv, SyncInv
      <3>2. \A j \in 1 .. Dist(readpos, writepos) : ~Doomed(Contents[j].hwnd)
        BY <1>3, <2>1 DEF SweepInv, Swept
      <3>3. i + 1 \in 1 .. Dist(readpos, writepos) /\ (i + 1) - 1 = i
        <4>1. Dist(readpos, writepos) \in 0 .. QLen - 1
          BY <3>1, ContentsRing
        <4>2. QED
          BY <4>1, RingLength DEF Live
      <3>4. Contents[i + 1] = msg[At(i)]
        <4>1. Contents[i + 1] = msg[At((i + 1) - 1)]
          BY <3>1, <3>3, ContentsRing
        <4>2. QED
          BY <3>3, <4>1
      <3>5. ~Doomed(msg[At(i)].hwnd)
        BY <3>2, <3>3, <3>4
      <3>6. QED
        BY <2>2, <3>5
    <2>6. QED
      BY <2>3, <2>4, <2>5
  <1>4. SweepInv /\ [Next]_vars =>
          [ThrowEnd => /\ \A t \in Chain : syncHwnd[t] # NoWindow /\ ~Belongs(syncHwnd[t])
                       /\ \A i \in 1 .. Len(notify) : ~Belongs(notify[i])
                       /\ \A i \in Live : ~Belongs(msg[At(i)].hwnd)]_vars
    BY <1>3
  <1> QED
    BY <1>1, <1>2, <1>4, PTL DEF Spec, ThrowsAll
=============================================================================
