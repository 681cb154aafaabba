----------------------------- MODULE Flags_proof -----------------------------
(***************************************************************************)
(* That the flags of a queue can be trusted.  First their writers: where   *)
(* each of them holds the queue's lock, which is so when the queue is      *)
(* neither the desktop's nor emptied, no flag is lost and loop_depth agrees *)
(* with QS_QUIT, for every number of threads and calls (TLC refutes both   *)
(* at once when either assumption is dropped); and how often QS_DESKTIMER  *)
(* is raised in any queue.  Then QS_PAINT, the one flag that stands for    *)
(* the invalid regions of a whole tree of windows.                         *)
(***************************************************************************)
EXTENDS DwState, InvRgn, TLAPS

AllLocked == ~Empties /\ ~IsDesktop

TypeInv ==
    /\ dwState \subseteq Flags
    /\ posts \in Nat /\ loop_depth \in Int
    /\ lock \in AllThreads \cup {NoThread}
    /\ tpc \in [AllThreads -> {"run", "post", "quit", "signal", "sem_post"}]
    /\ reg \in [AllThreads -> SUBSET Flags]
    /\ opc \in {"check", "peek", "trywait", "idle", "dispatch", "gone"}

(* Whoever is in the middle of a write holds the lock, and what it has     *)
(* read is what dwState still is.                                          *)
HolderInv ==
    /\ \A t \in AllThreads :
         tpc[t] \in {"post", "quit"} => lock = t /\ reg[t] = dwState
    /\ opc = "peek" => lock = Owner /\ reg[Owner] = dwState /\ tpc[Owner] = "run"

IInv == TypeInv /\ HolderInv /\ PostCovered /\ QuitBalance

USE DwStateAssumption DEF AllThreads, Flags, IInv, TypeInv, HolderInv,
    PostCovered, QuitBalance, queue, writer, time, vars

(* mg_InitMsgQueue establishes the invariant.                              *)
LEMMA InitIInv == Init => IInv
  BY DEF Init

(* A thread that starts a write has taken the lock, which nobody held.     *)
LEMMA StartKeeps ==
  ASSUME IInv, NEW t \in AllThreads, NEW what \in {"post", "quit"},
         Start(t, what)
  PROVE  IInv'
  <1>1. TypeInv'  BY DEF Start, Free, TakeLock
  <1>2. \A u \in AllThreads :
          tpc'[u] \in {"post", "quit"} => lock' = u /\ reg'[u] = dwState'
    <2> SUFFICES ASSUME NEW u \in AllThreads, tpc'[u] \in {"post", "quit"}
                 PROVE  lock' = u /\ reg'[u] = dwState'
      OBVIOUS
    <2>1. lock = NoThread  BY DEF Start, TakeLock
    <2>2. u = t  BY <2>1 DEF Start
    <2> QED  BY <2>2 DEF Start, TakeLock
  <1>3. opc' # "peek"  BY DEF Start, Free, TakeLock
  <1> QED  BY <1>1, <1>2, <1>3 DEF Start, Free

(* The holder's write loses nothing, since nobody else has written.        *)
LEMMA PostedKeeps ==
  ASSUME IInv, NEW t \in AllThreads, Posted(t)
  PROVE  IInv'
  <1>1. lock = t /\ reg[t] = dwState  BY DEF Posted
  <1>2. TypeInv'  BY <1>1 DEF Posted, Finish, Flagged
  <1>3. \A u \in AllThreads : tpc'[u] \notin {"post", "quit"}
    BY <1>1 DEF Posted, Finish
  <1>4. opc' # "peek"  BY <1>1 DEF Posted, Finish
  <1> QED  BY <1>1, <1>2, <1>3, <1>4 DEF Posted, Finish, Flagged

(* PostQuitMessage writes one bit and one count, under the lock.           *)
LEMMA QuitPostedKeeps ==
  ASSUME IInv, NEW t \in AllThreads, QuitPosted(t)
  PROVE  IInv'
  <1>1. lock = t /\ reg[t] = dwState  BY DEF QuitPosted
  <1>2. TypeInv'  BY <1>1 DEF QuitPosted, Finish, Counted
  <1>3. \A u \in AllThreads : tpc'[u] \notin {"post", "quit"}
    BY <1>1 DEF QuitPosted, Finish
  <1>4. opc' # "peek"  BY <1>1 DEF QuitPosted, Finish
  <1> QED  BY <1>1, <1>2, <1>3, <1>4 DEF QuitPosted, Finish, Counted

(* PeekMessageEx clears a flag only when it has nothing to say.            *)
LEMMA PeekKeeps ==
  ASSUME IInv, AllLocked, PeekQuit \/ PeekNotify \/ PeekPost \/ PeekNothing
  PROVE  IInv'
  <1>1. lock = Owner /\ reg[Owner] = dwState /\ tpc[Owner] = "run"
    BY DEF PeekQuit, PeekNotify, PeekPost, PeekNothing, NoPost
  <1>2. \A u \in AllThreads : tpc[u] \notin {"post", "quit"}  BY <1>1
  <1>3. UNCHANGED <<tpc, reg>> /\ opc' # "peek" /\ lock' = NoThread
    BY DEF PeekQuit, PeekNotify, PeekPost, PeekNothing, Unlock
  <1>4. CASE PeekQuit
    BY <1>1, <1>2, <1>3, <1>4 DEF PeekQuit, QuitTaken, Has
  <1>5. CASE PeekNotify
    BY <1>1, <1>2, <1>3, <1>5 DEF PeekNotify
  <1>6. CASE PeekPost
    BY <1>1, <1>2, <1>3, <1>6 DEF PeekPost, Has, Unread
  <1>7. CASE PeekNothing
    BY <1>1, <1>2, <1>3, <1>7 DEF PeekNothing, NoPost, Cleared, Has, Unread
  <1> QED  BY <1>4, <1>5, <1>6, <1>7

(* PeekMessageEx takes the lock when nobody is in the middle of a write.   *)
LEMMA CheckKeeps == ASSUME IInv, Check PROVE IInv'
  <1>1. lock = NoThread /\ tpc[Owner] = "run"  BY DEF Check, OwnerAt
  <1>2. \A u \in AllThreads : tpc[u] \notin {"post", "quit"}  BY <1>1
  <1> QED  BY <1>1, <1>2 DEF Check, OwnerAt

(* Every step keeps the invariant, while all writers lock.                 *)
LEMMA NextKeeps == ASSUME IInv, AllLocked, [Next]_vars PROVE IInv'
  <1>1. ASSUME NEW t \in AllThreads, Call(t)
        PROVE  IInv'
    BY <1>1, StartKeeps DEF Call, PostMessage, PostQuitMessage
  <1>2. ASSUME NEW t \in AllThreads, GetValue(t) \/ SemPost(t)
        PROVE  IInv'
    BY <1>2 DEF GetValue, SemPost
  <1>3. ASSUME NEW t \in AllThreads, Go(t)
        PROVE  IInv'
    BY <1>2, <1>3, PostedKeeps, QuitPostedKeeps DEF Go
  <1>4. ASSUME TryWait \/ Idle \/ Tick \/ DoModal \/ DispatchEnd
        PROVE  IInv'
    BY <1>4 DEF TryWait, Idle, Tick, DoModal, DispatchEnd, OwnerAt, AllLocked
  <1>5. ASSUME Loop
        PROVE  IInv'
    BY <1>4, <1>5, CheckKeeps, PeekKeeps
       DEF Loop, PeekTimeout, RaiseDeskTimer, Emptied, AllLocked
  <1>6. CASE UNCHANGED vars  BY <1>6
  <1> QED  BY <1>1, <1>3, <1>4, <1>5, <1>6 DEF Next, EmptyMessageQueue, AllLocked

(* With every writer under the lock, an unread message always has its flag *)
(* (kernel_QueueMessage sets it, PeekMessageEx clears it).                 *)
THEOREM NoFlagLost == ASSUME AllLocked PROVE Spec => []PostCovered
  <1>1. Init => IInv  BY InitIInv
  <1>2. IInv /\ [Next]_vars => IInv'  BY NextKeeps
  <1>3. IInv => PostCovered  OBVIOUS
  <1> QED  BY <1>1, <1>2, <1>3, PTL DEF Spec

(* With every writer under the lock, PostQuitMessage never counts a loop   *)
(* twice, and GetMessage clears QS_QUIT when it has ended one.             *)
THEOREM QuitsBalanced == ASSUME AllLocked PROVE Spec => []QuitBalance
  <1>1. Init => IInv  BY InitIInv
  <1>2. IInv /\ [Next]_vars => IInv'  BY NextKeeps
  <1>3. IInv => QuitBalance  OBVIOUS
  <1> QED  BY <1>1, <1>2, <1>3, PTL DEF Spec

-----------------------------------------------------------------------------
(* The ticks since QS_DESKTIMER was last raised are at least those since   *)
(* last_ticks was set, whatever happens to the flags meanwhile.            *)
SpaceInv == lag \in 0 .. MaxLag /\ since \in Nat /\ lag <= since

(* Only the clock and the idle handler move them, and together.            *)
LEMMA NextSpaces == SpaceInv /\ [Next]_vars => SpaceInv'
  <1> SUFFICES ASSUME SpaceInv, [Next]_vars PROVE SpaceInv'
    OBVIOUS
  <1> USE DEF SpaceInv
  <1>1. ASSUME UNCHANGED time PROVE SpaceInv'
    BY <1>1
  <1>2. CASE Tick
    BY <1>2 DEF Tick
  <1>3. CASE Idle
    BY <1>3 DEF Idle
  <1>4. CASE \E t \in AllThreads : Call(t) \/ Go(t)
    BY <1>1, <1>4 DEF Call, Go, PostMessage, PostQuitMessage, Start, Posted, QuitPosted,
       Finish, GetValue, SemPost
  <1>5. CASE Loop /\ ~Idle
    BY <1>1, <1>5 DEF Loop, Check, PeekQuit, PeekNotify, PeekPost, PeekTimeout,
       PeekNothing, Unlock, TryWait, RaiseDeskTimer, Emptied
  <1>6. CASE DoModal \/ EmptyMessageQueue \/ DispatchEnd
    BY <1>1, <1>6 DEF DoModal, EmptyMessageQueue, DispatchEnd
  <1>7. CASE UNCHANGED vars
    BY <1>1, <1>7
  <1> QED
    BY <1>2, <1>3, <1>4, <1>5, <1>6, <1>7 DEF Next

(* __mg_update_tick_count raises QS_DESKTIMER no more often than every     *)
(* DESKTOP_TIMER_INERTVAL, whoever else writes dwState, with and without   *)
(* the lock.                                                               *)
THEOREM DeskTimerSpaced == Spec => TimeoutsSpaced
  <1>1. Init => SpaceInv
    BY DEF Init, SpaceInv
  <1>2. SpaceInv /\ [Next]_vars => SpaceInv'
    BY NextSpaces
  <1>3. SpaceInv /\ [Next]_vars => [opc = "idle" /\ opc' = "desktimer" => since > Interval]_vars
    <2> SUFFICES ASSUME SpaceInv, Next, opc = "idle", opc' = "desktimer"
                 PROVE  since > Interval
      OBVIOUS
    <2>1. ASSUME NEW t \in AllThreads PROVE ~Call(t) /\ ~Go(t)
      BY DEF Call, Go, PostMessage, PostQuitMessage, Start, Posted, QuitPosted,
         Finish, GetValue, SemPost
    <2>2. Idle
      BY <2>1 DEF Next, Loop, Tick, Check, PeekQuit, PeekNotify, PeekPost, PeekTimeout,
         PeekNothing, NoPost, TryWait, RaiseDeskTimer, Emptied, DoModal,
         EmptyMessageQueue, DispatchEnd, OwnerAt
    <2>3. lag > Interval
      BY <2>2 DEF Idle, Overdue
    <2> QED
      BY <2>3 DEF SpaceInv
  <1> QED
    BY <1>1, <1>2, <1>3, PTL DEF Spec, TimeoutsSpaced
-----------------------------------------------------------------------------
(* What an invalid region has to be painted for: QS_PAINT, or the thread   *)
(* inside InvalidateRect that will raise it.  The walk over the tree is    *)
(* under way in a thread inside InvalidateRect only.                       *)
Announced == (\E w \in Windows : rgn[w] # {}) => qs_paint \/ inside # {}

WalkInside ==
    /\ DOMAIN subcalls = PaintThreads /\ DOMAIN rgn = Windows
    /\ \A t \in PaintThreads : subcalls[t] # << >> => t \in inside

PaintInv == Announced /\ WalkInside

(* The loop of kernel_CheckInvalidRegion, started at the main window,      *)
(* reaches every control.                                                  *)
LEMMA WholeTree == Tree[Main] = Windows
  <1>1. Main \in Windows
    BY TreeAssumption DEF Opaque
  <1>2. ASSUME NEW u \in Windows \ {Main} PROVE Parent[u] \in Windows
    <2>1. PICK i, j \in 1 .. Len(Preorder) : i < j /\ Preorder[i] = Parent[u] /\ Preorder[j] = u
      BY TreeAssumption
    <2>2. Preorder[i] \in Windows
      BY TreeAssumption
    <2> QED
      BY <2>1, <2>2
  <1>3. ASSUME NEW v \in Windows PROVE v \in Tree[Main]
    <2>1. {v, Main} \subseteq Windows
      BY <1>1
    <2> QED
      BY <1>1, <1>2, <2>1 DEF Tree
  <1> QED
    BY <1>1, <1>3 DEF Tree

(* A new window is invalid, and MSG_PAINT is pending.                      *)
LEMMA InitPaints == PaintInit => PaintInv
  <1>1. DOMAIN Covers = Windows
    BY TreeAssumption
  <1> QED
    BY <1>1 DEF PaintInit, PaintInv, Announced, WalkInside

(* Only PeekMessageEx gives QS_PAINT up, when it has found every region    *)
(* empty; whoever is still inside InvalidateRect will raise it again.      *)
LEMMA NextPaints == PaintInv /\ [PaintNext]_paintVars => PaintInv'
  <1> SUFFICES ASSUME PaintInv, [PaintNext]_paintVars PROVE PaintInv'
    OBVIOUS
  <1> USE DEF PaintInv, Announced, WalkInside
  <1>1. CASE UNCHANGED <<rgn, qs_paint, inside, subcalls>>
    BY <1>1
  <1>2. ASSUME NEW t \in PaintThreads, NEW w, NEW area, InvalidateRect(t, w, area)
        PROVE  PaintInv'
    BY <1>2 DEF InvalidateRect
  <1>3. ASSUME NEW t \in PaintThreads, LookFrozen(t) PROVE PaintInv'
    BY <1>3 DEF LookFrozen
  <1>4. ASSUME NEW t \in PaintThreads, Add(t) PROVE PaintInv'
    BY <1>4 DEF Add
  <1>5. ASSUME NEW t \in PaintThreads, PostPaint(t) PROVE PaintInv'
    BY <1>5 DEF PostPaint
  <1>6. CASE PeekPaint
    <2>1. Invalid(Main) = {} => \A w \in Windows : rgn[w] = {}
      BY WholeTree DEF Invalid
    <2> QED
      BY <1>6, <2>1 DEF PeekPaint
  <1>7. CASE TakeRegion
    BY <1>7 DEF TakeRegion, Taken
  <1>8. CASE UpdateNext \/ BeginPaint \/ EndPaint
    BY <1>1, <1>8 DEF UpdateNext, BeginPaint, EndPaint
  <1>9. ASSUME NEW w, UpdateInvalidClient(w) PROVE PaintInv'
    BY <1>1, <1>9 DEF UpdateInvalidClient
  <1>10. CASE UNCHANGED paintVars
    BY <1>1, <1>10 DEF paintVars
  <1> QED
    BY <1>2, <1>3, <1>4, <1>5, <1>6, <1>7, <1>8, <1>9, <1>10 DEF PaintNext, Invalidates, Paints

(* When every call of InvalidateRect has returned and the owner has        *)
(* nothing more to paint, no window of the tree is left invalid, for every *)
(* tree, every number of threads and calls, whatever PeekMessageEx and     *)
(* BeginPaint came between.                                                *)
THEOREM NothingStaysInvalid == PaintSpec => []NothingLeft
  <1>1. PaintInv => NothingLeft
    BY DEF PaintInv, Announced, NothingLeft, Quiet
  <1> QED
    BY <1>1, InitPaints, NextPaints, PTL DEF PaintSpec
=============================================================================
