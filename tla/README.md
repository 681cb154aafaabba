# MiniGUI: a verification project

MiniGUI is a windowing system for small devices. This project models the core
that every program of it runs on: the message queues of its threads, their
timers and descriptors, the synchronous messages between threads, how invalid
windows get painted, where the mouse goes, how windows come and go, and in which
order they lie. The TLA+ modules are translated from the C sources under
`src/src/`; TLC checks them on small instances and TLAPS proves the most important
properties for all values of their constants. The build modelled is the one with
`_MGHAVE_VIRTUAL_WINDOW`, that is the threads mode and the others with message
threads; the z-order and the mouse are those of the threads mode.

Paths below are relative to `src/src/` unless they say otherwise.

## The system

### Components, their state, their operations

| Component | Source | State | Operations |
|---|---|---|---|
| Message queue | `kernel/message.c`, `include/internals.h` | `dwState` (QS_ flags), ring of posted messages, lists of notifications and synchronous messages, `loop_depth`, `idle_counter`, a recursive lock, a semaphore | PostMessage, SendNotifyMessage, SendSyncMessage, PostQuitMessage, PeekMessageEx (GetMessage), WaitMessage, HavePendingMessageEx, PeekPostMessage, DispatchMessage, ThrowAwayMessages, EmptyMessageQueue, the broadcast of MSG_IDLE |
| Timers | `kernel/timer.c` | 32 (or 64) slots of a queue, `expired_timer_mask`, `first_timer_slot`, `nr_timers`, tick counters | SetTimerEx, ResetTimerEx, KillTimer, the idle handler, the delivery in PeekMessageEx |
| Listening descriptors | `kernel/listenfd.c`, `kernel/message.c` | `fd_slots`, three sets with their counts, `maxfd` | RegisterListenFD, UnregisterListenFD, select() and the look at the sets in `std_idle_handler` |
| Invalid regions, painting | `gui/window.c`, `kernel/message.c` | a region, a lock and `frozen` for each window; QS_PAINT; the window a local paint loop goes on from | InvalidateRect over parent, siblings and children, UpdateInvalidClient, MSG_PAINT of PeekMessageEx, BeginPaint, EndPaint |
| Main windows, dialogs | `gui/window.c`, `gui/dialog.c` | DataType, `pHosting` / `pFirstHosted` / `pNextHosted`, `pRootMainWin`, `nrWindows`, WS_EX_MODALDISABLED | CreateMainWindowEx2, DestroyMainWindow, MainWindowCleanup, DialogBox, EndDialog |
| Z-order, activation | `kernel/desktop.c`, `kernel/desktop-comm.c`, `kernel/zorder.c` | znodes in slots, one list and one count by level, `active_win`, always-top flags | the desktop's messages that add, show, raise, activate, set always on top, disable, hide and remove windows; clicks and Alt-Tab |
| Desktop's mouse | `kernel/desktop-comm.c`, `gui/window.c` | `__mg_captured_wnd`, `__mgs_captured_ctrl`, the window and the buttons of a press, the drag and its locks | button, move and key messages, SetCapture, ReleaseCapture, dragging, and what takes windows away |
| Message threads | `kernel/desktop.c`, `kernel/init.c`, `gui/window.c` | list of queues, thread handles | sign-in, sign-out, quit, cancel, join, TerminateGUI |
| Allocation | `kernel/slotset.c`, `blockheap.c`, `fixstr.c`, `sem-manager.c` | bitmaps, free lists | allocate, free |
| Low-level events | `kernel/event.c` | last event, button and key states, times | parse mouse and keys into events |
| Server, clients | `server/`, `client/` | layers, clients, requests | sign-in, requests, topmost layer |
| The rest | `newgdi/`, `newgal/`, `ial/`, `font/`, `control/`, ... | | drawing, drivers, controls |

### How they interact

A message thread owns one queue and loops in `GetMessage` and
`DispatchMessage`. Everything reaches a window through that queue: posted
messages by a ring, notifications by a list, synchronous messages by a list of
nodes that live in the stack frames of their senders, paints by the invalid
regions of windows, timers by a bit mask. A flag in `dwState` says for each of
them that there may be something. Other threads write the queue under its lock
and wake the thread up by `POST_MSGQ`, after the lock is given back. With
nothing to do the thread calls its idle handler, which expires timers and
checks descriptors for 10 ms. The desktop is a message thread too, which takes
windows and threads in and out, keeps the z-order and the mouse, and gets the
events of the input thread. What it decides about the mouse it posts; the
windows' threads answer later, by synchronous messages back to the desktop.
Window procedures and timer callbacks run in the thread that owns the window;
they may run message loops of their own (dialogs, menus), send to other
threads, create and destroy windows, and throw messages away.

### What is hard

- Threads interleave between the steps of one operation: between the region
  and its flag, between `sem_getvalue` and `sem_post`, between a load of
  `dwState` and its store, between one window's region and the next one's.
- The reader trusts flags that writers set in another order than they write.
- Threads wait for each other, with locks held and inside nested loops.
- Callbacks change, while they run, what their caller goes on with: the timer
  slot, the list of synchronous messages, the number of loops, the next
  hosted window, the place in the tree of windows to be painted.
- The desktop refers to windows that can be hidden, disabled or destroyed
  between a press and the answer to it, and to slots that are taken again.
- Nodes and queues outlive, or do not outlive, the frames they live in.

The hazards with their lines, and the properties that cover them, are in
`PROJECT.json`. What makes each component correct:

- *Queue*: no message without its flag; no lost wakeup; a bounded FIFO with
  merging; quits end the right number of loops; every sender is answered once.
- *Timers*: bits and slots agree; no timer early; none starved.
- *Synchronous messages*: every call returns; each message handled once.
- *Descriptors*: the counts are those of the sets; what is ready is told.
- *Painting*: what is invalidated is painted, also while painting; at rest the
  screen shows every window as it is.
- *Main windows*: hosting lists and windows agree; nothing is left of a window
  that is gone; owners are enabled again.
- *Z-order*: the linked lists are stacks, with the always-top windows first; one
  window knows that it is active.
- *Mouse*: no reference to a dead window; the mouse is let go; locks pair.
- *Threads*: every queue in the list is alive; the session's end reaches
  every loop; nothing is freed that another thread uses.
- *Events*: every press has its release; no event out of nothing.

## The modules

Each module has its own header. A definition named `Broken...` is a plausible
mistake, used to make sure that a property notices it; no specification uses
one.

| Module | Models | Extends, implements |
|---|---|---|
| `MsgQueue` | one queue, its owner and the threads around it | implements `PostFifo` |
| `PostFifo` | what the ring of posted messages promises: a bounded queue, in order, with merging | |
| `MCMsgQueue` | values for TLC | extends `MsgQueue` |
| `MsgQueue_proof` | theorems | extends `MsgQueue` |
| `SyncSend` | SendSyncMessage among any number of threads, nested, with the locks | implements `SyncCall` |
| `SyncCall` | what SendMessage promises: asked, handled once, answered, returned | |
| `MCSyncSend` | values for TLC | extends `SyncSend` |
| `SyncSend_proof` | theorems | extends `SyncSend` |
| `Timer` | the timers of one thread, with nested callbacks | |
| `MCTimer` | values for TLC | extends `Timer` |
| `Timer_proof` | theorems | extends `Timer` |
| `DwState` | the words of `dwState` as loads and stores, with the lock and without | |
| `InvRgn` | the invalid regions of a tree of windows, their painting and the screen | |
| `MCInvRgn` | values for TLC | extends `InvRgn` |
| `Flags_proof` | theorems about the flags and the invalid regions | extends `DwState`, `InvRgn` |
| `ListenFd` | the descriptors of one thread | |
| `ListenFd_proof` | theorems | extends `ListenFd` |
| `DeskMouse` | the desktop's mouse, the windows' threads, programs and the user | |
| `MCDeskMouse` | values for TLC | extends `DeskMouse` |
| `DeskMouse_proof` | theorems | extends `DeskMouse` |
| `MainWin` | main windows and dialogs of one thread, created and destroyed from inside one another | |
| `MCMainWin` | values for TLC | extends `MainWin` |
| `MainWin_proof` | theorems | extends `MainWin` |
| `ZOrder` | the znodes and the active window | implements `ZStack` |
| `ZStack` | what the z-order promises: a stack by level, with the always-top windows first | |
| `MCZOrder` | values for TLC | extends `ZOrder` |
| `ZOrder_proof` | theorems | extends `ZOrder` |

`MsgQueue` and `SyncSend` look at the same code from two sides. `MsgQueue`
has one queue in detail: the links of the synchronous list, the flags, the
semaphore. Its senders are threads without a queue. `SyncSend` has many
queues with only the synchronous list, and what `MsgQueue` leaves out: the
sender's own queue, drained under its own lock before it sends. `DwState` has
no lists but what `MsgQueue` takes as one step, the update of `dwState`, in
two. `InvRgn` opens what `MsgQueue` has as the set of invalid windows: there a
paint is a window with its flag, here it is the regions and what is drawn.
`DeskMouse`, `ZOrder` and `MainWin` have the same windows from three sides, the
desktop's mouse, the desktop's lists and the thread that owns them; in the first
two a call of a program is one message to the desktop, since the caller waits for it.

### From code to model

**MsgQueue.** A function's part between `LOCK_MSGQ` and `UNLOCK_MSGQ` is one
action. `kernel_QueueMessage` is `Accept` (`Merge` or `Put`) or `Refuse`;
`InvalidateRect` is `Invalidate` (the region) and `PostPaint` (the flag);
`SendSyncMessage` is the start, `Link` under the lock, the wakeup, and the
return from `sem_wait`; `POST_MSGQ` is `SemGetValue` and `SemPost`.
`PeekMessageEx` is one action for each kind of message in the order of the
code, each with the flags that the earlier tests clear on the way
(`StaleSync`, `StaleNotify`, `StalePost`, `StalePaint`), and then `sem_trywait`,
the idle handler and the broadcast of MSG_IDLE. `WaitMessage` and
`HavePendingMessageEx` look as the code looks, at flags or lists.
`__mg_throw_away_messages` is one action for each iteration of its loops,
since it wakes up senders, with the lock held throughout. The dispatches are a
stack. Regions are reduced to being empty or not, times and the contents of
messages to what the merging compares.

**Timer.** The clock, the copy other threads make of it, the slots, the mask,
and the stack of running callbacks. `__mg_check_expired_timers`, called by the
idle handler, sets the bits; `TakeTimer` is the timer part of `PeekMessageEx`;
`CallbackReturn` is its removal of a timer whose callback returned FALSE. The
bits are a set of slots, ticks are numbers up to a bound and do not wrap.

**SyncSend.** Each thread has a stack of window procedures and calls. `Send`,
`LockOwn`, `Drain`, `DrainEnd`, `Enqueue` and `SendReturn` are
`SendSyncMessage` from top to bottom; `TakeSync` and `TakeOther` are a message
loop, in the thread or in a procedure; `Post` and `PostReturn` are any call
that needs the lock of another queue. A thread that is not a message thread
has no queue to drain.

**DwState.** `Start` and `Posted` or `QuitPosted` are the two halves of a write
under the lock; `Idle` and `RaiseDeskTimer` those of the desktop's write
without it, `EmptyMessageQueue` and `Emptied` another's. The `&=` and `|=` of
`dwState` compile to a load and a store which other processors' stores come
between. Reads under the lock are one read, as another thread's write between
two of them has the outcomes of one before or after both. Time is the number of
ticks since `last_ticks` was set.

**InvRgn.** The screen is a set of cells, an area is a set of cells, and a cell
shows the windows drawn there since something opaque was drawn. `InvalidateRect`
starts a call; `LookFrozen` is the test of `frozen` without the lock, `Add` the
union under it with the calls it leads to (`SubCalls`: parent, earlier siblings
below, later siblings above, children, by the same marks as in
`_wndInvalidateRect`), and `PostPaint` the flag. Each region has its lock, so a
thread stands between any two of these steps while others go on. `PeekPaint`
is `kernel_CheckInvalidRegion` with the flag it clears; `UpdateInvalidClient`
and `UpdateNext` are the local loop; `BeginPaint` freezes, `TakeRegion` selects
the region into the device context and empties it, `EndPaint` draws and gives the
lock back. The owner and the others differ in what they may invalidate.

**ListenFd.** `RegisterListenFD` and `UnregisterListenFD` are the functions,
with slots that are reused, the sets and `maxfd`. `Idle` is `std_idle_handler`
from the copies of the sets to the messages of `__mg_kernel_check_listen_fds`:
nothing, if select() fails, and no more than what the ring has room for.
`ComesIn`, `Close` and `PostMessage` are the world outside, `Dispatch` the loop.

**DeskMouse.** The desktop's handlers of moves, buttons and keys are one action
each, in its thread, and post to the inbox of a main window's thread. `Handle`
is that thread: `Sort` is the default handling of MSG_DT_*, `StartDrag` that of
a press on the caption, `PassToControl`, `CaptureForControl` and
`ReleaseForControl` what a main window does for its controls, `ControlDown` and
`ControlUp` a control that captures and releases. `Program` adds, removes, shows, hides,
enables and disables windows and controls at any moment. What the pointer is over
is any window, a guess that the z-order would narrow.

**MainWin.** The calls under way are a stack, the innermost first. Where a
window procedure runs (`Free`) the program may call again (`Program`): create a
window, open a dialog box, destroy, set a timer, post. `Answer` is what a procedure
answers, TRUE or FALSE to MSG_NCCREATE and MSG_CREATE, yes or no to being destroyed;
`Library` is what the library goes on with: the walk through the hosted
windows with the next one read beforehand, the messages thrown away, the
unlinking, and `MainWindowCleanup`.

**ZOrder.** Each message to the desktop is one action. `AllocZOrderNode` and
`FreeZOrderNode` are the functions of those names with `Ex`, with the lowest free
slot of the slot set; `Raise`, `Click` and `MoveToTopMost` go through
`dskMove2Top`, `SetActiveZOrderNode` is the function, with `NextActivable` the search
after it; the rest bear the names of the messages. `next`, `prev`, heads and counts are
patched as the code patches them; the `prev` of a free slot is never read and
is cleared. `told` is what the windows have heard in MSG_ACTIVE, and
`overlooked` is auxiliary.

## The runs

| Run | Question | Distinct states |
|---|---|---|
| `queue_calls` | Painters, quitters and a poster who fills the ring against filtered, peeking, waiting and pending calls: is a paint, a quit or a wakeup lost? (`PaintCover`, `QuitBalance`, `NoLostWakeup`) Does the ring implement a bounded FIFO (`FifoSpec`) with one message of a sort (`OneOfASort`)? | 613 000 |
| `queue_sync` | Two senders, nested dispatch, and a window thrown away: can each sender still be answered, once (`SyncServed`, `WokenOnce`), does nothing stay (`ThrowsAll`), does every list have its flag (`FlagsCover`)? | 5 190 000 |
| `queue_live` | Are posts read, sends answered and regions painted in the end? (`PostsServed`, `SyncReturns`, `PaintServed`) | 101 000 |
| `timer_slots` | Three timers, two slots, callbacks that set and kill: bits and slots, the count, no timer early, all in turn | 124 000 |
| `send_chain` | Sends and posts that only go one way, with nesting: every call is handled and answered once (`OneAnswer`), implements `SyncCall` and returns, every post returns | 10 000 |
| `dw_locked` | With the lock, is a flag or a quit lost? | 34 000 |
| `dw_alone` | The desktop alone: QS_DESKTIMER not too often, and delivered | 3 200 |
| `paint` | An opaque and a transparent control over others, invalidated by the owner and another thread while painting goes on: is anything left invalid (`NothingLeft`), is the screen right (`ShownRight`), is all painted (`Repainted`)? | 32 600 |
| `listen_fds` | Two descriptors, three kinds, a ring of one: do slots, sets and counts agree (`CountsRight`), is what is ready told (`ReadyTold`)? | 84 000 |
| `desk_mouse` | A user with two buttons against windows that capture, drag and go away: dead references (`RefsLive`), a mouse that stays (`MouseFreed`), locks without an unlock (`SameLocked`), a capture for ever (`CaptureEnds`)? | 313 000 |
| `main_win` | Windows and dialogs created, failing, refused, ended and destroyed in one another, three deep: the lists (`HostingKept`), the asserts (`RootLast`), what is left (`NoTrace`), owners (`OwnersBack`) | 670 000 |
| `z_order` | Every message about the z-order in any order: are the lists right (`ListsRight`), does one window know it is active (`ActiveKnows`), are the lists `ZStack`'s stacks (`StackSpec`)? | 45 000 |

The type invariant of each module (`TypeOK`) is proved for `MsgQueue`, `Timer`,
`SyncSend`, `MainWin` and `ZOrder`; `TableOK` of `ListenFd` and `DeskType` of the mouse are
part of what is proved of them. The others were checked with the same configurations
but are in none: they say nothing a reader would doubt.

### Bounds

- `MaxSends`, `MaxCalls`, `MaxPosts`: how many calls put something into a
  queue. Three or four are enough for a full ring of two messages and a merge
  in it, for two nodes in a list and a third sender that comes after a
  removal, for a nested call in a nested call. In `SyncSend` six calls let
  four threads send to each other and nest. In `InvRgn` three calls of
  InvalidateRect let one come before, one during and one after a painting.
- `QLen` is 3, a ring for two messages: it fills and wraps after three posts.
  The code's rings have 32 to 64 places; the proofs are for every length
  above 1. In `ListenFd` it is the number of messages the ring takes, 1, so that it
  refuses an event as soon as there is another message.
- `MaxNest`, `MaxLoops`: dispatches and loops nest twice. A third level meets
  what the second does: the list and the counter do not know the depth.
  `MaxDepth` of `MainWin` is 3: a destruction in a destruction in a creation.
- `MaxIdle` (`MAX_IDLE_COUNTER`, 30 in the code) is 1, so that MSG_IDLE is
  broadcast at once, to the windows of `Hosted`.
- `DEF_NR_TIMERS` is 2 with three timers, so that the table is full and slots
  are taken again. `MaxTicks` is 4 with intervals of 1 and 2.
- `Interval` (`DESKTOP_TIMER_INERTVAL`, 10) is 2, with `IdleTicks`, the length
  of one idle wait, 1: as in the code, where select waits one tick of 10 ms,
  one wait is shorter than the interval. `MaxLag` 3 lets a window procedure take
  longer than the interval.
- `Cells` of `InvRgn` are two: a main window and a button over both, an opaque panel
  over the one, a glass over the other, so that each order of two windows comes up.
- `MAX_NR_LISTEN_FD` is 2: the table grows by that when it is full, and
  `MaxUsed` 3 makes it grow once. `MaxReady` 2 and `MaxPosts` 1 bound what comes in.
- `MaxPending` of `DeskMouse` is 2: the user goes on while two button messages
  wait, which is how a press is answered after its release.
- `Busied` of `MainWin`: one window has timers and messages, since those of two never meet.
- `NrSpecial` 2 and `NrSlots` 5 leave `ZOrder` one special slot and three
  others, for three windows of one level, so that slots are full and taken again;
  `MaxNr` (`Enough`) has room for all of them. `Switched` are the windows that get
  always on top and disabled: two of one level, for the order between them.

`MsgQueue`'s passing runs use what the findings leave: in `queue_sync` the
windows are a main window and its control, so that both are thrown away
together, and in `queue_live` only one thread sends to two main windows, since
with two senders and two main windows the first finding applies.
`send_chain` lets nobody send or post to a thread that waits for him.
`timer_slots` does not set a timer that is set, and its callbacks run no message
loops. In `paint` another thread invalidates only a window with no glass over it,
and nothing is updated at once before its first painting (`PaintedOnce`).
`Sensible` of `ListenFd` registers a descriptor once for a kind, and unregisters
before it closes (`ClosesEarly` is FALSE). `Orderly` of `DeskMouse` does not disable the window that has the mouse,
remove a control that has captured it, hide the IME's window with it, or destroy the
registered IME window. `Careless` is empty in `main_win` and `z_order`.
These are conditions on the program, and what each is for is told under the
findings.

`CHECK_DEADLOCK` is off for `DwState`, where a thread that has left its last
loop stops, and for `SyncSend` and `InvRgn`, where a number of calls is made and
then all wait for messages. It is on for all others.

### Fairness

Safety runs have none. `MsgQueue`: a thread inside a call goes on (the
scheduler runs it); the owner goes on inside its calls; window procedures
return and call BeginPaint for MSG_PAINT, and the program keeps calling
GetMessage (strong fairness, since other choices are open to a window
procedure in between: that is what a message loop promises, not the library).
`SyncSend`: each thread that can move moves, no more; `pthread_mutex` and
`sem_wait` wake up a waiter once the holder is gone, and the calls are bounded,
so that weak fairness is enough. `DwState`: calls end, the loop goes on, window
procedures return, and the clock runs. `InvRgn`: the owner goes on painting and a
call of InvalidateRect goes on (weak). `ListenFd`: the loop dispatches and
comes to its idle handler (weak). `DeskMouse`: each window's thread handles
what waits for it (weak), and the user clicks the left button again and again
(strong, since a full inbox keeps him from it at times): without a user nobody
ends a capture. `Timer`, `MainWin` and `ZOrder` have none.

### Findings

- **The last synchronous message** (`kernel/message.c:1504`).
  `__mg_throw_away_messages` unlinks a synchronous message that is not the first
  without setting `pLastSyncMsg` back. The next sender links itself behind a
  frame that is gone, and is never answered. (`MsgQueue`, `FairSpec`, with two
  senders, `TwoMains`, `MaxSends = 4`: TLC refutes `SyncReturns`.)
- **Mutual sends** (`kernel/message.c:1764`). The drain before a send looks
  once; two threads that send at the same moment both find nothing, both link,
  both wait. (`SyncSend` with `SendsTo <- MutualSends`: TLC refutes `SendsReturn`.)
- **A callback's FALSE** (`kernel/message.c:921`). When a callback has killed
  its timer and set another, which takes its slot, its FALSE removes the other.
  (`Timer`: TLC refutes `KillsOwn`.)
- **An idle desktop** (`kernel/timer.c:113`). `last_ticks` moves at each tick, so the
  interval since it never passes while the desktop idles. (`DwState`,
  `FairSpec`, `IsDesktop`, posters other than the owner: TLC refutes `TimeoutsCome`.)
- **MSG_CANCELDRAGWIN** (`kernel/desktop-comm.c:1181`) drops instead of
  cancelling: the drag is ended by moving the window before the message is looked at.
- **ORed kinds** (`kernel/listenfd.c:203`). A type that asks for input and output
  listens to input only, against `include/window.h:2957`. (`ListenFd` with `Types` `{{"in"},
  {"in", "out"}}`: TLC refutes `ReadyTold`.)
- **Always on top no more** (`kernel/desktop.c:3022`). Raising returns for the
  first of its level, also when its flag has just been cleared: it stays above
  the always-top windows and so does what comes later. (`ZOrder` with `Careless =
  {"unset"}`: TLC refutes `StackSpec`.)

With other values of the constants TLC shows more of the kind:

- `SyncSend` with a thread that posts back to the one that waits for it
  (`PostsTo` of the last in a chain of three): the drain dispatches with the own
  queue locked, and `PostsReturn` fails (`kernel/message.c:1737`).
- `MsgQueue` with three senders and two main windows: two doomed messages in
  a row, the second stays, and `ThrowsAll` fails (`kernel/message.c:1507`).
- `Timer` with `MaxNest = 2`: a callback that loops can leave a bit without a
  timer, which `__mg_throw_away_messages` follows (`BitsHaveTimers`). With
  `SetAgain`: the bit of the old setting delivers the new one early
  (`NotEarly`, `kernel/timer.c:278`).
- `DwState` with `IsDesktop` and another poster: the desktop's write without
  the lock loses QS_POSTMSG (`PostCovered`, `kernel/timer.c:106`). With
  `Empties` and `Quitters`: a dropped QS_QUIT leaves `loop_depth` at 1
  (`QuitBalance`, `kernel/message.c:1650`).
- `InvRgn` with another thread that invalidates the button under the glass: it can
  be painted over the glass, whose own region was emptied before (`ShownRight`).
  An opaque control's child that is invalidated does not invalidate a transparent sibling
  of the control above it. Without `PaintedOnce` an update at once paints a later
  sibling before the first painting of an earlier one. What finds a region frozen is refused
  silently: `refused` has these cells, and `ShownRight` leaves them out.
- `ListenFd` without `Sensible`: a descriptor registered twice counts once and is
  counted down twice, to -1 (`CountsRight`); a registration that fails at the test of
  the set keeps its slot; POLLERR looks at the output set (`kernel/listenfd.c:211`).
  With `ClosesEarly` select() fails for all, and `std_idle_handler` returns before the
  timers, too (`ReadyTold`, `kernel/message.c:267`). Slots are looked at in a fixed order, so
  with a ring that is nearly full the later descriptors starve. An event may be
  delivered after its descriptor was unregistered.
- `DeskMouse` without `Orderly`: disabling a window, removing a control or hiding
  the IME's window that has captured the mouse leaves `button_down_main_window`
  (`MouseFreed`); destroying the registered IME window leaves references to it
  (`RefsLive`). In all settings: a drag can start when the button is up already,
  since the thread comes late to the press; a quick press and release makes a
  control capture the mouse with no button down, until the next click.
- `MainWin`: each member of `Careless` breaks something. `"reentry"` (destroying a
  window that a call further out is about) all four properties; `"orphans"`
  (hosting in a window that is being destroyed) `HostingKept` and `RootLast`;
  `"timers"` (a timer set in a creation that fails, which does not kill it) `NoTrace`;
  `"refusal"` (a dialog that refuses to be destroyed) and `"owner"` (a second
  dialog for an owner that has one) `OwnersBack`.
- `ZOrder` with `Careless = {"hidden"}`: activating an invisible window leaves it
  believing that it is active (`ActiveKnows`). In all settings: hiding the active
  window leaves `active_win`, so that showing it again does not tell it, and, if it is destroyed,
  the next window in its slot is active without knowing (`overlooked`); a raise of one of
  several always-top windows puts it below the others, as `ZStack` says; destroying
  the active window looks for another only below it.

## The proofs

All are checked by tlapm with Z3, Zenon and LS4. They hold for every set of
threads and windows, every ring length, number of slots, and bound.

**MsgQueue_proof** — from `QueueAssumption`, `PostsAssumption` and
`CallsAssumption`. `TypeCorrect` and `QuitBalanced` go together, as
`TypeInv`: `loop_depth` is a natural number only because it is counted down
while the flag is set, and then it is 1. One lemma for each kind of action.

`FlagsCovered`: `FlagsCover` with `WalkInv`, what the loops of
`__mg_throw_away_messages` know: the walk starts at the head and the position
stays between `readpos` and `writepos`, so no iteration empties a list without
noticing. `PaintCovered`: the region comes before the flag, hence an invalid window
has the flag or a thread between the two. `WakeupKept`: what arrived since the owner
looked has left the semaphore posted or a thread about to.
`RingIsFifo` and `OneOfEach`: `RingInv` says what the walk of
`__mg_throw_away_messages` leaves behind it; the positions of the ring are read off
as a sequence, and each write, merge, read and closed gap is a step of `PostFifo`.
`SendersServed`, `WokenOnlyOnce` and `AllThrownAway`: `SyncInv` has the
synchronous list as the least set that the links do not leave (`Chain`), with the last
node at its end, every sender in the place its program counter says, and what
is dispatched on the stack; `Swept` adds what the walk has already passed. They assume
`ThrownWhole`: what is thrown away is the one main window of the queue with all its
controls. Without it both fail in the code, see the findings at
`kernel/message.c:1504` and `1507`.

**SyncSend_proof** — `AnswerInvHolds`, `LocksHold`, `TypesHold`, `OneAnswerHolds` and
`SendRefinesCall`, from `SendAssumption` alone, mutual sends included. `AnswerInv` says
for each thread where its message is: in one list once, or with one procedure once, or
answered, as its own frame says. From it follows that `OneAnswer` counts one, and which
status `SyncCall` gives the call; no step moves more than one of them (`OneMoves`).
`LockInv` counts the locks by the drains that hold them.
`NoneStuck` is the freedom from deadlock, for threads that can be ranked so that each sends
and posts only to those below it; without, the findings show the deadlocks. `RouteInv` says that
messages and calls go the way `SendsTo` and `PostsTo` have them. With it, a thread that cannot go on waits
for a lower one that has something to do: that one drains with its queue locked, or has the message in
its list or in a procedure. The lowest of the threads that have something to do can go on. `CanGo` is
the guards of `Step` written out. Everything else about the returns, `SendsReturn` and `PostsReturn`, is fairness.

**Timer_proof** — from `TimerAssumption`. `TypeCorrect` and `Counted` again
together (the counter is natural because it is the number of slots used).
`BitsKept` needs `MaxNest = 1`, that callbacks run no loops of their own; `NoneEarly`
also that no timer is set twice: TLC refutes both without. `AllServedInTurn`: the distance from
`first_timer_slot` to a set bit falls with each delivery of another, so fewer
than `DEF_NR_TIMERS` go before it; `skipped` counts them. `CallbackKillsOwn`: `KillsOwn`, which fails when a callback
sets a timer (see the findings), holds when none does, however they nest: each running
callback's slot has its own timer or nothing.

**Flags_proof** — of `DwState`: `NoFlagLost` and `QuitsBalanced`, if all writers lock
(`AllLocked`), and `DeskTimerSpaced` without (`SpaceInv`). `HolderInv`: who is between a load and a store holds the lock,
and what it has read is still what `dwState` is.
Of `InvRgn`: `NothingStaysInvalid`, that `NothingLeft` holds for every tree of controls, from `TreeAssumption`.
`PaintInv` says that an invalid region is announced, by QS_PAINT or by a thread still inside
InvalidateRect, which will set it, and that whoever has calls left to make is inside. The owner
gives QS_PAINT up when it has found nothing from the main window on, and that is every window (`WholeTree`).

**ListenFd_proof** — `CountsKept`, from `ListenAssumption` and `Sensible`.
`CountsRight` is not inductive: unregistering takes a descriptor out of a set on behalf
of one slot, so that no other slot may have it there. `OneEach` says so, and
the finiteness of the sets makes the counts follow. `AllWatched` adds that the program closes
nothing that is registered: then select() does not fail and looks at every slot's descriptor.
`ReachInv` keeps each set below `maxfd`, which is raised and never lowered, and open.

**DeskMouse_proof** — `NoDeadWindow`, `MouseLetGo` and `LocksPaired`, from
`MouseAssumption` and `Orderly`. The three need each other: `IInv` is their
conjunction with the types, with what waits in the inboxes being for living windows
of that inbox (`Good`), with every control having its main window, and with no
button down for a window while one is dragged.

**MainWin_proof** — `TypesHold`, `HostingHolds`, `RootHolds`, `NoTraceHolds` and `OwnersHold`,
for any number of windows and any depth of calls, if programs neither destroy a window
that a call further out is about nor let a window go that hosts others (`Careful`), and set no timer in a
creation they give up (`NoTrace`). `MainInv` has two halves. The tree: a
rank for each window that falls along `pHosting`, and one that falls along `pNextHosted`, so that
neither runs in a circle, and the lists as least sets. The stack: each frame keeps some
windows (`Pinned`: its own, the hosted one and the next) which must stay valid, and no frame further
in may destroy what they are hosted by, so that the pointer to the next hosted window
that `DestroyMainWindow` reads beforehand is good when it comes back.
`OwnersHold` (`OwnersBack`) also needs what TLC refutes it without: one dialog at a time for an
owner, and no refusal of what EndDialog is to destroy (`Modest`). `AllInv` adds to `MainInv` that every frame of a
dialog is the only one of it and keeps its memory, that only DialogBox creates a dialog and only
EndDialog destroys one (`DialogOK`, `EndOK`, `CalledOK`), and that each dialog hosted below what
EndDialog destroys is in its loop and can itself be ended (`ReadyOK`): else EndDialog would
give up half way, enable the owner, and leave the dialog in its loop. Of the owners, `OwnersInv` says who has
disabled which. TLC checked both as invariants of the run before they were proved.
Two more theorems say what the properties do not: `WalkHolds`, that what DestroyMainWindow walks along is
alive and hosted by its window whenever it looks at it, and `MemoryHolds`, that the window of
each call under way has its memory, and nothing is freed but what has been thrown away.

**ZOrder_proof** — `TypesHold`, `ListsHold`, `ActiveHolds` and `StackRefined`,
from `ZOrderAssumption`, for any set of windows, slots and types. `ListsInv`: for
each level there is a chain of slots without repetitions such that heads, `next`, `prev`
and counts are its own (`Links`); a znode put in or taken out is a
chain with one place more or less. `FlagsInv` keeps flags to existing windows, so that
`NextActivable` finds a znode in use. `ActiveHolds` needs that nobody activates a
hidden window. `StackRefined` adds `OrderInv`, that the always-top windows are the first of their
level, and needs that the first of several is not set so no longer ("unset",
see the findings); `TopsAbove` states it by itself. `ZStack` puts a window in by the one place that divides the others, so that
no definition counts or filters.

Where a proof needs induction it goes by the least counterexample (`LeastNat`), and
what a link leads to is the least set it does not leave: so no theorem rests on a
recursive operator.

Only model-checked: everything under fairness (`PostsServed`, `SyncReturns`,
`PaintServed`, `SendsReturn`, `PostsReturn`, `TimeoutServed`, `Repainted`, `ReadyTold`,
`CaptureEnds`), since the provers do not treat ENABLED; and `ShownRight`, which depends on who
lies over whom and who invalidates what (see the findings) and is stated of one tree. The findings are counterexamples.

## What is not modelled

`PROJECT.json` lists all parts. Within the modelled ones:

- *Queue*: the contents of messages; message filters but by kind; hooks;
  `EmptyMessageQueue` for the lists of senders (its flags are in `DwState`); the
  failure of an allocation; a window destroyed by another thread's doing while its messages are
  under way, other than by what ThrowAwayMessages does.
- *Timers*: the wrap of the 32-bit ticks.
- *Painting*: ValidateRect and ScrollWindow, the erase flag, controls that are main
  windows, moving and showing, the secondary device context, rectangle lists.
- *Descriptors*: the timeout of select().
- *Mouse*: hooks, menus, MSG_MOUSEMOVEIN and hovering, keys but for their
  ending a drag, carets and auto-repeat, controls that are main windows.
- *Main windows*: virtual windows, controls, hosts of other threads, other threads
  that use a window meanwhile; PostQuitMessage in a dialog's loop, which
  ends DialogBox with the dialog alive and its result in a frame that is gone
  (`gui/dialog.c:203-222`).
- *Z-order*: rectangles and mask rectangles, minimizing, menus as znodes, the focus
  inside a window, the processes mode.

Drawing, drivers, controls, fonts and images are sequential and about pixels
or tables: a model would repeat the code. They are most of the repository's lines.

## Plan

Done: `MsgQueue`, `Timer`, `SyncSend`, `DwState`, `InvRgn`, `ListenFd`,
`DeskMouse`, `MainWin`, `ZOrder`, and the proofs above. Next, in this order:

1. `LWEvent` (`kernel/event.c`): buttons and keys between two polls, repeats, double
   clicks and long presses; a press has its release.
2. `TickClock`: a timespec to ticks as a function, with the theorem that ticks do
   not go back, and comparisons in 32 bits.
3. `WinMemory`: validity checks, posts and destruction between two threads, over
   `MainWin`.
4. `SemManager` and `BlockHeap`: bitmaps and free lists with their locks and errors.
5. `MsgThreads` (`kernel/desktop.c:4480-4560`, `gui/window.c:3800-3860`,
   `kernel/init.c:590-640`): the life of the threads. It comes late because
   CreateThreadForMessaging signs in with the address of a local pointer
   (`gui/window.c:3836`): of the list of queues nothing holds that could be stated.
6. The server's layers and clients.
