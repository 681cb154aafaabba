-------------------------------- MODULE Timer --------------------------------
(***************************************************************************)
(* The timers of one message thread (kernel/timer.c and the timer part of  *)
(* PeekMessageEx, kernel/message.c).  The thread sets, resets and kills    *)
(* its timers, from window procedures and from timer callbacks; its idle   *)
(* handler turns the timers that are due into bits of expired_timer_mask;  *)
(* PeekMessageEx takes one bit at a time and calls the timer's callback or *)
(* makes up MSG_TIMER.  A callback that runs a message loop of its own (a  *)
(* dialog, for instance) idles and peeks again before it returns.          *)
(*                                                                         *)
(* Everything here runs in the one thread, except that the clock ticks and *)
(* that another thread copies it to __mg_tick_counter.                     *)
(***************************************************************************)
EXTENDS Integers, Sequences, FiniteSets

CONSTANTS
    Ids,            \* the timers: pairs of a window and an identifier
    WindowOf,       \* the window of each
    Intervals,      \* the intervals they are set to
    Callbacks,      \* the timers that are set with a TIMERPROC
    DEF_NR_TIMERS,
    SetAgain,       \* whether SetTimerEx is called for a timer that is set
    SetInCallback,  \* whether callbacks set timers
    MaxNest,        \* bound: how deep callbacks nest; 1 for no nested loop
    MaxTicks        \* bound: how long the clock runs

ASSUME TimerAssumption ==
    /\ Intervals \subseteq Nat \ {0}
    /\ Callbacks \subseteq Ids
    /\ DEF_NR_TIMERS \in Nat \ {0}
    /\ SetAgain \in BOOLEAN /\ SetInCallback \in BOOLEAN
    /\ MaxNest \in Nat \ {0} /\ MaxTicks \in Nat

Slots   == 0 .. DEF_NR_TIMERS - 1
Windows == {WindowOf[i] : i \in Ids}
TIMER   == [id : Ids, interv : Intervals, ticks_expected : Nat,
            ticks_fired : Nat, proc : BOOLEAN]
NoTimer == [id |-> "none"]

VARIABLES
    clock,              \* what __mg_os_get_time_ticks returns
    tick_counter,       \* __mg_tick_counter
    last_ticks, old_tick_count, timer_slots, first_timer_slot, nr_timers,
    expired_timer_mask, \* the slots whose bit is set
    running,            \* the callbacks that run, the innermost first
    skipped,            \* auxiliary: how many timers were taken while a bit was set
    crashed             \* the thread has followed a NULL pointer

ticks == <<clock, tick_counter, last_ticks, old_tick_count>>
slots == <<timer_slots, nr_timers>>
vars  == <<ticks, slots, first_timer_slot, expired_timer_mask, running,
           skipped, crashed>>

Used == {s \in Slots : timer_slots[s] # NoTimer}

Frame == [slot : Slots, id : Ids]

TypeOK ==
    /\ clock \in 0 .. MaxTicks
    /\ last_ticks \in 0 .. clock
    /\ old_tick_count \in 0 .. tick_counter /\ tick_counter \in 0 .. clock
    /\ timer_slots \in [Slots -> TIMER \cup {NoTimer}]
    /\ first_timer_slot \in Slots
    /\ nr_timers \in Nat
    /\ expired_timer_mask \subseteq Slots
    /\ running \in Seq(Frame)
    /\ skipped \in [Slots -> Nat]
    /\ crashed \in BOOLEAN

-----------------------------------------------------------------------------
(* mg_InitMsgQueue; the queue is made at tick 0.                           *)
Init ==
    /\ clock = 0 /\ tick_counter = 0 /\ last_ticks = 0 /\ old_tick_count = 0
    /\ timer_slots = [s \in Slots |-> NoTimer]
    /\ first_timer_slot = 0 /\ nr_timers = 0
    /\ expired_timer_mask = {}
    /\ running = << >>
    /\ skipped = [s \in Slots |-> 0]
    /\ crashed = FALSE

Tick ==
    /\ clock < MaxTicks /\ clock' = clock + 1
    /\ UNCHANGED <<tick_counter, last_ticks, old_tick_count, slots, first_timer_slot,
                   expired_timer_mask, running, skipped, crashed>>

(* The desktop thread's idle handler calls __mg_update_tick_count.         *)
DesktopTick ==
    /\ tick_counter' = clock
    /\ UNCHANGED <<clock, last_ticks, old_tick_count, slots, first_timer_slot,
                   expired_timer_mask, running, skipped, crashed>>

__mg_update_tick_count == last_ticks' = clock /\ tick_counter' = clock

GetTickCount ==
    /\ ~crashed /\ __mg_update_tick_count
    /\ UNCHANGED <<clock, old_tick_count, slots, first_timer_slot,
                   expired_timer_mask, running, skipped, crashed>>

SlotOf(id) == {s \in Used : timer_slots[s].id = id}
Free       == Slots \ Used
First(s)   == s \in Free /\ \A r \in Free : s <= r

Armed(id, interv, proc) ==
    [id |-> id, interv |-> interv, ticks_expected |-> clock + interv,
     ticks_fired |-> 0, proc |-> proc]

(* SetTimerEx: a timer that exists is set anew, another one takes the      *)
(* first free slot, and without one the call fails.                        *)
SetTimerEx(id, interv) ==
    /\ ~crashed
    /\ SetAgain \/ SlotOf(id) = {}
    /\ SetInCallback \/ running = << >>
    /\ __mg_update_tick_count
    /\ \/ /\ SlotOf(id) # {}
          /\ timer_slots' = [s \in Slots |-> IF s \in SlotOf(id)
                                             THEN Armed(id, interv, id \in Callbacks)
                                             ELSE timer_slots[s]]
          /\ UNCHANGED nr_timers
       \/ /\ SlotOf(id) = {}
          /\ \E s \in Slots :
                /\ First(s)
                /\ timer_slots' = [timer_slots EXCEPT
                                       ![s] = Armed(id, interv, id \in Callbacks)]
          /\ nr_timers' = nr_timers + 1
       \/ /\ SlotOf(id) = {} /\ Free = {}
          /\ UNCHANGED <<timer_slots, nr_timers>>
    /\ UNCHANGED <<clock, old_tick_count, first_timer_slot, expired_timer_mask,
                   running, skipped, crashed>>

(* ResetTimerEx forgets that the timer has expired.                        *)
ResetTimerEx(id, interv) ==
    /\ ~crashed
    /\ __mg_update_tick_count
    /\ timer_slots' = [s \in Slots |-> IF s \in SlotOf(id)
                                       THEN Armed(id, interv, timer_slots[s].proc)
                                       ELSE timer_slots[s]]
    /\ expired_timer_mask' = expired_timer_mask \ SlotOf(id)
    /\ UNCHANGED <<clock, old_tick_count, nr_timers, first_timer_slot, running,
                   skipped, crashed>>

(* KillTimer (hWnd, id), and KillTimer (hWnd, 0) for the ids of a window.  *)
BrokenForgotten(gone) == {}
Forgotten(gone) == gone

Kill(ids) ==
    LET gone == {s \in Used : timer_slots[s].id \in ids}
    IN  /\ ~crashed
        /\ expired_timer_mask' = expired_timer_mask \ Forgotten(gone)
        /\ timer_slots' = [s \in Slots |-> IF s \in gone THEN NoTimer ELSE timer_slots[s]]
        /\ nr_timers' = nr_timers - Cardinality(gone)
        /\ UNCHANGED <<ticks, first_timer_slot, running, skipped, crashed>>

KillTimer(id) == Kill({id})

KillTimersOf(w) == Kill({id \in Ids : WindowOf[id] = w})

(* The end of __mg_throw_away_messages: the window of every expired timer  *)
(* is looked up through its slot.                                          *)
ThrowAway(w) ==
    /\ ~crashed
    /\ IF expired_timer_mask \subseteq Used
       THEN /\ expired_timer_mask' =
                   {s \in expired_timer_mask : WindowOf[timer_slots[s].id] # w}
            /\ UNCHANGED crashed
       ELSE crashed' = TRUE /\ UNCHANGED expired_timer_mask
    /\ UNCHANGED <<ticks, slots, first_timer_slot, running, skipped>>

-----------------------------------------------------------------------------
(* A message loop of the thread runs: the outermost, or a callback's own.  *)
Looping == ~crashed /\ Len(running) < MaxNest

BrokenDue(s) == clock + 1 >= timer_slots[s].ticks_expected
Due(s) == clock >= timer_slots[s].ticks_expected

(* std_idle_handler and __mg_check_expired_timers, when the counter has    *)
(* moved since the last time; otherwise nothing is looked at.              *)
Idle ==
    LET due == {s \in Used : Due(s)}
    IN  /\ Looping /\ tick_counter # old_tick_count
        /\ __mg_update_tick_count
        /\ old_tick_count' = clock
        /\ expired_timer_mask' = expired_timer_mask \cup due
        /\ timer_slots' = [s \in Slots |->
               IF s \in due
               THEN [timer_slots[s] EXCEPT !.ticks_expected = @ + timer_slots[s].interv,
                                           !.ticks_fired = clock]
               ELSE timer_slots[s]]
        /\ skipped' = [s \in Slots |-> IF s \in due \ expired_timer_mask
                                       THEN 0 ELSE skipped[s]]
        /\ UNCHANGED <<clock, nr_timers, first_timer_slot, running, crashed>>

(* The first set bit from first_timer_slot on, which advances by one.      *)
Offset(s) == (s - first_timer_slot + DEF_NR_TIMERS) % DEF_NR_TIMERS

Succ(s) == (s + 1) % DEF_NR_TIMERS

BrokenAdvance == first_timer_slot' = first_timer_slot
Advance == first_timer_slot' = Succ(first_timer_slot)

(* PeekMessageEx finds a bit.  A callback starts to run, MSG_TIMER is      *)
(* returned to the loop, and without a timer in the slot nothing happens.  *)
TakeTimer ==
    /\ Looping
    /\ \E s \in expired_timer_mask :
          /\ \A r \in expired_timer_mask : Offset(s) <= Offset(r)
          /\ Advance
          /\ IF s \in Used
             THEN /\ expired_timer_mask' = expired_timer_mask \ {s}
                  /\ running' = IF timer_slots[s].proc
                                THEN <<[slot |-> s, id |-> timer_slots[s].id]>> \o running
                                ELSE running
             ELSE UNCHANGED <<expired_timer_mask, running>>
          /\ skipped' = [r \in Slots |-> IF r \in expired_timer_mask \ {s}
                                         THEN skipped[r] + 1 ELSE skipped[r]]
    /\ UNCHANGED <<ticks, slots, crashed>>

(* The callback returns; FALSE removes the timer in the slot it was called *)
(* for (__mg_remove_timer).                                                *)
BrokenNrTimers == nr_timers
NrTimers == nr_timers - 1

CallbackReturn(keep) ==
    LET f == Head(running)
    IN  /\ ~crashed /\ running # << >>
        /\ running' = Tail(running)
        /\ IF ~keep /\ f.slot \in Used
           THEN /\ timer_slots' = [timer_slots EXCEPT ![f.slot] = NoTimer]
                /\ nr_timers' = NrTimers
           ELSE UNCHANGED slots
        /\ UNCHANGED <<ticks, first_timer_slot, expired_timer_mask, skipped, crashed>>

Api ==
    \/ \E id \in Ids, i \in Intervals : SetTimerEx(id, i) \/ ResetTimerEx(id, i)
    \/ \E id \in Ids : KillTimer(id)
    \/ \E w \in Windows : KillTimersOf(w) \/ ThrowAway(w)
    \/ GetTickCount

Next ==
    \/ Tick \/ DesktopTick
    \/ Api
    \/ Idle \/ TakeTimer
    \/ \E keep \in BOOLEAN : CallbackReturn(keep)

(* The clock stops at MaxTicks; the thread stops when it crashes.          *)
Spec == Init /\ [][Next]_vars

-----------------------------------------------------------------------------
(* A bit of expired_timer_mask has a timer in its slot: PeekMessageEx can  *)
(* take it, and __mg_throw_away_messages can look up its window.           *)
BitsHaveTimers == expired_timer_mask \subseteq Used

(* The same, as __mg_throw_away_messages experiences it.                   *)
NoNullTimer == ~crashed

(* nr_timers counts the timers, and no window has an identifier twice.     *)
CountRight ==
    /\ nr_timers = Cardinality(Used)
    /\ \A s, r \in Used : timer_slots[s].id = timer_slots[r].id => s = r

(* A timer that is about to be delivered is due: it carries the tick at    *)
(* which it expired, and its interval had passed by then.                  *)
NotEarly ==
    \A s \in expired_timer_mask \cap Used :
        timer_slots[s].ticks_fired + timer_slots[s].interv
            >= timer_slots[s].ticks_expected

(* The rotating start of the search serves every expired timer: fewer than *)
(* DEF_NR_TIMERS others are taken before it.                               *)
ServedInTurn == \A s \in expired_timer_mask : skipped[s] < DEF_NR_TIMERS

(* A callback that returns FALSE kills its own timer and no other.         *)
KillsOwn ==
    [][running # << >> /\ running' = Tail(running) =>
          \A s \in Used : timer_slots'[s] = NoTimer =>
              timer_slots[s].id = Head(running).id]_vars
=============================================================================
