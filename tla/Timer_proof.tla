----------------------------- MODULE Timer_proof -----------------------------
(***************************************************************************)
(* Proofs about Timer, for every number of slots, every set of timers and  *)
(* every clock.  What the bits of expired_timer_mask stand for needs       *)
(* MaxNest = 1: no callback runs a message loop of its own.                *)
(***************************************************************************)
EXTENDS Timer, FiniteSetTheorems, SequenceTheorems, TLAPS

(* An empty slot holds no timer.                                           *)
LEMMA NoTimerIsNone == NoTimer \notin TIMER
  BY DEF NoTimer, TIMER

(* What SetTimerEx writes into a slot has the type of a slot.              *)
LEMMA ArmedType ==
  ASSUME TypeOK
  PROVE  \A id \in Ids, interv \in Intervals, proc \in BOOLEAN :
             /\ Armed(id, interv, proc) \in TIMER
             /\ Armed(id, interv, proc) # NoTimer
             /\ Armed(id, interv, proc).id = id
  <1>1. clock \in Nat
    BY TimerAssumption DEF TypeOK
  <1>2. ASSUME NEW id \in Ids, NEW interv \in Intervals, NEW proc \in BOOLEAN
        PROVE  Armed(id, interv, proc) \in TIMER /\ Armed(id, interv, proc).id = id
    BY <1>1, <1>2, TimerAssumption DEF Armed, TIMER
  <1> QED
    BY <1>2, NoTimerIsNone

(* The slot after a slot, by cases.                                        *)
LEMMA SuccValue ==
  \A s \in Slots : Succ(s) = IF s = DEF_NR_TIMERS - 1 THEN 0 ELSE s + 1
  BY TimerAssumption DEF Succ, Slots

(* The slot after a slot is a slot.                                        *)
LEMMA SuccType == \A s \in Slots : Succ(s) \in Slots
  BY SuccValue, TimerAssumption DEF Slots

(* Every set of slots is finite, so it has a number of members.            *)
LEMMA FiniteSlots == \A S \in SUBSET Slots : IsFiniteSet(S) /\ Cardinality(S) \in Nat
  <1>1. IsFiniteSet(Slots)
    BY FS_Interval, TimerAssumption DEF Slots
  <1> QED
    BY <1>1, FS_Subset, FS_CardinalityType

-----------------------------------------------------------------------------
(* Typing goes with the count: KillTimer and __mg_remove_timer subtract    *)
(* from nr_timers as many timers as there are.                             *)
TypeInv == TypeOK /\ CountRight

(* mg_InitMsgQueue gives every variable a value of its type.               *)
LEMMA InitTypeInv == Init => TypeInv
  <1> SUFFICES ASSUME Init PROVE TypeInv
    OBVIOUS
  <1>1. Used = {}
    BY DEF Init, Used
  <1>2. Cardinality(Used) = 0
    BY <1>1, FS_EmptySet
  <1>3. running \in Seq(Frame)
    BY EmptySeq DEF Init
  <1>4. TypeOK
    BY <1>3, TimerAssumption DEF Init, TypeOK, Slots
  <1> QED
    BY <1>1, <1>2, <1>4 DEF TypeInv, CountRight, Init

(* A slot that is written with another timer of the same identity, or not  *)
(* at all, leaves the count alone.                                         *)
LEMMA SameCount ==
  ASSUME CountRight, UNCHANGED nr_timers, Used' = Used,
         \A s \in Used : timer_slots'[s].id = timer_slots[s].id
  PROVE  CountRight'
  BY DEF CountRight

(* A step that leaves the slots and the count alone keeps them in step.    *)
LEMMA SameSlots == CountRight /\ UNCHANGED <<timer_slots, nr_timers>> => CountRight'
  <1> SUFFICES ASSUME CountRight, UNCHANGED <<timer_slots, nr_timers>> PROVE CountRight'
    OBVIOUS
  <1>1. Used' = Used
    BY DEF Used
  <1> QED
    BY <1>1, SameCount

(* SetTimerEx keeps the types and counts the slot that it fills.           *)
LEMMA SetTimerTypeInv ==
  ASSUME TypeInv, NEW id \in Ids, NEW interv \in Intervals, SetTimerEx(id, interv)
  PROVE  TypeInv'
  <1> DEFINE new == Armed(id, interv, id \in Callbacks)
  <1>1. new \in TIMER /\ new # NoTimer /\ new.id = id
    <2>1. (id \in Callbacks) \in BOOLEAN
      OBVIOUS
    <2> QED
      BY <2>1, ArmedType DEF TypeInv
  <1>7. \/ /\ SlotOf(id) # {}
           /\ timer_slots' = [s \in Slots |-> IF s \in SlotOf(id) THEN new
                                              ELSE timer_slots[s]]
           /\ UNCHANGED nr_timers
        \/ /\ SlotOf(id) = {}
           /\ \E s \in Slots : First(s) /\ timer_slots' = [timer_slots EXCEPT ![s] = new]
           /\ nr_timers' = nr_timers + 1
        \/ UNCHANGED <<timer_slots, nr_timers>>
    BY DEF SetTimerEx
  <1> HIDE DEF new
  <1>2. timer_slots' \in [Slots -> TIMER \cup {NoTimer}] /\ nr_timers' \in Nat
    BY <1>1, <1>7 DEF TypeInv, TypeOK
  <1>3. TypeOK'
    BY <1>2 DEF SetTimerEx, TypeInv, TypeOK, __mg_update_tick_count
  <1>4. CASE SlotOf(id) # {} /\ timer_slots' = [s \in Slots |-> IF s \in SlotOf(id) THEN new
                                                       ELSE timer_slots[s]]
                            /\ UNCHANGED nr_timers
    <2>1. Used' = Used
      BY <1>1, <1>4 DEF Used, SlotOf
    <2>2. \A s \in Used : timer_slots'[s].id = timer_slots[s].id
      BY <1>1, <1>4 DEF Used, SlotOf
    <2> QED
      BY <1>3, <2>1, <2>2, <1>4, SameCount DEF TypeInv
  <1>5. ASSUME SlotOf(id) = {}, NEW s \in Slots, First(s),
               timer_slots' = [timer_slots EXCEPT ![s] = new], nr_timers' = nr_timers + 1
        PROVE  CountRight'
    <2>1. Used' = Used \cup {s} /\ s \notin Used
      BY <1>1, <1>5 DEF Used, First, Free, TypeInv, TypeOK
    <2>2. IsFiniteSet(Used)
      BY FiniteSlots DEF Used
    <2>3. Cardinality(Used') = Cardinality(Used) + 1
      BY <2>1, <2>2, FS_AddElement
    <2>4. \A r \in Used : timer_slots'[r].id = timer_slots[r].id /\ timer_slots[r].id # id
      BY <1>5, <2>1 DEF SlotOf, Used, TypeInv, TypeOK
    <2>5. timer_slots'[s].id = id
      BY <1>1, <1>5 DEF TypeInv, TypeOK
    <2> QED
      BY <1>5, <2>1, <2>3, <2>4, <2>5 DEF TypeInv, CountRight
  <1>6. CASE UNCHANGED <<timer_slots, nr_timers>>
    BY <1>3, <1>6, SameSlots DEF TypeInv
  <1> QED
    BY <1>3, <1>4, <1>5, <1>6, <1>7 DEF TypeInv

(* ResetTimerEx keeps the types and the count.                             *)
LEMMA ResetTimerTypeInv ==
  ASSUME TypeInv, NEW id \in Ids, NEW interv \in Intervals, ResetTimerEx(id, interv)
  PROVE  TypeInv'
  <1>1. \A s \in SlotOf(id) : /\ timer_slots[s] \in TIMER /\ timer_slots[s].id = id
                              /\ timer_slots[s].proc \in BOOLEAN
    BY DEF SlotOf, Used, TypeInv, TypeOK, TIMER
  <1>2. \A s \in SlotOf(id) :
            /\ Armed(id, interv, timer_slots[s].proc) \in TIMER
            /\ Armed(id, interv, timer_slots[s].proc) # NoTimer
            /\ Armed(id, interv, timer_slots[s].proc).id = id
    BY <1>1, ArmedType DEF TypeInv
  <1>3. timer_slots' \in [Slots -> TIMER \cup {NoTimer}]
    BY <1>2 DEF ResetTimerEx, TypeInv, TypeOK
  <1>4. TypeOK'
    BY <1>3 DEF ResetTimerEx, TypeInv, TypeOK, __mg_update_tick_count
  <1>5. Used' = Used /\ \A s \in Used : timer_slots'[s].id = timer_slots[s].id
    BY <1>1, <1>2 DEF ResetTimerEx, Used, SlotOf
  <1> QED
    BY <1>4, <1>5, SameCount DEF TypeInv, ResetTimerEx

(* Taking timers out of the slots.                                         *)
LEMMA RemovedCount ==
  ASSUME TypeInv, NEW gone \in SUBSET Used,
         timer_slots' = [s \in Slots |-> IF s \in gone THEN NoTimer ELSE timer_slots[s]],
         nr_timers' = nr_timers - Cardinality(gone)
  PROVE  /\ timer_slots' \in [Slots -> TIMER \cup {NoTimer}] /\ nr_timers' \in Nat
         /\ CountRight'
  <1>1. Used' = Used \ gone
    BY DEF Used
  <1>2. IsFiniteSet(Used) /\ Used \cap gone = gone
    BY FiniteSlots DEF Used
  <1>7. Cardinality(Used \ gone) = Cardinality(Used) - Cardinality(Used \cap gone)
    BY <1>2, FS_Difference
  <1>3. Cardinality(Used') = Cardinality(Used) - Cardinality(gone)
    BY <1>1, <1>2, <1>7
  <1>4. Used' \in SUBSET Slots
    BY <1>1 DEF Used
  <1>5. Cardinality(Used') \in Nat
    BY <1>4, FiniteSlots
  <1>6. nr_timers' = Cardinality(Used')
    BY <1>3 DEF TypeInv, CountRight
  <1> QED
    BY <1>1, <1>5, <1>6 DEF TypeInv, TypeOK, CountRight, Used

(* KillTimer keeps the types and counts the slots that it frees.           *)
LEMMA KillTypeInv ==
  ASSUME TypeInv, NEW ids, Kill(ids)
  PROVE  TypeInv'
  <1> DEFINE gone == {s \in Used : timer_slots[s].id \in ids}
  <1>1. /\ timer_slots' \in [Slots -> TIMER \cup {NoTimer}] /\ nr_timers' \in Nat
        /\ CountRight'
    BY RemovedCount DEF Kill
  <1> QED
    BY <1>1 DEF Kill, TypeInv, TypeOK, ticks

(* Idling keeps the types and the count.                                   *)
LEMMA IdleTypeInv == TypeInv /\ Idle => TypeInv'
  <1> SUFFICES ASSUME TypeInv, Idle PROVE TypeInv'
    OBVIOUS
  <1> DEFINE due == {s \in Used : Due(s)}
             late(s) == [timer_slots[s] EXCEPT !.ticks_expected = @ + timer_slots[s].interv,
                                               !.ticks_fired = clock]
  <1>1. \A s \in due : timer_slots[s] \in TIMER
    BY DEF Used, TypeInv, TypeOK
  <1>2. \A s \in due : late(s) \in TIMER /\ late(s).id = timer_slots[s].id
    <2>1. clock \in Nat
      BY TimerAssumption DEF TypeInv, TypeOK
    <2>2. ASSUME NEW r \in TIMER
          PROVE  LET l == [r EXCEPT !.ticks_expected = @ + r.interv, !.ticks_fired = clock]
                 IN  l \in TIMER /\ l.id = r.id
      <3>1. r.ticks_expected \in Nat /\ r.interv \in Intervals
        BY DEF TIMER
      <3>2. r.ticks_expected + r.interv \in Nat
        <4>1. \A i, j \in Nat : i + j \in Nat
          OBVIOUS
        <4>2. r.interv \in Nat
          BY <3>1, TimerAssumption
        <4> QED
          BY ONLY <3>1, <4>1, <4>2
      <3> DEFINE n == r.ticks_expected + r.interv
      <3> HIDE DEF n
      <3>3. \A k \in Nat, c \in Nat : 
               LET l == [r EXCEPT !.ticks_expected = k, !.ticks_fired = c]
               IN  l \in TIMER /\ l.id = r.id
        BY DEF TIMER
      <3> QED
        BY <2>1, <3>2, <3>3
    <2>3. ASSUME NEW s \in due
          PROVE  late(s) \in TIMER /\ late(s).id = timer_slots[s].id
      BY <1>1, <2>2, <2>3
    <2> QED
      BY <2>3
  <1>3. timer_slots' = [s \in Slots |-> IF s \in due THEN late(s) ELSE timer_slots[s]]
    BY DEF Idle
  <1>4. due \subseteq Used
    OBVIOUS
  <1> HIDE DEF late
  <1>5. timer_slots' \in [Slots -> TIMER \cup {NoTimer}]
    BY <1>2, <1>3 DEF TypeInv, TypeOK
  <1>6. Used' = Used /\ \A s \in Used : timer_slots'[s].id = timer_slots[s].id
    BY <1>2, <1>3, NoTimerIsNone DEF Used
  <1>7. skipped' \in [Slots -> Nat] /\ expired_timer_mask' \subseteq Slots
    BY DEF Idle, TypeInv, TypeOK, Used
  <1>8. TypeOK'
    <2>1. clock \in 0 .. clock /\ MaxTicks \in Nat
      BY TimerAssumption DEF TypeInv, TypeOK
    <2> QED
      BY <1>5, <1>7, <2>1 DEF Idle, TypeInv, TypeOK, __mg_update_tick_count
  <1> QED
    BY <1>6, <1>8, SameCount DEF TypeInv, Idle

(* PeekMessageEx's reading of a timer keeps the types and the count.       *)
LEMMA TakeTimerTypeInv == TypeInv /\ TakeTimer => TypeInv'
  <1> SUFFICES ASSUME TypeInv, TakeTimer PROVE TypeInv'
    OBVIOUS
  <1>1. first_timer_slot' \in Slots
    BY SuccType DEF TakeTimer, Advance, TypeInv, TypeOK
  <1>2. \A s \in Used : [slot |-> s, id |-> timer_slots[s].id] \in Frame
    BY DEF Used, TypeInv, TypeOK, TIMER, Frame
  <1>3. \A f \in Frame : <<f>> \o running \in Seq(Frame)
    BY DEF TypeInv, TypeOK
  <1>4. running' \in Seq(Frame)
    BY <1>2, <1>3 DEF TakeTimer, TypeInv, TypeOK
  <1>5. skipped' \in [Slots -> Nat] /\ expired_timer_mask' \subseteq Slots
    BY DEF TakeTimer, TypeInv, TypeOK
  <1>6. TypeOK'
    BY <1>1, <1>4, <1>5 DEF TakeTimer, TypeInv, TypeOK, ticks, slots
  <1> QED
    BY <1>6, SameSlots DEF TypeInv, TakeTimer, slots

(* So does the end of a callback, which may remove its timer.              *)
LEMMA CallbackReturnTypeInv ==
  ASSUME TypeInv, NEW keep \in BOOLEAN, CallbackReturn(keep)
  PROVE  TypeInv'
  <1> DEFINE f == Head(running)
  <1>1. running' \in Seq(Frame)
    BY DEF CallbackReturn, TypeInv, TypeOK
  <1>2. CASE ~keep /\ f.slot \in Used
    <2>1. {f.slot} \in SUBSET Used /\ Cardinality({f.slot}) = 1
      BY <1>2, FS_Singleton
    <2>2. timer_slots' = [s \in Slots |-> IF s \in {f.slot} THEN NoTimer ELSE timer_slots[s]]
      BY <1>2 DEF CallbackReturn, TypeInv, TypeOK
    <2>3. nr_timers' = nr_timers - Cardinality({f.slot})
      BY <1>2, <2>1 DEF CallbackReturn, NrTimers
    <2>4. /\ timer_slots' \in [Slots -> TIMER \cup {NoTimer}] /\ nr_timers' \in Nat
          /\ CountRight'
      BY <2>1, <2>2, <2>3, RemovedCount
    <2> QED
      BY <1>1, <2>4 DEF CallbackReturn, TypeInv, TypeOK, ticks
  <1>3. CASE UNCHANGED slots
    BY <1>1, <1>3, SameSlots DEF CallbackReturn, TypeInv, TypeOK, ticks, slots
  <1> QED
    BY <1>2, <1>3 DEF CallbackReturn

(* Every step keeps the types and the count.                               *)
LEMMA NextTypeInv == TypeInv /\ [Next]_vars => TypeInv'
  <1> SUFFICES ASSUME TypeInv, [Next]_vars PROVE TypeInv'
    OBVIOUS
  <1>1. CASE Tick \/ DesktopTick \/ GetTickCount
    <2>1. TypeOK'
      BY <1>1, TimerAssumption DEF Tick, DesktopTick, GetTickCount,
         __mg_update_tick_count, slots, TypeInv, TypeOK
    <2> QED
      BY <1>1, <2>1, SameSlots DEF Tick, DesktopTick, GetTickCount, slots, TypeInv
  <1>2. ASSUME NEW id \in Ids, NEW i \in Intervals, SetTimerEx(id, i) \/ ResetTimerEx(id, i)
        PROVE  TypeInv'
    BY <1>2, SetTimerTypeInv, ResetTimerTypeInv
  <1>3. ASSUME NEW ids, Kill(ids)
        PROVE  TypeInv'
    BY <1>3, KillTypeInv
  <1>4. ASSUME NEW w \in Windows, ThrowAway(w)
        PROVE  TypeInv'
    BY <1>4, SameSlots DEF ThrowAway, ticks, slots, TypeInv, TypeOK
  <1>5. CASE Idle
    BY <1>5, IdleTypeInv
  <1>6. CASE TakeTimer
    BY <1>6, TakeTimerTypeInv
  <1>7. ASSUME NEW keep \in BOOLEAN, CallbackReturn(keep)
        PROVE  TypeInv'
    BY <1>7, CallbackReturnTypeInv
  <1>8. CASE UNCHANGED vars
    BY <1>8, SameSlots DEF vars, ticks, slots, TypeInv, TypeOK
  <1> QED
    BY <1>1, <1>2, <1>3, <1>4, <1>5, <1>6, <1>7, <1>8
       DEF Next, Api, KillTimer, KillTimersOf

(* The type of the timers' variables.                                      *)
THEOREM TypeCorrect == Spec => []TypeOK
  <1>1. TypeInv => TypeOK
    BY DEF TypeInv
  <1> QED
    BY <1>1, InitTypeInv, NextTypeInv, PTL DEF Spec

(* nr_timers is the number of slots in use, and no timer is in two slots,  *)
(* whatever is set, reset, killed or removed by its callback.              *)
THEOREM Counted == Spec => []CountRight
  <1>1. TypeInv => CountRight
    BY DEF TypeInv
  <1> QED
    BY <1>1, InitTypeInv, NextTypeInv, PTL DEF Spec

-----------------------------------------------------------------------------
(* Without nested loops the timer whose callback runs has lost its bit     *)
(* before the callback, and nothing sets the bit again before it returns.  *)
BitsInv ==
    /\ BitsHaveTimers
    /\ Len(running) <= 1
    /\ running # << >> => Head(running).slot \notin expired_timer_mask
    /\ ~crashed

(* No bit of expired_timer_mask is set when the thread starts.             *)
LEMMA InitBitsInv == Init => BitsInv
  BY DEF Init, BitsInv, BitsHaveTimers

(* SetTimerEx empties no slot, and spares the others unless it sets again. *)
LEMMA SetTimerUsed ==
  ASSUME TypeInv, NEW id \in Ids, NEW interv \in Intervals, SetTimerEx(id, interv)
  PROVE  /\ Used \subseteq Used'
         /\ SetAgain = FALSE => \A s \in Used : timer_slots'[s] = timer_slots[s]
  <1>1. \A b \in BOOLEAN : Armed(id, interv, b) # NoTimer
    BY ArmedType DEF TypeInv
  <1>2. (id \in Callbacks) \in BOOLEAN
    OBVIOUS
  <1>3. Armed(id, interv, id \in Callbacks) # NoTimer
    BY <1>1, <1>2
  <1>4. CASE SlotOf(id) # {}
    <2>1. timer_slots' = [s \in Slots |-> IF s \in SlotOf(id)
                                          THEN Armed(id, interv, id \in Callbacks)
                                          ELSE timer_slots[s]]
      BY <1>4 DEF SetTimerEx, Free
    <2>2. SetAgain # FALSE
      BY <1>4 DEF SetTimerEx
    <2> QED
      BY <1>3, <2>1, <2>2 DEF Used
  <1>5. CASE SlotOf(id) = {}
    BY <1>3, <1>5 DEF SetTimerEx, Used, First, Free, TypeInv, TypeOK
  <1> QED
    BY <1>4, <1>5

(* ResetTimerEx empties no slot.                                           *)
LEMMA ResetTimerUsed ==
  ASSUME TypeInv, NEW id \in Ids, NEW interv \in Intervals, ResetTimerEx(id, interv)
  PROVE  /\ Used \subseteq Used'
         /\ expired_timer_mask' \subseteq expired_timer_mask
         /\ \A s \in expired_timer_mask' : timer_slots'[s] = timer_slots[s]
  <1>1. \A s \in SlotOf(id) : timer_slots[s].proc \in BOOLEAN
    BY DEF SlotOf, Used, TypeInv, TypeOK, TIMER
  <1>2. \A s \in SlotOf(id) : Armed(id, interv, timer_slots[s].proc) # NoTimer
    BY <1>1, ArmedType DEF TypeInv
  <1> QED
    BY <1>2 DEF ResetTimerEx, Used, TypeInv, TypeOK

(* Idling empties no slot, and touches only the timers that are due.       *)
LEMMA IdleUsed ==
  ASSUME TypeInv, Idle
  PROVE  /\ Used' = Used
         /\ \A s \in Slots : ~(s \in Used /\ Due(s)) => timer_slots'[s] = timer_slots[s]
  <1>1. \A s \in Used : [timer_slots[s] EXCEPT
                            !.ticks_expected = @ + timer_slots[s].interv,
                            !.ticks_fired = clock] # NoTimer
    <2>1. \A r \in TIMER : \A k, c : [r EXCEPT !.ticks_expected = k, !.ticks_fired = c] # NoTimer
      BY DEF TIMER, NoTimer
    <2> QED
      BY <2>1 DEF Used, TypeInv, TypeOK
  <1> QED
    BY <1>1 DEF Idle, Used

(* Every step leaves a timer in the slot of every bit.                     *)
LEMMA NextBitsInv ==
  ASSUME MaxNest = 1, TypeInv, BitsInv, [Next]_vars
  PROVE  BitsInv'
  <1>1. CASE Tick \/ DesktopTick \/ GetTickCount
    BY <1>1 DEF Tick, DesktopTick, GetTickCount, slots, BitsInv, BitsHaveTimers, Used
  <1>2. ASSUME NEW id \in Ids, NEW i \in Intervals, SetTimerEx(id, i)
        PROVE  BitsInv'
    BY <1>2, SetTimerUsed DEF SetTimerEx, BitsInv, BitsHaveTimers
  <1>3. ASSUME NEW id \in Ids, NEW i \in Intervals, ResetTimerEx(id, i)
        PROVE  BitsInv'
    BY <1>3, ResetTimerUsed DEF ResetTimerEx, BitsInv, BitsHaveTimers
  <1>4. ASSUME NEW ids, Kill(ids)
        PROVE  BitsInv'
    BY <1>4 DEF Kill, Forgotten, BitsInv, BitsHaveTimers, Used
  <1>5. ASSUME NEW w \in Windows, ThrowAway(w)
        PROVE  BitsInv'
    BY <1>5 DEF ThrowAway, slots, BitsInv, BitsHaveTimers, Used
  <1>6. CASE Idle
    <2>1. running = << >>
      <3>1. Looping
        BY <1>6 DEF Idle
      <3> QED
        BY <3>1 DEF Looping, TypeInv, TypeOK
    <2> QED
      BY <1>6, <2>1, IdleUsed DEF Idle, BitsInv, BitsHaveTimers
  <1>7. CASE TakeTimer
    <2>1. running = << >>
      BY <1>7 DEF TakeTimer, Looping, TypeInv, TypeOK
    <2>2. Used' = Used
      BY <1>7 DEF TakeTimer, slots, Used
    <2>3. PICK s \in expired_timer_mask :
              /\ expired_timer_mask' = expired_timer_mask \ {s}
              /\ running' = IF timer_slots[s].proc
                            THEN <<[slot |-> s, id |-> timer_slots[s].id]>> \o running
                            ELSE running
      BY <1>7 DEF TakeTimer, BitsInv, BitsHaveTimers
    <2>4. running' = << >> \/ running' = <<[slot |-> s, id |-> timer_slots[s].id]>>
      BY <2>1, <2>3
    <2> QED
      BY <1>7, <2>1, <2>2, <2>3, <2>4 DEF TakeTimer, BitsInv, BitsHaveTimers
  <1>8. ASSUME NEW keep \in BOOLEAN, CallbackReturn(keep)
        PROVE  BitsInv'
    <2>1. running # << >> /\ running' = << >>
      BY <1>8 DEF CallbackReturn, BitsInv, TypeInv, TypeOK
    <2>2. \A s \in Used : s # Head(running).slot => s \in Used'
      BY <1>8 DEF CallbackReturn, slots, Used, TypeInv, TypeOK
    <2> QED
      BY <1>8, <2>1, <2>2 DEF CallbackReturn, BitsInv, BitsHaveTimers
  <1>9. CASE UNCHANGED vars
    BY <1>9 DEF vars, slots, BitsInv, BitsHaveTimers, Used
  <1> QED
    BY <1>1, <1>2, <1>3, <1>4, <1>5, <1>6, <1>7, <1>8, <1>9
       DEF Next, Api, KillTimer, KillTimersOf

(* Without nested loops a bit never outlives its timer: PeekMessageEx and  *)
(* __mg_throw_away_messages find a timer in the slot of every bit.         *)
THEOREM BitsKept ==
  ASSUME MaxNest = 1
  PROVE  Spec => [](BitsHaveTimers /\ NoNullTimer)
  <1>1. BitsInv => BitsHaveTimers /\ NoNullTimer
    BY DEF BitsInv, NoNullTimer
  <1>2. TypeInv /\ BitsInv /\ [Next]_vars => TypeInv' /\ BitsInv'
    BY NextTypeInv, NextBitsInv
  <1> QED
    BY <1>1, <1>2, InitTypeInv, InitBitsInv, PTL DEF Spec

-----------------------------------------------------------------------------
(* Every step leaves the bits to timers that are due.                      *)
LEMMA NextNotEarly ==
  ASSUME MaxNest = 1, SetAgain = FALSE, TypeInv, BitsInv, NotEarly, [Next]_vars
  PROVE  NotEarly'
  <1> DEFINE Kept == \A s \in expired_timer_mask' :
                        s \in expired_timer_mask /\ timer_slots'[s] = timer_slots[s]
  <1>1. Kept => NotEarly'
    BY DEF NotEarly, BitsInv, BitsHaveTimers
  <1>2. CASE Tick \/ DesktopTick \/ GetTickCount \/ TakeTimer
    BY <1>1, <1>2 DEF Tick, DesktopTick, GetTickCount, TakeTimer, slots
  <1>3. ASSUME NEW id \in Ids, NEW i \in Intervals, SetTimerEx(id, i)
        PROVE  NotEarly'
    BY <1>1, <1>3, SetTimerUsed DEF SetTimerEx, BitsInv, BitsHaveTimers
  <1>4. ASSUME NEW id \in Ids, NEW i \in Intervals, ResetTimerEx(id, i)
        PROVE  NotEarly'
    BY <1>1, <1>4, ResetTimerUsed DEF ResetTimerEx
  <1>5. ASSUME NEW ids, Kill(ids)
        PROVE  NotEarly'
    BY <1>1, <1>5 DEF Kill, Forgotten, TypeInv, TypeOK, BitsInv, BitsHaveTimers
  <1>6. ASSUME NEW w \in Windows, ThrowAway(w)
        PROVE  NotEarly'
    BY <1>1, <1>6 DEF ThrowAway, slots
  <1>7. CASE Idle
    <2> SUFFICES ASSUME NEW s \in expired_timer_mask', s \in Used'
                 PROVE  timer_slots'[s].ticks_fired + timer_slots'[s].interv
                            >= timer_slots'[s].ticks_expected
      BY DEF NotEarly
    <2>1. CASE s \in Used /\ Due(s)
      <3>1. timer_slots'[s] = [timer_slots[s] EXCEPT
                                   !.ticks_expected = @ + timer_slots[s].interv,
                                   !.ticks_fired = clock]
        BY <1>7, <2>1 DEF Idle, Used
      <3>2. timer_slots[s] \in TIMER
        BY <2>1 DEF Used, TypeInv, TypeOK
      <3>3. clock >= timer_slots[s].ticks_expected
        BY <2>1 DEF Due
      <3>4. clock \in Nat
        BY TimerAssumption DEF TypeInv, TypeOK
      <3>5. timer_slots[s].interv \in Nat /\ timer_slots[s].ticks_expected \in Nat
        BY <3>2, TimerAssumption DEF TIMER
      <3>6. /\ timer_slots'[s].ticks_fired = clock
            /\ timer_slots'[s].interv = timer_slots[s].interv
            /\ timer_slots'[s].ticks_expected
                   = timer_slots[s].ticks_expected + timer_slots[s].interv
        BY <3>1, <3>2 DEF TIMER
      <3> QED
        BY <3>3, <3>4, <3>5, <3>6
    <2>2. CASE ~(s \in Used /\ Due(s))
      <3>1. s \in expired_timer_mask /\ s \in Used
        BY <1>7, <2>2 DEF Idle, BitsInv, BitsHaveTimers
      <3>2. timer_slots'[s] = timer_slots[s]
        BY <1>7, <2>2, <3>1, IdleUsed DEF Used
      <3> QED
        BY <3>1, <3>2 DEF NotEarly
    <2> QED
      BY <2>1, <2>2
  <1>8. ASSUME NEW keep \in BOOLEAN, CallbackReturn(keep)
        PROVE  NotEarly'
    <2>1. Head(running).slot \notin expired_timer_mask /\ UNCHANGED expired_timer_mask
      BY <1>8 DEF CallbackReturn, BitsInv
    <2>2. \A s \in Slots : s # Head(running).slot => timer_slots'[s] = timer_slots[s]
      BY <1>8 DEF CallbackReturn, slots, TypeInv, TypeOK
    <2> QED
      BY <1>1, <2>1, <2>2 DEF TypeInv, TypeOK
  <1>9. CASE UNCHANGED vars
    BY <1>1, <1>9 DEF vars, slots
  <1> QED
    BY <1>2, <1>3, <1>4, <1>5, <1>6, <1>7, <1>8, <1>9
       DEF Next, Api, KillTimer, KillTimersOf

(* Without nested loops, and when no timer is set twice, a timer whose bit *)
(* is set was due when it was set: none is delivered early.                *)
THEOREM NoneEarly ==
  ASSUME MaxNest = 1, SetAgain = FALSE
  PROVE  Spec => []NotEarly
  <1>1. Init => NotEarly
    BY DEF Init, NotEarly
  <1>2. TypeInv /\ BitsInv /\ NotEarly /\ [Next]_vars => TypeInv' /\ BitsInv' /\ NotEarly'
    BY NextTypeInv, NextBitsInv, NextNotEarly
  <1> QED
    BY <1>1, <1>2, InitTypeInv, InitBitsInv, PTL DEF Spec

-----------------------------------------------------------------------------
(* The start of the search moves past one slot for every timer taken, so   *)
(* a timer comes one closer to the start each time another one is taken.   *)
LEMMA OffsetValue ==
  \A s, f \in Slots : (s - f + DEF_NR_TIMERS) % DEF_NR_TIMERS
                          = IF f <= s THEN s - f ELSE s - f + DEF_NR_TIMERS
  BY TimerAssumption DEF Slots

(* The distance from the start of the search is below the number of slots. *)
LEMMA OffsetBound ==
  ASSUME TypeOK
  PROVE  \A s \in Slots : Offset(s) \in 0 .. DEF_NR_TIMERS - 1
  <1>1. \A s \in Slots : Offset(s) = IF first_timer_slot <= s THEN s - first_timer_slot
                                     ELSE s - first_timer_slot + DEF_NR_TIMERS
    BY OffsetValue DEF Offset, TypeOK
  <1> QED
    BY <1>1, TimerAssumption DEF TypeOK, Slots

(* Moving the start past a slot brings every other slot one closer.        *)
LEMMA OffsetCloser ==
  ASSUME TypeOK, Advance
  PROVE  \A r \in Slots : Offset(r) > 0 => Offset(r)' = Offset(r) - 1
  <1> SUFFICES ASSUME NEW r \in Slots, Offset(r) > 0
               PROVE  Offset(r)' = Offset(r) - 1
    OBVIOUS
  <1> DEFINE f == first_timer_slot
             g == first_timer_slot'
  <1>1. f \in Slots /\ g = IF f = DEF_NR_TIMERS - 1 THEN 0 ELSE f + 1
    BY SuccValue DEF Advance, TypeOK
  <1>2. g \in Slots
    BY <1>1, TimerAssumption DEF Slots
  <1>3. Offset(r) = IF f <= r THEN r - f ELSE r - f + DEF_NR_TIMERS
    BY <1>1, OffsetValue DEF Offset
  <1>4. Offset(r)' = IF g <= r THEN r - g ELSE r - g + DEF_NR_TIMERS
    BY <1>2, OffsetValue DEF Offset
  <1>5. DEF_NR_TIMERS \in Nat \ {0} /\ r \in 0 .. DEF_NR_TIMERS - 1
        /\ f \in 0 .. DEF_NR_TIMERS - 1
    BY <1>1, TimerAssumption DEF Slots
  <1> HIDE DEF f, g
  <1> QED
    BY <1>1, <1>3, <1>4, <1>5

ServedInv == \A s \in expired_timer_mask : skipped[s] + Offset(s) <= DEF_NR_TIMERS - 1

(* What went before a waiting timer and what is in front of it fit the table.*)
LEMMA NextServedInv ==
  ASSUME TypeInv, BitsInv, ServedInv, [Next]_vars
  PROVE  ServedInv'
  <1> DEFINE Same == /\ expired_timer_mask' \subseteq expired_timer_mask
                     /\ UNCHANGED <<skipped, first_timer_slot>>
  <1>1. Same => ServedInv'
    BY DEF ServedInv, Offset
  <1>2. CASE Tick \/ DesktopTick \/ GetTickCount
    BY <1>1, <1>2 DEF Tick, DesktopTick, GetTickCount
  <1>3. ASSUME NEW id \in Ids, NEW i \in Intervals, SetTimerEx(id, i) \/ ResetTimerEx(id, i)
        PROVE  ServedInv'
    BY <1>1, <1>3 DEF SetTimerEx, ResetTimerEx
  <1>4. ASSUME NEW ids, Kill(ids)
        PROVE  ServedInv'
    BY <1>1, <1>4 DEF Kill
  <1>5. ASSUME NEW w \in Windows, ThrowAway(w)
        PROVE  ServedInv'
    BY <1>1, <1>5 DEF ThrowAway
  <1>6. CASE Idle
    <2> SUFFICES ASSUME NEW s \in expired_timer_mask'
                 PROVE  skipped'[s] + Offset(s) <= DEF_NR_TIMERS - 1
      BY <1>6 DEF ServedInv, Idle, Offset
    <2>1. s \in Slots
      BY <1>6 DEF Idle, TypeInv, TypeOK, Used
    <2>2. Offset(s) \in 0 .. DEF_NR_TIMERS - 1
      BY <2>1, OffsetBound DEF TypeInv
    <2>3. CASE s \in expired_timer_mask
      BY <1>6, <2>1, <2>3 DEF Idle, ServedInv
    <2>4. CASE s \notin expired_timer_mask
      <3>1. skipped'[s] = 0
        BY <1>6, <2>1, <2>4 DEF Idle
      <3> QED
        BY <2>2, <3>1, TimerAssumption
    <2> QED
      BY <2>3, <2>4
  <1>7. CASE TakeTimer
    <2>1. PICK s \in expired_timer_mask :
              /\ \A r \in expired_timer_mask : Offset(s) <= Offset(r)
              /\ Advance
              /\ expired_timer_mask' = expired_timer_mask \ {s}
              /\ skipped' = [r \in Slots |-> IF r \in expired_timer_mask \ {s}
                                             THEN skipped[r] + 1 ELSE skipped[r]]
      BY <1>7 DEF TakeTimer, BitsInv, BitsHaveTimers
    <2> SUFFICES ASSUME NEW r \in expired_timer_mask \ {s}
                 PROVE  skipped'[r] + Offset(r)' <= DEF_NR_TIMERS - 1
      BY <2>1 DEF ServedInv
    <2>2. r \in Slots /\ s \in Slots
      BY DEF TypeInv, TypeOK
    <2>3. Offset(r) \in 0 .. DEF_NR_TIMERS - 1 /\ Offset(s) \in 0 .. DEF_NR_TIMERS - 1
      BY <2>2, OffsetBound DEF TypeInv
    <2>4. Offset(r) # Offset(s)
      <3>1. first_timer_slot \in Slots
        BY DEF TypeInv, TypeOK
      <3> QED
        BY <2>2, <3>1, OffsetValue, TimerAssumption DEF Offset, Slots
    <2>5. Offset(r) > 0
      BY <2>1, <2>3, <2>4
    <2>6. Offset(r)' = Offset(r) - 1
      BY <2>1, <2>2, <2>5, OffsetCloser DEF TypeInv
    <2>7. skipped'[r] = skipped[r] + 1 /\ skipped[r] \in Nat
      BY <2>1, <2>2 DEF TypeInv, TypeOK
    <2>8. skipped[r] + Offset(r) <= DEF_NR_TIMERS - 1
      BY DEF ServedInv
    <2> QED
      BY <2>3, <2>6, <2>7, <2>8, TimerAssumption
  <1>8. ASSUME NEW keep \in BOOLEAN, CallbackReturn(keep)
        PROVE  ServedInv'
    BY <1>1, <1>8 DEF CallbackReturn
  <1>9. CASE UNCHANGED vars
    BY <1>1, <1>9 DEF vars
  <1> QED
    BY <1>2, <1>3, <1>4, <1>5, <1>6, <1>7, <1>8, <1>9
       DEF Next, Api, KillTimer, KillTimersOf

(* No expired timer is starved: fewer than DEF_NR_TIMERS others are taken  *)
(* before it, for every number of slots.                                   *)
THEOREM AllServedInTurn ==
  ASSUME MaxNest = 1
  PROVE  Spec => []ServedInTurn
  <1>1. Init => ServedInv
    BY DEF Init, ServedInv
  <1>2. TypeInv /\ ServedInv => ServedInTurn
    <2> SUFFICES ASSUME TypeInv, ServedInv, NEW s \in expired_timer_mask
                 PROVE  skipped[s] < DEF_NR_TIMERS
      BY DEF ServedInTurn
    <2>1. s \in Slots /\ skipped[s] \in Nat
      BY DEF TypeInv, TypeOK
    <2>2. Offset(s) \in 0 .. DEF_NR_TIMERS - 1
      BY <2>1, OffsetBound DEF TypeInv
    <2> QED
      BY <2>1, <2>2, TimerAssumption DEF ServedInv
  <1>3. TypeInv /\ BitsInv /\ ServedInv /\ [Next]_vars
           => TypeInv' /\ BitsInv' /\ ServedInv'
    BY NextTypeInv, NextBitsInv, NextServedInv
  <1> QED
    BY <1>1, <1>2, <1>3, InitTypeInv, InitBitsInv, PTL DEF Spec

-----------------------------------------------------------------------------
(* While callbacks set no timers, the slot that a callback runs for holds  *)
(* its timer until it is killed, and nothing else after that: of the       *)
(* callbacks of nested loops as well.                                      *)
CallbacksOwn ==
    \A k \in 1 .. Len(running) :
        \/ timer_slots[running[k].slot] = NoTimer
        \/ timer_slots[running[k].slot].id = running[k].id

(* A step that gives no slot to another timer.                             *)
SlotsKept ==
    \A s \in Slots :
        \/ timer_slots'[s] = NoTimer
        \/ timer_slots[s] # NoTimer /\ timer_slots'[s].id = timer_slots[s].id

(* Only SetTimerEx gives a slot to another timer.                          *)
LEMMA OnlySetGives ==
  ASSUME TypeInv, [Next]_vars,
         \A id \in Ids, i \in Intervals : ~SetTimerEx(id, i)
  PROVE  SlotsKept
  <1>1. CASE UNCHANGED timer_slots
    BY <1>1 DEF SlotsKept
  <1>2. ASSUME NEW id \in Ids, NEW i \in Intervals, ResetTimerEx(id, i)
        PROVE  SlotsKept
    <2>1. \A s \in SlotOf(id) : /\ timer_slots[s] # NoTimer /\ timer_slots[s].id = id
                                /\ timer_slots[s].proc \in BOOLEAN
      BY DEF SlotOf, Used, TypeInv, TypeOK, TIMER
    <2>2. \A s \in SlotOf(id) : Armed(id, i, timer_slots[s].proc).id = id
      BY <2>1, ArmedType DEF TypeInv
    <2> QED
      BY <1>2, <2>1, <2>2 DEF ResetTimerEx, SlotsKept
  <1>3. ASSUME NEW ids, Kill(ids) PROVE SlotsKept
    BY <1>3 DEF Kill, SlotsKept
  <1>4. CASE Idle
    <2>1. \A r \in TIMER : \A k, c : [r EXCEPT !.ticks_expected = k, !.ticks_fired = c].id = r.id
      BY DEF TIMER
    <2>2. \A s \in Used : [timer_slots[s] EXCEPT
                              !.ticks_expected = @ + timer_slots[s].interv,
                              !.ticks_fired = clock].id = timer_slots[s].id
      BY <2>1 DEF Used, TypeInv, TypeOK
    <2> QED
      BY <1>4, <2>2 DEF Idle, SlotsKept, Used
  <1>5. ASSUME NEW keep \in BOOLEAN, CallbackReturn(keep) PROVE SlotsKept
    BY <1>1, <1>5 DEF CallbackReturn, SlotsKept, slots, TypeInv, TypeOK
  <1>6. CASE TakeTimer \/ Tick \/ DesktopTick \/ GetTickCount \/ UNCHANGED vars
    BY <1>1, <1>6 DEF TakeTimer, Tick, DesktopTick, GetTickCount, vars, slots
  <1>7. ASSUME NEW w \in Windows, ThrowAway(w) PROVE SlotsKept
    BY <1>1, <1>7 DEF ThrowAway, slots
  <1> QED
    BY <1>2, <1>3, <1>4, <1>5, <1>6, <1>7 DEF Next, Api, KillTimer, KillTimersOf

(* What a step does to the callbacks: none, one returns, or one starts for *)
(* the timer in its slot.                                                  *)
LEMMA CallbackSteps ==
  ASSUME TypeInv, [Next]_vars
  PROVE  \/ UNCHANGED running
         \/ \E keep \in BOOLEAN : CallbackReturn(keep)
         \/ \E s \in Slots :
               /\ running' = <<[slot |-> s, id |-> timer_slots[s].id]>> \o running
               /\ timer_slots[s] # NoTimer
               /\ [slot |-> s, id |-> timer_slots[s].id] \in Frame
               /\ UNCHANGED timer_slots
  <1>1. \A id, i : SetTimerEx(id, i) \/ ResetTimerEx(id, i) => UNCHANGED running
    BY DEF SetTimerEx, ResetTimerEx
  <1>2. \A ids : Kill(ids) => UNCHANGED running
    BY DEF Kill
  <1>3. \A w : ThrowAway(w) => UNCHANGED running
    BY DEF ThrowAway
  <1>4. Tick \/ DesktopTick \/ GetTickCount \/ Idle \/ UNCHANGED vars => UNCHANGED running
    BY DEF Tick, DesktopTick, GetTickCount, Idle, vars
  <1>5. CASE TakeTimer
    <2>1. \A s \in Used : [slot |-> s, id |-> timer_slots[s].id] \in Frame
      BY DEF Used, TypeInv, TypeOK, TIMER, Frame
    <2>2. expired_timer_mask \subseteq Slots /\ UNCHANGED timer_slots
      BY <1>5 DEF TypeInv, TypeOK, TakeTimer, slots
    <2> QED
      BY <1>5, <2>1, <2>2 DEF TakeTimer, Used
  <1> QED
    BY <1>1, <1>2, <1>3, <1>4, <1>5 DEF Next, Api, KillTimer, KillTimersOf

(* Every step leaves each callback its slot.                               *)
LEMMA NextCallbacksOwn ==
  ASSUME SetInCallback = FALSE, TypeInv, CallbacksOwn, [Next]_vars
  PROVE  CallbacksOwn'
  <1>0. running \in Seq(Frame) /\ \A k \in 1 .. Len(running) : running[k].slot \in Slots
    <2>1. running \in Seq(Frame)
      BY DEF TypeInv, TypeOK
    <2>2. \A k \in 1 .. Len(running) : running[k] \in Frame
      BY <2>1
    <2> QED
      BY <2>1, <2>2 DEF Frame
  <1>1. ASSUME NEW id \in Ids, NEW i \in Intervals, SetTimerEx(id, i)
        PROVE  CallbacksOwn'
    <2>1. running = << >> /\ UNCHANGED running
      BY <1>1 DEF SetTimerEx
    <2> QED
      BY <2>1 DEF CallbacksOwn
  <1>2. CASE \A id \in Ids, i \in Intervals : ~SetTimerEx(id, i)
    <2>1. SlotsKept
      BY <1>2, OnlySetGives
    <2>2. CASE UNCHANGED running
      BY <1>0, <2>1, <2>2 DEF CallbacksOwn, SlotsKept
    <2>3. ASSUME NEW keep \in BOOLEAN, CallbackReturn(keep) PROVE CallbacksOwn'
      <3>1. running # << >> /\ running' = Tail(running)
        BY <2>3 DEF CallbackReturn
      <3>2. /\ Len(running') = Len(running) - 1
            /\ \A k \in 1 .. Len(running') : running'[k] = running[k + 1] /\ k + 1 \in 1 .. Len(running)
        BY <1>0, <3>1
      <3> QED
        BY <1>0, <2>1, <3>2 DEF CallbacksOwn, SlotsKept
    <2>4. ASSUME NEW s \in Slots,
                 running' = <<[slot |-> s, id |-> timer_slots[s].id]>> \o running,
                 [slot |-> s, id |-> timer_slots[s].id] \in Frame,
                 UNCHANGED timer_slots
          PROVE  CallbacksOwn'
      <3> DEFINE f == [slot |-> s, id |-> timer_slots[s].id]
      <3>1. f \in Frame /\ f.slot = s /\ f.id = timer_slots[s].id /\ running' = <<f>> \o running
        BY <2>4
      <3> HIDE DEF f
      <3>2. \A k \in 1 .. Len(running') :
                running'[k] = f \/ \E j \in 1 .. Len(running) : running'[k] = running[j]
        BY <1>0, <3>1
      <3> QED
        BY <2>4, <3>1, <3>2 DEF CallbacksOwn
    <2> QED
      BY <2>2, <2>3, <2>4, CallbackSteps
  <1> QED
    BY <1>1, <1>2

(* The rest of a stack is neither the stack nor a higher one.              *)
LEMMA TailShorter ==
  ASSUME NEW S, NEW q \in Seq(S), q # << >>
  PROVE  Tail(q) # q /\ \A g \in S : Tail(q) # <<g>> \o q
  <1>1. Len(q) \in Nat /\ Len(Tail(q)) = Len(q) - 1
    OBVIOUS
  <1>2. \A g \in S : Len(<<g>> \o q) = Len(q) + 1
    OBVIOUS
  <1>3. ASSUME Tail(q) = q PROVE FALSE
    <2>1. Len(Tail(q)) = Len(q)
      BY <1>3, Zenon
    <2> QED
      BY <1>1, <2>1
  <1>4. ASSUME NEW g \in S, Tail(q) = <<g>> \o q PROVE FALSE
    <2>1. Len(Tail(q)) = Len(<<g>> \o q)
      BY <1>4, Zenon
    <2> QED
      BY <1>1, <1>2, <2>1
  <1> QED
    BY <1>3, <1>4

(* While callbacks set no timers, one that returns FALSE removes its own   *)
(* timer and never another one that is in its slot by then, even where     *)
(* callbacks run message loops.  (Where they set timers it does, see the   *)
(* findings.)                                                              *)
THEOREM CallbackKillsOwn ==
  ASSUME SetInCallback = FALSE
  PROVE  Spec => KillsOwn
  <1>1. Init => CallbacksOwn
    BY DEF Init, CallbacksOwn
  <1>2. TypeInv /\ CallbacksOwn /\ [Next]_vars => TypeInv' /\ CallbacksOwn'
    BY NextTypeInv, NextCallbacksOwn
  <1>3. TypeInv /\ CallbacksOwn /\ [Next]_vars =>
            [running # << >> /\ running' = Tail(running) =>
                \A s \in Used : timer_slots'[s] = NoTimer =>
                    timer_slots[s].id = Head(running).id]_vars
    <2> SUFFICES ASSUME TypeInv, CallbacksOwn, [Next]_vars,
                        running # << >>, running' = Tail(running),
                        NEW s \in Used, timer_slots'[s] = NoTimer
                 PROVE  timer_slots[s].id = Head(running).id
      OBVIOUS
    <2>1. running \in Seq(Frame) /\ timer_slots[s] # NoTimer
      BY DEF TypeInv, TypeOK, Used
    <2>2. Len(running) >= 1
      BY <2>1
    <2>3. running' # running /\ \A g \in Frame : running' # <<g>> \o running
      BY <2>1, TailShorter
    <2>4. \A r \in Slots : [slot |-> r, id |-> timer_slots[r].id] \in Frame =>
              running' # <<[slot |-> r, id |-> timer_slots[r].id]>> \o running
      BY <2>3
    <2>5. PICK keep \in BOOLEAN : CallbackReturn(keep)
      BY <2>3, <2>4, CallbackSteps
    <2>6. Head(running).slot = s
      BY <2>1, <2>5 DEF CallbackReturn, TypeInv, TypeOK, slots, Used
    <2>7. Head(running) = running[1] /\ 1 \in 1 .. Len(running)
      BY <2>1, <2>2
    <2> QED
      BY <2>1, <2>6, <2>7 DEF CallbacksOwn
  <1> QED
    BY <1>1, <1>2, <1>3, InitTypeInv, PTL DEF Spec, KillsOwn
=============================================================================
