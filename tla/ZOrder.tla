------------------------------- MODULE ZOrder -------------------------------
(* The z-order of MiniGUI-Threads and the window that is active            *)
(* (src/kernel/desktop.c, desktop-comm.c): the znodes, linked into one     *)
(* list for each type of window, and the messages by which the threads     *)
(* make the desktop add, show, raise, activate, hide and remove windows.   *)
(* The desktop handles one message at a time, under the z-order's lock     *)
(* where it changes a list: each is one action.                            *)
(*                                                                         *)
(* Left out: rectangles, mask rectangles and what a change makes to be     *)
(* painted again, menus, the lists of the processes mode.                  *)
EXTENDS Naturals, FiniteSets, Sequences, Functions, FiniteSetsExt

CONSTANTS
    Types,                          \* the types in use, in the order of AllTypes
    Mains, Tools, Ctrls,            \* plain main windows, WS_EX_TOOLWINDOW,
                                    \* controls with WS_EX_CTRLASMAINWIN
    MainOf,                         \* [Ctrls -> Mains \cup Tools]: pMainWin
    TypeOf,                         \* [Windows -> Levels]: WS_EX_WINTYPE_...
    MaxNr,                          \* [Levels -> Nat]: max_nr_nodes_in_levels
    NrSpecial, NrSlots,             \* MAX_NR_SPECIAL_ZNODES, MAX_NR_ZNODES
    Ime,                            \* the main windows registered as __mg_ime_wnd
    Desktop, NULL,
    Switched,                       \* the windows that callers set always on top
                                    \* and disable (a bound)
    Careless                        \* what callers do that has a price: "hidden":
                                    \* activate a hidden window, "unset": let the
                                    \* first of several windows that are always on
                                    \* top be so no longer

AllTypes == <<"TOOLTIP", "GLOBAL", "SCREENLOCK", "DOCKER", "HIGHER", "NORMAL", "LAUNCHER">>
Levels  == Range(Types)
Special == {"GLOBAL", "SCREENLOCK", "DOCKER", "LAUNCHER"}
Tops    == Mains \cup Tools         \* what CreateMainWindow makes
Windows == Tops \cup Ctrls
Slots   == 0 .. NrSlots - 1
Room(l) == IF l \in Special THEN 1 .. NrSpecial - 1 ELSE NrSpecial .. NrSlots - 1

ASSUME TypesInOrder == \E used \in SUBSET Range(AllTypes) :
    LET isUsed(l) == l \in used IN Types = SelectSeq(AllTypes, isUsed)

ASSUME ZOrderAssumption ==
    /\ Types \in Seq(Range(AllTypes))
    /\ \A i, j \in DOMAIN Types : Types[i] = Types[j] => i = j
    /\ Mains \cap Tools = {} /\ Tops \cap Ctrls = {}
    /\ Ime \subseteq Mains /\ Switched \subseteq Tops
    /\ MainOf \in [Ctrls -> Tops]
    /\ TypeOf \in [Windows -> Levels]
    /\ \A c \in Ctrls : TypeOf[c] = TypeOf[MainOf[c]]
    /\ MaxNr \in [Levels -> Nat]
    /\ NrSpecial \in Nat \ {0} /\ NrSlots \in Nat /\ NrSpecial <= NrSlots
    /\ Windows \cap {Desktop, NULL} = {} /\ Desktop # NULL
    /\ Careless \subseteq {"hidden", "unset"}

VARIABLES
    hwnd,           \* nodes[].hwnd; a slot is marked used while it has one
    next, prev,     \* nodes[].next and prev; a free slot keeps its next
    first, nr,      \* first_in_levels, nr_nodes_in_levels
    active_win,     \* the slot of the active window, 0 the desktop's
    visible, disabled, alwaystop,   \* the windows with these flags
    told,           \* the windows whose last MSG_ACTIVE said TRUE
    overlooked      \* the active window has been hidden, and nobody activated since
lists  == <<hwnd, next, prev, first, nr, alwaystop>>
active == <<active_win, told, overlooked>>
vars   == <<lists, active, visible, disabled>>

TypeOK ==
    /\ hwnd \in [Slots -> Windows \cup {Desktop, NULL}]
    /\ next \in [Slots -> Slots] /\ prev \in [Slots -> Slots]
    /\ first \in [Levels -> Slots] /\ nr \in [Levels -> Nat]
    /\ active_win \in Slots
    /\ visible \subseteq Windows /\ disabled \subseteq Tops /\ alwaystop \subseteq Tops
    /\ told \subseteq Mains /\ overlooked \in BOOLEAN

Init ==
    /\ hwnd = [s \in Slots |-> IF s = 0 THEN Desktop ELSE NULL]
    /\ next = [s \in Slots |-> 0] /\ prev = next
    /\ first = [l \in Levels |-> 0] /\ nr = first
    /\ active_win = 0
    /\ visible = {} /\ disabled = {} /\ alwaystop = {}
    /\ told = {} /\ overlooked = FALSE

-----------------------------------------------------------------------------
(* The windows with a znode; where a window has it.                        *)
There   == Range(hwnd) \cap Windows
Slot(w) == CHOOSE s \in Slots : hwnd[s] = w
List(w) == first[TypeOf[w]]

(* The slots from f on, as long as a list can be: nodes[0].next is 0.      *)
From(f, nx) ==
    LET at[n \in 0 .. NrSlots] == IF n = 0 THEN f ELSE nx[at[n - 1]]
    IN  [n \in 1 .. Cardinality({k \in 0 .. NrSlots : at[k] # 0}) |-> at[n - 1]]
Listed(l) == From(first[l], next)

(* nodes[0] is the desktop's: what the lists write into its prev is never  *)
(* read, and is left out.                                                  *)
Set(f, s, v) == IF s = 0 THEN f ELSE [f EXCEPT ![s] = v]

(* The znode behind which a new first one is put: the last of those at the *)
(* front that are always on top.                                           *)
LastTop(f, nx, tops) ==
    LET chain == From(f, nx)
        k     == Max({n \in 0 .. Len(chain) : \A i \in 1 .. n : hwnd[chain[i]] \in tops})
    IN  IF k = 0 THEN 0 ELSE chain[k]

(* w's znode s comes first, or behind those that are always on top.        *)
PutFirst(w, s, nx, pv, tops) ==
    LET pre == LastTop(List(w), nx, tops)
    IN  IF pre = 0
        THEN /\ first' = [first EXCEPT ![TypeOf[w]] = s]
             /\ next' = [nx EXCEPT ![s] = List(w)]
             /\ prev' = Set([pv EXCEPT ![s] = 0], List(w), s)
        ELSE /\ next' = [nx EXCEPT ![s] = nx[pre], ![pre] = s]
             /\ prev' = Set([pv EXCEPT ![s] = pre], nx[pre], s)
             /\ UNCHANGED first

(* unchain_znode, and the first lines of dskMove2Top.  (The prev that a    *)
(* free slot keeps is never read: Unchain clears it.)                      *)
NextWithout(s) == Set(next, prev[s], next[s])
BrokenPrevWithout(s) == prev
PrevWithout(s) == Set(prev, next[s], prev[s])

AllocZOrderNode(w, top) ==
    /\ w \notin There /\ nr[TypeOf[w]] < MaxNr[TypeOf[w]]
    /\ \E s \in Room(TypeOf[w]) :
          /\ hwnd[s] = NULL /\ \A r \in Room(TypeOf[w]) : r < s => hwnd[r] # NULL
          /\ hwnd' = [hwnd EXCEPT ![s] = w]
          /\ PutFirst(w, s, next, prev, alwaystop)
    /\ nr' = [nr EXCEPT ![TypeOf[w]] = @ + 1]
    /\ alwaystop' = IF top THEN alwaystop \cup {w} ELSE alwaystop

Unchain(w) ==
    LET s == Slot(w)
    IN  /\ hwnd' = [hwnd EXCEPT ![s] = NULL]
        /\ next' = NextWithout(s) /\ prev' = [PrevWithout(s) EXCEPT ![s] = 0]
        /\ first' = IF List(w) = s THEN [first EXCEPT ![TypeOf[w]] = next[s]] ELSE first
        /\ nr' = [nr EXCEPT ![TypeOf[w]] = @ - 1]
        /\ alwaystop' = alwaystop \ {w}

BrokenMove2Top(w, tops) ==
    LET s == Slot(w)
    IN  /\ IF List(w) = s THEN UNCHANGED <<next, prev, first>>
           ELSE PutFirst(w, s, NextWithout(s), PrevWithout(s), {})
        /\ UNCHANGED <<hwnd, nr>>
dskMove2Top(w, tops) ==
    LET s == Slot(w)
    IN  /\ IF List(w) = s THEN UNCHANGED <<next, prev, first>>
           ELSE PutFirst(w, s, NextWithout(s), PrevWithout(s), tops)
        /\ UNCHANGED <<hwnd, nr>>

(* The next znode: in its list, or the first of a lower level.  Of a free  *)
(* slot only the next it had is left.                                      *)
FirstBelow(k) ==
    LET ks == {i \in k + 1 .. Len(Types) : first[Types[i]] # 0}
    IN  IF ks = {} THEN 0 ELSE first[Types[Min(ks)]]
NextZNode(s) ==
    IF s = 0 THEN FirstBelow(0)
    ELSE IF next[s] # 0 THEN next[s]
    ELSE IF hwnd[s] = NULL THEN 0
    ELSE FirstBelow(CHOOSE i \in DOMAIN Types : Types[i] = TypeOf[hwnd[s]])

(* get_next_activable_mainwin: the first one below s to activate, or 0.    *)
BrokenActivable(s) == hwnd[s] \in Mains \ disabled
Activable(s) == hwnd[s] \in (Mains \cap visible) \ disabled
Downwards(s) ==
    LET at[n \in 1 .. NrSlots] ==
            IF n = 1 THEN NextZNode(s) ELSE IF at[n - 1] = 0 THEN 0 ELSE NextZNode(at[n - 1])
    IN  at
NextActivable(s) ==
    LET at == Downwards(s)
        ok == {n \in 1 .. NrSlots : Activable(at[n])}
    IN  IF ok = {} THEN 0 ELSE at[Min(ok)]

-----------------------------------------------------------------------------
(* dskSetActiveZOrderNode, in what the action has made of the lists and    *)
(* the flags: s is activated in place of old.  The IME window and tool     *)
(* windows never are; an old window that is hidden is told nothing.        *)
SetActiveZOrderNode(s, old) ==
    IF hwnd'[s] \in Ime \cup Tools
    THEN active_win' = old /\ told' = told \cap Range(hwnd') /\ UNCHANGED overlooked
    ELSE /\ active_win' = s
         /\ told' = ((told \cap Range(hwnd')) \ ({hwnd'[old]} \cap visible'))
                    \cup ({hwnd'[s]} \cap Windows)
         /\ overlooked' = FALSE

(* dskSetActiveWindow: nothing to do for the one that is active.           *)
SetActiveWindow(w) ==
    IF hwnd'[active_win] = w THEN UNCHANGED active
    ELSE SetActiveZOrderNode(IF w = NULL THEN 0 ELSE CHOOSE s \in Slots : hwnd'[s] = w, active_win)

(* MSG_ADDNEWMAINWIN: a window created visible becomes active.             *)
AddNewMainWindow(w, shown, top) ==
    /\ w \in Tops
    /\ AllocZOrderNode(w, top)
    /\ visible' = IF shown THEN visible \cup {w} ELSE visible
    /\ IF shown THEN SetActiveWindow(w) ELSE UNCHANGED active
    /\ UNCHANGED disabled

(* FreeZOrderNodeEx: the active window's place goes to one below it, if    *)
(* the window was visible; it is looked for while the znode is still in    *)
(* its list.                                                               *)
FreeZOrderNode(w) ==
    LET s == Slot(w)
    IN  /\ Unchain(w)
        /\ visible' = visible \ {w} /\ disabled' = disabled \ {w}
        /\ IF w \in visible /\ active_win = s
           THEN SetActiveZOrderNode(NextActivable(s), 0)
           ELSE told' = told \ {w} /\ UNCHANGED <<active_win, overlooked>>

(* MSG_REMOVEMAINWIN, when the window's controls are gone.                 *)
RemoveMainWindow(w) ==
    /\ w \in Tops \cap There
    /\ \A c \in Ctrls \cap There : MainOf[c] # w
    /\ FreeZOrderNode(w)

(* MSG_NEWCTRLINSTANCE and MSG_REMOVECTRLINSTANCE of a control that has a  *)
(* znode of its own.                                                       *)
NewCtrl(c, shown) ==
    /\ c \in Ctrls /\ MainOf[c] \in There
    /\ AllocZOrderNode(c, FALSE)
    /\ visible' = IF shown THEN visible \cup {c} ELSE visible
    /\ UNCHANGED <<active, disabled>>
RemoveCtrl(c) == c \in Ctrls \cap There /\ FreeZOrderNode(c)

-----------------------------------------------------------------------------
(* MSG_SHOWMAINWIN.                                                        *)
ShowMainWindow(w) ==
    /\ w \in (Tops \cap There) \ visible
    /\ visible' = visible \cup {w}
    /\ UNCHANGED <<lists, disabled>>
    /\ SetActiveWindow(w)

(* MSG_HIDEMAINWIN and MSG_HIDEGLOBALCTRL.  dskHideWindow tells a main     *)
(* window that it is not active, and leaves active_win.                    *)
HideMainWindow(w) ==
    /\ w \in visible
    /\ visible' = visible \ {w}
    /\ told' = told \ {w}
    /\ overlooked' = (overlooked \/ hwnd[active_win] = w)
    /\ UNCHANGED <<lists, active_win, disabled>>

(* dskHideGlobalControl: raising a window hides what is first in its level *)
(* and no plain main window.                                               *)
HiddenFor(w) ==
    IF TypeOf[w] \in {"HIGHER", "NORMAL"} THEN {hwnd[List(w)]} \cap (visible \ Mains) ELSE {}

(* dskIsTopMost compares with the first of every level.                    *)
IsTopMost(w) == Slot(w) \in Range(first)

(* dskMoveToTopMost of a window that is not there already.                 *)
MoveToTopMost(w) ==
    /\ ~(IsTopMost(w) /\ w \in visible)
    /\ dskMove2Top(w, alwaystop)
    /\ visible' = (visible \ HiddenFor(w)) \cup {w}
    /\ UNCHANGED <<alwaystop, disabled>>

(* MSG_MOVETOTOPMOST, which SW_SHOWNORMAL sends, and MSG_SHOWGLOBALCTRL.   *)
Raise(w) == w \in Tops \cap There /\ MoveToTopMost(w) /\ SetActiveWindow(w)
ShowGlobalCtrl(c) == c \in Ctrls \cap There /\ MoveToTopMost(c) /\ UNCHANGED active

(* A button goes down over w and no control with a znode, or over nothing. *)
Click(w) ==
    /\ w \in (Tops \cap visible) \ disabled
    /\ \/ MoveToTopMost(w)
       \/ IsTopMost(w) /\ UNCHANGED <<lists, visible, disabled>>
    /\ SetActiveWindow(w)
ClickDesktop == UNCHANGED <<lists, visible, disabled>> /\ SetActiveWindow(NULL)

(* Alt-Tab in the desktop's key handler.                                   *)
AltTab ==
    LET s == NextActivable(active_win)
    IN  /\ s # 0
        /\ dskMove2Top(hwnd[s], alwaystop)
        /\ UNCHANGED <<alwaystop, visible, disabled>>
        /\ SetActiveZOrderNode(s, active_win)

(* MSG_SETACTIVEMAIN.                                                      *)
SetActiveMain(w) ==
    /\ w \in Tops \cap There
    /\ "hidden" \in Careless \/ w \in visible
    /\ UNCHANGED <<lists, visible, disabled>>
    /\ SetActiveWindow(w)

(* MSG_ENABLEMAINWIN.                                                      *)
EnableWindow(w, enable) ==
    /\ w \in Tops \cap There
    /\ disabled' = IF enable THEN disabled \ {w} ELSE disabled \cup {w}
    /\ UNCHANGED <<lists, visible>>
    /\ IF ~enable /\ w \notin disabled /\ hwnd[active_win] = w
       THEN SetActiveWindow(NULL) ELSE UNCHANGED active

(* MSG_SETALWAYSTOP.                                                       *)
SetAlwaysTop(w, set) ==
    /\ w \in Tops \cap There /\ set # (w \in alwaystop)
    /\ \/ "unset" \in Careless \/ set \/ List(w) # Slot(w)
       \/ \A v \in alwaystop \ {w} : TypeOf[v] # TypeOf[w]
    /\ alwaystop' = IF set THEN alwaystop \cup {w} ELSE alwaystop \ {w}
    /\ dskMove2Top(w, alwaystop')
    /\ UNCHANGED <<active, visible, disabled>>

Next ==
    \/ \E w \in Tops :
          \/ \E shown \in BOOLEAN : AddNewMainWindow(w, shown, FALSE)
          \/ RemoveMainWindow(w) \/ ShowMainWindow(w) \/ Raise(w) \/ Click(w)
          \/ SetActiveMain(w)
    \/ \E w \in Switched :
          \/ \E shown \in BOOLEAN : AddNewMainWindow(w, shown, TRUE)
          \/ \E b \in BOOLEAN : EnableWindow(w, b) \/ SetAlwaysTop(w, b)
    \/ \E c \in Ctrls :
          \/ \E shown \in BOOLEAN : NewCtrl(c, shown)
          \/ RemoveCtrl(c) \/ ShowGlobalCtrl(c)
    \/ \E w \in Windows : HideMainWindow(w)
    \/ ClickDesktop \/ AltTab

Spec == Init /\ [][Next]_vars

-----------------------------------------------------------------------------
(* Every znode in use is in the list of its type once, the list can be     *)
(* followed both ways, and the counts by which AllocZOrderNodeEx judges    *)
(* the room are the lengths: whatever is created, raised and removed, and  *)
(* whatever the free slots still point to.                                 *)
ListsRight == \A l \in Levels :
    LET chain == Listed(l)
    IN  /\ {hwnd[s] : s \in Range(chain)} = {w \in There : TypeOf[w] = l}
        /\ Len(chain) = Cardinality({w \in There : TypeOf[w] = l}) /\ nr[l] = Len(chain)
        /\ \A i \in DOMAIN chain : prev[chain[i]] = IF i = 1 THEN 0 ELSE chain[i - 1]

(* The window that active_win names, and no other, has been told that it   *)
(* is active; except that dskHideWindow leaves a hidden window active, and *)
(* neither it nor the next one in its slot is told again before another    *)
(* window is activated.                                                    *)
ActiveKnows == told = IF overlooked THEN {} ELSE {hwnd[active_win]} \cap Windows

(* The linked lists are stacks of windows with those that are always on    *)
(* top above the others, as window.h says of WS_ALWAYSTOP.                 *)
Stacked(l) == LET chain == Listed(l) IN [n \in DOMAIN chain |-> hwnd[chain[n]]]
Stack == INSTANCE ZStack WITH stack <- [l \in Levels |-> Stacked(l)]
StackSpec == Stack!Spec
=============================================================================
