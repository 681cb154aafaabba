------------------------------ MODULE DeskMouse ------------------------------
(***************************************************************************)
(* Where the mouse goes (kernel/desktop-comm.c, and the default handlers   *)
(* of gui/window.c): to the window that has captured it, to the window     *)
(* that is being dragged, to the window in which a button went down, or to *)
(* the one under the pointer.  The desktop's thread decides and posts; a   *)
(* window's thread handles what is posted later, and then captures,        *)
(* releases, drags, hides and destroys by messages to the desktop.         *)
(*                                                                         *)
(* Popup menus, hooks, the z-order and controls that are main windows are  *)
(* left out; a double click says nothing to a window here.                 *)
(***************************************************************************)
EXTENDS Naturals, Sequences, FiniteSets

CONSTANTS
    MainWins, Ctrls,    \* the main windows, and the controls in them
    MainOf,             \* the main window of each
    NULL,               \* also 0, for a window handle
    Buttons, LEFT,      \* the buttons of the mouse
    ImeWnd,             \* __mg_ime_wnd, or NULL
    Orderly,            \* whether the program is careful, see below
    MaxPending          \* bound: how many messages wait when the user goes on

Wins == MainWins \cup Ctrls

ASSUME MouseAssumption ==
    /\ NULL \notin Wins /\ MainWins \cap Ctrls = {}
    /\ MainOf \in [Wins -> MainWins] /\ \A w \in MainWins : MainOf[w] = w
    /\ LEFT \in Buttons /\ ImeWnd \in MainWins \cup {NULL}
    /\ Orderly \in BOOLEAN /\ MaxPending \in Nat \ {0}

VARIABLES
    exists,         \* the windows that the desktop knows
    visible, disabled,
    captured_wnd,   \* __mg_captured_wnd
    captured_ctrl,  \* __mgs_captured_ctrl, one for all threads
    button_down_main_window, down_buttons, old_under_p,
    dd_info,        \* the window that is dragged
    locked,         \* the windows whose clipping is locked for the dragging
    held,           \* the buttons that are down, as the desktop has heard
    inbox           \* the button messages that each main window's thread has

desk   == <<exists, visible, disabled>>
press  == <<button_down_main_window, down_buttons, old_under_p>>
drag   == <<dd_info, locked>>
mouse  == <<captured_wnd, captured_ctrl, press, drag>>
vars   == <<desk, mouse, held, inbox>>

Mains   == exists \cap MainWins
Message == [to : Wins \cup {NULL}, via : {"dt", "nc", "client"}, what : {"down", "up"}, b : Buttons]

TypeOK ==
    /\ exists \subseteq Wins /\ visible \subseteq Mains /\ disabled \subseteq Mains
    /\ captured_wnd \in Wins \cup {NULL} /\ captured_ctrl \in Ctrls \cup {NULL}
    /\ button_down_main_window \in MainWins \cup {NULL}
    /\ old_under_p \in MainWins \cup {NULL}
    /\ down_buttons \subseteq Buttons /\ held \subseteq Buttons
    /\ dd_info \in MainWins \cup {NULL} /\ locked \subseteq MainWins
    /\ inbox \in [MainWins -> Seq(Message)]

Init ==
    /\ exists = {} /\ visible = {} /\ disabled = {}
    /\ captured_wnd = NULL /\ captured_ctrl = NULL
    /\ button_down_main_window = NULL /\ down_buttons = {} /\ old_under_p = NULL
    /\ dd_info = NULL /\ locked = {}
    /\ held = {}
    /\ inbox = [w \in MainWins |-> << >>]

-----------------------------------------------------------------------------
(* Steps of the desktop that several messages share.                       *)
Told(w, m) == [inbox EXCEPT ![MainOf[w]] = Append(@, m)]
Say(via, w, what, b) == [to |-> w, via |-> via, what |-> what, b |-> b]

NoPress ==
    /\ button_down_main_window' = NULL /\ down_buttons' = {}
    /\ old_under_p' = NULL

(* DesktopSetCapture *)
Capture(w) ==
    /\ captured_wnd' = w
    /\ old_under_p' = NULL /\ down_buttons' = {}
    /\ button_down_main_window' = IF w = NULL THEN NULL ELSE MainOf[w]

(* unlock_zorder_info, for the windows that there are now.                 *)
BrokenDropped == dd_info' = NULL /\ UNCHANGED locked
Dropped == dd_info' = NULL /\ locked' = locked \ Mains

(* do_drag_drop_window, before every message about a window and at every   *)
(* key and button: the window that is dragged is dropped.                  *)
EndDrag == IF dd_info = NULL THEN UNCHANGED drag ELSE Dropped

(* ThrowAwayMessages: what waits for c is to be handled by nobody.  The    *)
(* code marks a message so and then closes the gap; here the mark stays,   *)
(* and the thread passes over it.                                          *)
Thrown(s, c) ==
    [j \in DOMAIN s |-> IF s[j].to = c THEN [s[j] EXCEPT !.to = NULL] ELSE s[j]]

BrokenForget(w) ==
    /\ captured_wnd' = IF w = captured_wnd THEN NULL ELSE captured_wnd
    /\ button_down_main_window' = NULL /\ down_buttons' = {}
    /\ UNCHANGED <<captured_ctrl, old_under_p>>

(* __mg_reset_desktop_capture_info, with ReleaseCapture if the control     *)
(* that has the mouse is w's.                                              *)
Forget(w) ==
    IF captured_ctrl # NULL /\ MainOf[captured_ctrl] = w
    THEN Capture(NULL) /\ captured_ctrl' = NULL
    ELSE /\ captured_wnd' = IF w = captured_wnd THEN NULL ELSE captured_wnd
         /\ old_under_p' = NULL
         /\ IF w # ImeWnd \/ ImeWnd = NULL
            THEN button_down_main_window' = NULL /\ down_buttons' = {}
            ELSE UNCHANGED <<button_down_main_window, down_buttons>>
         /\ UNCHANGED captured_ctrl

-----------------------------------------------------------------------------
(* The user.  MouseMessageHandler posts to main window w, or to the        *)
(* desktop when there is none.                                             *)
Post(w, what, b) ==
    IF w = NULL THEN UNCHANGED inbox ELSE inbox' = Told(w, Say("dt", w, what, b))

Under   == visible \cup {NULL}
Waiting == UNION {{w} \X DOMAIN inbox[w] : w \in MainWins}

Hear(what, b) ==
    /\ Cardinality(Waiting) < MaxPending
    /\ held' = IF what = "up" THEN held \ {b} ELSE held \cup {b}
    /\ IF what = "up" THEN b \in held ELSE b \notin held
    /\ UNCHANGED <<desk, captured_wnd, captured_ctrl>>

(* A button while a window is dragged, which drops it ...                  *)
DropDrag(what, b) ==
    /\ dd_info # NULL
    /\ Hear(what, b)
    /\ Dropped
    /\ UNCHANGED <<press, inbox>>

(* ... or while the mouse is captured.                                     *)
Captured(what, b) ==
    /\ dd_info = NULL /\ captured_wnd # NULL
    /\ Hear(what, b)
    /\ inbox' = Told(captured_wnd, Say("client", captured_wnd, what, b))
    /\ UNCHANGED <<press, drag>>

Free == dd_info = NULL /\ captured_wnd = NULL

MouseMove(u) ==
    /\ Free /\ button_down_main_window = NULL
    /\ old_under_p' = u
    /\ UNCHANGED <<desk, captured_wnd, captured_ctrl, button_down_main_window,
                   down_buttons, drag, held, inbox>>

ButtonDown(b, u) ==
    /\ Free
    /\ Hear("down", b)
    /\ IF button_down_main_window # NULL
       THEN /\ Post(button_down_main_window, "down", b)
            /\ down_buttons' = down_buttons \cup {b}
            /\ UNCHANGED button_down_main_window
       ELSE IF u \in disabled
       THEN UNCHANGED <<button_down_main_window, down_buttons, inbox>>
       ELSE /\ Post(u, "down", b)
            /\ button_down_main_window' = u
            /\ down_buttons' = IF u = NULL THEN {} ELSE {b}
    /\ UNCHANGED <<old_under_p, drag>>

(* A double click does not ask whether the window is disabled.             *)
ButtonDblClk(b, u) ==
    /\ Free
    /\ Hear("down", b)
    /\ IF button_down_main_window # NULL
       THEN /\ down_buttons' = down_buttons \cup {b}
            /\ UNCHANGED button_down_main_window
       ELSE /\ button_down_main_window' = u
            /\ down_buttons' = IF u = NULL THEN {} ELSE {b}
    /\ UNCHANGED <<old_under_p, drag, inbox>>

(* The other buttons are not heard while one of them is down.              *)
Ignored(b) == \E other \in Buttons \ {b} : down_buttons = {other}

Left(b) == down_buttons \ {b}

ButtonUp(b, u) ==
    /\ Free
    /\ Hear("up", b)
    /\ IF Ignored(b)
       THEN UNCHANGED <<button_down_main_window, down_buttons, inbox>>
       ELSE IF button_down_main_window # NULL
       THEN /\ Post(button_down_main_window, "up", b)
            /\ down_buttons' = Left(b)
            /\ button_down_main_window' =
                   IF Left(b) = {} THEN NULL ELSE button_down_main_window
       ELSE /\ IF u \in disabled THEN UNCHANGED inbox ELSE Post(u, "up", b)
            /\ UNCHANGED <<button_down_main_window, down_buttons>>
    /\ UNCHANGED <<old_under_p, drag>>

Button(b) ==
    \/ \E what \in {"down", "up"} : DropDrag(what, b) \/ Captured(what, b)
    \/ \E u \in Under : ButtonDown(b, u) \/ ButtonDblClk(b, u) \/ ButtonUp(b, u)

Key ==
    /\ dd_info # NULL
    /\ Dropped
    /\ UNCHANGED <<desk, captured_wnd, captured_ctrl, press, held, inbox>>

-----------------------------------------------------------------------------
(* The window procedures: the thread of main window w takes its next       *)
(* message, and perhaps posts another one to itself.                       *)
Take(w, m) == inbox[w] # << >> /\ m = Head(inbox[w])
InWindow(w, m, via) == Take(w, m) /\ m.to = w /\ m.via = via
Rest(w)    == inbox' = [inbox EXCEPT ![w] = Tail(@)]
Pass(w, m) == inbox' = [inbox EXCEPT ![w] = Append(Tail(@), m)]
Sent       == EndDrag /\ UNCHANGED <<desk, held>>
Unsent     == UNCHANGED <<desk, mouse, held>>

(* DefaultDTMouseMsgHandler: the caption or another part of the frame, or  *)
(* the client area.                                                        *)
Sort(w) ==
    /\ \E m \in {Head(inbox[w])} :
          /\ InWindow(w, m, "dt")
          /\ IF w \in disabled THEN Rest(w)
             ELSE \E via \in {"nc", "client"} : Pass(w, Say(via, w, m.what, m.b))
    /\ Unsent

BrokenStarted(w) == dd_info' = w /\ locked' = Mains /\ UNCHANGED press
Started(w) == dd_info' = w /\ locked' = Mains /\ NoPress

(* DefaultNCMouseMsgHandler: the left button went down in the caption, and *)
(* MSG_STARTDRAGWIN is sent; dskStartDragWindow refuses a hidden window.   *)
StartDrag(w) ==
    /\ \E m \in {Head(inbox[w])} :
          InWindow(w, m, "nc") /\ m.what = "down" /\ m.b = LEFT
    /\ Rest(w)
    /\ IF w \in visible THEN Started(w) ELSE EndDrag /\ UNCHANGED press
    /\ UNCHANGED <<desk, captured_wnd, captured_ctrl, held>>

(* DefaultMouseMsgHandler: what is under the pointer in the client area.   *)
Children(w) == {c \in exists \cap Ctrls : MainOf[c] = w}

PassToControl(w) ==
    /\ captured_ctrl = NULL
    /\ \E m \in {Head(inbox[w])}, c \in Children(w) :
          InWindow(w, m, "client") /\ Pass(w, Say("client", c, m.what, m.b))
    /\ Unsent

(* A scroll bar of a control, say, which needs the mouse while the left    *)
(* button is down in it ...                                                *)
CaptureForControl(w) ==
    /\ captured_ctrl = NULL
    /\ \E m \in {Head(inbox[w])} :
          InWindow(w, m, "client") /\ m.what = "down" /\ m.b = LEFT
    /\ \E c \in Children(w) : captured_ctrl' = c
    /\ Capture(w)
    /\ Rest(w) /\ Sent

(* ... and until it goes up.                                               *)
ReleaseForControl(w) ==
    /\ captured_ctrl # NULL
    /\ \E m \in {Head(inbox[w])} :
          InWindow(w, m, "client") /\ m.what = "up" /\ m.b = LEFT
    /\ Capture(NULL) /\ captured_ctrl' = NULL
    /\ Rest(w) /\ Sent

(* A control as button.c or edit.c: it captures the mouse when a button    *)
(* goes down in it, and releases it when it has the mouse and it goes up.  *)
InControl(w, m) == Take(w, m) /\ m.to \in Ctrls

ControlDown(w) ==
    /\ \E m \in {Head(inbox[w])} :
          InControl(w, m) /\ m.what = "down" /\ Capture(m.to)
    /\ Rest(w) /\ Sent
    /\ UNCHANGED captured_ctrl

BrokenReleases(m) == button_down_main_window # NULL /\ captured_wnd = m.to
Releases(m) == captured_wnd = m.to

ControlUp(w) ==
    /\ \E m \in {Head(inbox[w])} :
          InControl(w, m) /\ m.what = "up" /\ Releases(m)
    /\ Capture(NULL)
    /\ Rest(w) /\ Sent
    /\ UNCHANGED captured_ctrl

(* Nobody takes the message.                                               *)
Taken(w, m) ==
    \/ /\ m.to = w
       /\ \/ m.via = "dt"
          \/ m.via = "nc" /\ m.what = "down" /\ m.b = LEFT
          \/ m.via = "client" /\ captured_ctrl # NULL /\ m.what = "up" /\ m.b = LEFT
    \/ m.to \in Ctrls /\ (m.what = "down" \/ Releases(m))

Ignore(w) ==
    /\ \E m \in {Head(inbox[w])} : Take(w, m) /\ ~Taken(w, m)
    /\ Rest(w) /\ Unsent

Handle(w) ==
    /\ inbox[w] # << >>
    /\ \/ Sort(w) \/ StartDrag(w) \/ Ignore(w)
       \/ PassToControl(w) \/ CaptureForControl(w) \/ ReleaseForControl(w)
       \/ ControlDown(w) \/ ControlUp(w)

-----------------------------------------------------------------------------
(* What programs send to the desktop about their windows.  A careful one   *)
(* takes no window away, and disables none, that has the mouse, and leaves *)
(* its IME window where it is.                                             *)
HasMouse(w) == captured_wnd # NULL /\ MainOf[captured_wnd] = w

(* MSG_ADDNEWMAINWIN, of a window that is shown at once.                   *)
AddNewMainWindow(w) ==
    /\ w \in MainWins \ exists
    /\ EndDrag
    /\ exists' = exists \cup {w} /\ visible' = visible \cup {w}
    /\ UNCHANGED <<disabled, captured_wnd, captured_ctrl, press, held, inbox>>

(* MSG_NEWCTRLINSTANCE, which does not end a drag.                         *)
NewCtrlInstance(c) ==
    /\ c \in Ctrls \ exists /\ MainOf[c] \in exists
    /\ exists' = exists \cup {c}
    /\ UNCHANGED <<visible, disabled, mouse, held, inbox>>

(* MSG_REMOVEMAINWIN of DestroyMainWindow, when the controls are gone, and *)
(* ThrowAwayMessages.                                                      *)
RemoveMainWindow(w) ==
    /\ w \in Mains /\ Children(w) = {}
    /\ Orderly => w # ImeWnd
    /\ EndDrag
    /\ exists' = exists \ {w} /\ visible' = visible \ {w} /\ disabled' = disabled \ {w}
    /\ Forget(w)
    /\ inbox' = [inbox EXCEPT ![w] = << >>]
    /\ UNCHANGED held

Released(c) == IF captured_wnd = c THEN NULL ELSE captured_wnd

(* DestroyWindow: MSG_REMOVECTRLINSTANCE, then                             *)
(* __mg_reset_mainwin_capture_info and ThrowAwayMessages.                  *)
RemoveControl(c) ==
    /\ c \in exists \cap Ctrls
    /\ Orderly => captured_wnd # c
    /\ exists' = exists \ {c}
    /\ IF captured_ctrl = c
       THEN Capture(NULL) /\ captured_ctrl' = NULL /\ EndDrag
       ELSE /\ captured_wnd' = Released(c)
            /\ UNCHANGED <<captured_ctrl, press, drag>>
    /\ inbox' = [inbox EXCEPT ![MainOf[c]] = Thrown(@, c)]
    /\ UNCHANGED <<visible, disabled, held>>

(* MSG_SHOWMAINWIN and MSG_HIDEMAINWIN.                                    *)
ShowMainWindow(w) ==
    /\ w \in Mains \ visible
    /\ EndDrag
    /\ visible' = visible \cup {w}
    /\ UNCHANGED <<exists, disabled, captured_wnd, captured_ctrl, press,
                   held, inbox>>

HideMainWindow(w) ==
    /\ w \in visible
    /\ Orderly => ~(w = ImeWnd /\ HasMouse(w))
    /\ EndDrag
    /\ visible' = visible \ {w}
    /\ Forget(w)
    /\ UNCHANGED <<exists, disabled, held, inbox>>

(* MSG_ENABLEMAINWIN: a window that is disabled loses the mouse.           *)
EnableMainWindow(w) ==
    /\ w \in disabled
    /\ EndDrag
    /\ disabled' = disabled \ {w}
    /\ UNCHANGED <<exists, visible, captured_wnd, captured_ctrl, press,
                   held, inbox>>

DisableMainWindow(w) ==
    /\ w \in Mains \ disabled
    /\ Orderly => ~HasMouse(w)
    /\ EndDrag
    /\ disabled' = disabled \cup {w}
    /\ captured_wnd' = IF HasMouse(w) THEN NULL ELSE captured_wnd
    /\ UNCHANGED <<exists, visible, captured_ctrl, press, held, inbox>>

-----------------------------------------------------------------------------
User    == Key \/ (\E b \in Buttons : Button(b)) \/ (\E u \in Under : MouseMove(u))
Program ==
    \/ \E c \in Ctrls : NewCtrlInstance(c) \/ RemoveControl(c)
    \/ \E w \in MainWins :
          \/ AddNewMainWindow(w) \/ RemoveMainWindow(w)
          \/ ShowMainWindow(w) \/ HideMainWindow(w)
          \/ EnableMainWindow(w) \/ DisableMainWindow(w)

Next == User \/ Program \/ \E w \in MainWins : Handle(w)

Spec == Init /\ [][Next]_vars

(* Threads handle their messages, and the user clicks now and then.        *)
FairSpec ==
    /\ Spec
    /\ \A w \in MainWins : WF_vars(Handle(w))
    /\ SF_vars(Button(LEFT))

-----------------------------------------------------------------------------
(* The desktop refers to no window that is gone, though windows and their  *)
(* controls go away while the user presses, drags and moves the mouse and  *)
(* their threads still have messages to handle.                            *)
RefsLive ==
    /\ {captured_wnd, captured_ctrl, button_down_main_window, old_under_p,
        dd_info} \subseteq exists \cup {NULL}
    /\ \A w \in MainWins : \A j \in DOMAIN inbox[w] : inbox[w][j].to \in exists \cup {NULL}

(* The mouse does not stay with a window that nothing ties it to: a button *)
(* that went down in it is still down, or it has captured the mouse.       *)
MouseFreed ==
    button_down_main_window # NULL =>
        \/ down_buttons # {} /\ down_buttons \subseteq held
        \/ captured_wnd # NULL

(* The windows whose clipping is locked for the time of a drag are all the *)
(* windows at its end as at its start: none stays locked, and none is      *)
(* unlocked that was not locked.                                           *)
SameLocked == locked = IF dd_info = NULL THEN {} ELSE Mains

(* A window that has captured the mouse gives it back, if the user goes on *)
(* to click, whatever becomes of the windows meanwhile.                    *)
CaptureEnds == captured_wnd # NULL ~> captured_wnd = NULL
=============================================================================
