--------------------------- MODULE DeskMouse_proof ---------------------------
(***************************************************************************)
(* What DeskMouse promises about the mouse, for every number of windows,   *)
(* controls and buttons and any length of the inboxes, when programs are   *)
(* orderly: the desktop refers to no window that is gone, lets go of the   *)
(* mouse, and unlocks what it has locked.                                  *)
(***************************************************************************)
EXTENDS DeskMouse, TLAPS

(* What is waiting in a main window's inbox is for it or for its controls. *)
Good(box, wins) ==
    /\ box \in [MainWins -> Seq(Message)]
    /\ \A w \in MainWins : \A j \in 1 .. Len(box[w]) :
          LET to == box[w][j].to
          IN  to # NULL => to \in wins /\ MainOf[to] = w

DeskType ==
    /\ exists \subseteq Wins /\ visible \subseteq Mains /\ disabled \subseteq Mains
    /\ captured_wnd \in Wins \cup {NULL} /\ captured_ctrl \in Ctrls \cup {NULL}
    /\ button_down_main_window \in MainWins \cup {NULL}
    /\ old_under_p \in MainWins \cup {NULL}
    /\ down_buttons \subseteq Buttons /\ held \subseteq Buttons
    /\ dd_info \in MainWins \cup {NULL} /\ locked \subseteq MainWins

(* The desktop's references, the main window of every control there is,    *)
(* and that no button is down for a window while one is dragged.           *)
Refs ==
    /\ {captured_wnd, captured_ctrl, button_down_main_window, old_under_p,
        dd_info} \subseteq exists \cup {NULL}
    /\ \A w \in exists : MainOf[w] \in exists
    /\ dd_info # NULL => button_down_main_window = NULL

DeskInv == DeskType /\ Refs /\ MouseFreed /\ SameLocked
IInv    == DeskInv /\ Good(inbox, exists)

(* The invariant is what the runs check, and more.                         *)
LEMMA IInvImplies == IInv => RefsLive
  BY DEF IInv, DeskInv, Refs, Good, RefsLive

-----------------------------------------------------------------------------
(* The inboxes: what a thread takes, passes on to itself, and is told.     *)
LEMMA RestGood ==
  ASSUME Good(inbox, exists), NEW w \in MainWins, inbox[w] # << >>, Rest(w)
  PROVE  Good(inbox', exists)
  BY DEF Good, Rest

(* A thread passes on to itself what is for its own windows.               *)
LEMMA PassGood ==
  ASSUME Good(inbox, exists), NEW w \in MainWins, inbox[w] # << >>,
         NEW m \in Message, m.to \in exists, MainOf[m.to] = w, Pass(w, m)
  PROVE  Good(inbox', exists)
  <1>1. inbox[w] \in Seq(Message) /\ Tail(inbox[w]) \in Seq(Message)
    BY DEF Good
  <1>2. Append(Tail(inbox[w]), m) \in Seq(Message)
    BY <1>1
  <1>3. inbox' \in [MainWins -> Seq(Message)]
    BY <1>2 DEF Good, Pass
  <1>4. ASSUME NEW v \in MainWins, NEW j \in 1 .. Len(inbox'[v])
        PROVE  inbox'[v][j].to # NULL =>
                   inbox'[v][j].to \in exists /\ MainOf[inbox'[v][j].to] = v
    <2>1. CASE v # w
      BY <2>1, <1>4 DEF Good, Pass
    <2>2. CASE v = w
      <3>1. inbox'[v] = Append(Tail(inbox[w]), m)
        BY <2>2 DEF Good, Pass
      <3>2. CASE j = Len(inbox[w])
        BY <3>1, <3>2, <2>2, <1>1
      <3>3. CASE j # Len(inbox[w])
        <4>1. inbox'[v][j] = inbox[w][j + 1] /\ j + 1 \in 1 .. Len(inbox[w])
          BY <3>1, <3>3, <1>1, <1>4
        <4> QED  BY <4>1, <2>2 DEF Good
      <3> QED  BY <3>2, <3>3
    <2> QED  BY <2>1, <2>2
  <1> QED  BY <1>3, <1>4 DEF Good

(* The desktop tells a main window's thread about one of its windows.      *)
LEMMA ToldGood ==
  ASSUME Good(inbox, exists), NEW w \in Wins, NEW m \in Message, m.to = w,
         w \in exists, inbox' = Told(w, m)
  PROVE  Good(inbox', exists)
  <1>1. MainOf[w] \in MainWins /\ inbox[MainOf[w]] \in Seq(Message)
    BY MouseAssumption DEF Good
  <1>2. inbox' \in [MainWins -> Seq(Message)]
    BY <1>1 DEF Good, Told
  <1>3. ASSUME NEW v \in MainWins, NEW j \in 1 .. Len(inbox'[v])
        PROVE  inbox'[v][j].to # NULL =>
                   inbox'[v][j].to \in exists /\ MainOf[inbox'[v][j].to] = v
    <2>1. CASE v # MainOf[w]
      BY <2>1, <1>3 DEF Good, Told
    <2>2. CASE v = MainOf[w]
      <3>1. inbox'[v] = Append(inbox[v], m)
        BY <2>2 DEF Good, Told
      <3> QED  BY <3>1, <2>2, <1>1, <1>3 DEF Good
    <2> QED  BY <2>1, <2>2
  <1> QED  BY <1>2, <1>3 DEF Good

(* Windows may come while messages wait.                                   *)
LEMMA MoreGood ==
  ASSUME Good(inbox, exists), NEW wins, exists \subseteq wins, UNCHANGED inbox
  PROVE  Good(inbox', wins)
  BY DEF Good

(* A main window without controls takes its inbox away with it.            *)
LEMMA RemovedGood ==
  ASSUME Good(inbox, exists), NEW w \in MainWins,
         inbox' = [inbox EXCEPT ![w] = << >>]
  PROVE  Good(inbox', exists \ {w})
  BY MouseAssumption DEF Good

(* What waits for a control that goes is for nobody.                       *)
LEMMA ThrownGood ==
  ASSUME Good(inbox, exists), NEW c \in Ctrls,
         inbox' = [inbox EXCEPT ![MainOf[c]] = Thrown(@, c)]
  PROVE  Good(inbox', exists \ {c})
  <1>1. MainOf[c] \in MainWins
    BY MouseAssumption DEF Wins
  <1>2. ASSUME NEW s \in Seq(Message)
        PROVE  /\ Thrown(s, c) \in Seq(Message) /\ Len(Thrown(s, c)) = Len(s)
               /\ \A j \in 1 .. Len(s) : Thrown(s, c)[j].to =
                                             IF s[j].to = c THEN NULL ELSE s[j].to
    <2>1. \A j \in 1 .. Len(s) : s[j] \in Message
      BY <1>2
    <2>2. DOMAIN s = 1 .. Len(s)
      BY <1>2
    <2> DEFINE put(j) == IF s[j].to = c THEN [s[j] EXCEPT !.to = NULL] ELSE s[j]
    <2>3. Thrown(s, c) = [j \in 1 .. Len(s) |-> put(j)]
      BY <2>2 DEF Thrown
    <2>4. \A j \in 1 .. Len(s) :
             put(j) \in Message /\ put(j).to = IF s[j].to = c THEN NULL ELSE s[j].to
      BY <2>1 DEF Message
    <2> HIDE DEF put
    <2> QED  BY <2>3, <2>4, <1>2
  <1>3. inbox' \in [MainWins -> Seq(Message)]
    BY <1>1, <1>2 DEF Good
  <1>4. ASSUME NEW v \in MainWins, NEW j \in 1 .. Len(inbox'[v])
        PROVE  inbox'[v][j].to # NULL =>
                   inbox'[v][j].to \in exists \ {c} /\ MainOf[inbox'[v][j].to] = v
    <2>1. inbox[v] \in Seq(Message)
      BY DEF Good
    <2>2. CASE v # MainOf[c]
      <3>1. inbox'[v] = inbox[v]
        BY <2>2, <1>1 DEF Good
      <3> QED  BY <3>1, <2>2, <1>4 DEF Good
    <2>3. CASE v = MainOf[c]
      <3>1. inbox'[v] = Thrown(inbox[v], c)
        BY <2>3, <1>1 DEF Good
      <3> QED  BY <3>1, <2>1, <1>2, <1>4, <2>3 DEF Good
    <2> QED  BY <2>2, <2>3
  <1> QED  BY <1>3, <1>4 DEF Good

-----------------------------------------------------------------------------
USE MouseAssumption DEF Wins, Mains

(* init_zorder and the static data of the desktop establish the invariant. *)
LEMMA InitIInv == Init => IInv
  BY DEF Init, IInv, DeskInv, DeskType, Refs, MouseFreed, SameLocked, Good

(* The user lets a window that is dragged go, and changes the buttons.     *)
LEMMA DropKeeps ==
  ASSUME IInv, NEW what \in {"down", "up"}, NEW b \in Buttons, DropDrag(what, b)
  PROVE  IInv'
  <1>1. DeskInv'
    BY DEF IInv, DeskInv, DeskType, Refs, MouseFreed, SameLocked, DropDrag, Hear,
           Dropped, press, desk
  <1> QED  BY <1>1, MoreGood DEF IInv, DropDrag, Hear, desk

(* A button goes to the window that has the mouse.                         *)
LEMMA CapturedKeeps ==
  ASSUME IInv, NEW what \in {"down", "up"}, NEW b \in Buttons, Captured(what, b)
  PROVE  IInv'
  <1>1. DeskInv'
    BY DEF IInv, DeskInv, DeskType, Refs, MouseFreed, SameLocked, Captured, Hear,
           press, drag, desk
  <1>2. captured_wnd \in exists /\ captured_wnd \in Wins
    BY DEF IInv, DeskInv, DeskType, Refs, Captured
  <1>3. Say("client", captured_wnd, what, b) \in Message
    BY <1>2 DEF Say, Message
  <1>4. Good(inbox', exists)
    BY <1>2, <1>3, ToldGood DEF IInv, Captured, Say
  <1> QED  BY <1>1, <1>4 DEF IInv, Captured, Hear, desk

(* What is posted to the window under the pointer.                         *)
LEMMA PostGood ==
  ASSUME IInv, NEW w \in MainWins \cup {NULL}, w \in exists \cup {NULL},
         NEW what \in {"down", "up"}, NEW b \in Buttons, Post(w, what, b)
  PROVE  Good(inbox', exists)
  <1>1. CASE w = NULL
    BY <1>1, MoreGood DEF Post, IInv
  <1>2. CASE w # NULL
    <2>1. Say("dt", w, what, b) \in Message
      BY <1>2 DEF Say, Message
    <2> QED  BY <1>2, <2>1, ToldGood DEF Post, IInv, Say
  <1> QED  BY <1>1, <1>2

(* The pointer moves over a window.                                        *)
LEMMA MoveKeeps ==
  ASSUME IInv, NEW u \in Under, MouseMove(u)
  PROVE  IInv'
  <1>1. DeskInv'
    BY DEF IInv, DeskInv, DeskType, Refs, MouseFreed, SameLocked, MouseMove, Under,
           drag, desk
  <1> QED  BY <1>1, MoreGood DEF IInv, MouseMove, desk

(* A button goes down in a window, or in the one that has a button down.   *)
LEMMA DownKeeps ==
  ASSUME IInv, NEW u \in Under, NEW b \in Buttons, ButtonDown(b, u)
  PROVE  IInv'
  <1>1. DeskInv'
    BY DEF IInv, DeskInv, DeskType, Refs, MouseFreed, SameLocked, ButtonDown, Hear,
           Under, Free, drag, desk
  <1>2. Good(inbox', exists)
    <2>1. CASE button_down_main_window # NULL
      BY <2>1, PostGood DEF ButtonDown, IInv, DeskInv, DeskType, Refs
    <2>2. CASE button_down_main_window = NULL /\ u \in disabled
      BY <2>2, MoreGood DEF ButtonDown, IInv
    <2>3. CASE button_down_main_window = NULL /\ u \notin disabled
      BY <2>3, PostGood DEF ButtonDown, IInv, DeskInv, DeskType, Under
    <2> QED  BY <2>1, <2>2, <2>3
  <1> QED  BY <1>1, <1>2 DEF IInv, ButtonDown, Hear, desk

(* A double click tells no window anything.                                *)
LEMMA DblClkKeeps ==
  ASSUME IInv, NEW u \in Under, NEW b \in Buttons, ButtonDblClk(b, u)
  PROVE  IInv'
  <1>1. DeskInv'
    BY DEF IInv, DeskInv, DeskType, Refs, MouseFreed, SameLocked, ButtonDblClk, Hear,
           Under, Free, drag, desk
  <1> QED  BY <1>1, MoreGood DEF IInv, ButtonDblClk, Hear, desk

(* The last button that goes up lets the mouse go.                         *)
LEMMA UpKeeps ==
  ASSUME IInv, NEW u \in Under, NEW b \in Buttons, ButtonUp(b, u)
  PROVE  IInv'
  <1>1. DeskInv'
    <2>1. DeskType' /\ Refs' /\ SameLocked'
      BY DEF IInv, DeskInv, DeskType, Refs, SameLocked, ButtonUp, Hear, Free, Left,
             drag, desk
    <2>2. MouseFreed'
      <3>1. held' = held \ {b} /\ UNCHANGED captured_wnd /\ captured_wnd = NULL
        BY DEF ButtonUp, Hear, Free
      <3>2. CASE Ignored(b)
        <4>1. down_buttons' = down_buttons /\ b \notin down_buttons
              /\ button_down_main_window' = button_down_main_window
          BY <3>2 DEF ButtonUp, Ignored
        <4> QED  BY <3>1, <4>1 DEF IInv, DeskInv, MouseFreed
      <3>3. CASE ~Ignored(b)
        BY <3>1, <3>3 DEF ButtonUp, Left, IInv, DeskInv, MouseFreed
      <3> QED  BY <3>2, <3>3
    <2> QED  BY <2>1, <2>2 DEF DeskInv
  <1>2. Good(inbox', exists)
    <2>1. CASE Ignored(b)
      BY <2>1, MoreGood DEF ButtonUp, IInv
    <2>2. CASE ~Ignored(b) /\ button_down_main_window # NULL
      BY <2>2, PostGood DEF ButtonUp, IInv, DeskInv, DeskType, Refs
    <2>3. CASE ~Ignored(b) /\ button_down_main_window = NULL /\ u \in disabled
      BY <2>3, MoreGood DEF ButtonUp, IInv
    <2>4. CASE ~Ignored(b) /\ button_down_main_window = NULL /\ u \notin disabled
      BY <2>4, PostGood DEF ButtonUp, IInv, DeskInv, DeskType, Under
    <2> QED  BY <2>1, <2>2, <2>3, <2>4
  <1> QED  BY <1>1, <1>2 DEF IInv, ButtonUp, Hear, desk

(* A key lets a window that is dragged go.                                 *)
LEMMA KeyKeeps ==
  ASSUME IInv, Key
  PROVE  IInv'
  <1>1. DeskInv'
    BY DEF IInv, DeskInv, DeskType, Refs, MouseFreed, SameLocked, Key, Dropped,
           press, desk
  <1> QED  BY <1>1, MoreGood DEF IInv, Key, desk

-----------------------------------------------------------------------------
(* The first message of an inbox is for one of the thread's windows.       *)
LEMMA HeadGood ==
  ASSUME Good(inbox, exists), NEW w \in MainWins, inbox[w] # << >>,
         NEW m, m = Head(inbox[w])
  PROVE  m \in Message /\ (m.to # NULL => m.to \in exists /\ MainOf[m.to] = w)
  BY DEF Good

(* A step that changes only an inbox.                                      *)
LEMMA UnsentKeeps ==
  ASSUME DeskInv, Unsent
  PROVE  DeskInv'
  BY DEF DeskInv, DeskType, Refs, MouseFreed, SameLocked, Unsent, mouse, press, drag,
         desk

(* A window with a mouse message, or a control, gets the mouse.            *)
LEMMA CaptureKeeps ==
  ASSUME DeskInv, NEW w \in Wins, w \in exists, Capture(w), Sent,
         captured_ctrl' \in (exists \cap Ctrls) \cup {NULL}
  PROVE  DeskInv'
  BY DEF DeskInv, DeskType, Refs, MouseFreed, SameLocked, Capture, Sent, EndDrag,
         Dropped, drag, desk

(* The mouse is given back.                                                *)
LEMMA ReleaseKeeps ==
  ASSUME DeskInv, Capture(NULL), Sent, captured_ctrl' \in {captured_ctrl, NULL}
  PROVE  DeskInv'
  BY DEF DeskInv, DeskType, Refs, MouseFreed, SameLocked, Capture, Sent, EndDrag,
         Dropped, drag, desk

(* A thread sorts a message, passes it to a control, or drops it.          *)
LEMMA PassKeeps ==
  ASSUME IInv, NEW w \in MainWins, inbox[w] # << >>,
         Sort(w) \/ PassToControl(w) \/ Ignore(w)
  PROVE  IInv'
  <1>1. Unsent /\ DeskInv' /\ exists' = exists
    BY UnsentKeeps DEF Sort, PassToControl, Ignore, IInv, Unsent, desk
  <1> DEFINE m == Head(inbox[w])
  <1>2. m \in Message /\ (m.to # NULL => m.to \in exists /\ MainOf[m.to] = w)
    BY HeadGood DEF IInv
  <1>3. ASSUME Rest(w) PROVE Good(inbox', exists)
    BY <1>3, RestGood DEF IInv
  <1>4. ASSUME NEW v \in Wins, v \in exists, MainOf[v] = w,
               NEW via \in {"nc", "client"}, Pass(w, Say(via, v, m.what, m.b))
        PROVE  Good(inbox', exists)
    <2>1. Say(via, v, m.what, m.b) \in Message
      BY <1>2, <1>4 DEF Message, Say
    <2>2. Say(via, v, m.what, m.b).to = v
      BY DEF Say
    <2> HIDE DEF m
    <2> QED  BY <1>4, <2>1, <2>2, PassGood DEF IInv
  <1>5. CASE Sort(w)
    <2>1. m.to = w
      BY <1>5 DEF Sort, InWindow, Take
    <2>2. w \in exists
      BY <2>1, <1>2
    <2>3. Rest(w) \/ \E via \in {"nc", "client"} : Pass(w, Say(via, w, m.what, m.b))
      BY <1>5 DEF Sort, InWindow, Take
    <2> QED  BY <2>2, <2>3, <1>3, <1>4, <1>1 DEF IInv
  <1>6. CASE PassToControl(w)
    <2>1. PICK c \in Children(w) : Pass(w, Say("client", c, m.what, m.b))
      BY <1>6 DEF PassToControl, InWindow, Take
    <2>2. c \in Wins /\ c \in exists /\ MainOf[c] = w
      BY DEF Children
    <2> HIDE DEF m
    <2> QED  BY <2>1, <2>2, <1>4, <1>1 DEF IInv
  <1>7. CASE Ignore(w)
    BY <1>7, <1>3, <1>1 DEF Ignore, IInv
  <1> QED  BY <1>5, <1>6, <1>7

(* The caption of a window is pressed, and it is dragged.                  *)
LEMMA StartDragKeeps ==
  ASSUME IInv, NEW w \in MainWins, inbox[w] # << >>, StartDrag(w)
  PROVE  IInv'
  <1>1. DeskInv'
    <2>1. CASE w \in visible
      BY <2>1 DEF IInv, DeskInv, DeskType, Refs, MouseFreed, SameLocked, StartDrag,
                  Started, NoPress, desk
    <2>2. CASE w \notin visible
      BY <2>2 DEF IInv, DeskInv, DeskType, Refs, MouseFreed, SameLocked, StartDrag,
                  EndDrag, Dropped, press, drag, desk
    <2> QED  BY <2>1, <2>2
  <1> QED  BY <1>1, RestGood DEF StartDrag, IInv, desk

(* A control, or a window for it, captures the mouse or gives it back.     *)
LEMMA MouseKeeps ==
  ASSUME IInv, NEW w \in MainWins, inbox[w] # << >>,
         \/ CaptureForControl(w) \/ ReleaseForControl(w)
         \/ ControlDown(w) \/ ControlUp(w)
  PROVE  IInv'
  <1> DEFINE m == Head(inbox[w])
  <1>1. m \in Message /\ (m.to # NULL => m.to \in exists /\ MainOf[m.to] = w)
    BY HeadGood DEF IInv
  <1>2. DeskInv /\ captured_ctrl \in (exists \cap Ctrls) \cup {NULL}
    BY DEF IInv, DeskInv, DeskType, Refs
  <1>3. Rest(w) /\ Sent /\ exists' = exists
    BY DEF CaptureForControl, ReleaseForControl, ControlDown, ControlUp, Sent, desk
  <1>4. CASE CaptureForControl(w)
    <2>1. m.to = w
      BY <1>4 DEF CaptureForControl, InWindow, Take
    <2>2. captured_ctrl' \in (exists \cap Ctrls) \cup {NULL}
      BY <1>4 DEF CaptureForControl, Children
    <2>3. DeskInv'
      BY <1>1, <1>2, <1>3, <1>4, <2>1, <2>2, CaptureKeeps DEF CaptureForControl
    <2> QED  BY <2>3, <1>3, RestGood DEF IInv
  <1>5. CASE ReleaseForControl(w) \/ ControlUp(w)
    <2>1. Capture(NULL) /\ captured_ctrl' \in {captured_ctrl, NULL}
      BY <1>5 DEF ReleaseForControl, ControlUp
    <2>2. DeskInv'
      BY <1>2, <1>3, <2>1, ReleaseKeeps
    <2> QED  BY <2>2, <1>3, RestGood DEF IInv
  <1>6. CASE ControlDown(w)
    <2>1. Capture(m.to) /\ m.to \in Ctrls /\ captured_ctrl' = captured_ctrl
      BY <1>6 DEF ControlDown, InControl, Take
    <2>2. m.to \in exists /\ m.to \in Wins
      BY <1>1, <2>1
    <2> HIDE DEF m
    <2>3. DeskInv'
      BY <1>2, <1>3, <2>1, <2>2, CaptureKeeps
    <2> QED  BY <2>3, <1>3, RestGood DEF IInv
  <1> QED  BY <1>4, <1>5, <1>6

(* One message more is handled by the thread of a main window.             *)
LEMMA HandleKeeps ==
  ASSUME IInv, NEW w \in MainWins, Handle(w)
  PROVE  IInv'
  BY PassKeeps, StartDragKeeps, MouseKeeps DEF Handle

-----------------------------------------------------------------------------
(* A window that goes or is hidden is forgotten: by Forget, with           *)
(* Orderly, nothing refers to it.                                          *)
LEMMA ForgetKeeps ==
  ASSUME DeskInv, Orderly, NEW w \in MainWins, w \in exists, Forget(w),
         w = ImeWnd => captured_wnd = NULL \/ MainOf[captured_wnd] # w
  PROVE  /\ captured_wnd' \in {captured_wnd, NULL} /\ captured_wnd' # w
         /\ captured_ctrl' \in {captured_ctrl, NULL}
         /\ down_buttons' \in {down_buttons, {}}
         /\ button_down_main_window' \in {button_down_main_window, NULL}
         /\ w # ImeWnd => button_down_main_window' = NULL
         /\ old_under_p' = NULL
         /\ button_down_main_window' # NULL =>
                /\ captured_wnd' = captured_wnd
                /\ down_buttons' = down_buttons
  BY DEF DeskInv, DeskType, Refs, Forget, Capture

(* A main window goes: MSG_REMOVEMAINWIN.                                  *)
LEMMA RemoveKeeps ==
  ASSUME IInv, Orderly, NEW w \in MainWins, RemoveMainWindow(w)
  PROVE  IInv'
  <1>1. DeskInv /\ Children(w) = {} /\ w # ImeWnd /\ exists' = exists \ {w}
    BY DEF RemoveMainWindow, IInv
  <1>2. /\ captured_wnd' \in {captured_wnd, NULL} /\ captured_wnd' # w
        /\ captured_ctrl' \in {captured_ctrl, NULL}
        /\ down_buttons' \in {down_buttons, {}}
        /\ button_down_main_window' = NULL /\ old_under_p' = NULL
    BY <1>1, ForgetKeeps DEF RemoveMainWindow
  <1>3. dd_info' = NULL /\ locked' \subseteq locked \ Mains
    BY <1>1 DEF RemoveMainWindow, EndDrag, Dropped, drag, DeskInv, DeskType, SameLocked
  <1>4. locked \subseteq Mains
    BY <1>1 DEF DeskInv, SameLocked
  <1>5. DeskType'
    BY <1>1, <1>2, <1>3, <1>4 DEF DeskInv, DeskType, RemoveMainWindow
  <1>6. \A v \in exists' : MainOf[v] \in exists'
    BY <1>1 DEF DeskInv, DeskType, Refs, Children
  <1>7. Refs' /\ MouseFreed' /\ SameLocked'
    BY <1>1, <1>2, <1>3, <1>4, <1>6 DEF DeskInv, DeskType, Refs, MouseFreed, SameLocked
  <1>8. Good(inbox', exists')
    BY <1>1, RemovedGood DEF RemoveMainWindow, IInv
  <1> QED  BY <1>5, <1>7, <1>8 DEF IInv, DeskInv

(* A window is hidden: MSG_HIDEMAINWIN.                                    *)
LEMMA HideKeeps ==
  ASSUME IInv, Orderly, NEW w \in MainWins, HideMainWindow(w)
  PROVE  IInv'
  <1>1. DeskInv /\ w \in exists /\ visible' = visible \ {w}
        /\ UNCHANGED <<exists, disabled, held>>
    BY DEF HideMainWindow, IInv, DeskInv, DeskType
  <1>2. /\ captured_wnd' \in {captured_wnd, NULL}
        /\ captured_ctrl' \in {captured_ctrl, NULL}
        /\ down_buttons' \in {down_buttons, {}}
        /\ button_down_main_window' \in {button_down_main_window, NULL}
        /\ old_under_p' = NULL
        /\ button_down_main_window' # NULL =>
               captured_wnd' = captured_wnd /\ down_buttons' = down_buttons
    <2>1. w = ImeWnd => captured_wnd = NULL \/ MainOf[captured_wnd] # w
      BY DEF HideMainWindow, HasMouse
    <2> QED  BY <1>1, <2>1, ForgetKeeps DEF HideMainWindow
  <1>3. dd_info' = NULL /\ locked' = {}
    BY <1>1 DEF HideMainWindow, EndDrag, Dropped, drag, DeskInv, DeskType, SameLocked
  <1>4. DeskInv'
    BY <1>1, <1>2, <1>3 DEF DeskInv, DeskType, Refs, MouseFreed, SameLocked
  <1> QED  BY <1>4, MoreGood DEF HideMainWindow, IInv

(* A control goes: MSG_REMOVECTRLINSTANCE.                                 *)
LEMMA RemoveControlKeeps ==
  ASSUME IInv, Orderly, NEW c \in Ctrls, RemoveControl(c)
  PROVE  IInv'
  <1>1. exists' = exists \ {c} /\ captured_wnd # c /\ DeskInv
        /\ UNCHANGED <<visible, disabled, held>>
    BY DEF RemoveControl, IInv
  <1>2. Mains' = Mains /\ \A v \in exists' : MainOf[v] \in exists'
    BY <1>1 DEF DeskInv, DeskType, Refs
  <1>3. DeskInv'
    <2>1. CASE captured_ctrl = c
      <3>1. Capture(NULL) /\ captured_ctrl' = NULL /\ EndDrag
        BY <2>1 DEF RemoveControl
      <3>2. dd_info' = NULL /\ locked' = {}
        BY <1>1, <3>1 DEF EndDrag, Dropped, drag, DeskInv, DeskType, SameLocked
      <3> QED  BY <1>1, <1>2, <3>1, <3>2
                  DEF DeskInv, DeskType, Refs, MouseFreed, SameLocked, Capture
    <2>2. CASE captured_ctrl # c
      BY <2>2, <1>1, <1>2 DEF RemoveControl, Released, press, drag, DeskInv, DeskType,
                              Refs, MouseFreed, SameLocked
    <2> QED  BY <2>1, <2>2
  <1>4. Good(inbox', exists')
    BY <1>1, ThrownGood DEF RemoveControl, IInv
  <1> QED  BY <1>3, <1>4 DEF IInv

(* A window or a control comes, is shown, or is enabled or disabled.       *)
LEMMA DeskKeeps ==
  ASSUME IInv, Orderly,
         \/ \E c \in Ctrls : NewCtrlInstance(c)
         \/ \E w \in MainWins :
               \/ AddNewMainWindow(w) \/ ShowMainWindow(w)
               \/ EnableMainWindow(w) \/ DisableMainWindow(w)
  PROVE  IInv'
  <1>1. DeskInv /\ Good(inbox, exists)
    BY DEF IInv
  <1>2. exists \subseteq exists' /\ UNCHANGED inbox
    BY DEF NewCtrlInstance, AddNewMainWindow, ShowMainWindow, EnableMainWindow,
           DisableMainWindow
  <1>3. ASSUME NEW c \in Ctrls, NewCtrlInstance(c)
        PROVE  DeskInv'
    BY <1>1, <1>3 DEF NewCtrlInstance, DeskInv, DeskType, Refs, MouseFreed, SameLocked,
                      mouse, press, drag
  <1>4. ASSUME NEW w \in MainWins, AddNewMainWindow(w)
        PROVE  DeskInv'
    <2>1. dd_info' = NULL /\ locked' = {}
      BY <1>1, <1>4 DEF AddNewMainWindow, EndDrag, Dropped, drag, DeskInv, DeskType, SameLocked
    <2> QED  BY <1>1, <1>4, <2>1 DEF AddNewMainWindow, DeskInv, DeskType, Refs, MouseFreed,
                                     SameLocked, press
  <1>5. ASSUME NEW w \in MainWins, ShowMainWindow(w) \/ EnableMainWindow(w)
                                       \/ DisableMainWindow(w)
        PROVE  DeskInv'
    <2>1. dd_info' = NULL /\ locked' = {}
      BY <1>1, <1>5 DEF ShowMainWindow, EnableMainWindow, DisableMainWindow, EndDrag,
                        Dropped, drag, DeskInv, DeskType, SameLocked
    <2>2. UNCHANGED <<exists, captured_wnd, captured_ctrl, press, held>>
      BY <1>5 DEF ShowMainWindow, EnableMainWindow, DisableMainWindow
    <2>3. visible' \subseteq Mains /\ disabled' \subseteq Mains
      BY <1>1, <1>5 DEF ShowMainWindow, EnableMainWindow, DisableMainWindow, DeskInv, DeskType
    <2> QED  BY <1>1, <2>1, <2>2, <2>3 DEF DeskInv, DeskType, Refs, MouseFreed,
                                           SameLocked, press
  <1>6. DeskInv'
    BY <1>3, <1>4, <1>5
  <1> QED  BY <1>1, <1>2, <1>6, MoreGood DEF IInv

-----------------------------------------------------------------------------
(* Every step of an orderly program, of the desktop and of the user.       *)
LEMMA NextKeeps == ASSUME IInv, Orderly, Next PROVE IInv'
  <1>1. CASE User
    BY <1>1, DropKeeps, CapturedKeeps, MoveKeeps, DownKeeps, DblClkKeeps, UpKeeps,
       KeyKeeps DEF User, Button
  <1>2. CASE Program
    BY <1>2, RemoveKeeps, HideKeeps, RemoveControlKeeps, DeskKeeps DEF Program
  <1>3. CASE \E w \in MainWins : Handle(w)
    BY <1>3, HandleKeeps
  <1> QED  BY <1>1, <1>2, <1>3 DEF Next

(* ... or of none.                                                         *)
LEMMA StutterKeeps == ASSUME IInv, UNCHANGED vars PROVE IInv'
  BY MoreGood DEF IInv, DeskInv, DeskType, Refs, MouseFreed, SameLocked, vars, mouse,
     press, drag, desk

LEMMA Invariant == ASSUME Orderly PROVE Spec => []IInv
  <1>1. Init => IInv
    BY InitIInv
  <1>2. IInv /\ [Next]_vars => IInv'
    BY NextKeeps, StutterKeeps
  <1> QED  BY <1>1, <1>2, PTL DEF Spec

(* __mg_captured_wnd, the window a button is down in, the one under the    *)
(* pointer and the one that is dragged are windows that there are, and so  *)
(* are those that messages wait for.                                       *)
THEOREM NoDeadWindow == ASSUME Orderly PROVE Spec => []RefsLive
  BY Invariant, IInvImplies, PTL

(* The mouse is with a window only while a button is down or it is         *)
(* captured.                                                               *)
THEOREM MouseLetGo == ASSUME Orderly PROVE Spec => []MouseFreed
  <1>1. IInv => MouseFreed
    BY DEF IInv, DeskInv
  <1> QED  BY Invariant, <1>1, PTL

(* dskStartDragWindow locks what do_drag_drop_window unlocks.              *)
THEOREM LocksPaired == ASSUME Orderly PROVE Spec => []SameLocked
  <1>1. IInv => SameLocked
    BY DEF IInv, DeskInv
  <1> QED  BY Invariant, <1>1, PTL
=============================================================================
