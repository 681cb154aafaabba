------------------------------- MODULE MainWin -------------------------------
(***************************************************************************)
(* Main windows and modal dialogs of one message thread, from              *)
(* CreateMainWindow to MainWindowCleanup (gui/window.c, gui/dialog.c).     *)
(* Each window but the first is hosted by another one, which takes it      *)
(* along when it is destroyed.  Creating and destroying call the window's  *)
(* procedure, which may do all of it again: the calls are a stack.         *)
(*                                                                         *)
(* Virtual windows, controls and other threads are left out.               *)
(***************************************************************************)
EXTENDS Integers, Sequences, FiniteSets

CONSTANTS
    Windows, Dialogs,   \* the windows, and those of them that are dialog boxes
    NULL,
    Careless,           \* what programs do that they should not, see below
    MaxDepth,           \* bound: calls that are nested
    Busied              \* bound: the windows that timers and posts are for

ASSUME MainWinAssumption ==
    /\ IsFiniteSet(Windows) /\ NULL \notin Windows /\ Dialogs \subseteq Windows
    /\ Careless \subseteq {"reentry", "orphans", "timers", "refusal", "owner"}
    /\ MaxDepth \in Nat /\ Busied \subseteq Windows

VARIABLES
    DataType,       \* of a window: no memory, valid, or destroyed
    pHosting, pFirstHosted, pNextHosted,
    pRootMainWin, nrWindows,
    timers,         \* the windows with a timer
    messages,       \* ... with a message in the queue
    desktop,        \* ... in the list of the desktop
    disabled,       \* ... with WS_EX_MODALDISABLED
    calls           \* the calls under way, the innermost first

links == <<pHosting, pFirstHosted, pNextHosted>>
root  == <<pRootMainWin, nrWindows>>
trace == <<timers, messages, desktop>>
vars  == <<DataType, links, root, trace, disabled, calls>>

(* A call, how far it is, and for DestroyMainWindow the hosted window that *)
(* it destroys, and the one after it.  Where a window procedure runs, or   *)
(* the loop of a dialog box, the program is free to call.                  *)
Free == {"MSG_NCCREATE", "MSG_CREATE", "MSG_INITDIALOG", "loop", "MSG_DESTROY"}
Call == [op : {"create", "dialog", "destroy", "end"}, w : Windows,
         pc : Free \cup {"calls", "hosted", "next", "refused"},
         hosted : Windows \cup {NULL}, next : Windows \cup {NULL}]

New(op, w, pc) == [op |-> op, w |-> w, pc |-> pc, hosted |-> NULL, next |-> NULL]
Top    == calls[1]
At(pc) == calls # << >> /\ Top.pc = pc
Runs   == calls # << >> => Top.pc \in Free
Room   == Len(calls) < MaxDepth

Valid     == {w \in Windows : DataType[w] = "TYPE_HWND"}
Pushed(c) == <<c>> \o calls
Moved(pc) == [calls EXCEPT ![1].pc = pc]
Put(f, w, v) == [f EXCEPT ![w] = v]

TypeOK ==
    /\ DataType \in [Windows -> {"none", "TYPE_HWND", "TYPE_WINTODEL"}]
    /\ {pHosting, pFirstHosted, pNextHosted} \subseteq [Windows -> Windows \cup {NULL}]
    /\ pRootMainWin \in Windows \cup {NULL} /\ nrWindows \in Nat
    /\ timers \subseteq Windows /\ messages \subseteq Windows
    /\ desktop \subseteq Windows /\ disabled \subseteq Windows
    /\ calls \in Seq(Call)

Init ==
    /\ DataType = [w \in Windows |-> "none"]
    /\ pHosting = [w \in Windows |-> NULL]
    /\ pFirstHosted = [w \in Windows |-> NULL]
    /\ pNextHosted = [w \in Windows |-> NULL]
    /\ pRootMainWin = NULL /\ nrWindows = 0
    /\ timers = {} /\ messages = {} /\ desktop = {} /\ disabled = {}
    /\ calls = << >>

-----------------------------------------------------------------------------
(* What the links lead to from v on: the least set that they do not leave. *)
Reach(link, v) ==
    {u \in Windows : \A S \in SUBSET Windows :
        v \in S /\ (\A x \in S : link[x] \in S \cup {NULL}) => u \in S}

(* The list of hosted windows.                                             *)
Hosted(h) == IF pFirstHosted[h] = NULL THEN {} ELSE Reach(pNextHosted, pFirstHosted[h])

(* guiAddNewHostedMainWindow                                               *)
AddHosted(h, w) ==
    IF pFirstHosted[h] = NULL
    THEN /\ pFirstHosted' = Put(pFirstHosted, h, w)
         /\ pNextHosted' = Put(pNextHosted, w, NULL)
    ELSE /\ \E last \in Hosted(h) :
               /\ pNextHosted[last] = NULL
               /\ pNextHosted' = Put(Put(pNextHosted, w, NULL), last, w)
         /\ UNCHANGED pFirstHosted

BrokenRemoveHosted(h, w) ==
    /\ pFirstHosted' = IF pFirstHosted[h] = w
                       THEN Put(pFirstHosted, h, pNextHosted[w]) ELSE pFirstHosted
    /\ UNCHANGED pNextHosted

(* guiRemoveHostedMainWindow: w keeps its own pNextHosted.                 *)
RemoveHosted(h, w) ==
    IF pFirstHosted[h] = w
    THEN /\ pFirstHosted' = Put(pFirstHosted, h, pNextHosted[w])
         /\ UNCHANGED pNextHosted
    ELSE /\ pNextHosted' = [v \in Windows |->
                IF v \in Hosted(h) /\ pNextHosted[v] = w
                THEN pNextHosted[w] ELSE pNextHosted[v]]
         /\ UNCHANGED pFirstHosted

(* free: nothing in the memory of w is left.                               *)
Wiped(w) ==
    /\ pHosting' = Put(pHosting, w, NULL)
    /\ pFirstHosted' = Put(pFirstHosted, w, NULL)
    /\ pNextHosted' = Put(pNextHosted, w, NULL)

(* A call ends, and so does DialogBox when its window was not created.  A  *)
(* DestroyMainWindow goes by the result of the one it has called.          *)
Return(ok) ==
    LET rest == Tail(calls)
    IN  IF rest = << >> THEN calls' = << >>
        ELSE IF rest[1].pc = "calls" /\ rest[1].op = "dialog"
        THEN calls' = IF ok THEN [rest EXCEPT ![1].pc = "MSG_INITDIALOG"] ELSE Tail(rest)
        ELSE IF rest[1].pc = "calls"
        THEN calls' = [rest EXCEPT ![1].pc = IF ok THEN "next" ELSE "refused"]
        ELSE calls' = rest

-----------------------------------------------------------------------------
(* What a careful program does not do.                                     *)
(* It destroys no window that it, or a call it is called from, is creating *)
(* or destroying or is about to, nor one that hosts such a window.         *)
HostedBy(w) == {v \in Windows : w \in Reach(pHosting, v)}

Busy == UNION {{calls[i].w, calls[i].hosted, calls[i].next} :
                  i \in {j \in DOMAIN calls : calls[j].op # "dialog"}}

(* EndDialog has an effect only while the loop runs.                       *)
Endable(d) == \E i \in DOMAIN calls : calls[i] = New("dialog", d, "loop")

MayDestroy(w) ==
    /\ "reentry" \in Careless \/ HostedBy(w) \cap Busy = {}
    /\ "refusal" \in Careless \/
          \A d \in HostedBy(w) \cap Dialogs : \A e \in (HostedBy(d) \ {d}) \cap Dialogs : Endable(e)

(* It lets no window go, created or not, that has windows to host, and     *)
(* gives up no creation with a timer set.                                  *)
MayGo(w)   == "orphans" \in Careless \/ {v \in Valid : pHosting[v] = w} = {}
MayFail(w) == MayGo(w) /\ ("timers" \in Careless \/ w \notin timers)

(* What EndDialog is to destroy does not refuse.                           *)
MayRefuse == "refusal" \in Careless \/ \A i \in DOMAIN calls : calls[i].op # "end"

(* A window without a host of its own is hosted by the root window.        *)
BrokenHostFor(h) == h
HostFor(h) == IF h = NULL THEN pRootMainWin ELSE h

(* A window has one dialog at a time.                                      *)
MayOwn(h) ==
    "owner" \in Careless \/ \A d \in Valid \cap Dialogs : pHosting[d] # HostFor(h)

-----------------------------------------------------------------------------
(* CreateMainWindow: up to MSG_NCCREATE, with host h or none.              *)
Allocated(w, h) ==
    /\ DataType[w] = "none" /\ h \in Valid \cup {NULL}
    /\ DataType' = Put(DataType, w, "TYPE_HWND")
    /\ pRootMainWin' = IF pRootMainWin = NULL THEN w ELSE pRootMainWin
    /\ pHosting' = Put(pHosting, w, IF pRootMainWin = NULL THEN NULL ELSE HostFor(h))
    /\ UNCHANGED <<pFirstHosted, pNextHosted, nrWindows, trace, disabled>>

CreateMainWindow(w, h) ==
    /\ Runs /\ Room /\ w \notin Dialogs
    /\ Allocated(w, h)
    /\ calls' = Pushed(New("create", w, "MSG_NCCREATE"))

(* DialogBox                                                               *)
DialogBox(w, h) ==
    /\ Runs /\ Room /\ w \in Dialogs /\ MayOwn(h)
    /\ Allocated(w, h)
    /\ calls' = <<New("create", w, "MSG_NCCREATE")>> \o Pushed(New("dialog", w, "calls"))

BrokenFailed(w) ==
    /\ DataType' = Put(DataType, w, "none")
    /\ pRootMainWin' = IF pRootMainWin = w THEN NULL ELSE pRootMainWin
    /\ UNCHANGED messages
    /\ Wiped(w)

(* err: the messages are thrown away, and the memory is freed.             *)
Failed(w) ==
    /\ DataType' = Put(DataType, w, "none")
    /\ pRootMainWin' = IF pRootMainWin = w THEN NULL ELSE pRootMainWin
    /\ messages' = messages \ {w}
    /\ Wiped(w)

(* MSG_NCCREATE succeeds, a message is posted while the sizes are set, and *)
(* the desktop takes the window ...                                        *)
NcCreated ==
    /\ At("MSG_NCCREATE")
    /\ messages' = messages \cup {Top.w}
    /\ desktop' = desktop \cup {Top.w}
    /\ calls' = Moved("MSG_CREATE")
    /\ UNCHANGED <<DataType, links, root, timers, disabled>>

(* ... or one of the two fails ...                                         *)
NcFailed ==
    /\ At("MSG_NCCREATE") /\ MayFail(Top.w)
    /\ Failed(Top.w)
    /\ Return(FALSE)
    /\ UNCHANGED <<nrWindows, timers, desktop, disabled>>

(* ... and then MSG_CREATE succeeds, or fails.                             *)
Created ==
    /\ At("MSG_CREATE")
    /\ IF pHosting[Top.w] # NULL
       THEN AddHosted(pHosting[Top.w], Top.w)
       ELSE UNCHANGED <<pFirstHosted, pNextHosted>>
    /\ nrWindows' = nrWindows + 1
    /\ Return(TRUE)
    /\ UNCHANGED <<DataType, pHosting, pRootMainWin, trace, disabled>>

CreateFailed ==
    /\ At("MSG_CREATE") /\ MayFail(Top.w)
    /\ Failed(Top.w)
    /\ desktop' = desktop \ {Top.w}
    /\ Return(FALSE)
    /\ UNCHANGED <<nrWindows, timers, disabled>>

-----------------------------------------------------------------------------
(* DialogBox, when its window is there: MSG_INITDIALOG, the owner is       *)
(* disabled, and the loop runs as long as the window is valid.             *)
DialogShown ==
    /\ At("MSG_INITDIALOG")
    /\ disabled' = disabled \cup ({pHosting[Top.w]} \ {NULL})
    /\ calls' = Moved("loop")
    /\ UNCHANGED <<DataType, links, root, trace>>

DialogEnds ==
    /\ At("loop") /\ Top.w \notin Valid
    /\ DataType' = Put(DataType, Top.w, "none")
    /\ Wiped(Top.w)
    /\ calls' = Tail(calls)
    /\ UNCHANGED <<root, trace, disabled>>

DestroyCall(w) == [New("destroy", w, "hosted") EXCEPT !.hosted = pFirstHosted[w]]
EndCalls(d)    == <<DestroyCall(d), New("end", d, "calls")>>

EndDialog(d) ==
    /\ Runs /\ d \in Dialogs \cap Valid /\ Endable(d) /\ MayDestroy(d)
    /\ calls' = EndCalls(d) \o calls
    /\ UNCHANGED <<DataType, links, root, trace, disabled>>

(* The owner is enabled whether the dialog is destroyed or not.            *)
BrokenEnabled(d) == {}
Enabled(d) == {pHosting[d]}

DialogEnded ==
    /\ calls # << >> /\ Top.op = "end" /\ Top.pc \in {"next", "refused"}
    /\ disabled' = disabled \ Enabled(Top.w)
    /\ Return(TRUE)
    /\ UNCHANGED <<DataType, links, root, trace>>

-----------------------------------------------------------------------------
(* DestroyMainWindow: the hosted windows one after the other ...           *)
DestroyMainWindow(w) ==
    /\ Runs /\ Room /\ w \in Valid \ Dialogs /\ MayDestroy(w)
    /\ calls' = Pushed(DestroyCall(w))
    /\ UNCHANGED <<DataType, links, root, trace, disabled>>

AtHosted == At("hosted") /\ UNCHANGED <<DataType, links, root, trace, disabled>>

DestroyHosted ==
    /\ AtHosted
    /\ \E h \in {Top.hosted} \cap Valid :
          LET waits == [calls EXCEPT ![1].pc = "calls", ![1].next = pNextHosted[h]]
          IN  \/ /\ h \notin Dialogs
                 /\ calls' = <<DestroyCall(h)>> \o waits
              \/ /\ h \in Dialogs /\ Endable(h)
                 /\ calls' = EndCalls(h) \o waits

HostedRefuses ==
    /\ AtHosted
    /\ Top.hosted # NULL
    /\ Top.hosted \notin Valid \/ (Top.hosted \in Dialogs /\ ~Endable(Top.hosted))
    /\ calls' = Moved("refused")

(* ... each with MainWindowCleanup, unless it is a dialog ...              *)
NextHosted ==
    /\ calls # << >> /\ Top.op = "destroy" /\ Top.pc = "next"
    /\ calls' = [calls EXCEPT ![1].pc = "hosted", ![1].hosted = Top.next, ![1].next = NULL]
    /\ IF Top.hosted \in Dialogs
       THEN UNCHANGED <<DataType, links>>
       ELSE /\ DataType' = Put(DataType, Top.hosted, "none")
            /\ Wiped(Top.hosted)
    /\ UNCHANGED <<root, trace, disabled>>

(* ... or until one of them is not destroyed ...                           *)
Refused ==
    /\ calls # << >> /\ Top.op = "destroy" /\ Top.pc = "refused"
    /\ Return(FALSE)
    /\ UNCHANGED <<DataType, links, root, trace, disabled>>

(* ... then the window itself, which may refuse.                           *)
NoneHosted ==
    /\ AtHosted /\ Top.hosted = NULL
    /\ calls' = Moved("MSG_DESTROY")

Refuse ==
    /\ At("MSG_DESTROY") /\ MayRefuse
    /\ Return(FALSE)
    /\ UNCHANGED <<DataType, links, root, trace, disabled>>

Killed(w) == timers \ {w}

Destroyed ==
    /\ At("MSG_DESTROY") /\ MayGo(Top.w)
    /\ timers' = Killed(Top.w)
    /\ IF pHosting[Top.w] # NULL
       THEN RemoveHosted(pHosting[Top.w], Top.w)
       ELSE UNCHANGED <<pFirstHosted, pNextHosted>>
    /\ desktop' = desktop \ {Top.w}
    /\ DataType' = Put(DataType, Top.w, "TYPE_WINTODEL")
    /\ messages' = messages \ {Top.w}
    /\ nrWindows' = nrWindows - 1
    /\ pRootMainWin' = IF pRootMainWin = Top.w THEN NULL ELSE pRootMainWin
    /\ Return(TRUE)
    /\ UNCHANGED <<pHosting, disabled>>

(* The program frees what it has destroyed itself.                         *)
MainWindowCleanup(w) ==
    /\ Runs /\ DataType[w] = "TYPE_WINTODEL" /\ w \notin Dialogs \cup Busy
    /\ DataType' = Put(DataType, w, "none")
    /\ Wiped(w)
    /\ UNCHANGED <<root, trace, disabled, calls>>

-----------------------------------------------------------------------------
SetTimer(w) ==
    /\ Runs /\ w \in (Busied \cap Valid) \ timers
    /\ timers' = timers \cup {w}
    /\ UNCHANGED <<DataType, links, root, messages, desktop, disabled, calls>>

KillTimer(w) ==
    /\ Runs /\ w \in Valid \cap timers
    /\ timers' = timers \ {w}
    /\ UNCHANGED <<DataType, links, root, messages, desktop, disabled, calls>>

PostMessage(w) ==
    /\ Runs /\ w \in (Busied \cap Valid) \ messages
    /\ messages' = messages \cup {w}
    /\ UNCHANGED <<DataType, links, root, timers, desktop, disabled, calls>>

(* A loop takes a message.                                                 *)
GetMessage(w) ==
    /\ calls # << >> => Top.pc = "loop"
    /\ w \in messages
    /\ messages' = messages \ {w}
    /\ UNCHANGED <<DataType, links, root, timers, desktop, disabled, calls>>

Program ==
    \E w \in Windows :
        \/ \E h \in Windows \cup {NULL} : CreateMainWindow(w, h) \/ DialogBox(w, h)
        \/ EndDialog(w) \/ DestroyMainWindow(w) \/ MainWindowCleanup(w)
        \/ SetTimer(w) \/ KillTimer(w) \/ PostMessage(w) \/ GetMessage(w)

(* What a window procedure answers, and the rest of the calls.             *)
Answer  == NcCreated \/ NcFailed \/ Created \/ CreateFailed \/ Refuse \/ Destroyed
Library ==
    \/ DialogShown \/ DialogEnds \/ DialogEnded
    \/ DestroyHosted \/ HostedRefuses \/ NextHosted \/ Refused \/ NoneHosted

Next == Program \/ Answer \/ Library

Spec == Init /\ [][Next]_vars

-----------------------------------------------------------------------------
Creating == {calls[i].w : i \in {j \in DOMAIN calls : calls[j].op = "create"}}
Living   == Valid \ Creating

(* The hosting windows and their lists agree, whatever is created and      *)
(* destroyed from inside whatever other call: a living window is in the    *)
(* list of one that is valid, and no list has a window that is not living. *)
HostingKept ==
    /\ \A w \in Living \ {pRootMainWin} :
          pHosting[w] \in Valid /\ w \in Hosted(pHosting[w])
    /\ \A h \in Valid : \A w \in Hosted(h) : w \in Living /\ pHosting[w] = h

(* The asserts of CreateMainWindowEx2 and DestroyMainWindow: with the root *)
(* window all windows of the thread have gone; and nrWindows counts them.  *)
RootLast ==
    /\ nrWindows = Cardinality(Living)
    /\ pRootMainWin = NULL => nrWindows = 0
    /\ pRootMainWin # NULL => pRootMainWin \in Valid

(* A window that was destroyed, or whose creation failed, has left no      *)
(* timer, no message and no entry of the desktop to be delivered later.    *)
NoTrace == timers \cup messages \cup desktop \subseteq Valid

(* The owner of a dialog box is disabled while its loop runs, and no       *)
(* window stays disabled when its dialog is gone.                          *)
OwnersBack ==
    /\ \A d \in Valid \cap Dialogs : Endable(d) /\ pHosting[d] # NULL => pHosting[d] \in disabled
    /\ \A w \in disabled : \E d \in Dialogs :
          /\ pHosting[d] = w
          /\ d \in Valid \/ \E i \in DOMAIN calls : calls[i].op = "end" /\ calls[i].w = d
=============================================================================
