-------------------------------- MODULE InvRgn --------------------------------
(***************************************************************************)
(* The invalid regions of the windows of one thread, and what of them      *)
(* reaches the screen (gui/window.c: InvalidateRect, BeginPaint, EndPaint, *)
(* UpdateInvalidClient; kernel/message.c: the part of PeekMessageEx that    *)
(* makes up MSG_PAINT).  InvalidateRect works through the tree of windows, *)
(* one region and one lock at a time, in any thread; the thread that owns  *)
(* the windows paints them.                                                *)
(*                                                                         *)
(* The screen is a set of cells, an area is a set of cells, and a cell     *)
(* shows what was drawn there since something opaque was drawn.            *)
(***************************************************************************)
EXTENDS Integers, Sequences, FiniteSets, SequencesExt

CONSTANTS
    Windows,        \* a main window and the controls in it
    Preorder,       \* the windows as kernel_CheckInvalidRegion visits them
    Parent,         \* the parent of each; NoWindow for the main window
    Transparent,    \* those with WS_EX_TRANSPARENT
    Visible,        \* those with WS_VISIBLE
    Cells,
    Covers,         \* the area of each window
    Painter, Others,    \* the thread that paints, and other threads
    Targets,        \* the windows that each thread invalidates
    NoWindow,
    MaxCalls        \* bound: how many calls of InvalidateRect

PaintThreads == {Painter} \cup Others
Main    == Preorder[1]
Opaque  == Windows \ Transparent

ASSUME TreeAssumption ==
    /\ Preorder \in Seq(Windows)
    /\ \A w \in Windows : \E i \in 1 .. Len(Preorder) : Preorder[i] = w
    /\ Main \in Opaque \cap Visible /\ NoWindow \notin Windows
    /\ Parent[Main] = NoWindow
    /\ \A w \in Windows \ {Main} : \E i, j \in 1 .. Len(Preorder) :
          i < j /\ Preorder[i] = Parent[w] /\ Preorder[j] = w
    /\ Parent \in [Windows -> Windows \cup {NoWindow}]
    /\ Covers \in [Windows -> SUBSET Cells]
    /\ \A w \in Windows : Parent[w] # NoWindow => Covers[w] \subseteq Covers[Parent[w]]

VARIABLES
    rgn,        \* InvRgn.rgn of each window
    frozen,     \* the windows with InvRgn.frozen set, whose lock is then held
    painting,   \* what the owner is about: a step of BeginPaint, or "no"
    clip,       \* the region selected into the device context
    updating,   \* the window that UpdateInvalidClient starts from, or NoWindow
    qs_paint,   \* QS_PAINT of the owner's queue
    inside,     \* the threads inside InvalidateRect
    subcalls,   \* per thread, what is left of _wndInvalidateRect to do
    made,       \* the number of calls so far
    screen,     \* what each cell shows, the lowest window first
    refused     \* auxiliary: cells that some region did not take, being frozen

paintVars == <<rgn, frozen, painting, clip, updating, qs_paint, inside, subcalls, made, screen, refused>>

NotPainting == [step |-> "no", win |-> NoWindow]

Marks == {"parent", "prev", "next", "children"}

(* One call of _wndInvalidateRect: its window, its rectangle (rcTemp), its *)
(* mark, and whether it has found the region not frozen.                   *)
Frame == [win : Windows, area : SUBSET Cells, mark : SUBSET Marks, looked : BOOLEAN]

PaintTypeOK ==
    /\ rgn \in [Windows -> SUBSET Cells]
    /\ frozen = IF painting.step = "locked" THEN {painting.win} ELSE {}
    /\ painting \in [step : {"no", "called", "locked", "draw"}, win : Windows \cup {NoWindow}]
    /\ clip \subseteq Cells
    /\ updating \in Windows \cup {NoWindow}
    /\ qs_paint \in BOOLEAN
    /\ inside \subseteq PaintThreads
    /\ subcalls \in [PaintThreads -> Seq(Frame)]
    /\ made \in 0 .. MaxCalls
    /\ screen \in [Cells -> Seq([win : Windows, fresh : BOOLEAN])]
    /\ refused \subseteq Cells

-----------------------------------------------------------------------------
(* The tree.                                                               *)
Place(w)      == CHOOSE i \in 1 .. Len(Preorder) : Preorder[i] = w
Siblings(w)   == {v \in Windows \ {w} : Parent[v] = Parent[w] /\ w # Main}
PrevOf(w)     == {v \in Siblings(w) : Place(v) < Place(w)}
NextOf(w)     == {v \in Siblings(w) : Place(v) > Place(w)}
ChildrenOf(w) == {v \in Windows : Parent[v] = w}

(* The windows of a set as the code's loops meet them.                     *)
Forward(S)  == SelectSeq(Preorder, LAMBDA v : v \in S)
Backward(S) == Reverse(Forward(S))

(* Each window with everything below it.                                   *)
Tree == [w \in Windows |->
    {v \in Windows : \E path \in SUBSET Windows :
        {v, w} \subseteq path /\ \A u \in path \ {w} : Parent[u] \in path}]

-----------------------------------------------------------------------------
(* What the cell shall show: the topmost opaque window there, and over it  *)
(* the transparent ones.                                                   *)
Layers(c) == Forward({w \in Visible : c \in Covers[w]})

Right(c) ==
    LET top == CHOOSE i \in 1 .. Len(Layers(c)) :
                  /\ Layers(c)[i] \in Opaque
                  /\ \A j \in i + 1 .. Len(Layers(c)) : Layers(c)[j] \in Transparent
    IN  [i \in 1 .. Len(Layers(c)) - top + 1 |->
            [win |-> Layers(c)[top + i - 1], fresh |-> TRUE]]

(* dskInitInvRgn: a new window is invalid all over.                        *)
PaintInit ==
    /\ rgn = Covers
    /\ frozen = {} /\ painting = NotPainting /\ clip = {}
    /\ updating = NoWindow /\ qs_paint = TRUE
    /\ inside = {} /\ subcalls = [t \in PaintThreads |-> << >>] /\ made = 0
    /\ screen = [c \in Cells |-> << >>]
    /\ refused = {}

(* The owner's own calls come between its paintings.                       *)
MayCall(t) == /\ t \notin inside
              /\ t = Painter => painting = NotPainting /\ updating = NoWindow

(* The program has something new to show in an area of a window, and says  *)
(* so.  What the screen shows of it is out of date from now on.            *)
InvalidateRect(t, w, area) ==
    /\ MayCall(t) /\ w \in Targets[t]
    /\ made < MaxCalls /\ made' = made + 1
    /\ inside' = inside \cup {t}
    /\ subcalls' = [subcalls EXCEPT ![t] =
                    <<[win |-> w, area |-> area, mark |-> Marks, looked |-> FALSE]>>]
    /\ screen' = [c \in Cells |->
           [i \in DOMAIN screen[c] |->
               IF c \in area /\ screen[c][i].win = w
               THEN [screen[c][i] EXCEPT !.fresh = FALSE] ELSE screen[c][i]]]
    /\ UNCHANGED <<rgn, frozen, painting, clip, updating, qs_paint, refused>>

(* frozen is read before the lock is taken; a frozen region takes nothing, *)
(* and what the call would have done for other windows is not done.        *)
LookFrozen(t) ==
    LET f == Head(subcalls[t])
    IN  /\ subcalls[t] # << >> /\ ~f.looked
        /\ \/ /\ f.win \in frozen
              /\ subcalls' = [subcalls EXCEPT ![t] = Tail(@)]
              /\ refused' = refused \cup f.area
           \/ /\ f.win \notin frozen
              /\ subcalls' = [subcalls EXCEPT ![t] = <<[f EXCEPT !.looked = TRUE]>> \o Tail(@)]
              /\ UNCHANGED refused
        /\ UNCHANGED <<rgn, frozen, painting, clip, updating, qs_paint, inside, made, screen>>

(* The opaque siblings above a window keep their place.                    *)
Covered(w) == UNION {Covers[v] : v \in NextOf(w) \cap Visible \cap Opaque}

SubCall(v, area, mark) ==
    [win |-> v, area |-> area \cap Covers[v], mark |-> mark, looked |-> FALSE]

CallEach(windows, area) ==
    SelectSeq([i \in DOMAIN windows |-> SubCall(windows[i], area, {"children"})],
              LAMBDA f : f.area # {})

(* Who is invalidated with a window, by the mark of the call.              *)
ParentCall(f) ==
    IF "parent" \in f.mark /\ f.win \in Transparent /\ f.area # {}
    THEN <<SubCall(Parent[f.win], f.area, {"parent", "prev", "next"})>> ELSE << >>

Under(f) == IF "prev" \in f.mark /\ f.win \in Transparent
            THEN PrevOf(f.win) \cap Visible ELSE {}

BrokenOver(f) == {}
Over(f) == IF "next" \in f.mark THEN NextOf(f.win) \cap Visible \cap Transparent ELSE {}

Inside(f) == IF "children" \in f.mark THEN ChildrenOf(f.win) \cap Visible ELSE {}

SubCalls(f) ==
    ParentCall(f) \o CallEach(Backward(Under(f)), f.area)
        \o CallEach(Forward(Over(f)), f.area) \o CallEach(Forward(Inside(f)), f.area)

(* Under the lock of the region the area is added, then what opaque        *)
(* siblings cover is taken away.                                           *)
Add(t) ==
    LET f == Head(subcalls[t])
    IN  /\ subcalls[t] # << >> /\ f.looked /\ f.win \notin frozen
        /\ rgn' = [rgn EXCEPT ![f.win] = (@ \cup f.area) \ (Covered(f.win) \cap f.area)]
        /\ subcalls' = [subcalls EXCEPT ![t] = SubCalls(f) \o Tail(@)]
        /\ UNCHANGED <<frozen, painting, clip, updating, qs_paint, inside, made, screen, refused>>

(* When the last call has returned, PostMessage (MSG_PAINT) is left.       *)
PostPaint(t) ==
    /\ t \in inside /\ subcalls[t] = << >>
    /\ inside' = inside \ {t}
    /\ qs_paint' = TRUE
    /\ UNCHANGED <<rgn, frozen, painting, clip, updating, subcalls, made, screen, refused>>

-----------------------------------------------------------------------------
(* kernel_CheckInvalidRegion: the first invalid window, from a window on.  *)
BrokenInvalid(start) == {w \in {start} : rgn[w] # {}}
Invalid(start) == {w \in Tree[start] : rgn[w] # {}}
First(S) == CHOOSE w \in S : \A v \in S : Place(w) <= Place(v)

(* PeekMessageEx, with QS_PAINT set: MSG_PAINT for the first, or no more.  *)
PeekPaint ==
    /\ MayCall(Painter) /\ qs_paint
    /\ \/ /\ Invalid(Main) # {}
          /\ painting' = [step |-> "called", win |-> First(Invalid(Main))]
          /\ UNCHANGED qs_paint
       \/ Invalid(Main) = {} /\ qs_paint' = FALSE /\ UNCHANGED painting
    /\ UNCHANGED <<rgn, frozen, clip, updating, inside, subcalls, made, screen, refused>>

(* UpdateInvalidClient paints a window at once, from the parent of its     *)
(* highest transparent ancestor on.                                        *)
Ancestors(w) == {v \in Windows : w \in Tree[v]}

StartOf(w) ==
    LET T == Ancestors(w) \cap Transparent
    IN  IF T = {} THEN w ELSE Parent[First(T)]

(* A new window is invalid where its siblings cover it, too, and painting  *)
(* it after them leaves it on top: the program does not call before the    *)
(* first painting.                                                         *)
PaintedOnce == \A w \in Windows : rgn[w] \cap Covered(w) = {}

UpdateInvalidClient(w) ==
    /\ MayCall(Painter) /\ PaintedOnce
    /\ rgn[w] # {}
    /\ updating' = StartOf(w)
    /\ UNCHANGED <<rgn, frozen, painting, clip, qs_paint, inside, subcalls, made, screen, refused>>

UpdateNext ==
    /\ updating # NoWindow /\ painting = NotPainting
    /\ \/ /\ Invalid(updating) # {}
          /\ painting' = [step |-> "called", win |-> First(Invalid(updating))]
          /\ UNCHANGED updating
       \/ Invalid(updating) = {} /\ updating' = NoWindow /\ UNCHANGED painting
    /\ UNCHANGED <<rgn, frozen, clip, qs_paint, inside, subcalls, made, screen, refused>>

-----------------------------------------------------------------------------
(* BeginPaint: the lock, and the region is frozen ...                      *)
BeginPaint ==
    /\ painting.step = "called"
    /\ frozen' = frozen \cup {painting.win}
    /\ painting' = [painting EXCEPT !.step = "locked"]
    /\ UNCHANGED <<rgn, clip, updating, qs_paint, inside, subcalls, made, screen, refused>>

(* ... then the region is the clip region, and is emptied.  Opaque         *)
(* children are cut out; what is not visible is not drawn.                 *)
Uncovered(w) ==
    rgn[w] \ UNION {Covers[v] : v \in ChildrenOf(w) \cap Visible \cap Opaque}

Thawed(w) == frozen \ {w}

BrokenTaken(w) == rgn[w]
Taken(w) == {}

TakeRegion ==
    LET w == painting.win
    IN  /\ painting.step = "locked"
        /\ clip' = IF w \in Visible THEN Uncovered(w) ELSE {}
        /\ rgn' = [rgn EXCEPT ![w] = Taken(w)]
        /\ frozen' = Thawed(w)
        /\ painting' = [painting EXCEPT !.step = "draw"]
        /\ UNCHANGED <<updating, qs_paint, inside, subcalls, made, screen, refused>>

(* The window procedure draws: an opaque window over everything, a         *)
(* transparent one over what is there, its own old image included.  To     *)
(* draw the same image twice in a row shows nothing else.                  *)
Drawn(w, image) ==
    LET new == [win |-> w, fresh |-> TRUE]
    IN  IF w \in Opaque THEN <<new>>
        ELSE IF image # << >> /\ Last(image) = new THEN image ELSE Append(image, new)

EndPaint ==
    /\ painting.step = "draw"
    /\ screen' = [c \in Cells |-> IF c \in clip THEN Drawn(painting.win, screen[c])
                                                ELSE screen[c]]
    /\ painting' = NotPainting /\ clip' = {}
    /\ UNCHANGED <<rgn, frozen, updating, qs_paint, inside, subcalls, made, refused>>

Paints == PeekPaint \/ UpdateNext \/ BeginPaint \/ TakeRegion \/ EndPaint

Invalidates(t) == LookFrozen(t) \/ Add(t) \/ PostPaint(t)

PaintNext ==
    \/ \E t \in PaintThreads, w \in Windows :
          \E area \in SUBSET Covers[w] \ {{}} : InvalidateRect(t, w, area)
    \/ \E t \in PaintThreads : Invalidates(t)
    \/ \E w \in Windows : UpdateInvalidClient(w)
    \/ Paints

PaintSpec == PaintInit /\ [][PaintNext]_paintVars

(* A call goes on, and the owner dispatches its messages.                  *)
FairPaintSpec ==
    /\ PaintSpec
    /\ WF_paintVars(Paints)
    /\ \A t \in PaintThreads : WF_paintVars(Invalidates(t))

-----------------------------------------------------------------------------
(* No call is under way and nothing waits to be painted.                   *)
Quiet ==
    /\ inside = {}
    /\ painting = NotPainting /\ updating = NoWindow /\ ~qs_paint

(* When all is quiet no region is left over: MSG_PAINT is not lost between *)
(* the regions of a tree and the one flag that stands for all of them.     *)
NothingLeft == Quiet => \A w \in Windows : rgn[w] = {}

(* When all is quiet each cell shows its windows as they are, the opaque   *)
(* one and those transparent ones above it, each drawn once and in their   *)
(* order - but for what found a region frozen.                             *)
ShownRight == Quiet => \A c \in Cells \ refused : screen[c] = Right(c)

(* Whatever is invalid gets painted or validated.                          *)
Repainted == \A w \in Windows : \A c \in Cells : c \in rgn[w] ~> c \notin rgn[w]
=============================================================================
