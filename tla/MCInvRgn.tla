------------------------------- MODULE MCInvRgn -------------------------------
(* Values of the constants of InvRgn for TLC.                              *)
EXTENDS InvRgn

CONSTANTS main, button, panel, glass, owner, other, c1, c2

(* Over the button an opaque control and a transparent one.                *)
ThreeControls == <<main, button, panel, glass>>
InMain == [w \in Windows |-> IF w = main THEN NoWindow ELSE main]
Overlap == (main :> {c1, c2}) @@ (button :> {c1, c2}) @@ (panel :> {c2}) @@ (glass :> {c1})

(* Another thread invalidates the panel, which has nothing above it.       *)
PanelByOther == (owner :> {main, button, glass}) @@ (other :> {panel})
=============================================================================
