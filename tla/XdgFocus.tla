------------------------------ MODULE XdgFocus ------------------------------
(***************************************************************************)
(* The windows of ext-xdg-shell and who has the keyboard                   *)
(* (ext-xdg-shell/src/extension.cpp): the life of a toplevel, its scene    *)
(* node, and focus_toplevel().  XdgInput adds the input handlers and the   *)
(* interactive grab, StageWindows the extensions that follow these events. *)
(*                                                                         *)
(* wlroots is external.  What is used of it: a surface maps only after it  *)
(* acknowledged a configure and loses that on unmap; a destroyed toplevel  *)
(* is unmapped first; mapping a window enables its scene node again; the   *)
(* seat drops its keyboard focus when the focused surface is DESTROYED,    *)
(* not when it unmaps.                                                     *)
(***************************************************************************)
EXTENDS Integers, FiniteSets

CONSTANTS
  Toplevels,    \* the windows clients may ever create
  NoOne,        \* no toplevel: nullptr
  Elsewhere,    \* keyboard focus on a surface that is no toplevel (a panel, a launcher)
  HasKeyboard   \* wlr_seat_get_keyboard() is not null

ASSUME FocusAssumption ==
  /\ NoOne \notin Toplevels
  /\ Elsewhere \notin Toplevels \cup {NoOne}
  /\ HasKeyboard \in BOOLEAN
  /\ IsFiniteSet(Toplevels)

VARIABLES
  win,        \* [Toplevels -> Life]
  hidden,     \* toplevels whose scene node hide() disabled
  kb_focus,   \* seat->keyboard_state.focused_surface
  activated,  \* toplevels last told set_activated(true)
  level       \* [Toplevels -> Nat]: place in the scene, 1 at the bottom, 0 without a node

focusVars == <<win, hidden, kb_focus, activated, level>>

Life == {"none", "created", "configured", "mapped", "gone"}
Mapped == {t \in Toplevels : win[t] = "mapped"}
Visible == Mapped \ hidden
OrNoOne(S) == S \cup {NoOne}

InScene == {t \in Toplevels : level[t] # 0}

\* The nodes above t close the gap it leaves; t goes to place p.
Place(t, p) ==
  [u \in Toplevels |-> IF u = t THEN p
                        ELSE IF level[t] # 0 /\ level[u] > level[t] THEN level[u] - 1
                        ELSE level[u]]
RaiseToTop(t) == Place(t, Cardinality(InScene \cup {t}))

\* focus_toplevel(t) returns early for a window that has the seat's focus already,
\* so that neither the raise nor the focused event happens.
MovesFocus(t) == kb_focus # t

\* Mutant of FocusToplevel: the window is not raised.
FocusToplevelUnraised(t) ==
  IF MovesFocus(t)
  THEN /\ activated' = (activated \ {kb_focus}) \cup {t}
       /\ kb_focus' = IF HasKeyboard THEN t ELSE kb_focus
       /\ level' = level
  ELSE UNCHANGED <<activated, kb_focus, level>>

\* focus_toplevel(t) of a mapped t.  Without a keyboard the seat never enters it.
FocusToplevel(t) ==
  IF MovesFocus(t)
  THEN /\ activated' = (activated \ {kb_focus}) \cup {t}
       /\ kb_focus' = IF HasKeyboard THEN t ELSE kb_focus
       /\ level' = RaiseToTop(t)
  ELSE UNCHANGED <<activated, kb_focus, level>>

\* focus_toplevel() with what a hit test found, maybe nothing.
FocusHit(hit) ==
  IF hit = NoOne THEN UNCHANGED <<activated, kb_focus, level>> ELSE FocusToplevel(hit)

InitFocus ==
  /\ win = [t \in Toplevels |-> "none"]
  /\ hidden = {}
  /\ kb_focus = NoOne
  /\ activated = {}
  /\ level = [t \in Toplevels |-> 0]

\* handle_new_toplevel(): the window's tree is created on top of its layer.
NewToplevel(t) ==
  /\ win[t] = "none"
  /\ win' = [win EXCEPT ![t] = "created"]
  /\ level' = RaiseToTop(t)
  /\ UNCHANGED <<hidden, kb_focus, activated>>

\* The client acknowledges the configure of its initial commit.
Configure(t) ==
  /\ win[t] = "created"
  /\ win' = [win EXCEPT ![t] = "configured"]
  /\ UNCHANGED <<hidden, kb_focus, activated, level>>

\* map: the scene helper enables the node, and the window takes the focus.
MapWindow(t) ==
  /\ win[t] = "configured"
  /\ win' = [win EXCEPT ![t] = "mapped"]
  /\ hidden' = hidden \ {t}
  /\ FocusToplevel(t)

\* unmap: the seat keeps its focus on the surface.
UnmapWindow(t) ==
  /\ win[t] = "mapped"
  /\ win' = [win EXCEPT ![t] = "created"]
  /\ UNCHANGED <<hidden, kb_focus, activated, level>>

\* destroy: the entry and its scene tree are freed, the seat lets go of the surface.
DestroyWindow(t) ==
  /\ win[t] \in {"created", "configured"}
  /\ win' = [win EXCEPT ![t] = "gone"]
  /\ hidden' = hidden \ {t}
  /\ activated' = activated \ {t}
  /\ kb_focus' = IF kb_focus = t THEN NoOne ELSE kb_focus
  /\ level' = Place(t, 0)

\* A layer surface takes the keyboard, or the one that had it goes away.  The
\* toplevel that had it is not told.
FocusMovesElsewhere ==
  /\ kb_focus' = IF kb_focus = Elsewhere THEN NoOne ELSE Elsewhere
  /\ UNCHANGED <<win, hidden, activated, level>>

-----------------------------------------------------------------------------
FocusTypeOK ==
  /\ win \in [Toplevels -> Life]
  /\ hidden \subseteq Toplevels
  /\ kb_focus \in Toplevels \cup {NoOne, Elsewhere}
  /\ activated \subseteq Toplevels
  /\ level \in [Toplevels -> Nat]

=============================================================================
