------------------------------ MODULE TouchMode ------------------------------
(***************************************************************************)
(* The touch mode of the UI substrate (TouchModeTracker of                 *)
(* kernel/src/ui_core.hpp), kept by the same route_*() functions that      *)
(* InputRouting routes with: every step here is a step of the routing, or  *)
(* leaves it alone.                                                        *)
(*                                                                         *)
(* The mode is a signal: the documents do what the last notification said, *)
(* and `told' is that.  The callbacks of a notification run before the     *)
(* event is routed, so what they do to the surfaces is a step before it.   *)
(*                                                                         *)
(* Time is `shadow', whether the last touch is less than debounce_ms old,  *)
(* and `early', whether a motion carries an older time stamp than that     *)
(* touch: devices are read one after the other.  Unsigned subtraction      *)
(* makes such a motion look very late.                                     *)
(***************************************************************************)
EXTENDS InputRouting

Overrides == {"none", "force_pointer", "force_touch"}

VARIABLES
  auto_mode,      \* auto_mode_
  override,       \* override_
  shadow,         \* time_msec - last_touch_msec_ < debounce_ms_
  told            \* the argument of the last notification

mode == <<auto_mode, override, shadow, told>>
all == <<vars, mode>>

\* effective(), is_touch().
Effective(auto, ov) ==
  CASE ov = "force_pointer" -> "pointer" [] ov = "force_touch" -> "touch" [] OTHER -> auto
IsTouch == Effective(auto_mode, override) = "touch"

\* set_auto(), set_override(): whether the effective mode changed.
Changed == Effective(auto_mode, override)' # Effective(auto_mode, override)

\* notify_touch_mode_changed(), called on a change.
Announce == told' = IF Changed THEN IsTouch' ELSE told

-----------------------------------------------------------------------------
ModeInit ==
  /\ Init
  /\ auto_mode = "pointer" /\ override = "none"
  /\ shadow = FALSE
  /\ told = FALSE

\* on_touch(): a touch wins at once.
OnTouch ==
  /\ auto_mode' = "touch"
  /\ shadow' = TRUE
  /\ UNCHANGED override

\* route_touch_down(), over a surface or not.
TouchDownFlips(id, p) == TouchDown(id, p) /\ OnTouch /\ Announce

\* route_touch_motion(): what on_touch() returns is not looked at.
TouchMotion(id) ==
  /\ touch_capture[id] # NoSurface
  /\ OnTouch
  /\ UNCHANGED <<vars, told>>

\* Mutant of PointerMotion: the mode goes back unannounced.
PointerMotionQuiet(p, early) ==
  /\ Motion(p)
  /\ auto_mode' = IF shadow /\ ~early THEN auto_mode ELSE "pointer"
  /\ UNCHANGED <<override, shadow, told>>

\* route_pointer_motion() with on_pointer_motion().
PointerMotion(p, early) ==
  /\ Motion(p)
  /\ auto_mode' = IF shadow /\ ~early THEN auto_mode ELSE "pointer"
  /\ UNCHANGED <<override, shadow>>
  /\ Announce

\* debounce_ms pass without a touch.
Debounced ==
  /\ shadow
  /\ shadow' = FALSE
  /\ UNCHANGED <<vars, auto_mode, override, told>>

\* set_touch_mode_override().
SetOverride(ov) ==
  /\ override' = ov
  /\ UNCHANGED <<vars, auto_mode, shadow>>
  /\ Announce

\* The rest of the routing has no part in the mode.
Unmoved ==
  /\ UNCHANGED mode
  /\ \/ \E s \in Surfaces, where \in SUBSET Points, visible \in BOOLEAN :
          CreateSurface(s, where, visible)
     \/ \E s \in Surfaces, where \in SUBSET Points : SetGeometry(s, where)
     \/ \E s \in Surfaces, visible \in BOOLEAN : SetVisible(s, visible)
     \/ \E s \in Surfaces : DestroySurface(s)
     \/ \E b \in Buttons : Press(b) \/ Release(b)
     \/ \E id \in TouchIds : TouchUp(id)

ModeNext ==
  \/ Unmoved
  \/ \E id \in TouchIds, p \in Points : TouchDownFlips(id, p)
  \/ \E id \in TouchIds : TouchMotion(id)
  \/ \E p \in Points, early \in BOOLEAN : PointerMotion(p, early)
  \/ Debounced
  \/ \E ov \in Overrides : SetOverride(ov)

ModeSpec == ModeInit /\ [][ModeNext]_all

-----------------------------------------------------------------------------
ModeTypeOK ==
  /\ auto_mode \in {"pointer", "touch"}
  /\ override \in Overrides
  /\ shadow \in BOOLEAN
  /\ told \in BOOLEAN

\* A document that was told to make room for fingers is told when the mode ends, in
\* whatever order fingers, cursor, time and overrides interleave: it is never left in its
\* touch layout (on_touch_mode_changed(), ui.hpp:164-173).
NeverLeftInTouch == told => IsTouch

\* Refuted: the documents know the mode (ui.hpp:165-167 "is invoked when the substrate's
\* touch-mode changes").  A finger rests on a surface, the mouse moves after the debounce
\* time, the finger moves: the mode is touch again and nobody is told.
SurfacesKnowTheMode == told = IsTouch

\* Refuted: "after a touch event, pointer motion is ignored for `debounce_ms`"
\* (ui_core.hpp:25-26).  A motion with an older time stamp than the touch is not.
TouchWins == shadow => auto_mode = "touch"

=============================================================================
