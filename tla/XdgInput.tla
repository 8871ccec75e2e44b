------------------------------ MODULE XdgInput ------------------------------
(***************************************************************************)
(* Input routing and the interactive move/resize grab of ext-xdg-shell:    *)
(* policy::GrabMachine (src/policy.hpp) driven by the pointer and touch    *)
(* handlers of src/extension.cpp, over the windows of XdgFocus.            *)
(*                                                                         *)
(* A grab is asked for by a client, some time after it saw a press, and    *)
(* ended by an input the client does not control, so the request may come  *)
(* at any moment of the physical input's life.  `held', `fingers',         *)
(* `cursor_x' and `finger_x' are that physical truth; the code sees it     *)
(* only through its handlers.  Layout positions are one-dimensional.       *)
(***************************************************************************)
EXTENDS XdgFocus

CONSTANTS
  Buttons,    \* pointer buttons
  TouchIds,   \* touch ids the device uses
  Positions,  \* layout coordinates an input can be at
  MaxDrift    \* bound: how far a window may be dragged off the origin

ASSUME InputAssumption ==
  /\ Positions \subseteq Int
  /\ 0 \in Positions
  /\ 0 \notin TouchIds
  /\ IsFiniteSet(TouchIds)
  /\ MaxDrift \in Nat

VARIABLES
  mode, source, pointer_down, touch_down_count,  \* GrabMachine
  last_touch_id, origin_touch_id,
  grabbed,        \* ToplevelEntry* grabbed_
  grab_x,         \* driver position minus window position (or minus the border)
  grab_box,       \* [l, r]: grab_geobox_
  edge,           \* resize_edges_: "left" or "right"
  grab_touch_lx,  \* last layout position recorded for the touch driver
  touch_points,   \* ids whose down landed on a surface
  node_x,         \* [Toplevels -> Int]: scene node positions
  asked,          \* [Toplevels -> Nat]: last width asked of the client
  seat_buttons,   \* buttons the seat's implicit grab believes pressed
  held, fingers, cursor_x, finger_x

machine == <<mode, source, pointer_down, touch_down_count, last_touch_id,
             origin_touch_id>>
geometry == <<grab_x, grab_box, edge, node_x, asked>>
physical == <<held, fingers, cursor_x, finger_x>>
vars == <<focusVars, machine, grabbed, geometry, grab_touch_lx, touch_points,
          seat_buttons, physical>>

InitialWidth == 2   \* the width clients map with
Grabbing == mode # "none"
TouchDriven == Grabbing /\ source = "touch"

-----------------------------------------------------------------------------
Init ==
  /\ InitFocus
  /\ mode = "none" /\ source = "pointer" /\ pointer_down = FALSE
  /\ touch_down_count = 0 /\ last_touch_id = 0 /\ origin_touch_id = 0
  /\ grabbed = NoOne
  /\ grab_x = 0 /\ grab_box = [l |-> 0, r |-> 0] /\ edge = "right"
  /\ grab_touch_lx = 0
  /\ touch_points = {}
  /\ node_x = [t \in Toplevels |-> 0]
  /\ asked = [t \in Toplevels |-> InitialWidth]
  /\ seat_buttons = {}
  /\ held = {} /\ fingers = {} /\ cursor_x = 0
  /\ finger_x = [f \in TouchIds |-> 0]

\* reset() / on_grab_target_lost(), then end_grab().
EndGrab ==
  /\ mode' = "none"
  /\ source' = "pointer"
  /\ grabbed' = NoOne

KeepGrab == UNCHANGED <<mode, source, grabbed>>

\* process_pointer_button(), pressed: forwarded, and click-to-focus, unless a grab
\* is on.  The grab machine hears of it first.
Press(b, hit) ==
  /\ b \notin held
  /\ held' = held \cup {b}
  /\ pointer_down' = TRUE
  /\ IF Grabbing
     THEN UNCHANGED <<seat_buttons, activated, kb_focus, level>>
     ELSE /\ seat_buttons' = seat_buttons \cup {b}
          /\ FocusHit(hit)
  /\ KeepGrab
  /\ UNCHANGED <<win, hidden, touch_down_count, last_touch_id, origin_touch_id, geometry,
                 grab_touch_lx, touch_points, fingers, cursor_x, finger_x>>

\* Mutant of Release: a release leaves the grab alone.
ReleaseKeepsGrab(b) ==
  /\ b \in held
  /\ held' = held \ {b}
  /\ pointer_down' = FALSE
  /\ KeepGrab
  /\ seat_buttons' = seat_buttons \ {b}
  /\ UNCHANGED <<focusVars, touch_down_count, last_touch_id, origin_touch_id, geometry,
                 grab_touch_lx, touch_points, fingers, cursor_x, finger_x>>

\* process_pointer_button(), released: ends a pointer-driven grab and is forwarded,
\* is swallowed by a touch-driven one, and is forwarded when there is none.
Release(b) ==
  /\ b \in held
  /\ held' = held \ {b}
  /\ pointer_down' = FALSE
  /\ IF Grabbing /\ source = "pointer" THEN EndGrab ELSE KeepGrab
  /\ seat_buttons' = IF TouchDriven THEN seat_buttons ELSE seat_buttons \ {b}
  /\ UNCHANGED <<focusVars, touch_down_count, last_touch_id, origin_touch_id, geometry,
                 grab_touch_lx, touch_points, fingers, cursor_x, finger_x>>

\* Mutant of DragTo: the dragged edge is not stopped at the opposite one.
DragToUnclamped(lx) ==
  LET x == lx - grab_x
      l == IF edge = "left" THEN x ELSE grab_box.l
      r == IF edge = "right" THEN x ELSE grab_box.r
  IN  IF mode = "move"
      THEN /\ node_x' = [node_x EXCEPT ![grabbed] = x]
           /\ asked' = asked
      ELSE /\ node_x' = [node_x EXCEPT ![grabbed] = l]
           /\ asked' = [asked EXCEPT ![grabbed] = r - l]

\* process_cursor_move() / process_cursor_resize(): the grabbed window follows the
\* driver at lx; a dragged edge stops one pixel short of the opposite one.  A window
\* already freed takes the write nowhere.
DragTo(lx) ==
  LET x == lx - grab_x
      l == IF edge = "left" THEN (IF x >= grab_box.r THEN grab_box.r - 1 ELSE x)
                            ELSE grab_box.l
      r == IF edge = "right" THEN (IF x <= grab_box.l THEN grab_box.l + 1 ELSE x)
                             ELSE grab_box.r
  IN  IF mode = "move"
      THEN /\ node_x' = [node_x EXCEPT ![grabbed] = x]
           /\ asked' = asked
      ELSE /\ node_x' = [node_x EXCEPT ![grabbed] = l]
           /\ asked' = [asked EXCEPT ![grabbed] = r - l]

\* process_pointer_motion(): drives a pointer grab, else goes to the client.
Cursor(x) ==
  /\ cursor_x' = x
  /\ IF Grabbing /\ source = "pointer" THEN DragTo(x) ELSE UNCHANGED <<node_x, asked>>
  /\ UNCHANGED <<focusVars, machine, grabbed, grab_x, grab_box, edge, grab_touch_lx,
                 touch_points, seat_buttons, held, fingers, finger_x>>

\* process_touch_down(): counted and remembered as the last point, tap-to-focus.
TouchDown(f, x, hit) ==
  /\ f \notin fingers
  /\ fingers' = fingers \cup {f}
  /\ finger_x' = [finger_x EXCEPT ![f] = x]
  /\ touch_down_count' = touch_down_count + 1
  /\ last_touch_id' = f
  /\ grab_touch_lx' = x
  /\ FocusHit(hit)
  /\ touch_points' = IF hit = NoOne THEN touch_points ELSE touch_points \cup {f}
  /\ UNCHANGED <<win, hidden, mode, source, pointer_down, origin_touch_id, grabbed,
                 geometry, seat_buttons, held, cursor_x>>

\* process_touch_motion(): any point refreshes the driver position of a touch grab,
\* only the originating point drags.
TouchMotion(f, x) ==
  /\ f \in fingers
  /\ finger_x' = [finger_x EXCEPT ![f] = x]
  /\ grab_touch_lx' = IF TouchDriven THEN x ELSE grab_touch_lx
  /\ IF TouchDriven /\ f = origin_touch_id THEN DragTo(x) ELSE UNCHANGED <<node_x, asked>>
  /\ UNCHANGED <<focusVars, machine, grabbed, grab_x, grab_box, edge, touch_points,
                 seat_buttons, held, fingers, cursor_x>>

\* process_touch_up() / process_touch_cancel(): the originating point ends its grab.
TouchLift(f) ==
  /\ f \in fingers
  /\ fingers' = fingers \ {f}
  /\ touch_points' = touch_points \ {f}
  /\ touch_down_count' = IF touch_down_count > 0 THEN touch_down_count - 1 ELSE 0
  /\ IF TouchDriven /\ f = origin_touch_id THEN EndGrab ELSE KeepGrab
  /\ UNCHANGED <<focusVars, pointer_down, last_touch_id, origin_touch_id, geometry,
                 grab_touch_lx, seat_buttons, held, cursor_x, finger_x>>

\* engage(): touch is preferred, and pinned to the last point that went down.
Engage(m) ==
  /\ mode' = m
  /\ IF touch_down_count > 0
     THEN source' = "touch" /\ origin_touch_id' = last_touch_id
     ELSE source' = "pointer" /\ origin_touch_id' = origin_touch_id

DriverPosition == IF touch_down_count > 0 THEN grab_touch_lx ELSE cursor_x

\* Mutant of InputIsDown: a request is taken at its word.
InputIsDownAlways == TRUE

InputIsDown == touch_down_count > 0 \/ pointer_down

\* The window is still near enough to the origin to be dragged again (a bound).
InReach(t) == node_x[t] \in -MaxDrift .. MaxDrift /\ asked[t] <= MaxDrift + InitialWidth

\* Mutant of BeginMove: a request during a grab keeps the first one's offset.
BeginMoveKeepsOffset(t) ==
  /\ win[t] \in {"configured", "mapped"}
  /\ InReach(t)
  /\ InputIsDown
  /\ Engage("move")
  /\ grabbed' = t
  /\ grab_x' = IF Grabbing THEN grab_x ELSE DriverPosition - node_x[t]
  /\ UNCHANGED <<focusVars, pointer_down, touch_down_count, last_touch_id, grab_box, edge,
                 node_x, asked, grab_touch_lx, touch_points, seat_buttons, physical>>

\* begin_move(): the client's request_move, ignored with nothing down.
BeginMove(t) ==
  /\ win[t] \in {"configured", "mapped"}
  /\ InReach(t)
  /\ InputIsDown
  /\ Engage("move")
  /\ grabbed' = t
  /\ grab_x' = DriverPosition - node_x[t]
  /\ UNCHANGED <<focusVars, pointer_down, touch_down_count, last_touch_id, grab_box, edge,
                 node_x, asked, grab_touch_lx, touch_points, seat_buttons, physical>>

\* begin_resize(): the same for request_resize on edge e, anchored to the border.
BeginResize(t, e) ==
  /\ win[t] \in {"configured", "mapped"}
  /\ InReach(t)
  /\ InputIsDown
  /\ Engage("resize")
  /\ grabbed' = t
  /\ edge' = e
  /\ grab_box' = [l |-> node_x[t], r |-> node_x[t] + asked[t]]
  /\ grab_x' = DriverPosition - (IF e = "right" THEN node_x[t] + asked[t] ELSE node_x[t])
  /\ UNCHANGED <<focusVars, pointer_down, touch_down_count, last_touch_id, node_x, asked,
                 grab_touch_lx, touch_points, seat_buttons, physical>>

WindowsOnly ==
  UNCHANGED <<machine, grabbed, geometry, grab_touch_lx, touch_points, seat_buttons,
              physical>>

\* The map, new-toplevel, configure and destroy handlers leave the grab alone.
Create(t) == NewToplevel(t) /\ WindowsOnly
AckConfigure(t) == Configure(t) /\ WindowsOnly
Map(t) == MapWindow(t) /\ WindowsOnly
Destroy(t) == DestroyWindow(t) /\ WindowsOnly

\* Mutant of Unmap: the target is cleared but the machine is not told.
UnmapTargetOnly(t) ==
  /\ UnmapWindow(t)
  /\ grabbed' = IF t = grabbed THEN NoOne ELSE grabbed
  /\ UNCHANGED <<machine, geometry, grab_touch_lx, touch_points, seat_buttons, physical>>

\* unmap of the grabbed window drops the grab.
Unmap(t) ==
  /\ UnmapWindow(t)
  /\ IF t = grabbed THEN EndGrab ELSE KeepGrab
  /\ UNCHANGED <<pointer_down, touch_down_count, last_touch_id, origin_touch_id, geometry,
                 grab_touch_lx, touch_points, seat_buttons, physical>>

Next ==
  \/ \E b \in Buttons, hit \in OrNoOne(Visible) : Press(b, hit)
  \/ \E b \in Buttons : Release(b)
  \/ \E x \in Positions : Cursor(x)
  \/ \E f \in TouchIds, x \in Positions, hit \in OrNoOne(Visible) : TouchDown(f, x, hit)
  \/ \E f \in TouchIds, x \in Positions : TouchMotion(f, x)
  \/ \E f \in TouchIds : TouchLift(f)
  \/ \E t \in Toplevels : BeginMove(t)
  \/ \E t \in Toplevels, e \in {"left", "right"} : BeginResize(t, e)
  \/ \E t \in Toplevels :
       Create(t) \/ AckConfigure(t) \/ Map(t) \/ Unmap(t) \/ Destroy(t)

Spec == Init /\ [][Next]_vars

-----------------------------------------------------------------------------
TypeOK ==
  /\ FocusTypeOK
  /\ mode \in {"none", "move", "resize"}
  /\ source \in {"pointer", "touch"}
  /\ pointer_down \in BOOLEAN
  /\ touch_down_count \in Nat
  /\ {last_touch_id, origin_touch_id} \subseteq TouchIds \cup {0}
  /\ grabbed \in OrNoOne(Toplevels)
  /\ grab_x \in Int
  /\ grab_box \in [l: Int, r: Int]
  /\ edge \in {"left", "right"}
  /\ grab_touch_lx \in Int
  /\ touch_points \subseteq TouchIds
  /\ node_x \in [Toplevels -> Int]
  /\ asked \in [Toplevels -> Int]
  /\ seat_buttons \subseteq Buttons
  /\ held \subseteq Buttons
  /\ fingers \subseteq TouchIds
  /\ cursor_x \in Int
  /\ finger_x \in [TouchIds -> Int]

\* A pointer-driven grab lives only while a button is held: motion without a button
\* never drags a window (policy.hpp:15-20, 27-33).
PointerGrabIsHeld == Grabbing /\ source = "pointer" => pointer_down /\ held # {}

\* The machine's count of touch points is the number of fingers on the screen, so
\* that engage() never prefers a touch that is over (policy.hpp:79-88, 147-150).
TouchCountIsExact == touch_down_count = Cardinality(fingers)

\* The mode and the target agree: motion never drags a null window and no target is
\* remembered without a grab (policy.hpp:111-115, extension.cpp:354-375).
GrabHasTarget == Grabbing <=> grabbed # NoOne

\* A request that arrives when nothing is down, however late, starts no drag
\* (policy.hpp:32-33).
EngageOnlyWhileHeld ==
  [][ ~Grabbing /\ mode' # "none" => held # {} \/ fingers # {} ]_vars

\* A pointer-driven move keeps the window under the cursor exactly where the grab
\* took hold of it, through every interleaving with touches and other requests
\* (extension.cpp:365-375, 399-415).
MoveFollowsCursor ==
  mode = "move" /\ source = "pointer" => node_x[grabbed] = cursor_x - grab_x

\* A resize never asks a client for an empty or inverted window
\* (extension.cpp:425-446).
ResizeAsksPositive == \A t \in Toplevels : asked[t] >= 1

=============================================================================
