---------------------------- MODULE InputRouting ----------------------------
(***************************************************************************)
(* Who gets the input: the cursor and touch handlers of                    *)
(* kernel/src/input.cpp, which offer each event to the UI substrate first  *)
(* (kernel/src/ui_substrate.cpp) and emit on the bus what it does not       *)
(* consume.                                                                *)
(*                                                                         *)
(* The owner of a stream is fixed when it starts, but UI surfaces come,    *)
(* go, move and hide at any moment, also from the callbacks of the stream  *)
(* itself (RmlUi does not survive a document that destroys its own         *)
(* surface, so a callback destroys others; those handlers do not use       *)
(* anything such a callback changes, and are one step).                    *)
(*                                                                         *)
(* External: RmlUi keeps one mouse button per context.  `held', `fingers'  *)
(* and `cursor' are the physical input.                                    *)
(***************************************************************************)
EXTENDS Integers, Sequences, FiniteSets

CONSTANTS
  Surfaces, NoSurface,   \* UI surfaces; nullptr
  Points,                \* places of the layout
  Buttons, TouchIds

ASSUME RoutingAssumption ==
  /\ NoSurface \notin Surfaces
  /\ IsFiniteSet(Buttons)

VARIABLES
  surfaces,       \* Impl::surfaces, in creation order
  is_visible,     \* those shown
  area,           \* [Surfaces -> SUBSET Points]: position and size
  pointer_grab,   \* PointerButtonGrab: [owner, down_count]
  pointer_grab_surface,
  touch_capture,  \* [TouchIds -> Surfaces or NoSurface]
  pressed,        \* surfaces whose context has the button down
  bus_buttons,    \* buttons whose press went to the bus and whose release did not
  bus_touch,      \* touch points whose down went to the bus, and neither up nor cancel
  held, fingers, cursor

layout == <<surfaces, is_visible, area>>
pointer == <<pointer_grab, pointer_grab_surface, bus_buttons, held>>
touch == <<touch_capture, bus_touch, fingers>>
vars == <<layout, pointer, touch, pressed, cursor>>

Elements(s) == {s[i] : i \in DOMAIN s}
Live == Elements(surfaces)
OrNone(S) == S \cup {NoSurface}

\* surfaces.remove_if.
Without(s) ==
  LET k == CHOOSE i \in DOMAIN surfaces : surfaces[i] = s
  IN  [i \in 1 .. Len(surfaces) - 1 |-> IF i < k THEN surfaces[i] ELSE surfaces[i + 1]]

\* surface_at(): the last created of the visible surfaces over the point.
SurfaceAt(p) ==
  LET over == {i \in DOMAIN surfaces : surfaces[i] \in is_visible /\ p \in area[surfaces[i]]}
  IN  IF over = {} THEN NoSurface
      ELSE surfaces[CHOOSE i \in over : \A j \in over : j <= i]

\* ctx_button() of a surface, or of none: its context has the button down or up.
Down(s) == pressed \cup ({s} \cap Live)
Up(s) == pressed \ {s}

-----------------------------------------------------------------------------
Init ==
  /\ surfaces = <<>>
  /\ is_visible = {}
  /\ area = [s \in Surfaces |-> {}]
  /\ pointer_grab = [owner |-> "none", down_count |-> 0]
  /\ pointer_grab_surface = NoSurface
  /\ touch_capture = [id \in TouchIds |-> NoSurface]
  /\ pressed = {}
  /\ bus_buttons = {} /\ bus_touch = {}
  /\ held = {} /\ fingers = {}
  /\ cursor \in Points

CreateSurface(s, where, visible) ==
  /\ s \notin Live
  /\ surfaces' = Append(surfaces, s)
  /\ is_visible' = IF visible THEN is_visible \cup {s} ELSE is_visible
  /\ area' = [area EXCEPT ![s] = where]
  /\ UNCHANGED <<pointer, touch, pressed, cursor>>

SetVisible(s, visible) ==
  /\ s \in Live
  /\ is_visible' = IF visible THEN is_visible \cup {s} ELSE is_visible \ {s}
  /\ UNCHANGED <<surfaces, area, pointer, touch, pressed, cursor>>

\* set_position(), set_size().
SetGeometry(s, where) ==
  /\ s \in Live
  /\ area' = [area EXCEPT ![s] = where]
  /\ UNCHANGED <<surfaces, is_visible, pointer, touch, pressed, cursor>>

\* Mutant of DestroySurface: its pointer grab ends with it.
DestroyEndsGrab(s) ==
  /\ s \in Live
  /\ surfaces' = Without(s)
  /\ is_visible' = is_visible \ {s}
  /\ pressed' = pressed \ {s}
  /\ IF pointer_grab_surface = s
     THEN /\ pointer_grab_surface' = NoSurface
          /\ pointer_grab' = [owner |-> "none", down_count |-> 0]
     ELSE UNCHANGED <<pointer_grab, pointer_grab_surface>>
  /\ touch_capture' = [id \in TouchIds |->
                         IF touch_capture[id] = s THEN NoSurface ELSE touch_capture[id]]
  /\ UNCHANGED <<area, bus_buttons, held, bus_touch, fingers, cursor>>

\* destroy_surface(): the pointer grab keeps its owner and loses its surface, the touch
\* points it captured are let go.
DestroySurface(s) ==
  /\ s \in Live
  /\ surfaces' = Without(s)
  /\ is_visible' = is_visible \ {s}
  /\ pressed' = pressed \ {s}
  /\ pointer_grab_surface' = IF pointer_grab_surface = s THEN NoSurface
                             ELSE pointer_grab_surface
  /\ touch_capture' = [id \in TouchIds |->
                         IF touch_capture[id] = s THEN NoSurface ELSE touch_capture[id]]
  /\ UNCHANGED <<area, pointer_grab, bus_buttons, held, bus_touch, fingers, cursor>>

\* Motion is shown to the substrate and always emitted.
Motion(p) ==
  /\ cursor' = p
  /\ UNCHANGED <<layout, pointer, touch, pressed>>

\* PointerButtonGrab::press(), release().
GrabPressed(over) ==
  [owner |-> IF pointer_grab.down_count # 0 THEN pointer_grab.owner
             ELSE IF over THEN "substrate" ELSE "bus",
   down_count |-> pointer_grab.down_count + 1]
GrabReleased ==
  IF pointer_grab.down_count = 0 THEN pointer_grab
  ELSE [owner |-> IF pointer_grab.down_count = 1 THEN "none" ELSE pointer_grab.owner,
        down_count |-> pointer_grab.down_count - 1]

\* A button goes down: the press decides or joins the grab.
Press(b) ==
  /\ b \notin held
  /\ held' = held \cup {b}
  /\ LET hit == SurfaceAt(cursor)
         target == IF pointer_grab_surface = NoSurface THEN hit ELSE pointer_grab_surface
     IN  /\ pointer_grab' = GrabPressed(hit # NoSurface)
         /\ IF pointer_grab'.owner = "substrate"
            THEN /\ pointer_grab_surface' = target
                 /\ pressed' = Down(target)
                 /\ UNCHANGED bus_buttons
            ELSE /\ bus_buttons' = bus_buttons \cup {b}
                 /\ UNCHANGED <<pointer_grab_surface, pressed>>
  /\ UNCHANGED <<layout, touch, cursor>>

\* A button comes up: its grab's owner gets it, wherever the cursor is.
Release(b) ==
  /\ b \in held
  /\ held' = held \ {b}
  /\ pointer_grab' = GrabReleased
  /\ IF pointer_grab.owner = "substrate"
     THEN /\ pressed' = Up(pointer_grab_surface)
          /\ pointer_grab_surface' = IF pointer_grab'.down_count = 0 THEN NoSurface
                                     ELSE pointer_grab_surface
          /\ UNCHANGED bus_buttons
     ELSE /\ bus_buttons' = bus_buttons \ {b}
          /\ UNCHANGED <<pointer_grab_surface, pressed>>
  /\ UNCHANGED <<layout, touch, cursor>>

\* A finger lands: what is under it owns the touch.
TouchDown(id, p) ==
  /\ id \notin fingers
  /\ fingers' = fingers \cup {id}
  /\ LET hit == SurfaceAt(p)
     IN  IF hit # NoSurface
         THEN /\ touch_capture' = [touch_capture EXCEPT ![id] = hit]
              /\ pressed' = Down(hit)
              /\ UNCHANGED bus_touch
         ELSE /\ bus_touch' = bus_touch \cup {id}
              /\ UNCHANGED <<touch_capture, pressed>>
  /\ UNCHANGED <<layout, pointer, cursor>>

\* A finger lifts, or the touch is cancelled: the button of the surface that captured
\* it comes up, or the bus is told.
TouchUp(id) ==
  /\ id \in fingers
  /\ fingers' = fingers \ {id}
  /\ IF touch_capture[id] # NoSurface
     THEN /\ touch_capture' = [touch_capture EXCEPT ![id] = NoSurface]
          /\ pressed' = Up(touch_capture[id])
          /\ UNCHANGED bus_touch
     ELSE /\ bus_touch' = bus_touch \ {id}
          /\ UNCHANGED <<touch_capture, pressed>>
  /\ UNCHANGED <<layout, pointer, cursor>>

Next ==
  \/ \E s \in Surfaces, where \in SUBSET Points, visible \in BOOLEAN :
       CreateSurface(s, where, visible)
  \/ \E s \in Surfaces, where \in SUBSET Points : SetGeometry(s, where)
  \/ \E s \in Surfaces, visible \in BOOLEAN : SetVisible(s, visible)
  \/ \E s \in Surfaces : DestroySurface(s)
  \/ \E p \in Points : Motion(p)
  \/ \E b \in Buttons : Press(b) \/ Release(b)
  \/ \E id \in TouchIds, p \in Points : TouchDown(id, p)
  \/ \E id \in TouchIds : TouchUp(id)

Spec == Init /\ [][Next]_vars

-----------------------------------------------------------------------------
TypeOK ==
  /\ surfaces \in Seq(Surfaces)
  /\ \A i, j \in DOMAIN surfaces : surfaces[i] = surfaces[j] => i = j
  /\ is_visible \subseteq Surfaces
  /\ area \in [Surfaces -> SUBSET Points]
  /\ pointer_grab \in [owner: {"none", "substrate", "bus"}, down_count: Nat]
  /\ pointer_grab_surface \in OrNone(Surfaces)
  /\ touch_capture \in [TouchIds -> OrNone(Surfaces)]
  /\ pressed \subseteq Surfaces
  /\ bus_buttons \subseteq Buttons
  /\ bus_touch \subseteq TouchIds
  /\ held \subseteq Buttons
  /\ fingers \subseteq TouchIds
  /\ cursor \in Points

\* The grab knows how many buttons are down and has an owner exactly while some are; the
\* bus has seen the press of every held button of its own streams and of no other
\* (host.hpp:262-270), also when the surface of the stream is gone (host.hpp:274-276).
ButtonStreamHasOneOwner ==
  /\ pointer_grab.down_count = Cardinality(held)
  /\ pointer_grab.owner = "none" <=> held = {}
  /\ bus_buttons = IF pointer_grab.owner = "bus" THEN held ELSE {}

\* Nothing is routed to a surface that was destroyed.
RoutesToLive ==
  /\ pointer_grab_surface \in OrNone(Live)
  /\ \A id \in TouchIds : touch_capture[id] \in OrNone(Live)
  /\ pressed \subseteq Live

\* A widget that was pressed is released: a context whose button is down belongs to a
\* stream that is still going on, whatever other streams, moves and hides intervene.
PressedIsHeld ==
  \A s \in pressed :
    \/ pointer_grab_surface = s /\ pointer_grab.owner = "substrate"
    \/ \E id \in fingers : touch_capture[id] = s

\* A touch point is the substrate's or the bus's, and neither keeps one that lifted
\* (host.hpp:271-273).
TouchHasOneOwner ==
  \A id \in TouchIds :
    /\ id \in bus_touch => touch_capture[id] = NoSurface
    /\ id \in bus_touch \/ touch_capture[id] # NoSurface => id \in fingers

=============================================================================
