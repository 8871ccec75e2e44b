-------------------------- MODULE InputRoutingProofs --------------------------
(***************************************************************************)
(* The routing of InputRouting for every set of surfaces, buttons, touch   *)
(* points and places.  Its properties are inductive together: the count of *)
(* the grab decides when the owner is forgotten, the owner decides where a *)
(* release goes, and the release is what PressedIsHeld waits for. Keeping  *)
(* the touch mode (TouchMode) does not disturb any of it, and no document  *)
(* is left in its touch layout.                                            *)
(***************************************************************************)
EXTENDS TouchMode, FiniteSetTheorems, WellFoundedInduction, TLAPS

RoutingInv ==
  /\ TypeOK
  /\ ButtonStreamHasOneOwner
  /\ RoutesToLive
  /\ PressedIsHeld
  /\ TouchHasOneOwner

\* A set of positions of a list has a last one.
LEMMA LastExists ==
  ASSUME NEW n \in Nat, NEW S \in SUBSET (1 .. n), S # {}
  PROVE  \E i \in S : \A j \in S : j <= i
<1>. DEFINE T == {n - i : i \in S}
<1>1. T \subseteq Nat /\ T # {}
  <2>1. T \subseteq Nat
    OBVIOUS
  <2>2. PICK i \in S : TRUE
    OBVIOUS
  <2>3. n - i \in T
    BY <2>2
  <2>. QED  BY <2>1, <2>3
<1>2. PICK x \in T : \A y \in T : ~ (<<y, x>> \in OpToRel(<, Nat))
  BY <1>1, NatLessThanWellFounded, WFMin
<1>3. \A y \in T : ~ (y < x)
  BY <1>1, <1>2 DEF OpToRel
<1>4. PICK i \in S : x = n - i
  BY <1>2
<1>5. ASSUME NEW j \in S PROVE j <= i
  BY <1>3, <1>4
<1>. QED  BY <1>5

\* surface_at() finds a surface that exists, or nothing.
LEMMA HitIsLive == ASSUME TypeOK, NEW p \in Points PROVE SurfaceAt(p) \in OrNone(Live)
<1>. DEFINE over == {i \in DOMAIN surfaces : surfaces[i] \in is_visible /\ p \in area[surfaces[i]]}
            last == CHOOSE i \in over : \A j \in over : j <= i
<1>1. Len(surfaces) \in Nat /\ DOMAIN surfaces = 1 .. Len(surfaces)
  BY DEF TypeOK
<1>2. CASE over = {}
  BY <1>2 DEF SurfaceAt, OrNone
<1>3. CASE over # {}
  <2>1. \E i \in over : \A j \in over : j <= i
    BY <1>1, <1>3, LastExists
  <2>2. last \in over
    BY <2>1
  <2>3. SurfaceAt(p) = surfaces[last]
    BY <1>3 DEF SurfaceAt
  <2>. QED  BY <2>2, <2>3 DEF OrNone, Live, Elements
<1>. QED  BY <1>2, <1>3

\* What is left of the list when a surface goes, as a list and as a set.
LEMMA WithoutOne ==
  ASSUME TypeOK, NEW s \in Live
  PROVE  /\ Without(s) \in Seq(Surfaces)
         /\ \A i, j \in DOMAIN Without(s) : Without(s)[i] = Without(s)[j] => i = j
         /\ Elements(Without(s)) = Live \ {s}
<1>. DEFINE k == CHOOSE i \in DOMAIN surfaces : surfaces[i] = s
            w == [i \in 1 .. Len(surfaces) - 1 |-> IF i < k THEN surfaces[i] ELSE surfaces[i + 1]]
<1>1. /\ surfaces \in Seq(Surfaces) /\ Len(surfaces) \in Nat
      /\ DOMAIN surfaces = 1 .. Len(surfaces)
      /\ \A i, j \in DOMAIN surfaces : surfaces[i] = surfaces[j] => i = j
      /\ \A i \in DOMAIN surfaces : surfaces[i] \in Surfaces
  BY DEF TypeOK
<1>2. k \in DOMAIN surfaces /\ surfaces[k] = s
  BY DEF Live, Elements
<1>3. Without(s) = w
  BY DEF Without
<1>. HIDE DEF k
<1>4. w \in [1 .. Len(surfaces) - 1 -> Surfaces] /\ Len(surfaces) - 1 \in Nat
  BY <1>1, <1>2
<1>5. w \in Seq(Surfaces) /\ DOMAIN w = 1 .. Len(surfaces) - 1
  BY <1>4
<1>6. \A i, j \in DOMAIN w : w[i] = w[j] => i = j
  BY <1>1, <1>2, <1>5
<1>7. Elements(w) \subseteq Live \ {s}
  BY <1>1, <1>2, <1>5 DEF Elements, Live
<1>8. ASSUME NEW t \in Live \ {s} PROVE t \in Elements(w)
  <2>1. PICK j \in DOMAIN surfaces : surfaces[j] = t
    BY DEF Live, Elements
  <2>2. CASE j < k
    <3>1. j \in DOMAIN w /\ w[j] = t
      BY <2>1, <2>2, <1>1, <1>2, <1>5
    <3>. QED  BY <3>1 DEF Elements
  <2>3. CASE j > k
    <3>1. j - 1 \in DOMAIN w /\ w[j - 1] = t
      BY <2>1, <2>3, <1>1, <1>2, <1>5
    <3>. QED  BY <3>1 DEF Elements
  <2>. QED  BY <2>1, <2>2, <2>3, <1>1, <1>2
<1>9. Elements(w) = Live \ {s}
  BY <1>7, <1>8
<1>. HIDE DEF w
<1>. QED  BY <1>3, <1>5, <1>6, <1>9

\* The buttons that are down are counted.
LEMMA HeldCount ==
  ASSUME TypeOK
  PROVE  /\ IsFiniteSet(held) /\ Cardinality(held) \in Nat
         /\ Cardinality(held) = 0 <=> held = {}
         /\ \A b \in Buttons \ held :
              Cardinality(held \cup {b}) = Cardinality(held) + 1
         /\ \A b \in held : Cardinality(held \ {b}) = Cardinality(held) - 1
<1>1. IsFiniteSet(held)
  BY RoutingAssumption, FS_Subset DEF TypeOK
<1>. QED  BY <1>1, FS_CardinalityType, FS_EmptySet, FS_AddElement, FS_RemoveElement

LEMMA InitRouting == Init => RoutingInv
<1>. SUFFICES ASSUME Init PROVE RoutingInv
  OBVIOUS
<1>1. TypeOK /\ Live = {}
  BY DEF Init, TypeOK, OrNone, Live, Elements
<1>2. ButtonStreamHasOneOwner
  BY FS_EmptySet DEF Init, ButtonStreamHasOneOwner
<1>. QED  BY <1>1, <1>2, RoutingAssumption
          DEF Init, RoutingInv, RoutesToLive, PressedIsHeld, TouchHasOneOwner, OrNone

\* A new surface changes no route.
LEMMA CreateStep ==
  ASSUME RoutingInv, NEW s \in Surfaces, NEW where \in SUBSET Points, NEW visible \in BOOLEAN,
         CreateSurface(s, where, visible)
  PROVE  RoutingInv'
<1>. USE DEF RoutingInv
<1>1. TypeOK'
  <2>1. /\ surfaces' \in Seq(Surfaces) /\ Len(surfaces') = Len(surfaces) + 1
        /\ \A i \in DOMAIN surfaces : surfaces'[i] = surfaces[i]
        /\ surfaces'[Len(surfaces) + 1] = s /\ DOMAIN surfaces' = 1 .. Len(surfaces) + 1
        /\ Len(surfaces) \in Nat /\ DOMAIN surfaces = 1 .. Len(surfaces)
    BY DEF CreateSurface, TypeOK
  <2>2. \A i \in DOMAIN surfaces : surfaces[i] # s
    BY DEF CreateSurface, Live, Elements
  <2>3. \A i, j \in DOMAIN surfaces' : surfaces'[i] = surfaces'[j] => i = j
    BY <2>1, <2>2 DEF TypeOK
  <2>. QED  BY <2>1, <2>3 DEF CreateSurface, TypeOK, pointer, touch
<1>2. Live \subseteq Live'
  BY DEF CreateSurface, TypeOK, Live, Elements
<1>3. UNCHANGED <<pointer_grab, pointer_grab_surface, touch_capture, pressed, bus_buttons,
                  bus_touch, held, fingers>>
  BY DEF CreateSurface, pointer, touch
<1>. QED  BY <1>1, <1>2, <1>3
          DEF ButtonStreamHasOneOwner, RoutesToLive, PressedIsHeld, TouchHasOneOwner, OrNone

\* Nor does one that moves or hides, or a motion of the cursor.
LEMMA LayoutStep ==
  ASSUME RoutingInv,
         \/ \E s \in Surfaces, where \in SUBSET Points : SetGeometry(s, where)
         \/ \E s \in Surfaces, visible \in BOOLEAN : SetVisible(s, visible)
         \/ \E p \in Points : Motion(p)
  PROVE  RoutingInv'
<1>1. /\ is_visible' \subseteq Surfaces /\ area' \in [Surfaces -> SUBSET Points]
      /\ cursor' \in Points
      /\ UNCHANGED <<surfaces, pointer, touch, pressed>>
  BY DEF RoutingInv, TypeOK, SetGeometry, SetVisible, Motion, Live, Elements, layout
<1>. QED  BY <1>1 DEF RoutingInv, TypeOK, ButtonStreamHasOneOwner, RoutesToLive, PressedIsHeld,
                      TouchHasOneOwner, OrNone, Live, pointer, touch

\* The surface that goes is taken out of every route, and only it.
LEMMA DestroyStep == ASSUME RoutingInv, NEW s \in Surfaces, DestroySurface(s) PROVE RoutingInv'
<1>. USE DEF RoutingInv
<1>1. /\ surfaces' \in Seq(Surfaces)
      /\ \A i, j \in DOMAIN surfaces' : surfaces'[i] = surfaces'[j] => i = j
      /\ Live' = Live \ {s}
  BY WithoutOne DEF DestroySurface, Live
<1>2. TypeOK'
  BY <1>1 DEF DestroySurface, TypeOK, OrNone
<1>3. ButtonStreamHasOneOwner'
  BY DEF DestroySurface, ButtonStreamHasOneOwner
<1>4. \A id \in TouchIds : touch_capture'[id] = IF touch_capture[id] = s THEN NoSurface
                                               ELSE touch_capture[id]
  BY DEF DestroySurface
<1>5. RoutesToLive'
  BY <1>1, <1>4, RoutingAssumption DEF DestroySurface, RoutesToLive, OrNone
<1>6. PressedIsHeld'
  BY <1>4 DEF DestroySurface, PressedIsHeld, TypeOK
<1>7. TouchHasOneOwner'
  BY <1>4 DEF DestroySurface, TouchHasOneOwner
<1>. QED  BY <1>2, <1>3, <1>5, <1>6, <1>7

\* A press joins the grab, or starts one that is the surface's or the bus's.
LEMMA PressStep == ASSUME RoutingInv, NEW b \in Buttons, Press(b) PROVE RoutingInv'
<1>. USE DEF RoutingInv
<1>. DEFINE hit == SurfaceAt(cursor)
            target == IF pointer_grab_surface = NoSurface THEN hit ELSE pointer_grab_surface
<1>1. hit \in OrNone(Live) /\ target \in OrNone(Live)
  BY HitIsLive DEF TypeOK, RoutesToLive
<1>2. Live \subseteq Surfaces /\ NoSurface \notin Live
  BY RoutingAssumption DEF TypeOK, Live, Elements
<1>3. /\ pointer_grab' = GrabPressed(hit # NoSurface) /\ held' = held \cup {b} /\ b \notin held
      /\ UNCHANGED <<layout, touch, cursor>>
      /\ IF pointer_grab'.owner = "substrate"
         THEN pointer_grab_surface' = target /\ pressed' = Down(target) /\ UNCHANGED bus_buttons
         ELSE bus_buttons' = bus_buttons \cup {b} /\ UNCHANGED <<pointer_grab_surface, pressed>>
  BY DEF Press
<1>. HIDE DEF hit, target
<1>4. /\ pointer_grab'.down_count = pointer_grab.down_count + 1
      /\ pointer_grab'.owner = IF pointer_grab.down_count # 0 THEN pointer_grab.owner
                               ELSE IF hit # NoSurface THEN "substrate" ELSE "bus"
      /\ pointer_grab' \in [owner: {"none", "substrate", "bus"}, down_count: Nat]
  BY <1>3 DEF GrabPressed, TypeOK
<1>5. UNCHANGED <<surfaces, is_visible, area, Live, touch_capture, bus_touch, fingers, cursor>>
  BY <1>3 DEF layout, touch, Live
<1>6. TypeOK'
  BY <1>1, <1>2, <1>3, <1>4, <1>5 DEF TypeOK, OrNone, Down
<1>7. ButtonStreamHasOneOwner'
  BY <1>3, <1>4, HeldCount DEF ButtonStreamHasOneOwner
<1>8. RoutesToLive'
  BY <1>1, <1>3, <1>5 DEF RoutesToLive, OrNone, Down
<1>9. PressedIsHeld'
  <2>1. pointer_grab.owner = "substrate" => pointer_grab'.owner = "substrate"
    BY <1>4, HeldCount DEF ButtonStreamHasOneOwner
  <2>2. \A t \in Live : t # NoSurface
    BY <1>2
  <2>. QED  BY <1>3, <1>5, <2>1, <2>2 DEF PressedIsHeld, RoutesToLive, Down, target
<1>10. TouchHasOneOwner'
  BY <1>5 DEF TouchHasOneOwner
<1>. QED  BY <1>6, <1>7, <1>8, <1>9, <1>10

\* A release goes to the owner, and the last one ends the grab.
LEMMA ReleaseStep == ASSUME RoutingInv, NEW b \in Buttons, Release(b) PROVE RoutingInv'
<1>. USE DEF RoutingInv
<1>1. /\ b \in held /\ held' = held \ {b} /\ pointer_grab' = GrabReleased
      /\ UNCHANGED <<layout, touch, cursor>>
      /\ IF pointer_grab.owner = "substrate"
         THEN /\ pressed' = Up(pointer_grab_surface)
              /\ pointer_grab_surface' = IF pointer_grab'.down_count = 0 THEN NoSurface
                                         ELSE pointer_grab_surface
              /\ UNCHANGED bus_buttons
         ELSE bus_buttons' = bus_buttons \ {b} /\ UNCHANGED <<pointer_grab_surface, pressed>>
  BY DEF Release
<1>2. pointer_grab.down_count \in Nat \ {0}
  BY <1>1, HeldCount DEF ButtonStreamHasOneOwner, TypeOK
<1>3. /\ pointer_grab'.down_count = pointer_grab.down_count - 1
      /\ pointer_grab'.owner = IF pointer_grab.down_count = 1 THEN "none" ELSE pointer_grab.owner
      /\ pointer_grab' \in [owner: {"none", "substrate", "bus"}, down_count: Nat]
  BY <1>1, <1>2 DEF GrabReleased, TypeOK
<1>4. UNCHANGED <<surfaces, is_visible, area, Live, touch_capture, bus_touch, fingers, cursor>>
  BY <1>1 DEF layout, touch, Live
<1>5. TypeOK'
  BY <1>1, <1>3, <1>4 DEF TypeOK, OrNone, Up
<1>6. ButtonStreamHasOneOwner'
  <2>1. /\ Cardinality(held') = pointer_grab'.down_count
        /\ held' = {} <=> pointer_grab'.down_count = 0
    BY <1>1, <1>3, HeldCount, FS_RemoveElement, FS_EmptySet, FS_Subset
       DEF ButtonStreamHasOneOwner
  <2>. QED  BY <1>1, <1>2, <1>3, <2>1 DEF ButtonStreamHasOneOwner, TypeOK
<1>7. RoutesToLive'
  BY <1>1, <1>4 DEF RoutesToLive, OrNone, Up
<1>8. PressedIsHeld'
  BY <1>1, <1>2, <1>3, <1>4 DEF PressedIsHeld, Up
<1>9. TouchHasOneOwner'
  BY <1>4 DEF TouchHasOneOwner
<1>. QED  BY <1>5, <1>6, <1>7, <1>8, <1>9

\* A finger that lands is captured by what is under it, or is the bus's.
LEMMA TouchDownStep ==
  ASSUME RoutingInv, NEW id \in TouchIds, NEW p \in Points, TouchDown(id, p)
  PROVE  RoutingInv'
<1>. USE DEF RoutingInv
<1>1. SurfaceAt(p) \in OrNone(Live) /\ Live \subseteq Surfaces /\ NoSurface \notin Live
  BY HitIsLive, RoutingAssumption DEF TypeOK, Live, Elements
<1>2. UNCHANGED <<surfaces, is_visible, area, Live, pointer_grab, pointer_grab_surface,
                  bus_buttons, held, cursor>>
  BY DEF TouchDown, layout, pointer, Live
<1>3. TypeOK'
  BY <1>1, <1>2 DEF TouchDown, TypeOK, OrNone, Down
<1>4. ButtonStreamHasOneOwner'
  BY <1>2 DEF ButtonStreamHasOneOwner
<1>5. touch_capture[id] = NoSurface
  BY DEF TouchDown, TouchHasOneOwner
<1>6. RoutesToLive'
  BY <1>1, <1>2 DEF TouchDown, TypeOK, RoutesToLive, OrNone, Down
<1>7. PressedIsHeld'
  BY <1>1, <1>2, <1>5 DEF TouchDown, TypeOK, PressedIsHeld, RoutesToLive, Down
<1>8. TouchHasOneOwner'
  BY <1>5 DEF TouchDown, TypeOK, TouchHasOneOwner
<1>. QED  BY <1>3, <1>4, <1>6, <1>7, <1>8

\* A finger that lifts lets go of the surface that captured it.
LEMMA TouchUpStep == ASSUME RoutingInv, NEW id \in TouchIds, TouchUp(id) PROVE RoutingInv'
<1>. USE DEF RoutingInv
<1>1. UNCHANGED <<surfaces, is_visible, area, Live, pointer_grab, pointer_grab_surface,
                  bus_buttons, held, cursor>>
  BY DEF TouchUp, layout, pointer, Live
<1>2. TypeOK'
  BY <1>1 DEF TouchUp, TypeOK, OrNone, Up
<1>3. ButtonStreamHasOneOwner'
  BY <1>1 DEF ButtonStreamHasOneOwner
<1>4. RoutesToLive'
  BY <1>1 DEF TouchUp, TypeOK, RoutesToLive, OrNone, Up
<1>5. PressedIsHeld'
  BY <1>1, RoutingAssumption DEF TouchUp, TypeOK, PressedIsHeld, Up
<1>6. TouchHasOneOwner'
  BY DEF TouchUp, TypeOK, TouchHasOneOwner
<1>. QED  BY <1>2, <1>3, <1>4, <1>5, <1>6

\* Nothing else happens.
LEMMA RoutingStep == RoutingInv /\ [Next]_vars => RoutingInv'
<1>. SUFFICES ASSUME RoutingInv, [Next]_vars PROVE RoutingInv'
  OBVIOUS
<1>1. CASE \E s \in Surfaces, where \in SUBSET Points, visible \in BOOLEAN :
             CreateSurface(s, where, visible)
  BY <1>1, CreateStep
<1>2. CASE \E s \in Surfaces, where \in SUBSET Points : SetGeometry(s, where)
  BY <1>2, LayoutStep
<1>3. CASE \E s \in Surfaces, visible \in BOOLEAN : SetVisible(s, visible)
  BY <1>3, LayoutStep
<1>4. CASE \E s \in Surfaces : DestroySurface(s)
  BY <1>4, DestroyStep
<1>5. CASE \E p \in Points : Motion(p)
  BY <1>5, LayoutStep
<1>6. CASE \E b \in Buttons : Press(b)
  BY <1>6, PressStep
<1>7. CASE \E b \in Buttons : Release(b)
  BY <1>7, ReleaseStep
<1>8. CASE \E id \in TouchIds, p \in Points : TouchDown(id, p)
  BY <1>8, TouchDownStep
<1>9. CASE \E id \in TouchIds : TouchUp(id)
  BY <1>9, TouchUpStep
<1>10. CASE UNCHANGED vars
  BY <1>10 DEF RoutingInv, TypeOK, ButtonStreamHasOneOwner, RoutesToLive, PressedIsHeld,
               TouchHasOneOwner, OrNone, Live, vars, layout, pointer, touch
<1>. QED  BY <1>1, <1>2, <1>3, <1>4, <1>5, <1>6, <1>7, <1>8, <1>9, <1>10 DEF Next

LEMMA RoutingAlways == Spec => []RoutingInv
<1>. QED  BY InitRouting, RoutingStep, PTL DEF Spec

\* The routing keeps its types, and a list of surfaces without duplicates.
THEOREM RoutingTypes == Spec => []TypeOK
<1>1. RoutingInv => TypeOK
  BY DEF RoutingInv
<1>. QED  BY <1>1, RoutingAlways, PTL

\* A stream of buttons has one owner from its first press to its last release, and the
\* bus sees no press or release of a stream that is not its own.
THEOREM StreamsAreWhole == Spec => []ButtonStreamHasOneOwner
<1>1. RoutingInv => ButtonStreamHasOneOwner
  BY DEF RoutingInv
<1>. QED  BY <1>1, RoutingAlways, PTL

\* No input is routed to a surface that was destroyed.
THEOREM NoDeadTarget == Spec => []RoutesToLive
<1>1. RoutingInv => RoutesToLive
  BY DEF RoutingInv
<1>. QED  BY <1>1, RoutingAlways, PTL

\* A context whose button is down belongs to a stream that will release it.
THEOREM NoWidgetStuck == Spec => []PressedIsHeld
<1>1. RoutingInv => PressedIsHeld
  BY DEF RoutingInv
<1>. QED  BY <1>1, RoutingAlways, PTL

\* A touch point is the substrate's or the bus's, never both, and only while it is down.
THEOREM TouchesAreOwned == Spec => []TouchHasOneOwner
<1>1. RoutingInv => TouchHasOneOwner
  BY DEF RoutingInv
<1>. QED  BY <1>1, RoutingAlways, PTL

------------------------------------------------------------------------------
(* The touch mode.                                                         *)

ModeInv == ModeTypeOK /\ NeverLeftInTouch

\* A step of the substrate is a step of the routing, or leaves it alone.
LEMMA StepRoutes == [ModeNext]_all => [Next]_vars
<1>. SUFFICES ASSUME [ModeNext]_all PROVE [Next]_vars
  OBVIOUS
<1>1. CASE Unmoved
  BY <1>1 DEF Unmoved, Next
<1>2. CASE \E id \in TouchIds, p \in Points : TouchDownFlips(id, p)
  BY <1>2 DEF TouchDownFlips, Next
<1>3. CASE \E id \in TouchIds : TouchMotion(id)
  BY <1>3 DEF TouchMotion
<1>4. CASE \E p \in Points, early \in BOOLEAN : PointerMotion(p, early)
  BY <1>4 DEF PointerMotion, Next
<1>5. CASE Debounced
  BY <1>5 DEF Debounced
<1>6. CASE \E ov \in Overrides : SetOverride(ov)
  BY <1>6 DEF SetOverride
<1>7. CASE UNCHANGED all
  BY <1>7 DEF all
<1>. QED  BY <1>1, <1>2, <1>3, <1>4, <1>5, <1>6, <1>7 DEF ModeNext

\* A change that is announced leaves the documents with the mode, and one that is not
\* announced leaves them as they were.
LEMMA AnnouncedIsTrue ==
  ASSUME ModeInv, Announce, auto_mode' \in {"pointer", "touch"}, override' \in Overrides
  PROVE  told' \in BOOLEAN /\ (told' => IsTouch')
<1>1. CASE Changed
  BY <1>1 DEF Announce, IsTouch
<1>2. CASE ~Changed
  BY <1>2 DEF Announce, Changed, ModeInv, ModeTypeOK, NeverLeftInTouch, IsTouch
<1>. QED  BY <1>1, <1>2

\* The mode keeps its types, and what the documents were told is not out of date in the
\* direction that matters.
LEMMA ModeStep == ModeInv /\ [ModeNext]_all => ModeInv'
<1>. SUFFICES ASSUME ModeInv, [ModeNext]_all PROVE ModeInv'
  OBVIOUS
<1>. USE DEF ModeInv, ModeTypeOK, NeverLeftInTouch
<1>1. CASE Unmoved \/ UNCHANGED all
  <2>1. UNCHANGED <<auto_mode, override, shadow, told>>
    BY <1>1 DEF Unmoved, all, mode
  <2>. QED  BY <2>1 DEF IsTouch
<1>2. CASE \E id \in TouchIds, p \in Points : TouchDownFlips(id, p)
  <2>1. auto_mode' \in {"pointer", "touch"} /\ override' \in Overrides /\ shadow' \in BOOLEAN
        /\ Announce
    BY <1>2 DEF TouchDownFlips, OnTouch
  <2>. QED  BY <2>1, AnnouncedIsTrue
<1>3. CASE \E id \in TouchIds : TouchMotion(id)
  <2>1. auto_mode' = "touch" /\ override' = override /\ shadow' = TRUE /\ told' = told
    BY <1>3 DEF TouchMotion, OnTouch
  <2>. QED  BY <2>1 DEF IsTouch, Effective, Overrides
<1>4. CASE \E p \in Points, early \in BOOLEAN : PointerMotion(p, early)
  <2>1. auto_mode' \in {"pointer", "touch"} /\ override' \in Overrides /\ shadow' \in BOOLEAN
        /\ Announce
    BY <1>4 DEF PointerMotion
  <2>. QED  BY <2>1, AnnouncedIsTrue
<1>5. CASE Debounced
  BY <1>5 DEF Debounced, IsTouch
<1>6. CASE \E ov \in Overrides : SetOverride(ov)
  <2>1. auto_mode' \in {"pointer", "touch"} /\ override' \in Overrides /\ shadow' \in BOOLEAN
        /\ Announce
    BY <1>6 DEF SetOverride
  <2>. QED  BY <2>1, AnnouncedIsTrue
<1>. QED  BY <1>1, <1>2, <1>3, <1>4, <1>5, <1>6 DEF ModeNext

\* The touch mode does not disturb the routing: every behaviour of the substrate is one of
\* InputRouting (ui_core.hpp: the tracker "returns whether the effective mode CHANGED" and
\* decides no route).
THEOREM RoutingGoesOn == ModeSpec => Spec
<1>1. ModeInit => Init
  BY DEF ModeInit
<1>. QED  BY <1>1, StepRoutes, PTL DEF ModeSpec, Spec

\* A document that was told that touch mode began is told when it ends.
THEOREM TouchEndsAreTold == ModeSpec => []NeverLeftInTouch
<1>1. ModeInit => ModeInv
  BY DEF ModeInit, ModeInv, ModeTypeOK, NeverLeftInTouch, Overrides
<1>2. ModeInv => NeverLeftInTouch
  BY DEF ModeInv
<1>. QED  BY <1>1, <1>2, ModeStep, PTL DEF ModeSpec

=============================================================================
