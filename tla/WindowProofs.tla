---------------------------- MODULE WindowProofs ----------------------------
(***************************************************************************)
(* Proofs about XdgInput and StageWindows, for any number of windows,      *)
(* buttons, fingers and slots and every geometry.                          *)
(*                                                                         *)
(* XdgInput: PointerGrabIsHeld is inductive only together with what the    *)
(* machine believes of the buttons (a pressed flag implies a held button); *)
(* the promise about requests needs the touch count to be exact, which in  *)
(* turn needs the count of a finite set to follow its members one by one;  *)
(* that a resize never asks for an empty window needs the box it started   *)
(* from not to be empty.                                                   *)
(*                                                                         *)
(* StageWindows: the agreement of the followers with the windows           *)
(* (BorrowsAreMapped) is what lets note_focused() find a window, hence     *)
(* what keeps the ring's cursor on the focus; and the focused window can   *)
(* be left where it is in the scene because it was above every visible     *)
(* window before, which needs places that no two windows share (Stacked)   *)
(* and that the seat enters a window only with a keyboard.                 *)
(***************************************************************************)
EXTENDS XdgInput, StageWindows, ListsProofs, SequenceTheorems, FiniteSetTheorems, TLAPS

\* What the machine takes for a pressed pointer is a pressed pointer.
DownIsHeld == pointer_down => held # {}

\* The inductive invariant.
GrabInv ==
  /\ TypeOK
  /\ DownIsHeld
  /\ PointerGrabIsHeld
  /\ TouchCountIsExact
  /\ GrabHasTarget

\* Removing a node or putting it on top of others keeps every place a number.
LEMMA PlaceType ==
  ASSUME FocusTypeOK, NEW t \in Toplevels, NEW p \in Nat
  PROVE  Place(t, p) \in [Toplevels -> Nat]
  BY DEF FocusTypeOK, Place

LEMMA RaiseType ==
  ASSUME FocusTypeOK, NEW t \in Toplevels
  PROVE  RaiseToTop(t) \in [Toplevels -> Nat]
  <1>1. IsFiniteSet(InScene \cup {t})
    BY FS_Subset, FocusAssumption DEF InScene
  <1>2. Cardinality(InScene \cup {t}) \in Nat
    BY <1>1, FS_CardinalityType
  <1> QED BY <1>2, PlaceType DEF RaiseToTop

LEMMA FocusType ==
  ASSUME FocusTypeOK, NEW t \in Toplevels, FocusToplevel(t)
  PROVE  /\ activated' \subseteq Toplevels
         /\ kb_focus' \in Toplevels \cup {NoOne, Elsewhere}
         /\ level' \in [Toplevels -> Nat]
  BY RaiseType DEF FocusTypeOK, FocusToplevel

LEMMA FocusHitType ==
  ASSUME FocusTypeOK, NEW hit \in OrNoOne(Visible), FocusHit(hit),
         UNCHANGED <<win, hidden>>
  PROVE  FocusTypeOK'
  <1>1. CASE hit = NoOne
    BY <1>1 DEF FocusHit, FocusTypeOK
  <1>2. CASE hit # NoOne
    <2>1. hit \in Toplevels
      BY <1>2 DEF OrNoOne, Visible, Mapped
    <2> QED BY <1>2, <2>1, FocusType DEF FocusHit, FocusTypeOK
  <1> QED BY <1>1, <1>2

\* The window handlers keep the types of the windows.
LEMMA WindowTypes ==
  ASSUME FocusTypeOK, NEW t \in Toplevels,
         NewToplevel(t) \/ Configure(t) \/ MapWindow(t) \/ UnmapWindow(t) \/ DestroyWindow(t)
  PROVE  FocusTypeOK'
  <1>1. CASE NewToplevel(t)
    BY <1>1, RaiseType DEF NewToplevel, FocusTypeOK, Life
  <1>2. CASE Configure(t)
    BY <1>2 DEF Configure, FocusTypeOK, Life
  <1>3. CASE MapWindow(t)
    BY <1>3, FocusType DEF MapWindow, FocusTypeOK, Life
  <1>4. CASE UnmapWindow(t)
    BY <1>4 DEF UnmapWindow, FocusTypeOK, Life
  <1>5. CASE DestroyWindow(t)
    BY <1>5, PlaceType DEF DestroyWindow, FocusTypeOK, Life
  <1> QED BY <1>1, <1>2, <1>3, <1>4, <1>5

LEMMA FingersFinite ==
  ASSUME TypeOK
  PROVE  IsFiniteSet(fingers)
  BY InputAssumption, FS_Subset DEF TypeOK

\* Initially no grab is on and nothing is down.
LEMMA InitGrab == Init => GrabInv
  <1> SUFFICES ASSUME Init PROVE GrabInv
    OBVIOUS
  <1>1. FocusTypeOK
    BY FocusAssumption DEF Init, InitFocus, FocusTypeOK, Life
  <1>2. TypeOK
    <2>1. /\ [t \in Toplevels |-> 0] \in [Toplevels -> Int]
          /\ [t \in Toplevels |-> InitialWidth] \in [Toplevels -> Int]
          /\ [f \in TouchIds |-> 0] \in [TouchIds -> Int]
      BY DEF InitialWidth
    <2>2. [l |-> 0, r |-> 0] \in [l: Int, r: Int]
      OBVIOUS
    <2> QED BY <1>1, <2>1, <2>2 DEF Init, TypeOK, OrNoOne
  <1>3. TouchCountIsExact
    BY FS_EmptySet DEF Init, TouchCountIsExact
  <1>4. DownIsHeld /\ PointerGrabIsHeld /\ GrabHasTarget
    BY DEF Init, DownIsHeld, PointerGrabIsHeld, GrabHasTarget, Grabbing
  <1> QED BY <1>2, <1>3, <1>4 DEF GrabInv

LEMMA PressKeepsGrab ==
  ASSUME GrabInv, NEW b \in Buttons, NEW hit \in OrNoOne(Visible), Press(b, hit)
  PROVE  GrabInv'
  <1>1. FocusTypeOK'
    <2>1. CASE Grabbing
      BY <2>1 DEF Press, GrabInv, TypeOK, FocusTypeOK
    <2>2. CASE ~Grabbing
      BY <2>2, FocusHitType DEF Press, GrabInv, TypeOK
    <2> QED BY <2>1, <2>2
  <1>2. TypeOK'
    BY <1>1 DEF Press, KeepGrab, geometry, GrabInv, TypeOK
  <1> QED BY <1>2
    DEF Press, KeepGrab, GrabInv, DownIsHeld, PointerGrabIsHeld, TouchCountIsExact,
        GrabHasTarget, Grabbing

LEMMA ReleaseKeepsGrabInv ==
  ASSUME GrabInv, NEW b \in Buttons, Release(b)
  PROVE  GrabInv'
  <1>1. TypeOK'
    BY DEF Release, EndGrab, KeepGrab, geometry, focusVars, GrabInv, TypeOK, FocusTypeOK,
           OrNoOne
  <1> QED BY <1>1
    DEF Release, EndGrab, KeepGrab, GrabInv, DownIsHeld, PointerGrabIsHeld,
        TouchCountIsExact, GrabHasTarget, Grabbing, TouchDriven

LEMMA DragType ==
  ASSUME TypeOK, NEW lx \in Int, DragTo(lx)
  PROVE  node_x' \in [Toplevels -> Int] /\ asked' \in [Toplevels -> Int]
  BY DEF TypeOK, DragTo

LEMMA CursorKeepsGrab ==
  ASSUME GrabInv, NEW x \in Positions, Cursor(x)
  PROVE  GrabInv'
  <1>1. x \in Int
    BY InputAssumption
  <1>2. node_x' \in [Toplevels -> Int] /\ asked' \in [Toplevels -> Int]
    BY <1>1, DragType DEF Cursor, GrabInv, TypeOK
  <1>3. TypeOK'
    BY <1>1, <1>2 DEF Cursor, machine, focusVars, GrabInv, TypeOK, FocusTypeOK
  <1> QED BY <1>3
    DEF Cursor, machine, GrabInv, DownIsHeld, PointerGrabIsHeld, TouchCountIsExact,
        GrabHasTarget, Grabbing

LEMMA TouchDownKeepsGrab ==
  ASSUME GrabInv, NEW f \in TouchIds, NEW x \in Positions, NEW hit \in OrNoOne(Visible),
         TouchDown(f, x, hit)
  PROVE  GrabInv'
  <1>1. x \in Int
    BY InputAssumption
  <1>2. FocusTypeOK'
    BY FocusHitType DEF TouchDown, GrabInv, TypeOK
  <1>3. TypeOK'
    BY <1>1, <1>2 DEF TouchDown, geometry, GrabInv, TypeOK
  <1>4. Cardinality(fingers \cup {f}) = Cardinality(fingers) + 1
    BY FingersFinite, FS_AddElement DEF TouchDown, GrabInv
  <1> QED BY <1>3, <1>4
    DEF TouchDown, GrabInv, DownIsHeld, PointerGrabIsHeld, TouchCountIsExact,
        GrabHasTarget, Grabbing

LEMMA TouchMotionKeepsGrab ==
  ASSUME GrabInv, NEW f \in TouchIds, NEW x \in Positions, TouchMotion(f, x)
  PROVE  GrabInv'
  <1>1. x \in Int
    BY InputAssumption
  <1>2. node_x' \in [Toplevels -> Int] /\ asked' \in [Toplevels -> Int]
    BY <1>1, DragType DEF TouchMotion, GrabInv, TypeOK
  <1>3. TypeOK'
    BY <1>1, <1>2 DEF TouchMotion, machine, focusVars, GrabInv, TypeOK, FocusTypeOK
  <1> QED BY <1>3
    DEF TouchMotion, machine, GrabInv, DownIsHeld, PointerGrabIsHeld, TouchCountIsExact,
        GrabHasTarget, Grabbing

LEMMA TouchLiftKeepsGrab ==
  ASSUME GrabInv, NEW f \in TouchIds, TouchLift(f)
  PROVE  GrabInv'
  <1>1. /\ Cardinality(fingers) \in Nat
        /\ Cardinality(fingers \ {f}) = Cardinality(fingers) - 1
    BY FingersFinite, FS_RemoveElement, FS_CardinalityType DEF TouchLift, GrabInv
  <1>2. Cardinality(fingers \ {f}) \in Nat
    BY FingersFinite, FS_RemoveElement, FS_CardinalityType DEF GrabInv
  <1>3. touch_down_count' = Cardinality(fingers')
    BY <1>1, <1>2 DEF TouchLift, GrabInv, TouchCountIsExact
  <1>4. TypeOK'
    BY <1>2, <1>3 DEF TouchLift, EndGrab, KeepGrab, geometry, focusVars, GrabInv, TypeOK,
                      FocusTypeOK, OrNoOne
  <1> QED BY <1>3, <1>4
    DEF TouchLift, EndGrab, KeepGrab, GrabInv, DownIsHeld, PointerGrabIsHeld,
        TouchCountIsExact, GrabHasTarget, Grabbing, TouchDriven

LEMMA EngageType ==
  ASSUME TypeOK, NEW m \in {"move", "resize"}, Engage(m), InputIsDown
  PROVE  /\ mode' = m
         /\ source' \in {"pointer", "touch"}
         /\ source' = "pointer" => pointer_down
         /\ origin_touch_id' \in TouchIds \cup {0}
         /\ DriverPosition \in Int
  BY DEF TypeOK, Engage, InputIsDown, DriverPosition

LEMMA BeginKeepsGrab ==
  ASSUME GrabInv, NEW t \in Toplevels,
         BeginMove(t) \/ \E e \in {"left", "right"} : BeginResize(t, e)
  PROVE  GrabInv'
  <1>1. CASE BeginMove(t)
    <2>1. TypeOK'
      BY <1>1, EngageType DEF BeginMove, focusVars, physical, GrabInv, TypeOK, FocusTypeOK,
                              OrNoOne
    <2> QED BY <1>1, <2>1, EngageType, FocusAssumption
      DEF BeginMove, physical, GrabInv, DownIsHeld, PointerGrabIsHeld, TouchCountIsExact,
          GrabHasTarget, Grabbing
  <1>2. ASSUME NEW e \in {"left", "right"}, BeginResize(t, e)
        PROVE  GrabInv'
    <2>1. node_x[t] \in Int /\ asked[t] \in Int
      BY DEF GrabInv, TypeOK
    <2>2. TypeOK'
      BY <1>2, <2>1, EngageType DEF BeginResize, focusVars, physical, GrabInv, TypeOK,
                                    FocusTypeOK, OrNoOne
    <2> QED BY <1>2, <2>2, EngageType, FocusAssumption
      DEF BeginResize, physical, GrabInv, DownIsHeld, PointerGrabIsHeld, TouchCountIsExact,
          GrabHasTarget, Grabbing
  <1> QED BY <1>1, <1>2

LEMMA WindowsKeepGrab ==
  ASSUME GrabInv, NEW t \in Toplevels,
         Create(t) \/ AckConfigure(t) \/ Map(t) \/ Unmap(t) \/ Destroy(t)
  PROVE  GrabInv'
  <1>1. FocusTypeOK'
    BY WindowTypes DEF Create, AckConfigure, Map, Unmap, Destroy, GrabInv, TypeOK
  <1>2. CASE Create(t) \/ AckConfigure(t) \/ Map(t) \/ Destroy(t)
    <2>1. WindowsOnly
      BY <1>2 DEF Create, AckConfigure, Map, Destroy
    <2>2. TypeOK'
      BY <1>1, <2>1 DEF WindowsOnly, machine, geometry, physical, GrabInv, TypeOK
    <2> QED BY <2>1, <2>2
      DEF WindowsOnly, machine, physical, GrabInv, DownIsHeld, PointerGrabIsHeld,
          TouchCountIsExact, GrabHasTarget, Grabbing
  <1>3. CASE Unmap(t)
    <2>1. TypeOK'
      BY <1>1, <1>3 DEF Unmap, EndGrab, KeepGrab, geometry, physical, GrabInv, TypeOK, OrNoOne
    <2> QED BY <1>3, <2>1
      DEF Unmap, EndGrab, KeepGrab, physical, GrabInv, DownIsHeld, PointerGrabIsHeld,
          TouchCountIsExact, GrabHasTarget, Grabbing
  <1> QED BY <1>2, <1>3

LEMMA StutterKeepsGrab ==
  ASSUME GrabInv, UNCHANGED vars
  PROVE  GrabInv'
  BY DEF vars, focusVars, machine, geometry, physical, GrabInv, TypeOK, FocusTypeOK,
         DownIsHeld, PointerGrabIsHeld, TouchCountIsExact, GrabHasTarget, Grabbing

\* Every step keeps the inductive invariant.
LEMMA NextKeepsGrab == GrabInv /\ [Next]_vars => GrabInv'
  <1> SUFFICES ASSUME GrabInv, [Next]_vars PROVE GrabInv'
    OBVIOUS
  <1>1. ASSUME NEW b \in Buttons, NEW hit \in OrNoOne(Visible), Press(b, hit) PROVE GrabInv'
    BY <1>1, PressKeepsGrab
  <1>2. ASSUME NEW b \in Buttons, Release(b) PROVE GrabInv'
    BY <1>2, ReleaseKeepsGrabInv
  <1>3. ASSUME NEW x \in Positions, Cursor(x) PROVE GrabInv'
    BY <1>3, CursorKeepsGrab
  <1>4. ASSUME NEW f \in TouchIds, NEW x \in Positions, NEW hit \in OrNoOne(Visible),
               TouchDown(f, x, hit)
        PROVE  GrabInv'
    BY <1>4, TouchDownKeepsGrab
  <1>5. ASSUME NEW f \in TouchIds, NEW x \in Positions, TouchMotion(f, x) PROVE GrabInv'
    BY <1>5, TouchMotionKeepsGrab
  <1>6. ASSUME NEW f \in TouchIds, TouchLift(f) PROVE GrabInv'
    BY <1>6, TouchLiftKeepsGrab
  <1>7. ASSUME NEW t \in Toplevels,
               BeginMove(t) \/ \E e \in {"left", "right"} : BeginResize(t, e)
        PROVE  GrabInv'
    BY <1>7, BeginKeepsGrab
  <1>8. ASSUME NEW t \in Toplevels,
               Create(t) \/ AckConfigure(t) \/ Map(t) \/ Unmap(t) \/ Destroy(t)
        PROVE  GrabInv'
    BY <1>8, WindowsKeepGrab
  <1>9. CASE UNCHANGED vars
    BY <1>9, StutterKeepsGrab
  <1> QED BY <1>1, <1>2, <1>3, <1>4, <1>5, <1>6, <1>7, <1>8, <1>9 DEF Next

\* The input handlers and the grab machine keep their types.
THEOREM InputTypes == Spec => []TypeOK
  <1>1. GrabInv => TypeOK
    BY DEF GrabInv
  <1> QED BY <1>1, InitGrab, NextKeepsGrab, PTL DEF Spec

\* A pointer-driven grab is never on without a button held, for any number of
\* buttons, windows and fingers (policy.hpp:27-33).
THEOREM PointerGrabEnds == Spec => []PointerGrabIsHeld
  <1>1. GrabInv => PointerGrabIsHeld
    BY DEF GrabInv
  <1> QED BY <1>1, InitGrab, NextKeepsGrab, PTL DEF Spec

\* The counter of policy.hpp:168 is the number of fingers on the screen.
THEOREM TouchesCounted == Spec => []TouchCountIsExact
  <1>1. GrabInv => TouchCountIsExact
    BY DEF GrabInv
  <1> QED BY <1>1, InitGrab, NextKeepsGrab, PTL DEF Spec

\* The machine's mode and the window it grabbed are set and dropped together.
THEOREM TargetWithGrab == Spec => []GrabHasTarget
  <1>1. GrabInv => GrabHasTarget
    BY DEF GrabInv
  <1> QED BY <1>1, InitGrab, NextKeepsGrab, PTL DEF Spec

\* No request, however late, starts a grab with nothing held (policy.hpp:32-33).
THEOREM NoUnheldEngage == Spec => EngageOnlyWhileHeld
  <1> DEFINE Held == ~Grabbing /\ mode' # "none" => held # {} \/ fingers # {}
  <1>1. ASSUME GrabInv, InputIsDown PROVE held # {} \/ fingers # {}
    <2>1. CASE fingers = {}
      <3>1. touch_down_count = 0
        BY <1>1, <2>1, FS_EmptySet DEF GrabInv, TouchCountIsExact
      <3> QED BY <1>1, <3>1 DEF InputIsDown, GrabInv, DownIsHeld
    <2> QED BY <2>1
  <1>2. ASSUME GrabInv, [Next]_vars PROVE Held
    <2>1. CASE \E t \in Toplevels :
                 BeginMove(t) \/ \E e \in {"left", "right"} : BeginResize(t, e)
      BY <1>1, <1>2, <2>1 DEF BeginMove, BeginResize
    <2>2. CASE ~ \E t \in Toplevels :
                   BeginMove(t) \/ \E e \in {"left", "right"} : BeginResize(t, e)
      <3> SUFFICES ASSUME ~Grabbing PROVE mode' = "none"
        OBVIOUS
      <3>1. mode = "none"
        BY DEF Grabbing
      <3> QED BY <1>2, <2>2, <3>1
        DEF Next, vars, machine, Press, Release, Cursor, TouchDown, TouchMotion, TouchLift,
            KeepGrab, EndGrab, Create, AckConfigure, Map, Unmap, Destroy, WindowsOnly
    <2> QED BY <2>1, <2>2
  <1>3. ASSUME GrabInv, [Next]_vars PROVE [Held]_vars
    BY <1>2, <1>3
  <1> QED BY <1>3, InitGrab, NextKeepsGrab, PTL DEF Spec, EngageOnlyWhileHeld

\* A resize always has a box to work on, which is what makes the edge stop in time.
GrabHasBox == mode = "resize" => grab_box.l < grab_box.r

DragInv == GrabInv /\ MoveFollowsCursor /\ ResizeAsksPositive /\ GrabHasBox

LEMMA InitDrag == Init => DragInv
  <1> SUFFICES ASSUME Init PROVE DragInv
    OBVIOUS
  <1>1. \A t \in Toplevels : asked[t] = 2
    BY DEF Init, InitialWidth
  <1> QED BY <1>1, InitGrab DEF Init, DragInv, MoveFollowsCursor, ResizeAsksPositive, GrabHasBox

\* The driver moves the grabbed window; an edge stops one pixel short of the other.
LEMMA DragKeeps ==
  ASSUME DragInv, Grabbing, NEW lx \in Int, DragTo(lx)
  PROVE  /\ mode = "move" => node_x'[grabbed] = lx - grab_x
         /\ \A t \in Toplevels : asked'[t] >= 1
  <1>1. /\ grabbed \in Toplevels /\ mode \in {"move", "resize"} /\ edge \in {"left", "right"}
        /\ node_x \in [Toplevels -> Int] /\ asked \in [Toplevels -> Int]
        /\ grab_x \in Int /\ grab_box.l \in Int /\ grab_box.r \in Int
    BY DEF DragInv, GrabInv, TypeOK, GrabHasTarget, Grabbing, OrNoOne
  <1>2. CASE mode = "move"
    BY <1>1, <1>2 DEF DragTo, DragInv, ResizeAsksPositive
  <1>3. CASE mode = "resize"
    <2> DEFINE x == lx - grab_x
               l == IF edge = "left" THEN (IF x >= grab_box.r THEN grab_box.r - 1 ELSE x)
                                     ELSE grab_box.l
               r == IF edge = "right" THEN (IF x <= grab_box.l THEN grab_box.l + 1 ELSE x)
                                      ELSE grab_box.r
    <2>1. asked' = [asked EXCEPT ![grabbed] = r - l]
      BY <1>3 DEF DragTo
    <2>2. x \in Int
      BY <1>1
    <2> HIDE DEF x
    <2>3. r - l \in Int /\ r - l >= 1
      BY <1>1, <1>3, <2>2 DEF DragInv, GrabHasBox
    <2> HIDE DEF l, r
    <2>4. ASSUME NEW t \in Toplevels PROVE asked'[t] >= 1
      BY <1>1, <2>1, <2>3 DEF DragInv, ResizeAsksPositive
    <2> QED BY <1>3, <2>4
  <1> QED BY <1>1, <1>2, <1>3

\* A request takes hold of the window where the driver is, and of a box that is not empty.
LEMMA BeginKeepsDrag ==
  ASSUME DragInv, NEW t \in Toplevels,
         BeginMove(t) \/ \E e \in {"left", "right"} : BeginResize(t, e)
  PROVE  MoveFollowsCursor' /\ ResizeAsksPositive' /\ GrabHasBox'
  <1>1. node_x[t] \in Int /\ asked[t] \in Int /\ asked[t] >= 1 /\ cursor_x \in Int
    BY DEF DragInv, GrabInv, TypeOK, ResizeAsksPositive
  <1>2. CASE BeginMove(t)
    <2>1. /\ mode' = "move" /\ grabbed' = t /\ UNCHANGED <<node_x, asked, cursor_x>>
          /\ grab_x' = DriverPosition - node_x[t]
          /\ source' = "pointer" => DriverPosition = cursor_x
      BY <1>2 DEF BeginMove, Engage, DriverPosition, physical
    <2> QED BY <1>1, <2>1 DEF DragInv, MoveFollowsCursor, ResizeAsksPositive, GrabHasBox
  <1>3. ASSUME NEW e \in {"left", "right"}, BeginResize(t, e)
        PROVE  MoveFollowsCursor' /\ ResizeAsksPositive' /\ GrabHasBox'
    <2>1. /\ mode' = "resize" /\ asked' = asked
          /\ grab_box' = [l |-> node_x[t], r |-> node_x[t] + asked[t]]
      BY <1>3 DEF BeginResize, Engage
    <2> QED BY <1>1, <2>1 DEF DragInv, MoveFollowsCursor, ResizeAsksPositive, GrabHasBox
  <1> QED BY <1>2, <1>3

\* Nothing else moves a window that is grabbed, or its box.
LEMMA OthersKeepDrag ==
  ASSUME DragInv, UNCHANGED <<node_x, asked, grab_box, grab_x, cursor_x>>,
         mode' = "none" \/ UNCHANGED <<mode, source, grabbed>>
  PROVE  MoveFollowsCursor' /\ ResizeAsksPositive' /\ GrabHasBox'
  BY DEF DragInv, MoveFollowsCursor, ResizeAsksPositive, GrabHasBox

LEMMA NextKeepsDrag == DragInv /\ [Next]_vars => DragInv'
  <1> SUFFICES ASSUME DragInv, [Next]_vars
               PROVE  MoveFollowsCursor' /\ ResizeAsksPositive' /\ GrabHasBox'
    BY NextKeepsGrab DEF DragInv
  <1>1. ASSUME NEW x \in Positions, Cursor(x)
        PROVE  MoveFollowsCursor' /\ ResizeAsksPositive' /\ GrabHasBox'
    <2>1. /\ x \in Int /\ cursor_x' = x /\ UNCHANGED <<mode, source, grabbed, grab_box, grab_x>>
      BY <1>1, InputAssumption DEF Cursor, machine
    <2>2. CASE Grabbing /\ source = "pointer"
      <3>1. DragTo(x)
        BY <1>1, <2>2 DEF Cursor
      <3> QED BY <2>1, <2>2, <3>1, DragKeeps
        DEF MoveFollowsCursor, ResizeAsksPositive, GrabHasBox, DragInv
    <2>3. CASE ~(Grabbing /\ source = "pointer")
      BY <1>1, <2>1, <2>3
      DEF Cursor, MoveFollowsCursor, ResizeAsksPositive, GrabHasBox, DragInv, Grabbing
    <2> QED BY <2>2, <2>3
  <1>2. ASSUME NEW f \in TouchIds, NEW x \in Positions, TouchMotion(f, x)
        PROVE  MoveFollowsCursor' /\ ResizeAsksPositive' /\ GrabHasBox'
    <2>1. /\ x \in Int /\ UNCHANGED <<mode, source, grabbed, grab_box, grab_x, cursor_x>>
      BY <1>2, InputAssumption DEF TouchMotion, machine
    <2>2. CASE TouchDriven /\ f = origin_touch_id
      <3>1. DragTo(x) /\ Grabbing /\ source # "pointer"
        BY <1>2, <2>2 DEF TouchMotion, TouchDriven
      <3> QED BY <2>1, <3>1, DragKeeps
        DEF MoveFollowsCursor, ResizeAsksPositive, GrabHasBox, DragInv
    <2>3. CASE ~(TouchDriven /\ f = origin_touch_id)
      BY <1>2, <2>1, <2>3, OthersKeepDrag DEF TouchMotion
    <2> QED BY <2>2, <2>3
  <1>3. ASSUME NEW t \in Toplevels,
               BeginMove(t) \/ \E e \in {"left", "right"} : BeginResize(t, e)
        PROVE  MoveFollowsCursor' /\ ResizeAsksPositive' /\ GrabHasBox'
    BY <1>3, BeginKeepsDrag
  <1>4. ASSUME UNCHANGED <<node_x, asked, grab_box, grab_x, cursor_x>>,
               mode' = "none" \/ UNCHANGED <<mode, source, grabbed>>
        PROVE  MoveFollowsCursor' /\ ResizeAsksPositive' /\ GrabHasBox'
    BY <1>4, OthersKeepDrag
  <1>5. ASSUME NEW b \in Buttons, Release(b) \/ \E hit \in OrNoOne(Visible) : Press(b, hit)
        PROVE  MoveFollowsCursor' /\ ResizeAsksPositive' /\ GrabHasBox'
    BY <1>4, <1>5 DEF Release, Press, EndGrab, KeepGrab, geometry
  <1>6. ASSUME NEW f \in TouchIds,
               TouchLift(f) \/ \E x \in Positions, hit \in OrNoOne(Visible) : TouchDown(f, x, hit)
        PROVE  MoveFollowsCursor' /\ ResizeAsksPositive' /\ GrabHasBox'
    BY <1>4, <1>6 DEF TouchLift, TouchDown, EndGrab, KeepGrab, geometry
  <1>7. ASSUME NEW t \in Toplevels,
               Create(t) \/ AckConfigure(t) \/ Map(t) \/ Unmap(t) \/ Destroy(t)
        PROVE  MoveFollowsCursor' /\ ResizeAsksPositive' /\ GrabHasBox'
    BY <1>4, <1>7 DEF Create, AckConfigure, Map, Unmap, Destroy, WindowsOnly, EndGrab, KeepGrab,
                      machine, geometry, physical
  <1>8. CASE UNCHANGED vars
    BY <1>4, <1>8 DEF vars, machine, geometry, physical
  <1> QED BY <1>1, <1>2, <1>3, <1>5, <1>6, <1>7, <1>8 DEF Next

\* A window dragged with the pointer stays exactly under the cursor, whatever touches and
\* further requests come between (process_cursor_move(), begin_move()).
THEOREM DragFollowsCursor == Spec => []MoveFollowsCursor
  <1>1. DragInv => MoveFollowsCursor
    BY DEF DragInv
  <1> QED BY <1>1, InitDrag, NextKeepsDrag, PTL DEF Spec

\* No resize asks a client for an empty or inverted window, wherever the edge is dragged
\* (process_cursor_resize()).
THEOREM NoEmptyResize == Spec => []ResizeAsksPositive
  <1>1. DragInv => ResizeAsksPositive
    BY DEF DragInv
  <1> QED BY <1>1, InitDrag, NextKeepsDrag, PTL DEF Spec

-----------------------------------------------------------------------------
\* Taking one entry out of a list takes at most that element.
LEMMA RemoveAtProperties ==
  ASSUME NEW X, NEW s \in Seq(X), NEW i \in DOMAIN s
  PROVE  /\ RemoveAt(s, i) \in Seq(X)
         /\ Len(RemoveAt(s, i)) <= Len(s)
         /\ Elements(s) \ {s[i]} \subseteq Elements(RemoveAt(s, i))
         /\ Elements(RemoveAt(s, i)) \subseteq Elements(s)
<1>. DEFINE a == SubSeq(s, 1, i - 1)
            b == SubSeq(s, i + 1, Len(s))
            r == a \o b
<1>1. /\ DOMAIN s = 1 .. Len(s) /\ Len(s) \in Nat /\ i \in 1 .. Len(s)
      /\ \A j \in 1 .. Len(s) : s[j] \in X
  OBVIOUS
<1>2. /\ a \in Seq(X) /\ Len(a) = i - 1 /\ \A j \in 1 .. i - 1 : a[j] = s[j]
  BY <1>1, SubSeqProperties
<1>3. /\ b \in Seq(X) /\ Len(b) = Len(s) - i /\ \A j \in 1 .. Len(s) - i : b[j] = s[j + i]
  <2>1. /\ b \in Seq(X)
        /\ Len(b) = IF i + 1 <= Len(s) THEN Len(s) - (i + 1) + 1 ELSE 0
        /\ \A j \in 1 .. Len(s) - (i + 1) + 1 : b[j] = s[(i + 1) + j - 1]
    <3>1. \A j \in i + 1 .. Len(s) : s[j] \in X
      BY <1>1
    <3>2. i + 1 \in Int /\ Len(s) \in Int
      BY <1>1
    <3>. QED  BY <3>1, <3>2, SubSeqProperties
  <2>. HIDE DEF b
  <2>2. Len(b) = Len(s) - i
    BY <1>1, <2>1
  <2>3. ASSUME NEW j \in 1 .. Len(s) - i PROVE b[j] = s[j + i]
    <3>1. j \in 1 .. Len(s) - (i + 1) + 1 /\ (i + 1) + j - 1 = j + i
      BY <1>1
    <3>. QED  BY <2>1, <3>1
  <2>. QED  BY <2>1, <2>2, <2>3
<1>. HIDE DEF a, b
<1>4. /\ r \in Seq(X) /\ Len(r) = Len(s) - 1 /\ DOMAIN r = 1 .. Len(s) - 1
      /\ \A j \in 1 .. Len(s) - 1 : r[j] = IF j <= i - 1 THEN a[j] ELSE b[j - (i - 1)]
  <2>1. /\ r \in Seq(X) /\ Len(r) = Len(a) + Len(b)
        /\ \A j \in 1 .. Len(a) + Len(b) : r[j] = IF j <= Len(a) THEN a[j] ELSE b[j - Len(a)]
    BY <1>2, <1>3, ConcatProperties
  <2>2. Len(a) + Len(b) = Len(s) - 1
    BY <1>1, <1>2, <1>3
  <2>. HIDE DEF r
  <2>. QED  BY <1>2, <2>1, <2>2
<1>. HIDE DEF r
<1>5. ASSUME NEW j \in 1 .. Len(s) - 1
      PROVE  r[j] = IF j <= i - 1 THEN s[j] ELSE s[j + 1]
  <2>1. CASE j <= i - 1
    BY <1>1, <1>2, <1>4, <2>1
  <2>2. CASE j > i - 1
    <3>1. r[j] = b[j - (i - 1)]
      BY <1>1, <1>4, <2>2
    <3>2. j - (i - 1) \in 1 .. Len(s) - i /\ j - (i - 1) + i = j + 1
      BY <1>1, <2>2
    <3>3. b[j - (i - 1)] = s[(j - (i - 1)) + i]
      BY <1>3, <3>2
    <3>4. ~ (j <= i - 1)
      BY <1>1, <2>2
    <3>. QED  BY <3>1, <3>2, <3>3, <3>4
  <2>. QED  BY <1>1, <2>1, <2>2
<1>6. Elements(r) \subseteq Elements(s)
  <2>1. ASSUME NEW j \in DOMAIN r PROVE r[j] \in Elements(s)
    <3>1. j \in DOMAIN s /\ j + 1 \in DOMAIN s
      BY <1>1, <1>4
    <3>. QED  BY <1>4, <1>5, <3>1 DEF Elements
  <2>. QED  BY <2>1 DEF Elements
<1>7. ASSUME NEW j \in DOMAIN s, j # i PROVE s[j] \in Elements(r)
  <2>1. CASE j < i
    <3>1. j \in DOMAIN r /\ r[j] = s[j]
      BY <1>1, <1>4, <1>5, <2>1
    <3>. QED  BY <3>1 DEF Elements
  <2>2. CASE j > i
    <3>1. j - 1 \in DOMAIN r /\ r[j - 1] = s[j]
      BY <1>1, <1>4, <1>5, <2>2
    <3>. QED  BY <3>1 DEF Elements
  <2>. QED  BY <1>1, <1>7, <2>1, <2>2
<1>8. Elements(s) \ {s[i]} \subseteq Elements(r)
  BY <1>7 DEF Elements
<1>9. RemoveAt(s, i) = r
  BY DEF RemoveAt, r, a, b
<1>. QED  BY <1>1, <1>4, <1>6, <1>8, <1>9

-----------------------------------------------------------------------------
\* Places in the scene: no two windows share one, and there is no gap above the last.
Stacked(l) ==
  LET S == {t \in Toplevels : l[t] # 0} IN
  /\ l \in [Toplevels -> Nat]
  /\ \A t \in Toplevels : l[t] <= Cardinality(S)
  /\ \A t, u \in S : l[t] = l[u] => t = u

LEMMA RaiseStacks ==
  ASSUME Stacked(level), NEW t \in Toplevels
  PROVE  /\ Stacked(RaiseToTop(t))
         /\ \A u \in Toplevels : RaiseToTop(t)[u] <= RaiseToTop(t)[t]
         /\ \A u, v \in Toplevels \ {t} :
              level[u] <= level[v] => RaiseToTop(t)[u] <= RaiseToTop(t)[v]
<1>. DEFINE n == Cardinality(InScene \cup {t})
            l == RaiseToTop(t)
            S == {u \in Toplevels : l[u] # 0}
<1>1. IsFiniteSet(InScene) /\ IsFiniteSet(InScene \cup {t})
  BY FS_Subset, FocusAssumption DEF InScene
<1>2. /\ n \in Nat /\ Cardinality(InScene) \in Nat
      /\ t \in InScene => n = Cardinality(InScene)
      /\ t \notin InScene => n = Cardinality(InScene) + 1
  <2>1. t \in InScene => InScene \cup {t} = InScene
    OBVIOUS
  <2>. QED  BY <1>1, <2>1, FS_CardinalityType, FS_AddElement
<1>3. n # 0
  BY <1>1, FS_EmptySet
<1>4. /\ level \in [Toplevels -> Nat]
      /\ \A u \in Toplevels : level[u] <= Cardinality(InScene)
      /\ \A u, v \in InScene : level[u] = level[v] => u = v
  BY DEF Stacked, InScene
<1>5. /\ l = [u \in Toplevels |-> IF u = t THEN n
                                  ELSE IF level[t] # 0 /\ level[u] > level[t] THEN level[u] - 1
                                  ELSE level[u]]
  BY DEF RaiseToTop, Place
<1>. HIDE DEF n, l
<1>6. l \in [Toplevels -> Nat] /\ l[t] = n
  BY <1>2, <1>4, <1>5
<1>7. \A u \in Toplevels \ {t} : l[u] # 0 <=> level[u] # 0
  BY <1>4, <1>5
<1>8. S = InScene \cup {t}
  BY <1>3, <1>6, <1>7 DEF InScene
<1>9. \A u \in Toplevels \ {t} : level[u] # 0 /\ level[t] # 0 => level[u] # level[t]
  BY <1>4 DEF InScene
<1>10. t \in InScene <=> level[t] # 0
  BY DEF InScene
<1>11. ASSUME NEW u \in Toplevels \ {t} PROVE l[u] < n
  BY <1>2, <1>3, <1>4, <1>5, <1>9, <1>10
<1>12. \A u, v \in Toplevels \ {t} : level[u] <= level[v] => l[u] <= l[v]
  BY <1>4, <1>5
<1>13. ASSUME NEW u \in S, NEW v \in S, l[u] = l[v] PROVE u = v
  <2>1. CASE u = t \/ v = t
    BY <1>6, <1>11, <1>13, <2>1, <1>2
  <2>2. CASE u # t /\ v # t
    <3>1. level[u] # 0 /\ level[v] # 0 /\ u \in Toplevels /\ v \in Toplevels
      BY <1>7, <2>2
    <3>2. level[u] = level[v]
      BY <1>4, <1>5, <1>9, <1>13, <2>2, <3>1
    <3>. QED  BY <1>4, <3>1, <3>2 DEF InScene
  <2>. QED  BY <2>1, <2>2
<1>14. \A u \in Toplevels : l[u] <= n
  BY <1>2, <1>6, <1>11
<1>15. Stacked(l)
  BY <1>6, <1>8, <1>13, <1>14 DEF Stacked, n
<1>. QED  BY <1>6, <1>12, <1>14, <1>15 DEF l

LEMMA RemoveStacks ==
  ASSUME Stacked(level), NEW t \in Toplevels
  PROVE  /\ Stacked(Place(t, 0))
         /\ \A u, v \in Toplevels \ {t} :
              level[u] <= level[v] => Place(t, 0)[u] <= Place(t, 0)[v]
<1>. DEFINE n == Cardinality(InScene)
            l == Place(t, 0)
            S == {u \in Toplevels : l[u] # 0}
<1>1. IsFiniteSet(InScene)
  BY FS_Subset, FocusAssumption DEF InScene
<1>2. /\ n \in Nat /\ Cardinality(InScene \ {t}) \in Nat
      /\ Cardinality(InScene \ {t}) = IF t \in InScene THEN n - 1 ELSE n
  BY <1>1, FS_CardinalityType, FS_RemoveElement
<1>4. /\ level \in [Toplevels -> Nat]
      /\ \A u \in Toplevels : level[u] <= n
      /\ \A u, v \in InScene : level[u] = level[v] => u = v
  BY DEF Stacked, InScene
<1>5. /\ l = [u \in Toplevels |-> IF u = t THEN 0
                                  ELSE IF level[t] # 0 /\ level[u] > level[t] THEN level[u] - 1
                                  ELSE level[u]]
  BY DEF Place
<1>. HIDE DEF n, l
<1>6. l \in [Toplevels -> Nat] /\ l[t] = 0
  BY <1>4, <1>5
<1>7. \A u \in Toplevels \ {t} : l[u] # 0 <=> level[u] # 0
  BY <1>4, <1>5
<1>8. S = InScene \ {t}
  BY <1>6, <1>7 DEF InScene
<1>9. \A u \in Toplevels \ {t} : level[u] # 0 /\ level[t] # 0 => level[u] # level[t]
  BY <1>4 DEF InScene
<1>10. t \in InScene <=> level[t] # 0
  BY DEF InScene
<1>11. ASSUME NEW u \in Toplevels PROVE l[u] <= Cardinality(InScene \ {t})
  BY <1>2, <1>4, <1>5, <1>9, <1>10
<1>12. \A u, v \in Toplevels \ {t} : level[u] <= level[v] => l[u] <= l[v]
  BY <1>4, <1>5
<1>13. ASSUME NEW u \in S, NEW v \in S, l[u] = l[v] PROVE u = v
  <2>1. u # t /\ v # t /\ level[u] # 0 /\ level[v] # 0 /\ u \in Toplevels /\ v \in Toplevels
    BY <1>6, <1>7
  <2>2. level[u] = level[v]
    BY <1>4, <1>5, <1>9, <1>13, <2>1
  <2>. QED  BY <1>4, <2>1, <2>2 DEF InScene
<1>14. Stacked(l)
  BY <1>6, <1>8, <1>11, <1>13 DEF Stacked
<1>. QED  BY <1>12, <1>14 DEF l

-----------------------------------------------------------------------------
\* The window with the seat's focus is above every visible window, also while it is hidden
\* or unmapped itself: focus_toplevel() will not raise it when it comes back.
FocusInv ==
  /\ FocusTypeOK
  /\ Stacked(level)
  /\ kb_focus \in Toplevels => HasKeyboard
  /\ kb_focus \in Toplevels => \A t \in Visible : level[t] <= level[kb_focus]

LEMMA FocusStep ==
  ASSUME FocusInv, NEW t \in Toplevels, FocusToplevel(t),
         FocusTypeOK', Visible' \subseteq Visible \cup {t}
  PROVE  FocusInv'
<1>. USE DEF FocusInv
<1>0. \A u \in Visible' : u \in Toplevels
  BY DEF Visible, Mapped
<1>1. CASE MovesFocus(t)
  <2>1. level' = RaiseToTop(t) /\ kb_focus' = IF HasKeyboard THEN t ELSE kb_focus
    BY <1>1 DEF FocusToplevel
  <2>2. Stacked(level') /\ \A u \in Toplevels : level'[u] <= level'[t]
    BY <2>1, RaiseStacks
  <2>. QED  BY <1>0, <2>1, <2>2
<1>2. CASE ~MovesFocus(t)
  <2>1. level' = level /\ kb_focus' = kb_focus /\ kb_focus = t
    BY <1>2 DEF FocusToplevel, MovesFocus
  <2>2. level[t] <= level[t]
    BY DEF FocusTypeOK
  <2>. QED  BY <2>1, <2>2
<1>. QED  BY <1>1, <1>2

\* What the window handlers and focus requests do to the set of mapped windows.
LEMMA MappedWhat ==
  ASSUME FocusTypeOK, NEW t \in Toplevels
  PROVE  /\ NewToplevel(t) \/ Configure(t) \/ DestroyWindow(t) => Mapped' = Mapped /\ t \notin Mapped
         /\ MapWindow(t) => Mapped' = Mapped \cup {t} /\ t \notin Mapped
         /\ UnmapWindow(t) => Mapped' = Mapped \ {t} /\ t \in Mapped
         /\ UNCHANGED win => Mapped' = Mapped
<1>. USE DEF FocusTypeOK, Mapped
<1>1. NewToplevel(t) \/ Configure(t) \/ DestroyWindow(t) => Mapped' = Mapped /\ t \notin Mapped
  BY DEF NewToplevel, Configure, DestroyWindow
<1>2. MapWindow(t) => Mapped' = Mapped \cup {t} /\ t \notin Mapped
  BY DEF MapWindow
<1>3. UnmapWindow(t) => Mapped' = Mapped \ {t} /\ t \in Mapped
  BY DEF UnmapWindow
<1>. QED  BY <1>1, <1>2, <1>3

LEMMA WindowStep ==
  ASSUME FocusInv, NEW t \in Toplevels,
         NewToplevel(t) \/ Configure(t) \/ MapWindow(t) \/ UnmapWindow(t) \/ DestroyWindow(t)
  PROVE  FocusInv'
<1>. USE DEF FocusInv
<1>1. FocusTypeOK'
  BY WindowTypes
<1>2. Visible \subseteq Toplevels /\ level \in [Toplevels -> Nat]
  BY DEF Visible, Mapped, FocusTypeOK
<1>3. CASE NewToplevel(t)
  <2>1. level' = RaiseToTop(t) /\ kb_focus' = kb_focus /\ Visible' = Visible /\ t \notin Visible
    BY <1>3, MappedWhat DEF NewToplevel, Visible
  <2>2. /\ Stacked(level')
        /\ \A u \in Toplevels : level'[u] <= level'[t]
        /\ \A u, v \in Toplevels \ {t} : level[u] <= level[v] => level'[u] <= level'[v]
    BY <2>1, RaiseStacks
  <2>3. ASSUME kb_focus' \in Toplevels, NEW u \in Visible' PROVE level'[u] <= level'[kb_focus']
    <3>1. CASE kb_focus = t
      BY <1>2, <2>1, <2>2, <2>3, <3>1
    <3>2. CASE kb_focus # t
      BY <1>2, <2>1, <2>2, <2>3, <3>2
    <3>. QED  BY <3>1, <3>2
  <2>. QED  BY <1>1, <2>1, <2>2, <2>3
<1>4. CASE Configure(t)
  <2>1. UNCHANGED <<level, kb_focus>> /\ Visible' = Visible
    BY <1>4, MappedWhat DEF Configure, Visible
  <2>. QED  BY <1>1, <2>1
<1>5. CASE MapWindow(t)
  <2>1. FocusToplevel(t) /\ Visible' \subseteq Visible \cup {t}
    BY <1>5, MappedWhat DEF MapWindow, Visible
  <2>. QED  BY <1>1, <2>1, FocusStep
<1>6. CASE UnmapWindow(t)
  <2>1. UNCHANGED <<level, kb_focus>> /\ Visible' \subseteq Visible
    BY <1>6, MappedWhat DEF UnmapWindow, Visible
  <2>. QED  BY <1>1, <2>1
<1>7. CASE DestroyWindow(t)
  <2>1. /\ level' = Place(t, 0) /\ kb_focus' = (IF kb_focus = t THEN NoOne ELSE kb_focus)
        /\ Visible' \subseteq Visible /\ t \notin Visible
    BY <1>7, MappedWhat DEF DestroyWindow, Visible, Mapped
  <2>2. /\ Stacked(level')
        /\ \A u, v \in Toplevels \ {t} : level[u] <= level[v] => level'[u] <= level'[v]
    BY <2>1, RemoveStacks
  <2>3. ASSUME kb_focus' \in Toplevels, NEW u \in Visible' PROVE level'[u] <= level'[kb_focus']
    <3>1. kb_focus' = kb_focus /\ kb_focus # t
      BY <2>1, <2>3, FocusAssumption
    <3>. QED  BY <1>2, <2>1, <2>2, <2>3, <3>1
  <2>4. kb_focus' \in Toplevels => HasKeyboard
    BY <2>1, FocusAssumption
  <2>. QED  BY <1>1, <2>2, <2>3, <2>4
<1>. QED  BY <1>3, <1>4, <1>5, <1>6, <1>7

LEMMA ElsewhereStep == ASSUME FocusInv, FocusMovesElsewhere PROVE FocusInv'
<1>1. kb_focus' \notin Toplevels /\ kb_focus' \in {NoOne, Elsewhere}
  BY FocusAssumption DEF FocusMovesElsewhere
<1>. QED  BY <1>1 DEF FocusMovesElsewhere, FocusInv, FocusTypeOK

LEMMA InitFocusInv == InitFocus => FocusInv
<1>. SUFFICES ASSUME InitFocus PROVE FocusInv
  OBVIOUS
<1>1. FocusTypeOK
  BY DEF InitFocus, FocusTypeOK, Life
<1>2. Stacked(level)
  <2>1. \A t \in Toplevels : level[t] = 0
    BY DEF InitFocus
  <2>2. {t \in Toplevels : level[t] # 0} = {} /\ Cardinality({}) = 0
    BY <2>1, FS_EmptySet
  <2>. QED  BY <1>1, <2>1, <2>2 DEF Stacked, FocusTypeOK
<1>. QED  BY <1>1, <1>2, FocusAssumption DEF InitFocus, FocusInv

-----------------------------------------------------------------------------
\* The followers agree with the windows and with the seat; that the lists are exact is what
\* makes note_focused() find the window, and that is what keeps the cursor on the focus.
StageInv ==
  /\ StageTypeOK
  /\ Len(slots) <= MaxSlots
  /\ FocusInv
  /\ BorrowsAreMapped
  /\ HiddenHasSlot
  /\ RingFollowsFocus
  /\ StageFollowsFocus
  /\ TapsAreSafe

LEMMA InitStage == StageInit => StageInv
<1>. SUFFICES ASSUME StageInit PROVE StageInv
  OBVIOUS
<1>1. FocusInv
  BY InitFocusInv DEF StageInit
<1>2. Mapped = {} /\ hidden = {} /\ kb_focus = NoOne
  BY DEF StageInit, InitFocus, Mapped
<1>3. /\ mapped_toplevels = <<>> /\ slots = <<>> /\ ring = <<>> /\ stage_focused = NoOne
      /\ current = NoOne /\ disabled = {} /\ rows = 0 /\ crashed = FALSE
  BY DEF StageInit
<1>4. Elements(<<>>) = {} /\ NoDuplicates(<<>>)
  BY DEF Elements, NoDuplicates
<1>5. <<>> \in Seq(Toplevels) /\ Len(<<>>) = 0
  OBVIOUS
<1>6. StageTypeOK /\ Len(slots) <= MaxSlots
  <2>1. rows \in 0 .. MaxSlots /\ 0 <= MaxSlots
    BY <1>3, SlotsAssumption
  <2>2. FocusTypeOK
    BY <1>1 DEF FocusInv
  <2>. QED  BY <1>3, <1>5, <2>1, <2>2 DEF StageTypeOK, OrNoOne
<1>7. BorrowsAreMapped
  BY <1>2, <1>3, <1>4 DEF BorrowsAreMapped, Minimized, OrNoOne
<1>8. HiddenHasSlot /\ RingFollowsFocus /\ StageFollowsFocus /\ TapsAreSafe
  BY <1>2, <1>3 DEF HiddenHasSlot, RingFollowsFocus, StageFollowsFocus, TapsAreSafe
<1>. QED  BY <1>1, <1>6, <1>7, <1>8 DEF StageInv

LEMMA WithoutWhat ==
  ASSUME NEW X, NEW s \in Seq(X), NEW t
  PROVE  /\ Without(s, t) \in Seq(X)
         /\ Len(Without(s, t)) <= Len(s)
         /\ Elements(Without(s, t)) = Elements(s) \ {t}
         /\ NoDuplicates(s) => NoDuplicates(Without(s, t))
BY DroppedProperties DEF Without

\* A window that is created, configured or destroyed: nobody who follows hears of it.
LEMMA UnheardStep ==
  ASSUME StageInv, NEW t \in Toplevels, NewWindow(t) \/ AckWindow(t) \/ WindowDestroyed(t)
  PROVE  StageInv'
<1>. USE DEF StageInv, dock, keys, rest
<1>1. /\ NewToplevel(t) \/ Configure(t) \/ DestroyWindow(t)
      /\ UNCHANGED <<dock, keys, rest>>
  BY DEF NewWindow, AckWindow, WindowDestroyed
<1>2. FocusInv' /\ FocusTypeOK'
  BY <1>1, WindowStep DEF FocusInv
<1>3. Mapped' = Mapped
  BY <1>1, MappedWhat DEF FocusInv
<1>4. hidden' \subseteq hidden /\ (kb_focus' = kb_focus \/ kb_focus' = NoOne)
  BY <1>1 DEF NewToplevel, Configure, DestroyWindow
<1>5. NoOne \notin Mapped
  BY FocusAssumption DEF Mapped
<1>6. StageTypeOK' /\ Len(slots') <= MaxSlots
  BY <1>1, <1>2 DEF StageTypeOK
<1>7. BorrowsAreMapped'
  BY <1>1, <1>3 DEF BorrowsAreMapped, Minimized, Hears
<1>8. HiddenHasSlot'
  BY <1>1, <1>3, <1>4 DEF HiddenHasSlot, Minimized
<1>9. RingFollowsFocus' /\ StageFollowsFocus'
  BY <1>1, <1>3, <1>4, <1>5 DEF RingFollowsFocus, StageFollowsFocus, Hears
<1>10. TapsAreSafe'
  BY <1>1 DEF TapsAreSafe
<1>. QED  BY <1>2, <1>6, <1>7, <1>8, <1>9, <1>10

\* A window that maps enters both lists and takes the focus, the cursor and focused_.
LEMMA MappedStep == ASSUME StageInv, NEW t \in Toplevels, WindowMapped(t) PROVE StageInv'
<1>. USE DEF StageInv
<1>1. /\ MapWindow(t) /\ ~crashed
      /\ DockBecomes(Append(mapped_toplevels, t), t, slots)
      /\ RingBecomes(Joined(t), t)
      /\ UNCHANGED rest
  BY DEF WindowMapped
<1>2. FocusInv' /\ FocusTypeOK'
  BY <1>1, WindowStep DEF FocusInv
<1>3. Mapped' = Mapped \cup {t} /\ t \notin Mapped
  BY <1>1, MappedWhat DEF FocusInv
<1>4. /\ hidden' = hidden \ {t} /\ FocusToplevel(t)
      /\ kb_focus' \in Mapped' => kb_focus' = t
  <2>1. hidden' = hidden \ {t} /\ FocusToplevel(t)
    BY <1>1 DEF MapWindow
  <2>2. kb_focus' = t \/ (kb_focus' = kb_focus /\ ~HasKeyboard)
    BY <2>1 DEF FocusToplevel, MovesFocus
  <2>3. ~HasKeyboard => kb_focus \notin Toplevels
    BY DEF FocusInv
  <2>. QED  BY <2>1, <2>2, <2>3 DEF Mapped
<1>5. /\ slots' = slots /\ UNCHANGED rest
      /\ Hears("stage-dock") => /\ mapped_toplevels' = Append(mapped_toplevels, t)
                                /\ stage_focused' = t
      /\ ~Hears("stage-dock") => UNCHANGED dock
  BY <1>1 DEF DockBecomes, dock
<1>6. /\ Hears("keybindings") => ring' = Joined(t) /\ current' = t
      /\ ~Hears("keybindings") => UNCHANGED keys
  BY <1>1 DEF RingBecomes
<1>7. Hears("stage-dock")' = Hears("stage-dock") /\ Hears("keybindings")' = Hears("keybindings")
  BY <1>5 DEF Hears, rest
<1>8. /\ mapped_toplevels \in Seq(Toplevels) /\ ring \in Seq(Toplevels)
  BY DEF StageTypeOK
<1>9. Hears("stage-dock") =>
        /\ mapped_toplevels' \in Seq(Toplevels)
        /\ Elements(mapped_toplevels') = Mapped' /\ NoDuplicates(mapped_toplevels')
  <2>1. LET a == Append(mapped_toplevels, t) IN
        /\ a \in Seq(Toplevels) /\ Elements(a) = Elements(mapped_toplevels) \cup {t}
        /\ NoDuplicates(mapped_toplevels) /\ t \notin Elements(mapped_toplevels) => NoDuplicates(a)
    BY <1>8, AppendElements
  <2>. QED  BY <1>3, <1>5, <2>1 DEF BorrowsAreMapped
<1>10. Hears("keybindings") =>
        /\ ring' \in Seq(Toplevels) /\ Elements(ring') = Mapped' /\ NoDuplicates(ring')
  <2>1. Hears("keybindings") => Joined(t) = Append(ring, t)
    BY <1>3 DEF BorrowsAreMapped, Joined
  <2>2. LET a == Append(ring, t) IN
        /\ a \in Seq(Toplevels) /\ Elements(a) = Elements(ring) \cup {t}
        /\ NoDuplicates(ring) /\ t \notin Elements(ring) => NoDuplicates(a)
    BY <1>8, AppendElements
  <2>. QED  BY <1>3, <1>6, <2>1, <2>2 DEF BorrowsAreMapped
<1>11. StageTypeOK' /\ Len(slots') <= MaxSlots
  BY <1>2, <1>5, <1>6, <1>9, <1>10 DEF StageTypeOK, OrNoOne, dock, keys, rest
<1>12. BorrowsAreMapped'
  BY <1>3, <1>5, <1>6, <1>7, <1>9, <1>10 DEF BorrowsAreMapped, Minimized, OrNoOne
<1>13. HiddenHasSlot'
  BY <1>3, <1>4, <1>5 DEF HiddenHasSlot, Minimized
<1>14. RingFollowsFocus' /\ StageFollowsFocus'
  BY <1>4, <1>5, <1>6, <1>7 DEF RingFollowsFocus, StageFollowsFocus
<1>15. TapsAreSafe'
  BY <1>5 DEF TapsAreSafe, rest
<1>. QED  BY <1>2, <1>11, <1>12, <1>13, <1>14, <1>15

\* A window that unmaps leaves every list, although the seat may stay on it.
LEMMA UnmappedStep == ASSUME StageInv, NEW t \in Toplevels, WindowUnmapped(t) PROVE StageInv'
<1>. USE DEF StageInv
<1>1. /\ UnmapWindow(t)
      /\ DockBecomes(Without(mapped_toplevels, t),
                     IF stage_focused = t THEN NoOne ELSE stage_focused, Without(slots, t))
      /\ RingBecomes(Without(ring, t), IF current = t THEN NoOne ELSE current)
      /\ UNCHANGED rest
  BY DEF WindowUnmapped
<1>2. FocusInv' /\ FocusTypeOK'
  BY <1>1, WindowStep DEF FocusInv
<1>3. Mapped' = Mapped \ {t}
  BY <1>1, MappedWhat DEF FocusInv
<1>4. hidden' = hidden /\ kb_focus' = kb_focus
  BY <1>1 DEF UnmapWindow
<1>5. /\ Hears("stage-dock") => /\ mapped_toplevels' = Without(mapped_toplevels, t)
                                /\ stage_focused' = IF stage_focused = t THEN NoOne ELSE stage_focused
                                /\ slots' = Without(slots, t)
      /\ ~Hears("stage-dock") => UNCHANGED dock
  BY <1>1 DEF DockBecomes
<1>6. /\ Hears("keybindings") => /\ ring' = Without(ring, t)
                                 /\ current' = IF current = t THEN NoOne ELSE current
      /\ ~Hears("keybindings") => UNCHANGED keys
  BY <1>1 DEF RingBecomes
<1>7. Hears("stage-dock")' = Hears("stage-dock") /\ Hears("keybindings")' = Hears("keybindings")
  BY <1>1 DEF Hears, rest
<1>8. /\ mapped_toplevels \in Seq(Toplevels) /\ ring \in Seq(Toplevels) /\ slots \in Seq(Toplevels)
      /\ Len(slots) \in Nat
  BY DEF StageTypeOK
<1>9. Hears("stage-dock") =>
        /\ mapped_toplevels' \in Seq(Toplevels) /\ slots' \in Seq(Toplevels)
        /\ Len(slots') <= Len(slots) /\ Len(slots') \in Nat
        /\ Elements(mapped_toplevels') = Mapped' /\ NoDuplicates(mapped_toplevels')
        /\ Elements(slots') = Elements(slots) \ {t}
  BY <1>3, <1>5, <1>8, WithoutWhat DEF BorrowsAreMapped
<1>10. Hears("keybindings") =>
        /\ ring' \in Seq(Toplevels) /\ Elements(ring') = Mapped' /\ NoDuplicates(ring')
  BY <1>3, <1>6, <1>8, WithoutWhat DEF BorrowsAreMapped
<1>11. Len(slots') <= MaxSlots
  BY <1>5, <1>8, <1>9, SlotsAssumption DEF dock
<1>12. StageTypeOK'
  BY <1>1, <1>2, <1>5, <1>6, <1>9, <1>10 DEF StageTypeOK, OrNoOne, dock, keys, rest
<1>13. BorrowsAreMapped'
  BY <1>3, <1>5, <1>6, <1>7, <1>9, <1>10 DEF BorrowsAreMapped, Minimized, OrNoOne
<1>14. HiddenHasSlot'
  <2>1. Elements(slots) \ {t} \subseteq Elements(slots')
    BY <1>5, <1>9 DEF dock
  <2>. QED  BY <1>3, <1>4, <2>1 DEF HiddenHasSlot, Minimized
<1>15. RingFollowsFocus' /\ StageFollowsFocus'
  BY <1>3, <1>4, <1>5, <1>6, <1>7 DEF RingFollowsFocus, StageFollowsFocus
<1>16. TapsAreSafe'
  BY <1>1 DEF TapsAreSafe, rest
<1>. QED  BY <1>2, <1>11, <1>12, <1>13, <1>14, <1>15, <1>16

-----------------------------------------------------------------------------
\* What a focus request finds and leaves, whether focus_toplevel() returns early or not.
FocusedOn(t) ==
  /\ t \in Toplevels
  /\ activated' \subseteq Toplevels /\ level' \in [Toplevels -> Nat]
  /\ kb_focus' \in Toplevels \cup {NoOne, Elsewhere}
  /\ kb_focus' \in Mapped => kb_focus' = t
  /\ Hears("keybindings") => Noted(t) = t /\ (~MovesFocus(t) => current = t)
  /\ Hears("stage-dock") /\ ~MovesFocus(t) => stage_focused \in {NoOne, t}
  /\ Noted(t) \in {t, current}

LEMMA FocusedWhat == ASSUME StageInv, NEW t \in Mapped, FocusToplevel(t) PROVE FocusedOn(t)
<1>. USE DEF StageInv
<1>1. t \in Toplevels
  BY DEF Mapped
<1>2. /\ activated' \subseteq Toplevels /\ level' \in [Toplevels -> Nat]
      /\ kb_focus' \in Toplevels \cup {NoOne, Elsewhere}
  BY <1>1, FocusType DEF FocusInv
<1>3. kb_focus' \in Mapped => kb_focus' = t
  <2>1. kb_focus' = t \/ (kb_focus' = kb_focus /\ ~HasKeyboard)
    BY DEF FocusToplevel, MovesFocus
  <2>. QED  BY <2>1 DEF FocusInv, Mapped
<1>4. Hears("keybindings") => Noted(t) = t /\ (~MovesFocus(t) => current = t)
  BY DEF Noted, BorrowsAreMapped, RingFollowsFocus, MovesFocus
<1>5. Hears("stage-dock") /\ ~MovesFocus(t) => stage_focused \in {NoOne, t}
  BY DEF StageFollowsFocus, MovesFocus
<1>. QED  BY <1>1, <1>2, <1>3, <1>4, <1>5 DEF FocusedOn, Noted

\* A focus request and its event, when neither the windows nor the lists change.
LEMMA FocusEventStep ==
  ASSUME StageInv, NEW t \in Mapped, FocusToplevel(t), NoteFocused(t),
         UNCHANGED <<win, hidden, mapped_toplevels, slots, ring, rest>>
  PROVE  StageInv'
<1>. USE DEF StageInv, rest
<1>1. FocusedOn(t)
  BY FocusedWhat
<1>2. Mapped' = Mapped /\ Visible' = Visible
  BY DEF Mapped, Visible
<1>3. FocusTypeOK'
  BY <1>1 DEF FocusedOn, FocusInv, FocusTypeOK
<1>4. FocusInv'
  BY <1>1, <1>2, <1>3, FocusStep DEF FocusedOn
<1>5. /\ current' \in {t, current} /\ stage_focused' \in {t, stage_focused}
      /\ Hears("keybindings") => current' = t
      /\ Hears("stage-dock") => stage_focused' \in {NoOne, t}
  BY <1>1 DEF NoteFocused, FocusedOn
<1>6. Hears("stage-dock")' = Hears("stage-dock") /\ Hears("keybindings")' = Hears("keybindings")
  BY DEF Hears
<1>7. StageTypeOK'
  BY <1>1, <1>3, <1>5 DEF StageTypeOK, OrNoOne, FocusedOn
<1>8. BorrowsAreMapped'
  BY <1>2, <1>5, <1>6 DEF BorrowsAreMapped, Minimized, OrNoOne
<1>9. RingFollowsFocus' /\ StageFollowsFocus'
  BY <1>1, <1>2, <1>5, <1>6 DEF RingFollowsFocus, StageFollowsFocus, FocusedOn
<1>10. HiddenHasSlot' /\ TapsAreSafe'
  BY <1>2 DEF HiddenHasSlot, Minimized, TapsAreSafe
<1>. QED  BY <1>4, <1>7, <1>8, <1>9, <1>10

LEMMA ClickStep == ASSUME StageInv, NEW t \in Toplevels, Click(t) PROVE StageInv'
BY FocusEventStep DEF Click, Visible

\* A rotation lands on a window of the ring, which is a mapped one.
LEMMA NeighbourInRing ==
  ASSUME ring \in Seq(Toplevels), ring # <<>>, NEW forward \in BOOLEAN
  PROVE  Neighbour(forward) \in Elements(ring)
<1>. DEFINE n == Len(ring)
            k == Index(ring, current)
<1>1. n \in Nat /\ n > 0 /\ DOMAIN ring = 1 .. n
  OBVIOUS
<1>2. \A i \in 1 .. n : ring[i] \in Elements(ring)
  BY <1>1 DEF Elements
<1>3. CASE current \notin Elements(ring)
  <2>1. 1 \in 1 .. n /\ n \in 1 .. n
    BY <1>1
  <2>. QED  BY <1>2, <1>3, <2>1 DEF Neighbour
<1>4. CASE current \in Elements(ring)
  <2>1. k \in 1 .. n
    <3>1. \E i \in DOMAIN ring : ring[i] = current
      BY <1>4 DEF Elements
    <3>. QED  BY <1>1, <3>1 DEF Index
  <2>. HIDE DEF n, k
  <2>2. (k % n) + 1 \in 1 .. n /\ ((k + n - 2) % n) + 1 \in 1 .. n
    BY <1>1, <2>1
  <2>3. Neighbour(forward) = IF forward THEN ring[(k % n) + 1] ELSE ring[((k + n - 2) % n) + 1]
    BY <1>4 DEF Neighbour, n, k
  <2>. QED  BY <1>2, <2>2, <2>3
<1>. QED  BY <1>3, <1>4

LEMMA RotateStep == ASSUME StageInv, NEW forward \in BOOLEAN, Rotate(forward) PROVE StageInv'
<1>. DEFINE t == Neighbour(forward)
<1>. USE DEF StageInv
<1>1. /\ Hears("keybindings") /\ ring # <<>>
      /\ FocusToplevel(t)
      /\ stage_focused' = IF MovesFocus(t) /\ Hears("stage-dock") THEN t ELSE stage_focused
      /\ current' = t
      /\ UNCHANGED <<win, hidden, mapped_toplevels, slots, ring, rest>>
  BY DEF Rotate
<1>2. t \in Mapped
  BY <1>1, NeighbourInRing DEF StageTypeOK, BorrowsAreMapped
<1>. HIDE DEF t
<1>3. FocusedOn(t)
  BY <1>1, <1>2, FocusedWhat
<1>4. NoteFocused(t)
  BY <1>1, <1>3 DEF NoteFocused, FocusedOn
<1>. QED  BY <1>1, <1>2, <1>4, FocusEventStep

LEMMA ThrowStep == ASSUME StageInv, NEW e \in Extensions, Throw(e) PROVE StageInv'
<1>. USE DEF StageInv, Throw, focusVars, dock, keys
<1>1. StageTypeOK'
  BY DEF StageTypeOK, FocusTypeOK
<1>2. FocusInv' /\ Mapped' = Mapped /\ Visible' = Visible
  BY DEF FocusInv, FocusTypeOK, Visible, Mapped
<1>3. \A x : Hears(x)' => Hears(x)
  BY DEF Hears
<1>4. BorrowsAreMapped'
  BY <1>2, <1>3 DEF BorrowsAreMapped, Minimized
<1>5. HiddenHasSlot' /\ TapsAreSafe'
  BY <1>2 DEF HiddenHasSlot, Minimized, TapsAreSafe
<1>6. RingFollowsFocus' /\ StageFollowsFocus'
  BY <1>2, <1>3 DEF RingFollowsFocus, StageFollowsFocus
<1>. QED  BY <1>1, <1>2, <1>4, <1>5, <1>6

LEMMA RenderStep == ASSUME StageInv, Render \/ UNCHANGED stageVars PROVE StageInv'
<1>. USE DEF StageInv, Render, stageVars, focusVars, dock, keys, rest
<1>1. StageTypeOK'
  <2>1. Len(slots) \in 0 .. MaxSlots
    BY SlotsAssumption DEF StageTypeOK
  <2>. QED  BY <2>1 DEF StageTypeOK, FocusTypeOK
<1>2. FocusInv' /\ Mapped' = Mapped /\ Visible' = Visible
  BY DEF FocusInv, FocusTypeOK, Visible, Mapped
<1>3. \A x : Hears(x)' <=> Hears(x)
  BY DEF Hears
<1>4. BorrowsAreMapped'
  BY <1>2, <1>3 DEF BorrowsAreMapped, Minimized
<1>5. HiddenHasSlot' /\ TapsAreSafe'
  BY <1>2 DEF HiddenHasSlot, Minimized, TapsAreSafe
<1>6. RingFollowsFocus' /\ StageFollowsFocus'
  BY <1>2, <1>3 DEF RingFollowsFocus, StageFollowsFocus
<1>. QED  BY <1>1, <1>2, <1>4, <1>5, <1>6

LEMMA ElsewhereKeeps == ASSUME StageInv, FocusElsewhere PROVE StageInv'
<1>. USE DEF StageInv, dock, keys, rest
<1>1. FocusMovesElsewhere /\ UNCHANGED <<dock, keys, rest>>
  BY DEF FocusElsewhere
<1>2. FocusInv'
  BY <1>1, ElsewhereStep
<1>3. Mapped' = Mapped /\ hidden' = hidden /\ kb_focus' \notin Mapped
  BY <1>1, FocusAssumption DEF FocusMovesElsewhere, Mapped
<1>4. StageTypeOK'
  BY <1>1, <1>2 DEF StageTypeOK, FocusInv
<1>5. BorrowsAreMapped'
  BY <1>1, <1>3 DEF BorrowsAreMapped, Minimized, Hears
<1>6. HiddenHasSlot' /\ TapsAreSafe'
  BY <1>1, <1>3 DEF HiddenHasSlot, Minimized, TapsAreSafe
<1>7. RingFollowsFocus' /\ StageFollowsFocus'
  BY <1>3 DEF RingFollowsFocus, StageFollowsFocus
<1>. QED  BY <1>1, <1>2, <1>4, <1>5, <1>6, <1>7

-----------------------------------------------------------------------------
\* Super+M: the window it hides gets a slot, and the focus goes to another that has none,
\* or focused_ to nobody.
LEMMA MinimizeStep == ASSUME StageInv, Minimize PROVE StageInv'
<1>. DEFINE t == stage_focused
            others == Dropped(mapped_toplevels, Minimized \cup {t})
<1>. USE DEF StageInv
<1>1. /\ Hears("stage-dock") /\ t # NoOne /\ Len(slots) < MaxSlots
      /\ slots' = Append(slots, t) /\ hidden' = hidden \cup {t}
      /\ UNCHANGED <<win, mapped_toplevels, ring, rest>>
      /\ IF others = <<>>
         THEN stage_focused' = NoOne /\ UNCHANGED <<kb_focus, activated, level, current>>
         ELSE FocusToplevel(others[1]) /\ NoteFocused(others[1])
  BY DEF Minimize, MinimizeKey
<1>2. t \in Mapped /\ t \in Toplevels /\ t = stage_focused
  BY <1>1 DEF BorrowsAreMapped, OrNoOne, Mapped
<1>3. /\ slots \in Seq(Toplevels) /\ Len(slots) \in Nat /\ mapped_toplevels \in Seq(Toplevels)
  BY DEF StageTypeOK
<1>4. /\ slots' \in Seq(Toplevels) /\ Len(slots') <= MaxSlots
      /\ Elements(slots') = Elements(slots) \cup {t}
  <2>1. LET a == Append(slots, t) IN
        a \in Seq(Toplevels) /\ Len(a) = Len(slots) + 1 /\ Elements(a) = Elements(slots) \cup {t}
    <3>1. LET a == Append(slots, t) IN
          a \in Seq(Toplevels) /\ Elements(a) = Elements(slots) \cup {t}
      BY <1>2, <1>3, AppendElements
    <3>2. Len(Append(slots, t)) = Len(slots) + 1
      BY <1>2, <1>3
    <3>. QED  BY <3>1, <3>2
  <2>. QED  BY <1>1, <1>3, <2>1, SlotsAssumption
<1>5. Mapped' = Mapped /\ Visible' \subseteq Visible
  BY <1>1 DEF Mapped, Visible
<1>6. Hears("stage-dock")' = Hears("stage-dock") /\ Hears("keybindings")' = Hears("keybindings")
  BY <1>1 DEF Hears, rest
<1>7. others # <<>> => others[1] \in Mapped \ {t}
  <2>1. /\ others \in Seq(Toplevels)
        /\ Elements(others) = Elements(mapped_toplevels) \ (Minimized \cup {t})
    BY <1>3, DroppedProperties
  <2>. HIDE DEF others
  <2>2. others # <<>> => others[1] \in Elements(others)
    BY <2>1 DEF Elements
  <2>. QED  BY <1>1, <2>1, <2>2 DEF BorrowsAreMapped
<1>. HIDE DEF others, t
<1>8. /\ activated' \subseteq Toplevels /\ level' \in [Toplevels -> Nat]
      /\ kb_focus' \in Toplevels \cup {NoOne, Elsewhere}
      /\ FocusTypeOK' => FocusInv'
      /\ stage_focused' \in Mapped \cup {NoOne} /\ current' \in {current} \cup Mapped
      /\ Hears("keybindings") /\ kb_focus' \in Mapped => current' = kb_focus'
      /\ stage_focused' # NoOne /\ kb_focus' \in Mapped => stage_focused' = kb_focus'
  <2>1. CASE others = <<>>
    <3>1. stage_focused' = NoOne /\ UNCHANGED <<kb_focus, activated, level, current>>
      BY <1>1, <2>1
    <3>. QED  BY <1>5, <3>1 DEF FocusInv, FocusTypeOK, RingFollowsFocus
  <2>2. CASE others # <<>>
    <3>. DEFINE u == others[1]
    <3>1. FocusToplevel(u) /\ NoteFocused(u) /\ u \in Mapped /\ u # t
      BY <1>1, <1>7, <2>2
    <3>. HIDE DEF u
    <3>2. FocusedOn(u)
      BY <3>1, FocusedWhat
    <3>3. MovesFocus(u)
      BY <1>1, <1>2, <3>1, <3>2 DEF FocusedOn
    <3>4. stage_focused' = u /\ current' = Noted(u)
      BY <1>1, <3>1, <3>3 DEF NoteFocused
    <3>5. FocusTypeOK' => FocusInv'
      BY <1>5, <3>1, <3>2, FocusStep DEF FocusedOn
    <3>. QED  BY <3>1, <3>2, <3>4, <3>5 DEF FocusedOn
  <2>. QED  BY <2>1, <2>2
<1>9. FocusTypeOK' /\ FocusInv'
  BY <1>1, <1>2, <1>8 DEF FocusInv, FocusTypeOK
<1>10. StageTypeOK' /\ Len(slots') <= MaxSlots
  BY <1>1, <1>4, <1>8, <1>9 DEF StageTypeOK, OrNoOne, Mapped, rest
<1>11. BorrowsAreMapped'
  <2>1. current \in OrNoOne(Mapped) => current' \in OrNoOne(Mapped)
    BY <1>8 DEF OrNoOne
  <2>. QED  BY <1>1, <1>2, <1>4, <1>5, <1>6, <1>8, <2>1 DEF BorrowsAreMapped, Minimized, OrNoOne
<1>12. HiddenHasSlot'
  BY <1>1, <1>4, <1>5 DEF HiddenHasSlot, Minimized
<1>13. RingFollowsFocus' /\ StageFollowsFocus'
  BY <1>5, <1>6, <1>8 DEF RingFollowsFocus, StageFollowsFocus
<1>14. TapsAreSafe'
  BY <1>1 DEF TapsAreSafe, rest
<1>. QED  BY <1>9, <1>10, <1>11, <1>12, <1>13, <1>14

\* Restoring a slot whose window is there, or of a dock that is disabled.
LEMMA RestoreStep ==
  ASSUME StageInv, NEW i \in DOMAIN slots, Restore(i), UNCHANGED rest
  PROVE  StageInv'
<1>. DEFINE t == slots[i]
<1>. USE DEF StageInv
<1>1. /\ slots' = RemoveAt(slots, i) /\ hidden' = hidden \ {t}
      /\ IF t \in Mapped THEN FocusToplevel(t) ELSE UNCHANGED <<kb_focus, activated, level>>
      /\ stage_focused' = t
      /\ current' = IF t \in Mapped /\ MovesFocus(t) THEN Noted(t) ELSE current
      /\ UNCHANGED <<win, mapped_toplevels, ring, rest>>
  BY DEF Restore
<1>2. slots \in Seq(Toplevels) /\ Len(slots) \in Nat
  BY DEF StageTypeOK
<1>3. /\ slots' \in Seq(Toplevels) /\ Len(slots') <= MaxSlots
      /\ Elements(slots) \ {t} \subseteq Elements(slots')
      /\ Elements(slots') \subseteq Elements(slots)
  <2>1. LET r == RemoveAt(slots, i) IN
        /\ r \in Seq(Toplevels) /\ Len(r) <= Len(slots)
        /\ Elements(slots) \ {t} \subseteq Elements(r) /\ Elements(r) \subseteq Elements(slots)
    BY <1>2, RemoveAtProperties
  <2>. QED  BY <1>1, <1>2, <2>1, SlotsAssumption
<1>4. t \in Toplevels /\ (Hears("stage-dock") => t \in Mapped)
  <2>1. t \in Toplevels
    BY <1>2
  <2>2. t \in Minimized
    BY DEF Minimized, Elements
  <2>. QED  BY <2>1, <2>2 DEF BorrowsAreMapped
<1>. HIDE DEF t
<1>5. Mapped' = Mapped /\ Visible' \subseteq Visible \cup {t}
      /\ (t \notin Mapped => Visible' \subseteq Visible)
  BY <1>1 DEF Mapped, Visible
<1>6. Hears("stage-dock")' = Hears("stage-dock") /\ Hears("keybindings")' = Hears("keybindings")
  BY <1>1 DEF Hears, rest
<1>7. /\ activated' \subseteq Toplevels /\ level' \in [Toplevels -> Nat]
      /\ kb_focus' \in Toplevels \cup {NoOne, Elsewhere}
      /\ FocusTypeOK' => FocusInv'
      /\ current' \in {current} \cup Mapped
      /\ Hears("keybindings") /\ kb_focus' \in Mapped => current' = kb_focus'
      /\ Hears("stage-dock") /\ kb_focus' \in Mapped => stage_focused' = kb_focus'
  <2>1. CASE t \notin Mapped
    <3>1. UNCHANGED <<kb_focus, activated, level, current>> /\ Visible' \subseteq Visible
      BY <1>1, <1>5, <2>1
    <3>. QED  BY <1>4, <2>1, <3>1 DEF FocusInv, FocusTypeOK, RingFollowsFocus
  <2>2. CASE t \in Mapped
    <3>1. FocusToplevel(t) /\ current' = IF MovesFocus(t) THEN Noted(t) ELSE current
      BY <1>1, <2>2
    <3>2. FocusedOn(t)
      BY <2>2, <3>1, FocusedWhat
    <3>3. FocusTypeOK' => FocusInv'
      BY <1>4, <1>5, <3>1, FocusStep
    <3>. QED  BY <1>1, <2>2, <3>1, <3>2, <3>3 DEF FocusedOn
  <2>. QED  BY <2>1, <2>2
<1>8. FocusTypeOK' /\ FocusInv'
  BY <1>1, <1>7 DEF FocusInv, FocusTypeOK
<1>9. StageTypeOK' /\ Len(slots') <= MaxSlots
  BY <1>1, <1>3, <1>4, <1>7, <1>8 DEF StageTypeOK, OrNoOne, Mapped, rest
<1>10. BorrowsAreMapped'
  <2>1. current \in OrNoOne(Mapped) => current' \in OrNoOne(Mapped)
    BY <1>7 DEF OrNoOne
  <2>. QED  BY <1>1, <1>3, <1>4, <1>5, <1>6, <2>1 DEF BorrowsAreMapped, Minimized, OrNoOne
<1>11. HiddenHasSlot'
  BY <1>1, <1>3, <1>5 DEF HiddenHasSlot, Minimized
<1>12. RingFollowsFocus' /\ StageFollowsFocus'
  BY <1>5, <1>6, <1>7 DEF RingFollowsFocus, StageFollowsFocus
<1>13. TapsAreSafe'
  BY <1>1 DEF TapsAreSafe, rest
<1>. QED  BY <1>8, <1>9, <1>10, <1>11, <1>12, <1>13

LEMMA TapStep == ASSUME StageInv, NEW i \in 1 .. MaxSlots, Tap(i) PROVE StageInv'
<1>1. i \in DOMAIN slots /\ ~crashed
  BY DEF Tap, RowsAnswer
<1>2. CASE win[slots[i]] = "gone"
  <2>. USE DEF StageInv, focusVars, dock, keys
  <2>1. crashed' = TRUE /\ UNCHANGED <<focusVars, dock, keys, disabled, rows>>
    BY <1>2 DEF Tap
  <2>2. "stage-dock" \in disabled
    <3>1. slots[i] \in Minimized /\ slots[i] \notin Mapped
      BY <1>1, <1>2 DEF Minimized, Elements, Mapped
    <3>. QED  BY <1>1, <3>1 DEF BorrowsAreMapped, Hears
  <2>3. FocusInv' /\ Mapped' = Mapped
    BY <2>1 DEF FocusInv, FocusTypeOK, Visible, Mapped
  <2>4. \A e : ~Hears(e)'
    BY <2>1 DEF Hears
  <2>5. StageTypeOK'
    BY <2>1 DEF StageTypeOK, FocusTypeOK
  <2>6. BorrowsAreMapped' /\ RingFollowsFocus' /\ StageFollowsFocus'
    BY <2>4 DEF BorrowsAreMapped, RingFollowsFocus, StageFollowsFocus
  <2>7. HiddenHasSlot' /\ TapsAreSafe'
    BY <2>1, <2>2, <2>3 DEF HiddenHasSlot, Minimized, TapsAreSafe
  <2>. QED  BY <2>1, <2>3, <2>5, <2>6, <2>7
<1>3. CASE win[slots[i]] # "gone"
  <2>1. Restore(i) /\ UNCHANGED rest
    BY <1>1, <1>3 DEF Tap, Restore
  <2>. QED  BY <1>1, <2>1, RestoreStep
<1>. QED  BY <1>2, <1>3

LEMMA StepStage == StageInv /\ [StageNext]_stageVars => StageInv'
<1>. SUFFICES ASSUME StageInv, [StageNext]_stageVars PROVE StageInv'
  OBVIOUS
<1>1. ASSUME NEW t \in Toplevels,
             \/ NewWindow(t) \/ AckWindow(t) \/ WindowMapped(t) \/ WindowUnmapped(t)
             \/ WindowDestroyed(t) \/ Click(t)
      PROVE  StageInv'
  BY <1>1, UnheardStep, MappedStep, UnmappedStep, ClickStep
<1>2. ASSUME NEW forward \in BOOLEAN, Rotate(forward) PROVE StageInv'
  BY <1>2, RotateStep
<1>3. ASSUME NEW i \in 1 .. MaxSlots, Tap(i) PROVE StageInv'
  BY <1>3, TapStep
<1>4. ASSUME NEW e \in Extensions, Throw(e) PROVE StageInv'
  BY <1>4, ThrowStep
<1>. QED  BY <1>1, <1>2, <1>3, <1>4, MinimizeStep, RenderStep, ElsewhereKeeps DEF StageNext

-----------------------------------------------------------------------------
\* The three extensions agree on the windows, the focus and the stacking in every reachable
\* state, whatever throws and whenever the dock's document is rendered.
THEOREM StageInvariant == StageSpec => []StageInv
BY InitStage, StepStage, PTL DEF StageSpec

\* No extension holds a window past its unmapped event, and both lists name every mapped
\* window exactly once (ext_xdg_shell.hpp), also when another extension threw.
THEOREM FollowersHoldOnlyMapped == StageSpec => []BorrowsAreMapped
BY StageInvariant, PTL DEF StageInv

\* No window is lost: what do_minimize_focused() hid has a slot to bring it back, however
\* map, unmap, restore and a disabled dock interleave.
THEOREM NoWindowIsLost == StageSpec => []HiddenHasSlot
BY StageInvariant, PTL DEF StageInv

\* FocusRing's cursor is the focused window, although focus_toplevel() emits nothing for a
\* window that has the focus already and the seat keeps its focus on one that unmapped.
THEOREM CursorFollowsFocus == StageSpec => []RingFollowsFocus
BY StageInvariant, PTL DEF StageInv

\* The window Super+M minimizes is the one that has the keyboard.
THEOREM DockFollowsFocus == StageSpec => []StageFollowsFocus
BY StageInvariant, PTL DEF StageInv

\* No visible window covers the focused one, although focus_toplevel() does not raise a
\* window that has the focus: it was above the others already, hidden or not.
THEOREM FocusedStaysOnTop == StageSpec => []FocusedIsOnTop
<1>1. StageInv => FocusedIsOnTop
  BY DEF StageInv, FocusInv, FocusedIsOnTop, Visible, Mapped
<1>. QED  BY <1>1, StageInvariant, PTL

\* A tap by the number of a row that was rendered before the slots changed reaches no freed
\* window, as long as the dock gets its events.
THEOREM TapsReachLiveWindows == StageSpec => []TapsAreSafe
BY StageInvariant, PTL DEF StageInv
=============================================================================
