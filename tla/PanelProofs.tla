----------------------------- MODULE PanelProofs -----------------------------
(***************************************************************************)
(* What sits along the edges of the screen: the dock that slides (the      *)
(* safety of DockReveal for every width, slop, animation length and number *)
(* of fingers) and the panels of other clients (LayerShell for any number  *)
(* of surfaces, outputs and popups, whatever they commit).                 *)
(*                                                                         *)
(* Of the dock, the inductive invariant says what it looks like when no    *)
(* gesture drives it: its target is the open or the closed end, a run      *)
(* heads for that target, no run is left only when the dock is there, and  *)
(* with no finger down and no frame to come it is also hidden or shown as  *)
(* its target says.                                                        *)
(***************************************************************************)
EXTENDS DockReveal, LayerShell, ListsProofs

Target(c) == IF c.open THEN Width ELSE 0

\* No gesture drives the dock.
Undriven == ctl.touch = 0 /\ drag.phase # "dragging"

Heads == anim.active => anim.to = ctl.slide
Arrived == ~anim.active => slide = ctl.slide
Idle == bus = {} /\ ~frame => ~anim.active /\ (visible <=> ctl.open)

RestInv ==
  /\ OpenIsVisible
  /\ SwipeHasFinger
  /\ Undriven => ctl.slide = Target(ctl) /\ Heads /\ Arrived /\ Idle

DockInv == TypeOK /\ RestInv

CtlType == [open: BOOLEAN, slide: Reveal, touch: TouchIds \cup {0}]
RecType == [active: BOOLEAN, origin: Positions, start: Reveal, frac: Reveal,
            last: Positions, vel: Speeds]
DragType == [phase: {"none", "pressed", "dragging"}, x: Positions]
AnimType == [active: BOOLEAN, to: Reveal, left: 0 .. Duration]

LEMMA ClampedIsReveal == \A f \in Int : Clamp(f) \in Reveal
BY RevealAssumption DEF Clamp, Reveal

\* What a finger does to the recognizer leaves a fraction in it.
LEMMA BegunTypes ==
  ASSUME NEW x \in Positions, NEW start \in Reveal
  PROVE  Begun(x, start, FALSE) \in RecType /\ Begun(x, start, TRUE) \in RecType
<1>1. Clamp(start) \in Reveal /\ "slow" \in Speeds
  BY ClampedIsReveal DEF Reveal, Speeds
<1>. QED  BY <1>1 DEF Begun, RecType

LEMMA UpdatedTypes ==
  ASSUME NEW r \in RecType, NEW x \in Positions, NEW v \in Speeds
  PROVE  Updated(r, x, v) \in RecType
<1>1. Clamp(r.start + x - r.origin) \in Reveal
  BY ClampedIsReveal, RevealAssumption DEF RecType, Positions, Reveal
<1>. QED  BY <1>1 DEF Updated, RecType

LEMMA SpeedTypes ==
  ASSUME NEW r \in RecType, NEW x \in Positions
  PROVE  SpeedsTo(r, x) \subseteq Speeds
BY DEF SpeedsTo, RecType, Speeds

\* Initially the dock is closed and hidden.
LEMMA InitDock == Init => DockInv
<1>. USE RevealAssumption
<1>0. 0 \in Reveal /\ 0 \in Positions /\ 0 \in 0 .. Duration /\ 0 \in 0 .. MaxSlots
  BY DEF Reveal, Positions
<1>1. SUFFICES ASSUME Init PROVE TypeOK
  <2>1. Init => RestInv
    BY DEF Init, RestInv, OpenIsVisible, SwipeHasFinger, Undriven, Target, Heads, Arrived,
           Idle
  <2>. QED  BY <2>1 DEF DockInv
<1>3. ctl \in [open: BOOLEAN, slide: Reveal, touch: TouchIds \cup {0}]
  BY <1>0, <1>1 DEF Init
<1>4. rec \in [active: BOOLEAN, origin: Positions, start: Reveal, frac: Reveal,
              last: Positions, vel: Speeds]
  BY <1>0, <1>1 DEF Init, Speeds
<1>5. anim \in [active: BOOLEAN, to: Reveal, left: 0 .. Duration]
  BY <1>0, <1>1 DEF Init
<1>6. drag \in [phase: {"none", "pressed", "dragging"}, x: Positions]
  BY <1>0, <1>1 DEF Init
<1>. QED  BY <1>0, <1>1, <1>3, <1>4, <1>5, <1>6 DEF Init, TypeOK

\* What animate_to() did, told of the controller's new state.
Started(n, shown) ==
  IF n = 0
  THEN /\ slide' = ctl'.slide
       /\ anim' = [active |-> FALSE, to |-> ctl'.slide, left |-> 0]
       /\ visible' = (shown /\ ctl'.open)
       /\ frame' = frame
  ELSE /\ anim' = [active |-> TRUE, to |-> ctl'.slide, left |-> n]
       /\ frame' = TRUE
       /\ visible' = shown
       /\ slide' = slide

\* A run that starts keeps the types, heads for the controller's target, and leaves an
\* idle dock only where it belongs.
LEMMA RunStarts ==
  ASSUME ctl' \in CtlType, slide \in Reveal, frame \in BOOLEAN,
         NEW n \in 0 .. Duration, NEW shown \in BOOLEAN, Started(n, shown),
         ctl'.open => shown
  PROVE  /\ slide' \in Reveal /\ anim' \in AnimType
         /\ frame' \in BOOLEAN /\ visible' \in BOOLEAN
         /\ OpenIsVisible' /\ Heads' /\ Arrived' /\ Idle'
<1>0. ctl'.slide \in Reveal /\ ctl'.open \in BOOLEAN /\ 0 \in 0 .. Duration
  BY RevealAssumption DEF CtlType
<1>1. CASE n = 0
  <2>1. slide' \in Reveal /\ frame' \in BOOLEAN /\ visible' \in BOOLEAN
    BY <1>0, <1>1 DEF Started
  <2>2. anim' \in AnimType
    <3>1. [active |-> FALSE, to |-> ctl'.slide, left |-> 0] \in AnimType
      BY <1>0 DEF AnimType
    <3>. QED  BY <1>1, <3>1 DEF Started
  <2>3. OpenIsVisible' /\ Heads' /\ Arrived' /\ Idle'
    BY <1>0, <1>1 DEF Started, OpenIsVisible, Heads, Arrived, Idle
  <2>. QED  BY <2>1, <2>2, <2>3
<1>2. CASE n # 0
  <2>1. slide' \in Reveal /\ frame' \in BOOLEAN /\ visible' \in BOOLEAN
    BY <1>0, <1>2 DEF Started
  <2>2. anim' \in AnimType
    <3>1. [active |-> TRUE, to |-> ctl'.slide, left |-> n] \in AnimType
      BY <1>0 DEF AnimType
    <3>. QED  BY <1>2, <3>1 DEF Started
  <2>3. OpenIsVisible' /\ Heads' /\ Arrived' /\ Idle'
    BY <1>0, <1>2 DEF Started, OpenIsVisible, Heads, Arrived, Idle
  <2>. QED  BY <2>1, <2>2, <2>3
<1>. QED  BY <1>1, <1>2

Starts == \E n \in 0 .. Duration, shown \in BOOLEAN :
            Started(n, shown) /\ (ctl'.open => shown)

\* Every release starts a run.
LEMMA ReleaseStarts ==
  ASSUME TypeOK, OpenIsVisible,
         \/ \E open \in BOOLEAN : \/ ApplyRelease(NoGesture(Snap(open)), open)
                                  \/ ApplyRelease(Snap(open), open)
         \/ ApplyRelease(NoGesture(Snap(FALSE)), FALSE)
         \/ ApplyRelease(ctl, FALSE)
  PROVE  Starts
<1>1. PICK show \in BOOLEAN :
         /\ ctl'.open => show \/ visible
         /\ \E n \in ReleaseFrames(ctl'.slide) : AnimateTo(ctl', n, visible \/ show)
  <2>1. CASE \E open \in BOOLEAN : \/ ApplyRelease(NoGesture(Snap(open)), open)
                                   \/ ApplyRelease(Snap(open), open)
    <3>1. PICK open \in BOOLEAN : \/ ApplyRelease(NoGesture(Snap(open)), open)
                                  \/ ApplyRelease(Snap(open), open)
      BY <2>1
    <3>2. NoGesture(Snap(open)).open = open /\ Snap(open).open = open
      BY DEF NoGesture, Snap
    <3>. QED  BY <3>1, <3>2 DEF ApplyRelease
  <2>2. CASE ApplyRelease(NoGesture(Snap(FALSE)), FALSE)
    <3>1. NoGesture(Snap(FALSE)).open = FALSE
      BY DEF NoGesture, Snap
    <3>. QED  BY <2>2, <3>1 DEF ApplyRelease
  <2>3. CASE ApplyRelease(ctl, FALSE)
    BY <2>3 DEF ApplyRelease, OpenIsVisible
  <2>. QED  BY <2>1, <2>2, <2>3
<1>2. PICK n \in ReleaseFrames(ctl'.slide) : AnimateTo(ctl', n, visible \/ show)
  BY <1>1
<1>3. n \in 0 .. Duration
  BY RevealAssumption DEF ReleaseFrames
<1>4. PICK shown \in BOOLEAN : shown = (visible \/ show)
  BY DEF TypeOK
<1>5. Started(n, shown)
  BY <1>2, <1>4 DEF AnimateTo, Started, Finished
<1>6. ctl'.open => shown
  BY <1>1, <1>4
<1>. QED  BY <1>3, <1>5, <1>6 DEF Starts

LEMMA AnimatedStarts ==
  ASSUME TypeOK, OpenIsVisible,
         ApplyAnimated(OpenNow) \/ ApplyAnimated(CloseNow)
  PROVE  Starts
<1>1. AnimateTo(ctl', Duration, visible \/ ctl'.open)
  BY DEF ApplyAnimated
<1>2. PICK shown \in BOOLEAN : shown = (visible \/ ctl'.open)
  BY DEF TypeOK
<1>3. Started(Duration, shown)
  BY <1>1, <1>2 DEF AnimateTo, Started, Finished
<1>4. ctl'.open => shown
  BY <1>2
<1>5. Duration \in 0 .. Duration
  BY RevealAssumption
<1>. QED  BY <1>3, <1>4, <1>5 DEF Starts

\* An action that starts a run keeps the invariant if the controller's target is one of
\* the two ends when it ends the last gesture.
LEMMA RunKeeps ==
  ASSUME DockInv, Starts,
         ctl' \in CtlType, rec' \in RecType, slots' \in 0 .. MaxSlots,
         bus' \subseteq TouchIds, drag' \in DragType,
         SwipeHasFinger', Undriven' => ctl'.slide = Target(ctl')
  PROVE  DockInv'
<1>1. slide \in Reveal /\ frame \in BOOLEAN
  BY DEF DockInv, TypeOK
<1>2. /\ slide' \in Reveal /\ anim' \in AnimType
      /\ frame' \in BOOLEAN /\ visible' \in BOOLEAN
      /\ OpenIsVisible' /\ Heads' /\ Arrived' /\ Idle'
  BY <1>1, RunStarts DEF Starts
<1>3. TypeOK'
  BY <1>2 DEF TypeOK, CtlType, RecType, AnimType, DragType
<1>4. RestInv'
  BY <1>2 DEF RestInv, Target
<1>. QED  BY <1>3, <1>4 DEF DockInv

LEMMA DockStep ==
  ASSUME DockInv, [Next]_vars
  PROVE  DockInv'
<1>. USE RevealAssumption
<1>. USE DEF DockInv
<1>0. /\ ctl \in CtlType /\ rec \in RecType /\ anim \in AnimType
      /\ slide \in Reveal /\ frame \in BOOLEAN /\ visible \in BOOLEAN
      /\ slots \in 0 .. MaxSlots /\ bus \subseteq TouchIds
      /\ drag \in DragType
  BY DEF TypeOK, CtlType, RecType, AnimType, DragType
<1>1. CASE UNCHANGED vars
  BY <1>1 DEF vars, glue, TypeOK, RestInv, OpenIsVisible, SwipeHasFinger, Undriven, Target,
              Heads, Arrived, Idle
<1>2. ASSUME NEW f \in TouchIds, NEW x \in Positions, TouchDown(f, x)
      PROVE  DockInv'
  <2>0. 0 \in Reveal /\ 0 \in 0 .. Duration
    BY DEF Reveal
  <2>1. rec' \in RecType
    <3>1. Begun(x, 0, FALSE) \in RecType
      BY <2>0, BegunTypes
    <3>. QED  BY <1>0, <1>2, <3>1 DEF TouchDown
  <2>2. ctl' \in CtlType /\ slide' \in Reveal /\ anim' \in AnimType
    <3>1. [ctl EXCEPT !.touch = f, !.slide = 0] \in CtlType
      BY <1>0, <2>0 DEF CtlType
    <3>2. [active |-> FALSE, to |-> anim.to, left |-> 0] \in AnimType
      BY <1>0, <2>0 DEF AnimType
    <3>3. [ctl EXCEPT !.touch = f, !.slide = 0].slide = 0
      BY <1>0 DEF CtlType
    <3>. QED  BY <1>0, <1>2, <2>0, <3>1, <3>2, <3>3 DEF TouchDown, ApplyScrub
  <2>3. TypeOK'
    BY <1>0, <1>2, <2>1, <2>2 DEF TouchDown, TypeOK, RecType, CtlType, AnimType
  <2>4. RestInv'
    BY <1>0, <1>2 DEF TouchDown, ApplyScrub, RestInv, OpenIsVisible, SwipeHasFinger,
       Undriven, Target, Heads, Arrived, Idle, CtlType, AnimType
  <2>. QED  BY <2>3, <2>4
<1>3. ASSUME NEW f \in TouchIds, NEW x \in Positions, TouchMotion(f, x)
      PROVE  DockInv'
  <2>1. rec' \in RecType
    BY <1>0, <1>3, UpdatedTypes, SpeedTypes DEF TouchMotion
  <2>2. ctl' \in CtlType /\ slide' \in Reveal /\ anim' \in AnimType
    BY <1>0, <1>3, <2>1 DEF TouchMotion, ApplyScrub, CtlType, AnimType, RecType
  <2>3. TypeOK'
    BY <1>0, <1>3, <2>1, <2>2 DEF TouchMotion, TypeOK, RecType, CtlType, AnimType
  <2>4. RestInv'
    BY <1>0, <1>3 DEF TouchMotion, ApplyScrub, RestInv, OpenIsVisible, SwipeHasFinger,
       Undriven, CtlType
  <2>. QED  BY <2>3, <2>4
<1>4. ASSUME NEW f \in TouchIds, TouchUp(f) \/ TouchCancel(f)
      PROVE  DockInv'
  <2>1. Starts
    BY <1>0, <1>4, ReleaseStarts DEF TouchUp, TouchCancel, CommitsOpen, RestInv
  <2>2. CASE f = ctl.touch
    <3>1. \E open \in BOOLEAN : ctl' = NoGesture(Snap(open))
      BY <1>4, <2>2 DEF TouchUp, TouchCancel, ApplyRelease, CommitsOpen
    <3>2. ctl' \in CtlType /\ ctl'.touch = 0 /\ ctl'.slide = Target(ctl')
      BY <3>1, <1>0 DEF NoGesture, Snap, CtlType, Target, Reveal
    <3>. QED  BY <1>0, <1>4, <2>1, <3>2, RunKeeps DEF TouchUp, TouchCancel, SwipeHasFinger
  <2>3. CASE f # ctl.touch
    <3>1. ctl' = ctl
      BY <1>4, <2>3 DEF TouchUp, TouchCancel, ApplyRelease
    <3>2. SwipeHasFinger' /\ (Undriven' => ctl'.slide = Target(ctl'))
      BY <1>4, <2>3, <3>1 DEF TouchUp, TouchCancel, SwipeHasFinger, RestInv, Undriven,
         Target
    <3>. QED  BY <1>0, <1>4, <2>1, <3>1, <3>2, RunKeeps DEF TouchUp, TouchCancel
  <2>. QED  BY <2>2, <2>3
<1>5. ASSUME NEW x \in Positions, Press(x)
      PROVE  DockInv'
  <2>1. drag' \in DragType
    BY <1>5 DEF Press, DragType
  <2>2. TypeOK'
    BY <1>0, <1>5, <2>1 DEF Press, glue, TypeOK, DragType
  <2>3. RestInv'
    BY <1>5 DEF Press, glue, RestInv, OpenIsVisible, SwipeHasFinger, Undriven, Target, Heads,
       Arrived, Idle
  <2>. QED  BY <2>2, <2>3
<1>6. ASSUME NEW x \in Positions, DragStart(x) \/ DragMove(x)
      PROVE  DockInv'
  <2>1. rec' \in RecType
    <3>1. CASE DragStart(x)
      <4>1. Begun(drag.x, ctl.slide, TRUE) \in RecType
        BY <1>0, BegunTypes DEF DragType, CtlType
      <4>. QED  BY <3>1, <4>1, UpdatedTypes, SpeedTypes DEF DragStart
    <3>2. CASE DragMove(x)
      BY <1>0, <3>2, UpdatedTypes, SpeedTypes DEF DragMove
    <3>. QED  BY <1>6, <3>1, <3>2
  <2>2. drag' \in DragType /\ drag'.phase = "dragging"
    <3>1. drag' = [phase |-> "dragging", x |-> x]
      BY <1>6 DEF DragStart, DragMove
    <3>. QED  BY <3>1 DEF DragType
  <2>3. ctl' \in CtlType /\ slide' \in Reveal /\ anim' \in AnimType
    <3>1. ApplyScrub([ctl EXCEPT !.slide = rec'.frac])
      BY <1>6 DEF DragStart, DragMove
    <3>2. rec'.frac \in Reveal
      BY <2>1 DEF RecType
    <3>. QED  BY <1>0, <3>1, <3>2 DEF ApplyScrub, CtlType, AnimType
  <2>4. TypeOK'
    BY <1>0, <1>6, <2>1, <2>2, <2>3 DEF DragStart, DragMove, TypeOK, RecType, CtlType,
       AnimType, DragType
  <2>5. RestInv'
    BY <1>0, <1>6, <2>2 DEF DragStart, DragMove, ApplyScrub, RestInv, OpenIsVisible,
       SwipeHasFinger, Undriven, CtlType
  <2>. QED  BY <2>4, <2>5
<1>7. ASSUME DragEnd
      PROVE  DockInv'
  <2>1. drag' \in DragType
    BY <1>7 DEF DragEnd, DragType, Positions
  <2>2. CASE drag.phase = "dragging"
    <3>1. Starts
      BY <1>0, <1>7, <2>2, ReleaseStarts DEF DragEnd, CommitsOpen, RestInv
    <3>2. \E open \in BOOLEAN : ctl' = Snap(open)
      BY <1>7, <2>2 DEF DragEnd, ApplyRelease, CommitsOpen
    <3>3. ctl' \in CtlType /\ ctl'.touch = ctl.touch /\ ctl'.slide = Target(ctl')
      BY <3>2, <1>0 DEF Snap, CtlType, Target, Reveal
    <3>4. SwipeHasFinger'
      BY <1>7, <3>3 DEF DragEnd, SwipeHasFinger, RestInv
    <3>. QED  BY <1>0, <1>7, <2>1, <3>1, <3>3, <3>4, RunKeeps DEF DragEnd
  <2>3. CASE drag.phase # "dragging"
    <3>1. TypeOK'
      BY <1>0, <1>7, <2>1, <2>3 DEF DragEnd, glue, TypeOK, DragType
    <3>2. RestInv'
      BY <1>7, <2>3 DEF DragEnd, glue, RestInv, OpenIsVisible, SwipeHasFinger, Undriven,
         Target, Heads, Arrived, Idle
    <3>. QED  BY <3>1, <3>2
  <2>. QED  BY <2>2, <2>3
<1>8. ASSUME ApplyAnimated(OpenNow) \/ ApplyAnimated(CloseNow),
             slots' \in 0 .. MaxSlots, UNCHANGED <<rec, bus, drag>>
      PROVE  DockInv'
  <2>1. Starts
    BY <1>8, AnimatedStarts DEF RestInv
  <2>2. ctl' \in CtlType /\ ctl'.touch = ctl.touch /\ ctl'.slide = Target(ctl')
    <3>1. ctl' = OpenNow \/ ctl' = CloseNow
      BY <1>8 DEF ApplyAnimated
    <3>2. 0 \in Reveal /\ Width \in Reveal
      BY DEF Reveal
    <3>. QED  BY <1>0, <3>1, <3>2 DEF OpenNow, CloseNow, CtlType, Target
  <2>3. SwipeHasFinger'
    BY <1>8, <2>2 DEF SwipeHasFinger, RestInv
  <2>. QED  BY <1>0, <1>8, <2>1, <2>2, <2>3, RunKeeps
<1>9. ASSUME Toggle
      PROVE  DockInv'
  BY <1>0, <1>8, <1>9 DEF Toggle
<1>10. ASSUME NEW n \in 0 .. MaxSlots, RefreshSlots(n)
       PROVE  DockInv'
  <2>1. CASE (n # 0) = ctl.open
    <3>1. TypeOK'
      BY <1>10, <2>1 DEF RefreshSlots, glue, TypeOK
    <3>2. RestInv'
      BY <1>10, <2>1 DEF RefreshSlots, glue, RestInv, OpenIsVisible, SwipeHasFinger,
         Undriven, Target, Heads, Arrived, Idle
    <3>. QED  BY <3>1, <3>2
  <2>2. CASE (n # 0) # ctl.open
    BY <1>8, <1>10, <2>2 DEF RefreshSlots
  <2>. QED  BY <2>1, <2>2
<1>11. ASSUME Minimize \/ Restore \/ Unmapped
       PROVE  DockInv'
  <2>1. \E n \in 0 .. MaxSlots : RefreshSlots(n)
    BY <1>0, <1>11 DEF Minimize, Restore, Unmapped
  <2>. QED  BY <1>10, <2>1
<1>12. ASSUME OnFrame
       PROVE  DockInv'
  <2>1. CASE anim.active /\ anim.left > 1
    <3>1. /\ slide' \in Reveal /\ anim' = [anim EXCEPT !.left = @ - 1]
          /\ UNCHANGED <<frame, visible, ctl, rec, slots, bus, drag>>
      <4>1. ~(~anim.active \/ anim.left = 1)
        BY <1>0, <2>1 DEF AnimType
      <4>. QED  BY <1>12, <4>1 DEF OnFrame, Between
    <3>2. anim.left - 1 \in 0 .. Duration
      BY <1>0, <2>1 DEF AnimType
    <3>3. anim' \in AnimType /\ anim'.active = anim.active /\ anim'.to = anim.to
      BY <1>0, <3>1, <3>2 DEF AnimType
    <3>4. TypeOK'
      BY <1>0, <3>1, <3>3 DEF TypeOK, AnimType
    <3>5. RestInv'
      BY <2>1, <3>1, <3>3 DEF RestInv, OpenIsVisible, SwipeHasFinger, Undriven, Target,
         Heads, Arrived, Idle
    <3>. QED  BY <3>4, <3>5
  <2>2. CASE ~(anim.active /\ anim.left > 1)
    <3>1. /\ slide' = (IF anim.active THEN anim.to ELSE slide)
          /\ anim' = [anim EXCEPT !.active = FALSE, !.left = 0]
          /\ visible' = (visible /\ ctl.open)
          /\ frame' = FALSE
          /\ UNCHANGED <<ctl, rec, slots, bus, drag>>
      BY <1>12, <2>2 DEF OnFrame, Finished
    <3>2. slide' \in Reveal
      BY <1>0, <3>1 DEF AnimType
    <3>3. anim' \in AnimType /\ ~anim'.active
      <4>1. 0 \in 0 .. Duration
        OBVIOUS
      <4>. QED  BY <1>0, <3>1, <4>1 DEF AnimType
    <3>4. visible' \in BOOLEAN
      BY <3>1
    <3>5. TypeOK'
      BY <1>0, <3>1, <3>2, <3>3, <3>4 DEF TypeOK, AnimType
    <3>6. RestInv'
      BY <3>1, <3>3 DEF RestInv, OpenIsVisible, SwipeHasFinger, Undriven, Target, Heads,
         Arrived, Idle
    <3>. QED  BY <3>5, <3>6
  <2>. QED  BY <2>1, <2>2
<1>. QED
  BY <1>1, <1>2, <1>3, <1>4, <1>5, <1>6, <1>7, <1>9, <1>11, <1>12 DEF Next

LEMMA DockInvariant == Spec => []DockInv
BY InitDock, DockStep, PTL DEF Spec

\* The dock keeps its types: every fraction and position stays between hidden and shown.
THEOREM DockTypes == Spec => []TypeOK
<1>1. DockInv => TypeOK
  BY DEF DockInv
<1>. QED  BY <1>1, DockInvariant, PTL

\* No gesture, key or animation leaves an open dock hidden.
THEOREM OpenDockIsVisible == Spec => []OpenIsVisible
<1>1. DockInv => OpenIsVisible
  BY DEF DockInv, RestInv
<1>. QED  BY <1>1, DockInvariant, PTL

\* A swipe never outlives its finger.
THEOREM SwipeEndsWithFinger == Spec => []SwipeHasFinger
<1>1. DockInv => SwipeHasFinger
  BY DEF DockInv, RestInv
<1>. QED  BY <1>1, DockInvariant, PTL

\* A dock that nothing moves any more is wholly shown or wholly hidden.
THEOREM DockIsNeverStranded == Spec => []NeverStranded
<1>1. DockInv => NeverStranded
  BY DEF DockInv, RestInv, NeverStranded, AtRest, Undriven, Target, Heads, Arrived, Idle,
         SwipeHasFinger
<1>. QED  BY <1>1, DockInvariant, PTL

------------------------------------------------------------------------------
(* LayerShell.  The areas: a recursion over the states of the surfaces, of   *)
(* which only two facts are needed, that a new state is applied last and      *)
(* that a fresh one changes nothing.                                          *)

Areas == [x: Int, y: Int, width: Int, height: Int]

LEMMA ApplyBox ==
  ASSUME NEW area \in Areas, NEW s \in SurfaceState
  PROVE  ApplyExclusive(area, s) \in Areas
<1>. DEFINE e == ExclusiveEdge(s)
            d == s.zone + s.margin[e]
<1>1. e \in Edges \cup {"none"}
  <2>1. (\E f \in Edges : IsStrip(s.anchor, f))
          => (CHOOSE f \in Edges : IsStrip(s.anchor, f)) \in Edges
    OBVIOUS
  <2>. QED  BY <2>1 DEF ExclusiveEdge, SurfaceState
<1>2. d \in Int
  BY <1>1 DEF SurfaceState
<1>. HIDE DEF e, d
<1>3. \A n \in Int : NotNegative(n) \in Int
  BY DEF NotNegative
<1>4. ApplyExclusive(area, s)
        = IF e = "none" THEN area
          ELSE [x      |-> area.x + (IF e = "left" THEN d ELSE 0),
                y      |-> area.y + (IF e = "top" THEN d ELSE 0),
                width  |-> NotNegative(area.width - (IF e \in {"left", "right"} THEN d ELSE 0)),
                height |-> NotNegative(area.height - (IF e \in {"top", "bottom"} THEN d ELSE 0))]
  BY DEF ApplyExclusive, e, d
<1>. QED  BY <1>2, <1>3, <1>4 DEF Areas

\* A surface that was just created reserves nothing.
LEMMA FreshReservesNothing ==
  ASSUME NEW area PROVE Fresh \in SurfaceState /\ ApplyExclusive(area, Fresh) = area
BY DEF Fresh, SurfaceState, ApplyExclusive, ExclusiveEdge

\* f is what is left after each of the states.
LeavesBy(f, states) ==
  /\ f[0] = Full
  /\ \A i \in 1 .. Len(states) : f[i] = ApplyExclusive(f[i - 1], states[i])
  /\ Left(states) = f[Len(states)]

LEMMA LeftSteps ==
  ASSUME NEW l \in Seq(SurfaceState)
  PROVE  \E f \in [0 .. Len(l) -> Areas] : LeavesBy(f, l)
<1>. DEFINE N == Len(l)
            Step(a, i) == ApplyExclusive(a, l[i])
            step == [i \in 1 .. N |-> [a \in Areas |-> Step(a, i)]]
            f == CHOOSE g : g = [i \in 0 .. N |-> IF i = 0 THEN Full ELSE Step(g[i - 1], i)]
<1>1. N \in Nat /\ \A i \in 1 .. N : l[i] \in SurfaceState
  OBVIOUS
<1>2. \A i \in 1 .. N : \A a \in Areas : Step(a, i) \in Areas
  BY <1>1, ApplyBox
<1>3. Left(l) = f[N]
  BY DEF Left
<1>4. Full \in Areas
  BY LayerAssumption DEF Areas
<1>. HIDE DEF N, Step
<1>5. step \in [1 .. N -> [Areas -> Areas]]
  BY <1>2
<1>6. \E u \in [0 .. N -> Areas] : u[0] = Full /\ \A i \in 1 .. N : u[i] = step[i][u[i - 1]]
  <2>. HIDE DEF step, f
  <2>2. \E u \in [0 .. N -> Areas] : Repeats(u, N, Full, step)
    BY <1>1, <1>4, <1>5, RecursionExists
  <2>. QED  BY <2>2 DEF Repeats
<1>7. PICK u \in [0 .. N -> Areas] : u[0] = Full /\ \A i \in 1 .. N : u[i] = step[i][u[i - 1]]
  BY <1>6
<1>8. ASSUME NEW i \in 1 .. N PROVE u[i] = Step(u[i - 1], i)
  <2>1. u[i - 1] \in Areas
    BY <1>1, <1>7
  <2>. QED  BY <2>1, <1>7
<1>. HIDE DEF step
<1>9. u = [i \in 0 .. N |-> IF i = 0 THEN Full ELSE Step(u[i - 1], i)]
  <2>1. \A i \in 0 .. N : i = 0 \/ i \in 1 .. N
    BY <1>1
  <2>. QED  BY <1>7, <1>8, <2>1
<1>10. f = [i \in 0 .. N |-> IF i = 0 THEN Full ELSE Step(f[i - 1], i)]
  BY <1>9
<1>. HIDE DEF f
<1>11. f[0] = Full /\ \A i \in 1 .. N : f[i] = Step(f[i - 1], i)
  <2>1. 0 \in 0 .. N /\ \A i \in 1 .. N : i \in 0 .. N /\ i # 0
    BY <1>1
  <2>. QED  BY <1>10, <2>1
<1>12. \A i \in 0 .. N : f[i] \in Areas
  <2>. DEFINE E == {i \in 0 .. N : f[i] \in Areas}
  <2>1. 0 \in E
    BY <1>1, <1>4, <1>11
  <2>2. ASSUME NEW i \in 0 .. N - 1, i \in E PROVE i + 1 \in E
    <3>1. i + 1 \in 1 .. N /\ (i + 1) - 1 = i /\ i + 1 \in 0 .. N
      BY <1>1
    <3>. QED  BY <1>2, <1>11, <2>2, <3>1
  <2>3. \A i \in 0 .. N : i \in E
    <3>. HIDE DEF E
    <3>. QED  BY <1>1, <2>1, <2>2, InductionUpTo
  <2>. QED  BY <2>3
<1>13. f \in [0 .. N -> Areas]
  BY <1>10, <1>12
<1>. QED  BY <1>3, <1>11, <1>13 DEF N, Step, LeavesBy

LEMMA LeftAppend ==
  ASSUME NEW l \in Seq(SurfaceState), NEW s \in SurfaceState
  PROVE  Left(Append(l, s)) = ApplyExclusive(Left(l), s)
<1>. DEFINE c == Append(l, s)
            n == Len(l)
            N == Len(c)
<1>0. n \in Nat /\ N = n + 1
  OBVIOUS
<1>1. /\ c \in Seq(SurfaceState)
      /\ \A i \in 1 .. n : c[i] = l[i]
      /\ c[n + 1] = s
  OBVIOUS
<1>2. PICK u \in [0 .. N -> Areas] : LeavesBy(u, c)
  BY <1>1, LeftSteps
<1>3. PICK v \in [0 .. n -> Areas] : LeavesBy(v, l)
  BY LeftSteps
<1>. HIDE DEF c, n, N
<1>. DEFINE E == {i \in 0 .. n : u[i] = v[i]}
<1>4. 0 \in E
  BY <1>0, <1>2, <1>3 DEF LeavesBy
<1>5. ASSUME NEW i \in 0 .. n - 1, i \in E PROVE i + 1 \in E
  <2>1. i + 1 \in 1 .. N /\ (i + 1) - 1 = i /\ i + 1 \in 0 .. n /\ i + 1 \in 1 .. n
    BY <1>0
  <2>2. u[i + 1] = ApplyExclusive(u[i], c[i + 1])
    BY <1>2, <2>1 DEF LeavesBy, N
  <2>3. v[i + 1] = ApplyExclusive(v[i], l[i + 1])
    BY <1>3, <2>1 DEF LeavesBy, n
  <2>. QED  BY <1>1, <1>5, <2>1, <2>2, <2>3
<1>6. u[n] = v[n]
  <2>. HIDE DEF E
  <2>1. \A i \in 0 .. n : i \in E
    BY <1>0, <1>4, <1>5, InductionUpTo
  <2>. QED  BY <1>0, <2>1 DEF E
<1>7. u[N] = ApplyExclusive(u[n], s)
  <2>1. N \in 1 .. N /\ N - 1 = n /\ N = n + 1
    BY <1>0
  <2>2. u[N] = ApplyExclusive(u[N - 1], c[N])
    BY <1>2, <2>1 DEF LeavesBy, N
  <2>. QED  BY <1>1, <2>1, <2>2
<1>. QED  BY <1>2, <1>3, <1>6, <1>7 DEF LeavesBy, c, n, N

LEMMA LeftIsArea == ASSUME NEW l \in Seq(SurfaceState) PROVE Left(l) \in Areas
<1>1. PICK f \in [0 .. Len(l) -> Areas] : LeavesBy(f, l)
  BY LeftSteps
<1>. QED  BY <1>1 DEF LeavesBy

------------------------------------------------------------------------------
(* arrange().                                                              *)

SurfaceRecord ==
  [output: Outputs \cup {NoOne}, state: SurfaceState, keyboard: Keyboards \cup {"none"},
   alive: BOOLEAN, initialized: BOOLEAN, configured: BOOLEAN, mapped: BOOLEAN]
SurfaceMap == [Surfaces -> SurfaceRecord]
AreaMap == UNION {[D -> Areas] : D \in SUBSET Outputs}

\* a is b, but may have been configured.
SameBut(a, b) == a = b \/ a = [b EXCEPT !.configured = TRUE]

\* What is left of an output is told by the states of the surfaces on it.
LEMMA SameRemains ==
  ASSUME NEW o, NEW pl \in Seq(Surfaces), NEW pm \in Seq(Surfaces),
         NEW sf \in SurfaceMap, NEW sg \in SurfaceMap,
         OnOutput(o, pl, sf) = OnOutput(o, pm, sg),
         \A s \in Elements(pl) : sf[s].output = o => sf[s].state = sg[s].state
  PROVE  Remaining(o, pl, sf) = Remaining(o, pm, sg)
<1>. DEFINE on == OnOutput(o, pl, sf)
            S == {s \in Surfaces : sf[s].output = o}
<1>1. on = Kept(pl, S)
  BY DEF OnOutput
<1>2. on \in Seq(Surfaces) /\ Elements(on) = Elements(pl) \cap S
  <2>. HIDE DEF on, S
  <2>. QED  BY <1>1, KeptProperties
<1>3. \A i \in DOMAIN on : sf[on[i]].state = sg[on[i]].state
  BY <1>2 DEF Elements
<1>4. on = OnOutput(o, pm, sg)
  OBVIOUS
<1>. HIDE DEF on
<1>5. Remaining(o, pl, sf) = Left([i \in DOMAIN on |-> sf[on[i]].state])
  BY DEF Remaining, on
<1>6. Remaining(o, pm, sg) = Left([i \in DOMAIN on |-> sg[on[i]].state])
  BY <1>4 DEF Remaining
<1>7. [i \in DOMAIN on |-> sf[on[i]].state] = [i \in DOMAIN on |-> sg[on[i]].state]
  BY <1>3
<1>. QED  BY <1>5, <1>6, <1>7

LEMMA RemainingIsArea ==
  ASSUME NEW o, NEW pl \in Seq(Surfaces), NEW sf \in SurfaceMap
  PROVE  /\ [i \in DOMAIN OnOutput(o, pl, sf) |-> sf[OnOutput(o, pl, sf)[i]].state]
              \in Seq(SurfaceState)
         /\ Remaining(o, pl, sf) \in Areas
<1>. DEFINE on == OnOutput(o, pl, sf)
            l == [i \in DOMAIN on |-> sf[on[i]].state]
<1>1. on \in Seq(Surfaces)
  BY KeptProperties DEF OnOutput
<1>. HIDE DEF on
<1>2. l \in Seq(SurfaceState)
  <2>1. \A i \in 1 .. Len(on) : sf[on[i]].state \in SurfaceState
    BY <1>1 DEF SurfaceMap, SurfaceRecord
  <2>2. DOMAIN on = 1 .. Len(on) /\ Len(on) \in Nat
    BY <1>1
  <2>. QED  BY <2>1, <2>2
<1>3. Left(l) \in Areas
  BY <1>2, LeftIsArea
<1>. QED  BY <1>2, <1>3 DEF Remaining, on

\* What arrange(o) makes of the surfaces and the areas.
ArrangedFrom(d, o, pl, sf, us) ==
  /\ d.surf \in SurfaceMap /\ d.usable \in AreaMap
  /\ \A s \in Surfaces : SameBut(d.surf[s], sf[s])
  /\ \A s \in Surfaces : s \in Elements(pl) /\ sf[s].output = o => d.surf[s].configured
  /\ \A s \in Surfaces : ~(s \in Elements(pl) /\ sf[s].output = o) => d.surf[s] = sf[s]
  /\ DOMAIN d.usable = DOMAIN us \cup {o}
  /\ d.usable[o] = Remaining(o, pl, d.surf)
  /\ \A q \in DOMAIN us : q # o => d.usable[q] = us[q]
  /\ \A q \in Outputs : Remaining(q, pl, d.surf) = Remaining(q, pl, sf)

LEMMA ArrangeDoes ==
  ASSUME NEW o \in Outputs, NEW pl \in Seq(Surfaces), NEW sf \in SurfaceMap, NEW us \in AreaMap
  PROVE  ArrangedFrom(Arrange(o, pl, sf, us), o, pl, sf, us)
<1>. DEFINE on == OnOutput(o, pl, sf)
            S == {s \in Surfaces : sf[s].output = o}
            sg == Configured(o, pl, sf)
            r == Remaining(o, pl, sf)
            ut == WithEntry(us, o, r)
<1>1. Arrange(o, pl, sf, us) = [surf |-> sg, usable |-> ut]
  BY LayerAssumption DEF Arrange
<1>2. Elements(on) = Elements(pl) \cap S
  <2>1. on = Kept(pl, S)
    BY DEF OnOutput
  <2>. HIDE DEF on, S
  <2>. QED  BY <2>1, KeptProperties
<1>3. sg = [s \in Surfaces |-> IF s \in Elements(on) THEN [sf[s] EXCEPT !.configured = TRUE]
                               ELSE sf[s]]
  BY DEF Configured
<1>. HIDE DEF on, sg
<1>4. sg \in SurfaceMap /\ \A s \in Surfaces : SameBut(sg[s], sf[s])
  BY <1>3 DEF SurfaceMap, SurfaceRecord, SameBut
<1>5. \A s \in Surfaces : s \in Elements(pl) /\ sf[s].output = o => sg[s].configured
  BY <1>2, <1>3 DEF SurfaceMap, SurfaceRecord
<1>6. \A s \in Surfaces : ~(s \in Elements(pl) /\ sf[s].output = o) => sg[s] = sf[s]
  BY <1>2, <1>3
<1>7. ASSUME NEW q \in Outputs PROVE Remaining(q, pl, sg) = Remaining(q, pl, sf)
  <2>1. \A s \in Surfaces : sg[s].output = sf[s].output /\ sg[s].state = sf[s].state
    BY <1>4 DEF SameBut, SurfaceMap, SurfaceRecord
  <2>2. OnOutput(q, pl, sg) = OnOutput(q, pl, sf)
    BY <2>1 DEF OnOutput
  <2>3. \A s \in Elements(pl) : s \in Surfaces
    BY DEF Elements
  <2>. QED  BY <1>4, <2>1, <2>2, <2>3, SameRemains
<1>8. r \in Areas
  BY RemainingIsArea
<1>. HIDE DEF r
<1>9. /\ ut \in AreaMap /\ DOMAIN ut = DOMAIN us \cup {o} /\ ut[o] = r
      /\ \A q \in DOMAIN us : q # o => ut[q] = us[q]
  <2>1. PICK D \in SUBSET Outputs : us \in [D -> Areas]
    BY DEF AreaMap
  <2>2. ut \in [D \cup {o} -> Areas] /\ D \cup {o} \in SUBSET Outputs
    BY <1>8, <2>1 DEF WithEntry
  <2>3. ut[o] = r /\ \A q \in D : q # o => ut[q] = us[q]
    BY <2>1 DEF WithEntry
  <2>. HIDE DEF ut
  <2>. QED  BY <2>1, <2>2, <2>3 DEF AreaMap
<1>10. r = Remaining(o, pl, sg)
  BY <1>7 DEF r
<1>. HIDE DEF ut
<1>. QED  BY <1>1, <1>4, <1>5, <1>6, <1>7, <1>9, <1>10 DEF ArrangedFrom

------------------------------------------------------------------------------
(* Closing and adopting.                                                   *)

Tracked == [outputs: Seq(Outputs), pending: Seq(Surfaces), placed: Seq(Surfaces),
            surf: SurfaceMap, usable: AreaMap]

AreasCurrent(st) ==
  \A o \in Elements(st.outputs) :
    o \in DOMAIN st.usable /\ st.usable[o] = Remaining(o, st.placed, st.surf)

Answered(st) ==
  \A s \in Surfaces :
    st.surf[s].initialized =>
      IF s \in Elements(st.pending) THEN Elements(st.outputs) = {} ELSE st.surf[s].configured

\* What holds between any two of the extension's steps, and within the loops.
ListsGood(st) ==
  /\ NoDuplicates(st.placed) /\ NoDuplicates(st.pending)
  /\ Elements(st.placed) \cap Elements(st.pending) = {}
  /\ Elements(st.placed) \cup Elements(st.pending) = {s \in Surfaces : st.surf[s].alive}
  /\ \A s \in Surfaces : ~st.surf[s].alive => st.surf[s] = Gone
  /\ \A s \in Elements(st.placed) : st.surf[s].output \in Outputs
  /\ Elements(st.pending) # {} => Elements(st.outputs) = {}

Good(st) == st \in Tracked /\ ListsGood(st) /\ AreasCurrent(st) /\ Answered(st)

OnTracked(st) == \A s \in Elements(st.placed) : st.surf[s].output \in Elements(st.outputs)

LEMMA ElementsOf == ASSUME NEW X, NEW s \in Seq(X) PROVE Elements(s) \subseteq X
BY DEF Elements

LEMMA GoneRecord == Gone \in SurfaceRecord
BY FreshReservesNothing DEF Gone, SurfaceRecord

\* What a destroy handler does.
Closed(d, st, s) ==
  /\ Good(d)
  /\ d.outputs = st.outputs /\ d.pending = st.pending
  /\ Elements(d.placed) = Elements(st.placed) \ {s}
  /\ \A q \in Surfaces : q # s => SameBut(d.surf[q], st.surf[q])
  /\ d.surf[s] = Gone

LEMMA CloseCloses ==
  ASSUME NEW st, Good(st), NEW s \in Elements(st.placed)
  PROVE  Closed(Close(st, s), st, s)
<1>. DEFINE left == Dropped(st.placed, {s})
            sf == [st.surf EXCEPT ![s] = Gone]
            o == st.surf[s].output
            a == Arrange(o, left, sf, st.usable)
            d == Close(st, s)
            E == Elements(st.placed)
<1>1. /\ st \in Tracked /\ s \in Surfaces /\ o \in Outputs
      /\ st.placed \in Seq(Surfaces) /\ st.surf \in SurfaceMap /\ st.usable \in AreaMap
  <2>1. st \in Tracked /\ st.placed \in Seq(Surfaces)
    BY DEF Good, Tracked
  <2>2. s \in Surfaces
    BY <2>1, ElementsOf
  <2>. QED  BY <2>1, <2>2 DEF Good, ListsGood, Tracked
<1>2. /\ left \in Seq(Surfaces) /\ Elements(left) = E \ {s}
      /\ NoDuplicates(st.placed) => NoDuplicates(left)
  BY <1>1, DroppedProperties
<1>3. sf \in SurfaceMap /\ sf[s] = Gone /\ \A q \in Surfaces : q # s => sf[q] = st.surf[q]
  BY <1>1, GoneRecord DEF SurfaceMap
<1>4. d = [st EXCEPT !.placed = left, !.surf = a.surf, !.usable = a.usable]
  BY DEF Close
<1>. HIDE DEF left, sf
<1>5. ArrangedFrom(a, o, left, sf, st.usable)
  <2>. HIDE DEF o, a
  <2>. QED  BY <1>1, <1>2, <1>3, ArrangeDoes DEF a
<1>. HIDE DEF a, d, o
<1>6. /\ d \in Tracked /\ d.outputs = st.outputs /\ d.pending = st.pending
      /\ d.placed = left /\ d.surf = a.surf /\ d.usable = a.usable
  BY <1>1, <1>2, <1>4, <1>5 DEF Tracked, ArrangedFrom
<1>7. d.surf[s] = Gone
  BY <1>1, <1>2, <1>3, <1>5, <1>6 DEF ArrangedFrom
<1>8. \A q \in Surfaces : q # s => SameBut(d.surf[q], st.surf[q])
  BY <1>3, <1>5, <1>6 DEF ArrangedFrom
<1>9. \A q \in Surfaces : q # s => /\ d.surf[q].alive = st.surf[q].alive
                                   /\ d.surf[q].output = st.surf[q].output
                                   /\ d.surf[q].initialized = st.surf[q].initialized
                                   /\ st.surf[q].configured => d.surf[q].configured
  BY <1>1, <1>8 DEF SameBut, SurfaceMap, SurfaceRecord
<1>10. ListsGood(d)
  <2>1. s \notin Elements(st.pending)
    BY DEF Good, ListsGood
  <2>2. {q \in Surfaces : d.surf[q].alive} = {q \in Surfaces : st.surf[q].alive} \ {s}
    BY <1>7, <1>9 DEF Gone
  <2>3. \A q \in Surfaces : ~d.surf[q].alive => d.surf[q] = Gone
    <3>1. ASSUME NEW q \in Surfaces, ~d.surf[q].alive, q # s PROVE d.surf[q] = Gone
      <4>1. st.surf[q] = Gone /\ ~st.surf[q].alive
        BY <1>9, <3>1 DEF Good, ListsGood
      <4>2. q \notin Elements(left)
        BY <1>2, <4>1 DEF Good, ListsGood
      <4>. QED  BY <1>3, <1>5, <1>6, <3>1, <4>1, <4>2 DEF ArrangedFrom
    <3>. QED  BY <1>7, <3>1
  <2>4. \A q \in Elements(d.placed) : d.surf[q].output \in Outputs
    BY <1>1, <1>2, <1>6, <1>9, ElementsOf DEF Good, ListsGood
  <2>. QED  BY <1>2, <1>6, <2>1, <2>2, <2>3, <2>4 DEF Good, ListsGood
<1>11. AreasCurrent(d)
  <2>1. SUFFICES ASSUME NEW q \in Elements(d.outputs)
                 PROVE  q \in DOMAIN d.usable /\ d.usable[q] = Remaining(q, d.placed, d.surf)
    BY DEF AreasCurrent
  <2>2. q \in DOMAIN st.usable /\ st.usable[q] = Remaining(q, st.placed, st.surf) /\ q \in Outputs
    BY <1>1, <1>6, ElementsOf DEF Good, AreasCurrent, Tracked
  <2>3. CASE q = o
    BY <1>5, <1>6, <2>3 DEF ArrangedFrom
  <2>4. CASE q # o
    <3>. DEFINE S == {x \in Surfaces : sf[x].output = q}
                T == {x \in Surfaces : st.surf[x].output = q}
    <3>1. E \cap ((E \ {s}) \cap S) = E \cap T
      BY <1>1, <1>3, <2>4, ElementsOf DEF o
    <3>2. OnOutput(q, left, sf) = Kept(Kept(st.placed, E \ {s}), S)
      BY DEF OnOutput, left, Dropped
    <3>3. OnOutput(q, st.placed, st.surf) = Kept(st.placed, T)
      BY DEF OnOutput
    <3>. HIDE DEF S, T
    <3>4. Kept(Kept(st.placed, E \ {s}), S) = Kept(st.placed, (E \ {s}) \cap S)
      BY <1>1, KeptKept
    <3>5. Kept(st.placed, (E \ {s}) \cap S) = Kept(st.placed, T)
      BY <1>1, <3>1, KeptSame
    <3>6. OnOutput(q, left, sf) = OnOutput(q, st.placed, st.surf)
      BY <3>2, <3>3, <3>4, <3>5
    <3>7. \A x \in Elements(left) : sf[x].state = st.surf[x].state
      BY <1>1, <1>2, <1>3, ElementsOf
    <3>8. Remaining(q, left, sf) = Remaining(q, st.placed, st.surf)
      BY <1>1, <1>2, <1>3, <3>6, <3>7, SameRemains
    <3>. QED  BY <1>5, <1>6, <2>2, <2>4, <3>8 DEF ArrangedFrom
  <2>. QED  BY <2>3, <2>4
<1>12. Answered(d)
  <2>1. ~Gone.initialized
    BY DEF Gone
  <2>. QED  BY <1>6, <1>7, <1>9, <2>1 DEF Good, Answered
<1>. QED  BY <1>2, <1>6, <1>7, <1>8, <1>10, <1>11, <1>12 DEF Closed, Good, d

LEMMA SameButTwice ==
  ASSUME NEW a \in SurfaceRecord, NEW b \in SurfaceRecord, NEW c \in SurfaceRecord,
         SameBut(a, b), SameBut(b, c)
  PROVE  SameBut(a, c)
BY DEF SameBut, SurfaceRecord

SameFields(a, b) ==
  /\ a.alive = b.alive
  /\ a.output = b.output
  /\ a.initialized = b.initialized
  /\ b.configured => a.configured

LEMMA SameButFields ==
  ASSUME NEW a \in SurfaceRecord, NEW b \in SurfaceRecord, SameBut(a, b)
  PROVE  SameFields(a, b) /\ a.mapped = b.mapped
BY DEF SameBut, SameFields, SurfaceRecord

\* What closing every surface of a list does.
ClosedAll(d, st, S) ==
  /\ Good(d)
  /\ d.outputs = st.outputs /\ d.pending = st.pending
  /\ Elements(d.placed) = Elements(st.placed) \ S
  /\ \A q \in Surfaces \ S : SameBut(d.surf[q], st.surf[q])

LEMMA CloseAllCloses ==
  ASSUME NEW st, Good(st), NEW l \in Seq(Surfaces), NoDuplicates(l),
         Elements(l) \subseteq Elements(st.placed)
  PROVE  ClosedAll(CloseAll(st, l), st, Elements(l))
<1>. DEFINE N == Len(l)
            A == {d \in Tracked : Good(d)}
            Step(d, i) == Close(d, l[i])
            step == [i \in 1 .. N |-> [d \in A |-> IF l[i] \in Elements(d.placed)
                                                  THEN Step(d, i) ELSE d]]
            f == CHOOSE g : g = [i \in 0 .. N |-> IF i = 0 THEN st ELSE Step(g[i - 1], i)]
            Before(i) == {l[j] : j \in 1 .. i}
<1>1. N \in Nat /\ DOMAIN l = 1 .. N /\ \A i \in 1 .. N : l[i] \in Surfaces
  OBVIOUS
<1>2. st \in A
  BY DEF Good
<1>3. CloseAll(st, l) = f[N]
  BY DEF CloseAll
<1>4. \A i \in 1 .. N : \A d \in A : l[i] \in Elements(d.placed) => Closed(Step(d, i), d, l[i])
  BY CloseCloses
<1>5. Before(0) = {} /\ Before(N) = Elements(l)
  BY <1>1 DEF Elements
<1>6. \A i \in 0 .. N - 1 : Before(i + 1) = Before(i) \cup {l[i + 1]}
  <2>1. ASSUME NEW i \in 0 .. N - 1 PROVE 1 .. i + 1 = 1 .. i \cup {i + 1}
    BY <1>1
  <2>. QED  BY <2>1
<1>7. \A i \in 0 .. N - 1 : l[i + 1] \in Elements(st.placed) \ Before(i)
  <2>1. SUFFICES ASSUME NEW i \in 0 .. N - 1 PROVE l[i + 1] \in Elements(st.placed) \ Before(i)
    OBVIOUS
  <2>2. i + 1 \in 1 .. N /\ \A j \in 1 .. i : j \in 1 .. N /\ j # i + 1
    BY <1>1
  <2>3. l[i + 1] \in Elements(st.placed)
    BY <1>1, <2>2 DEF Elements
  <2>. QED  BY <1>1, <2>2, <2>3 DEF NoDuplicates
<1>. HIDE DEF N, Step, Before, A
<1>8. step \in [1 .. N -> [A -> A]]
  BY <1>4 DEF Closed, A, Good
<1>9. \E u \in [0 .. N -> A] : u[0] = st /\ \A i \in 1 .. N : u[i] = step[i][u[i - 1]]
  <2>. HIDE DEF step, f
  <2>1. \E u \in [0 .. N -> A] : Repeats(u, N, st, step)
    BY <1>1, <1>2, <1>8, RecursionExists
  <2>. QED  BY <2>1 DEF Repeats
<1>10. PICK u \in [0 .. N -> A] : u[0] = st /\ \A i \in 1 .. N : u[i] = step[i][u[i - 1]]
  BY <1>9
<1>. DEFINE P(d, i) == d \in A /\ ClosedAll(d, st, Before(i))
<1>11. P(st, 0)
  BY <1>2, <1>5 DEF ClosedAll, A, SameBut
<1>12. ASSUME NEW i \in 0 .. N - 1, NEW d, P(d, i)
       PROVE  l[i + 1] \in Elements(d.placed) /\ P(Step(d, i + 1), i + 1)
  <2>1. i + 1 \in 1 .. N /\ d \in A /\ ClosedAll(d, st, Before(i))
    BY <1>1, <1>12
  <2>2. l[i + 1] \in Elements(d.placed)
    BY <1>7, <2>1 DEF ClosedAll
  <2>3. Closed(Step(d, i + 1), d, l[i + 1])
    BY <1>4, <2>1, <2>2
  <2>. DEFINE e == Step(d, i + 1)
              s == l[i + 1]
  <2>. HIDE DEF e, s, P
  <2>4. Closed(e, d, s) /\ s \in Surfaces /\ Before(i + 1) = Before(i) \cup {s}
    BY <1>1, <1>6, <2>1, <2>3 DEF e, s
  <2>5. \A q \in Surfaces \ Before(i + 1) : SameBut(e.surf[q], st.surf[q])
    <3>1. SUFFICES ASSUME NEW q \in Surfaces \ Before(i + 1)
                   PROVE  SameBut(e.surf[q], st.surf[q])
      OBVIOUS
    <3>2. SameBut(e.surf[q], d.surf[q]) /\ SameBut(d.surf[q], st.surf[q])
      BY <2>1, <2>4, <3>1 DEF Closed, ClosedAll
    <3>3. e \in Tracked /\ d \in Tracked /\ st \in Tracked
      BY <2>1, <2>4, <1>2 DEF Closed, Good, A
    <3>4. e.surf[q] \in SurfaceRecord /\ d.surf[q] \in SurfaceRecord
          /\ st.surf[q] \in SurfaceRecord
      BY <3>1, <3>3 DEF Tracked, SurfaceMap
    <3>. QED  BY <3>2, <3>4, SameButTwice
  <2>6. ClosedAll(e, st, Before(i + 1)) /\ e \in A
    BY <2>1, <2>4, <2>5 DEF ClosedAll, Closed, A, Good
  <2>. QED  BY <2>2, <2>6 DEF P, e
<1>13. \A i \in 0 .. N : P(u[i], i)
  <2>. DEFINE E == {i \in 0 .. N : P(u[i], i)}
  <2>1. 0 \in E
    BY <1>1, <1>10, <1>11
  <2>2. ASSUME NEW i \in 0 .. N - 1, i \in E PROVE i + 1 \in E
    <3>1. i + 1 \in 1 .. N /\ (i + 1) - 1 = i /\ i + 1 \in 0 .. N
      BY <1>1
    <3>2. P(u[i], i) /\ u[i] \in A
      BY <2>2
    <3>. HIDE DEF P
    <3>3. l[i + 1] \in Elements(u[i].placed) /\ P(Step(u[i], i + 1), i + 1)
      BY <1>12, <3>2
    <3>4. u[i + 1] = Step(u[i], i + 1)
      BY <1>10, <3>1, <3>2, <3>3
    <3>. QED  BY <3>1, <3>3, <3>4
  <2>. HIDE DEF E, P
  <2>3. \A i \in 0 .. N : i \in E
    BY <1>1, <2>1, <2>2, InductionUpTo
  <2>. QED  BY <2>3 DEF E
<1>14. ASSUME NEW i \in 1 .. N PROVE u[i] = Step(u[i - 1], i)
  <2>1. i - 1 \in 0 .. N - 1 /\ (i - 1) + 1 = i /\ i - 1 \in 0 .. N
    BY <1>1
  <2>2. P(u[i - 1], i - 1) /\ u[i - 1] \in A
    BY <1>13, <2>1
  <2>3. l[i] \in Elements(u[i - 1].placed)
    <3>. HIDE DEF P
    <3>. QED  BY <1>12, <2>1, <2>2
  <2>. HIDE DEF P
  <2>. QED  BY <1>10, <2>2, <2>3
<1>. HIDE DEF step, P
<1>15. u = [i \in 0 .. N |-> IF i = 0 THEN st ELSE Step(u[i - 1], i)]
  <2>1. \A i \in 0 .. N : i = 0 \/ i \in 1 .. N
    BY <1>1
  <2>. QED  BY <1>10, <1>14, <2>1
<1>16. f = [i \in 0 .. N |-> IF i = 0 THEN st ELSE Step(f[i - 1], i)]
  BY <1>15
<1>. HIDE DEF f
<1>17. \A i \in 0 .. N : f[i] = u[i]
  <2>. DEFINE E == {i \in 0 .. N : f[i] = u[i]}
  <2>1. 0 \in E
    BY <1>1, <1>10, <1>16
  <2>2. ASSUME NEW i \in 0 .. N - 1, i \in E PROVE i + 1 \in E
    <3>1. i + 1 \in 1 .. N /\ (i + 1) - 1 = i /\ i + 1 # 0 /\ i + 1 \in 0 .. N
      BY <1>1
    <3>2. f[i + 1] = Step(f[i], i + 1)
      BY <1>16, <3>1
    <3>. QED  BY <1>14, <2>2, <3>1, <3>2
  <2>. HIDE DEF E
  <2>3. \A i \in 0 .. N : i \in E
    BY <1>1, <2>1, <2>2, InductionUpTo
  <2>. QED  BY <2>3 DEF E
<1>18. f[N] = u[N] /\ P(u[N], N)
  BY <1>1, <1>13, <1>17
<1>. QED  BY <1>3, <1>5, <1>18 DEF P

\* What adopting the parked surfaces does, when some could not be shown.
Adopted(d, st, o, failed) ==
  /\ Good(d)
  /\ OnTracked(st) => OnTracked(d)
  /\ Elements(d.outputs) = Elements(st.outputs) \cup {o}
  /\ d.pending = <<>>
  /\ Elements(d.placed) = Elements(st.placed) \cup (Elements(st.pending) \ failed)
  /\ \A q \in Elements(st.placed) : SameBut(d.surf[q], st.surf[q])

LEMMA TrackAdopts ==
  ASSUME NEW st, Good(st), NEW o \in Outputs \ Elements(st.outputs),
         NEW failed \in SUBSET Elements(st.pending)
  PROVE  Adopted(TrackOutput(st, o, failed), st, o, failed)
<1>. DEFINE PE == Elements(st.pending)
            LE == Elements(st.placed)
            new == Dropped(st.pending, failed)
            pl == st.placed \o new
            adopted == [s \in Surfaces |-> IF s \in PE THEN [st.surf[s] EXCEPT !.output = o]
                                           ELSE st.surf[s]]
            sf == [s \in Surfaces |-> IF s \in failed THEN Gone ELSE adopted[s]]
            a == Arrange(o, pl, sf, st.usable)
            d == TrackOutput(st, o, failed)
<1>1. /\ st \in Tracked /\ st.placed \in Seq(Surfaces) /\ st.pending \in Seq(Surfaces)
      /\ st.outputs \in Seq(Outputs) /\ st.surf \in SurfaceMap /\ st.usable \in AreaMap
      /\ PE \subseteq Surfaces /\ LE \subseteq Surfaces /\ LE \cap PE = {}
  <2>1. st \in Tracked /\ st.placed \in Seq(Surfaces) /\ st.pending \in Seq(Surfaces)
    BY DEF Good, Tracked
  <2>2. PE \subseteq Surfaces /\ LE \subseteq Surfaces
    BY <2>1, ElementsOf
  <2>. QED  BY <2>1, <2>2 DEF Good, ListsGood, Tracked
<1>2. d = [outputs |-> Append(st.outputs, o), pending |-> <<>>, placed |-> pl,
           surf |-> a.surf, usable |-> a.usable]
  BY DEF TrackOutput, Place
<1>3. /\ new \in Seq(Surfaces) /\ Elements(new) = PE \ failed
      /\ NoDuplicates(st.pending) => NoDuplicates(new)
  BY <1>1, DroppedProperties
<1>. HIDE DEF new
<1>4. /\ pl \in Seq(Surfaces) /\ Elements(pl) = LE \cup (PE \ failed) /\ NoDuplicates(pl)
  <2>1. NoDuplicates(st.placed) /\ NoDuplicates(new) /\ LE \cap Elements(new) = {}
    BY <1>1, <1>3 DEF Good, ListsGood
  <2>. QED  BY <1>1, <1>3, <2>1, ConcatElements
<1>5. adopted \in SurfaceMap
  BY <1>1 DEF SurfaceMap, SurfaceRecord
<1>6. /\ sf \in SurfaceMap
      /\ \A s \in failed : sf[s] = Gone
      /\ \A s \in PE \ failed : sf[s] = [st.surf[s] EXCEPT !.output = o]
      /\ \A s \in Surfaces \ PE : sf[s] = st.surf[s]
  BY <1>1, <1>5, GoneRecord DEF SurfaceMap
<1>7. \A s \in PE \ failed : sf[s].output = o /\ sf[s].alive = st.surf[s].alive
  BY <1>1, <1>6 DEF SurfaceMap, SurfaceRecord
<1>. HIDE DEF sf, pl
<1>8. ArrangedFrom(a, o, pl, sf, st.usable)
  <2>. HIDE DEF a
  <2>. QED  BY <1>1, <1>4, <1>6, ArrangeDoes DEF a
<1>. HIDE DEF a, d
<1>9. /\ d \in Tracked /\ d.outputs = Append(st.outputs, o) /\ d.pending = <<>>
      /\ d.placed = pl /\ d.surf = a.surf /\ d.usable = a.usable
      /\ Elements(d.outputs) = Elements(st.outputs) \cup {o} /\ Elements(d.pending) = {}
  <2>1. Append(st.outputs, o) \in Seq(Outputs)
        /\ Elements(Append(st.outputs, o)) = Elements(st.outputs) \cup {o}
    BY <1>1, AppendElements
  <2>2. <<>> \in Seq(Surfaces) /\ Elements(<<>>) = {}
    BY DEF Elements
  <2>. QED  BY <1>2, <1>4, <1>8, <2>1, <2>2 DEF Tracked, ArrangedFrom
<1>10. \A s \in Surfaces : SameBut(d.surf[s], sf[s])
  BY <1>8, <1>9 DEF ArrangedFrom
<1>11. \A s \in Surfaces : /\ d.surf[s].alive = sf[s].alive
                           /\ d.surf[s].output = sf[s].output
                           /\ d.surf[s].initialized = sf[s].initialized
                           /\ sf[s].configured => d.surf[s].configured
  <2>1. SUFFICES ASSUME NEW s \in Surfaces
                 PROVE  SameFields(d.surf[s], sf[s])
    BY DEF SameFields
  <2>2. d.surf[s] \in SurfaceRecord /\ sf[s] \in SurfaceRecord
    BY <1>6, <1>9 DEF Tracked, SurfaceMap
  <2>. QED  BY <1>10, <2>2, SameButFields
<1>12. \A s \in LE : SameBut(d.surf[s], st.surf[s])
  BY <1>1, <1>6, <1>10
<1>13. ListsGood(d)
  <2>1. {s \in Surfaces : d.surf[s].alive} = {s \in Surfaces : st.surf[s].alive} \ failed
    BY <1>1, <1>6, <1>7, <1>11 DEF Gone
  <2>2. LE \cup PE = {s \in Surfaces : st.surf[s].alive}
    BY DEF Good, ListsGood
  <2>3. Elements(d.placed) \cup Elements(d.pending) = {s \in Surfaces : d.surf[s].alive}
    BY <1>1, <1>4, <1>9, <2>1, <2>2
  <2>4. \A s \in Surfaces : ~d.surf[s].alive => d.surf[s] = Gone
    <3>1. SUFFICES ASSUME NEW s \in Surfaces, ~d.surf[s].alive PROVE d.surf[s] = Gone
      OBVIOUS
    <3>2. s \notin Elements(pl)
      BY <1>9, <2>3, <3>1
    <3>3. d.surf[s] = sf[s]
      BY <1>8, <1>9, <3>2 DEF ArrangedFrom
    <3>4. CASE s \in failed
      BY <1>6, <3>3, <3>4
    <3>5. CASE s \notin failed
      <4>1. ~st.surf[s].alive /\ s \notin PE
        BY <2>1, <2>2, <3>1, <3>5
      <4>. QED  BY <1>6, <3>3, <4>1 DEF Good, ListsGood
    <3>. QED  BY <3>4, <3>5
  <2>5. \A s \in Elements(d.placed) : d.surf[s].output \in Outputs
    BY <1>1, <1>4, <1>6, <1>7, <1>9, <1>11 DEF Good, ListsGood
  <2>6. NoDuplicates(d.pending)
    BY <1>9 DEF NoDuplicates
  <2>. QED  BY <1>4, <1>9, <2>3, <2>4, <2>5, <2>6 DEF ListsGood
<1>14. AreasCurrent(d)
  <2>1. SUFFICES ASSUME NEW q \in Elements(d.outputs)
                 PROVE  q \in DOMAIN d.usable /\ d.usable[q] = Remaining(q, d.placed, d.surf)
    BY DEF AreasCurrent
  <2>2. CASE q = o
    BY <1>8, <1>9, <2>2 DEF ArrangedFrom
  <2>3. CASE q # o
    <3>1. q \in Elements(st.outputs) /\ q \in Outputs
      BY <1>1, <1>9, <2>3, ElementsOf
    <3>2. q \in DOMAIN st.usable /\ st.usable[q] = Remaining(q, st.placed, st.surf)
      BY <3>1 DEF Good, AreasCurrent
    <3>. DEFINE S == {x \in Surfaces : sf[x].output = q}
                T == {x \in Surfaces : st.surf[x].output = q}
    <3>3. Elements(new) \cap S = {} /\ LE \cap S = LE \cap T
      BY <1>1, <1>3, <1>6, <1>7, <2>3
    <3>4. OnOutput(q, pl, sf) = Kept(st.placed \o new, S)
      BY DEF OnOutput, pl
    <3>5. OnOutput(q, st.placed, st.surf) = Kept(st.placed, T)
      BY DEF OnOutput
    <3>. HIDE DEF S, T
    <3>6. Kept(st.placed \o new, S) = Kept(st.placed, S)
      BY <1>1, <1>3, <3>3, KeptConcat
    <3>7. Kept(st.placed, S) = Kept(st.placed, T)
      BY <1>1, <3>3, KeptSame
    <3>8. OnOutput(q, st.placed, st.surf) = OnOutput(q, pl, sf)
      BY <3>4, <3>5, <3>6, <3>7
    <3>9. \A x \in LE : st.surf[x].state = sf[x].state
      BY <1>1, <1>6
    <3>10. Remaining(q, st.placed, st.surf) = Remaining(q, pl, sf)
      BY <1>1, <1>4, <1>6, <3>8, <3>9, SameRemains
    <3>. QED  BY <1>8, <1>9, <2>3, <3>1, <3>2, <3>10 DEF ArrangedFrom
  <2>. QED  BY <2>2, <2>3
<1>15. Answered(d)
  <2>1. SUFFICES ASSUME NEW s \in Surfaces, d.surf[s].initialized PROVE d.surf[s].configured
    BY <1>9 DEF Answered
  <2>2. sf[s].initialized
    BY <1>11, <2>1
  <2>3. CASE s \in PE
    <3>1. s \in PE \ failed
      BY <1>6, <2>2, <2>3 DEF Gone
    <3>2. s \in Elements(pl) /\ sf[s].output = o
      BY <1>4, <1>7, <3>1
    <3>. QED  BY <1>8, <1>9, <3>2 DEF ArrangedFrom
  <2>4. CASE s \notin PE
    <3>1. st.surf[s].configured
      BY <1>6, <2>2, <2>4 DEF Good, Answered
    <3>. QED  BY <1>6, <1>11, <2>4, <3>1
  <2>. QED  BY <2>3, <2>4
<1>16. OnTracked(st) => OnTracked(d)
  BY <1>1, <1>4, <1>6, <1>7, <1>9, <1>11 DEF OnTracked
<1>. QED  BY <1>4, <1>9, <1>12, <1>13, <1>14, <1>15, <1>16 DEF Adopted, Good, d

\* What activate() finds and makes of it: nothing is there yet but outputs.
Seeded(d, S) ==
  /\ Good(d)
  /\ Elements(d.outputs) = S
  /\ Elements(d.placed) = {} /\ Elements(d.pending) = {}

LEMMA TrackSeeds ==
  ASSUME NEW S, NEW d, Seeded(d, S), NEW o \in Outputs
  PROVE  Seeded(TrackOutput(d, o, {}), S \cup {o})
<1>1. CASE o \in S
  BY <1>1 DEF Seeded, TrackOutput
<1>2. CASE o \notin S
  <2>1. Good(d) /\ o \in Outputs \ Elements(d.outputs)
    BY <1>2 DEF Seeded
  <2>2. Adopted(TrackOutput(d, o, {}), d, o, {})
    BY <2>1, TrackAdopts
  <2>3. Elements(<<>>) = {}
    BY DEF Elements
  <2>. QED  BY <2>2, <2>3 DEF Adopted, Seeded
<1>. QED  BY <1>1, <1>2

LEMMA TrackAllSeeds ==
  ASSUME NEW st, Seeded(st, {}), NEW l \in Seq(Outputs)
  PROVE  Seeded(TrackAll(st, l), Elements(l))
<1>. DEFINE N == Len(l)
            A == {d \in Tracked : \E S : Seeded(d, S)}
            Step(d, i) == TrackOutput(d, l[i], {})
            step == [i \in 1 .. N |-> [d \in A |-> Step(d, i)]]
            f == CHOOSE g : g = [i \in 0 .. N |-> IF i = 0 THEN st ELSE Step(g[i - 1], i)]
            Before(i) == {l[j] : j \in 1 .. i}
<1>1. N \in Nat /\ DOMAIN l = 1 .. N /\ \A i \in 1 .. N : l[i] \in Outputs
  OBVIOUS
<1>2. \A d : \A S : Seeded(d, S) => d \in A
  BY DEF Good, Seeded
<1>3. TrackAll(st, l) = f[N]
  BY DEF TrackAll
<1>4. \A i \in 1 .. N : \A d : \A S : Seeded(d, S) => Seeded(Step(d, i), S \cup {l[i]})
  BY <1>1, TrackSeeds
<1>5. Before(0) = {} /\ Before(N) = Elements(l)
  BY <1>1 DEF Elements
<1>6. \A i \in 0 .. N - 1 : Before(i + 1) = Before(i) \cup {l[i + 1]}
  <2>1. ASSUME NEW i \in 0 .. N - 1 PROVE 1 .. i + 1 = 1 .. i \cup {i + 1}
    BY <1>1
  <2>. QED  BY <2>1
<1>7. \A d \in A : \E S : Seeded(d, S)
  OBVIOUS
<1>. HIDE DEF N, Step, Before, A
<1>8. step \in [1 .. N -> [A -> A]]
  <2>1. \A i \in 1 .. N : \A d \in A : Step(d, i) \in A
    BY <1>2, <1>4, <1>7
  <2>. QED  BY <2>1
<1>9. st \in A
  BY <1>2
<1>10. \E u \in [0 .. N -> A] : u[0] = st /\ \A i \in 1 .. N : u[i] = step[i][u[i - 1]]
  <2>. HIDE DEF step, f
  <2>1. \E u \in [0 .. N -> A] : Repeats(u, N, st, step)
    BY <1>1, <1>8, <1>9, RecursionExists
  <2>. QED  BY <2>1 DEF Repeats
<1>11. PICK u \in [0 .. N -> A] : u[0] = st /\ \A i \in 1 .. N : u[i] = step[i][u[i - 1]]
  BY <1>10
<1>12. ASSUME NEW i \in 1 .. N PROVE u[i] = Step(u[i - 1], i)
  <2>1. u[i - 1] \in A
    BY <1>1, <1>11
  <2>. QED  BY <1>11, <2>1
<1>. HIDE DEF step
<1>13. u = [i \in 0 .. N |-> IF i = 0 THEN st ELSE Step(u[i - 1], i)]
  <2>1. \A i \in 0 .. N : i = 0 \/ i \in 1 .. N
    BY <1>1
  <2>. QED  BY <1>11, <1>12, <2>1
<1>14. f = [i \in 0 .. N |-> IF i = 0 THEN st ELSE Step(f[i - 1], i)]
  BY <1>13
<1>. HIDE DEF f
<1>15. \A i \in 0 .. N : Seeded(f[i], Before(i))
  <2>. DEFINE E == {i \in 0 .. N : Seeded(f[i], Before(i))}
  <2>1. 0 \in E
    <3>1. f[0] = st
      BY <1>1, <1>14
    <3>. QED  BY <1>1, <1>5, <3>1
  <2>2. ASSUME NEW i \in 0 .. N - 1, i \in E PROVE i + 1 \in E
    <3>1. i + 1 \in 1 .. N /\ (i + 1) - 1 = i /\ i + 1 # 0 /\ i + 1 \in 0 .. N
      BY <1>1
    <3>2. f[i + 1] = Step(f[i], i + 1)
      BY <1>14, <3>1
    <3>. QED  BY <1>4, <1>6, <2>2, <3>1, <3>2
  <2>. HIDE DEF E
  <2>3. \A i \in 0 .. N : i \in E
    BY <1>1, <2>1, <2>2, InductionUpTo
  <2>. QED  BY <2>3 DEF E
<1>16. Seeded(f[N], Before(N))
  BY <1>1, <1>15
<1>. QED  BY <1>3, <1>5, <1>16

------------------------------------------------------------------------------
(* The popups.                                                             *)

PopupRecord ==
  [parent: Toplevels \cup Popups \cup Surfaces \cup {NoOne}, alive: BOOLEAN, tree: BOOLEAN]

PopupsGood ==
  /\ popup \in [Popups -> PopupRecord]
  /\ \A p \in Popups : ~popup[p].alive => popup[p] = NoPopup
  /\ hosted = Toplevels \cup Elements(placed) \cup {p \in Popups : popup[p].tree}
  /\ TreesHangTogether

\* Whatever hangs under a dead surface, at any depth, goes with it.
LEMMA UnderIsClosed == ASSUME NEW S PROVE Children(S \cup Under(S)) \subseteq Under(S)
<1>1. SUFFICES ASSUME NEW p \in Children(S \cup Under(S)), NEW T \in SUBSET Popups,
                      Children(S \cup T) \subseteq T
               PROVE  p \in T
  BY DEF Under, Children
<1>2. Under(S) \subseteq T
  BY <1>1 DEF Under
<1>3. p \in Children(S \cup T)
  BY <1>1, <1>2 DEF Children
<1>. QED  BY <1>1, <1>3

LEMMA NothingUnderNothing == Under({}) = {}
<1>1. {} \in SUBSET Popups /\ Children({} \cup {}) = {}
  BY DEF Children
<1>. QED  BY <1>1 DEF Under

LEMMA NoneLeave == ASSUME popup \in [Popups -> PopupRecord] PROVE PopupsLeft({}) = popup
BY NothingUnderNothing DEF PopupsLeft

LEMMA NoPopupRecord == NoPopup \in PopupRecord
BY DEF NoPopup, PopupRecord

\* The trees after the surfaces S and the popups D died.
LEMMA TreesStay ==
  ASSUME PopupsGood, NEW S, NEW D \in SUBSET Popups, NEW new \in SUBSET Surfaces,
         Children(S \cup D) \subseteq D,
         popup' = [p \in Popups |-> IF p \in D THEN NoPopup ELSE popup[p]],
         hosted' = (hosted \ (Elements(placed) \cup PopupsGone(popup'))) \cup new,
         Elements(placed') = new,
         Elements(placed) \subseteq Surfaces, Elements(placed) \ S \subseteq new
  PROVE  PopupsGood'
<1>. DEFINE now == [p \in Popups |-> IF p \in D THEN NoPopup ELSE popup[p]]
<1>2. \A p \in Popups : now[p] = IF p \in D THEN NoPopup ELSE popup[p]
  OBVIOUS
<1>3. now \in [Popups -> PopupRecord]
  BY NoPopupRecord DEF PopupsGood
<1>1. popup' = now
  OBVIOUS
<1>. HIDE DEF now
<1>4. ~NoPopup.alive /\ ~NoPopup.tree
  BY DEF NoPopup
<1>5. \A p \in Popups : ~now[p].alive => now[p] = NoPopup
  BY <1>2 DEF PopupsGood
<1>6. \A p \in Popups : now[p].tree => p \notin D /\ popup[p].tree /\ popup[p].alive
                                       /\ now[p] = popup[p]
  BY <1>2, <1>4 DEF PopupsGood
<1>7. hosted' = Toplevels \cup new \cup {p \in Popups : now[p].tree}
  <2>1. PopupsGone(now) = {p \in Popups : ~now[p].alive}
    BY DEF PopupsGone
  <2>2. ASSUME NEW p \in Popups PROVE p \in hosted /\ p \notin PopupsGone(now) <=> now[p].tree
    <3>1. p \notin Elements(placed) /\ p \notin Toplevels
      BY LayerAssumption
    <3>2. p \in hosted <=> popup[p].tree
      BY <3>1 DEF PopupsGood
    <3>. QED  BY <1>2, <1>4, <1>6, <2>1, <3>2 DEF PopupsGood
  <2>3. \A p \in Popups : p \notin Elements(placed) /\ p \notin Toplevels /\ p \notin new
    BY LayerAssumption
  <2>4. hosted = Toplevels \cup Elements(placed) \cup {p \in Popups : popup[p].tree}
    BY DEF PopupsGood
  <2>5. \A w \in Toplevels : w \notin Elements(placed) /\ w \notin Popups
    BY LayerAssumption
  <2>. QED  BY <1>1, <1>6, <2>1, <2>2, <2>3, <2>4, <2>5
<1>8. ASSUME NEW p \in Popups, now[p].tree PROVE now[p].parent \in hosted'
  <2>1. popup[p].parent \in hosted /\ now[p].parent = popup[p].parent
    BY <1>6, <1>8 DEF PopupsGood, TreesHangTogether
  <2>2. popup[p].parent \notin S \cup D
    <3>1. popup[p].parent \in S \cup D => p \in Children(S \cup D)
      BY <1>6, <1>8 DEF Children
    <3>. QED  BY <1>6, <1>8, <3>1
  <2>3. CASE popup[p].parent \in Toplevels
    BY <1>7, <2>1, <2>3
  <2>4. CASE popup[p].parent \in Elements(placed)
    BY <1>7, <2>1, <2>2, <2>4
  <2>5. CASE popup[p].parent \in Popups /\ popup[popup[p].parent].tree
    <3>1. now[popup[p].parent] = popup[popup[p].parent]
      BY <1>2, <2>2, <2>5
    <3>. QED  BY <1>7, <2>1, <2>5, <3>1
  <2>. QED  BY <2>1, <2>3, <2>4, <2>5 DEF PopupsGood
<1>. QED  BY <1>1, <1>3, <1>5, <1>7, <1>8 DEF PopupsGood, TreesHangTogether

------------------------------------------------------------------------------
(* The extension.                                                          *)

LayerInv ==
  /\ Good(Tracking) /\ OnTracked(Tracking)
  /\ PopupsGood
  /\ active \in BOOLEAN /\ layout \in Seq(Outputs)
  /\ Elements(outputs) = (IF active THEN Elements(layout) ELSE {})
  /\ ~active => Elements(placed) = {} /\ Elements(pending) = {}
  /\ focus \in Surfaces => focus \in Elements(placed) /\ surf[focus].mapped

\* A step that leaves the lists good and closes what it must.
Keeps(st, S) ==
  /\ Good(st) /\ OnTracked(st)
  /\ Elements(placed) \ S \subseteq Elements(st.placed)
  /\ active' \in BOOLEAN /\ layout' \in Seq(Outputs)
  /\ Elements(st.outputs) = (IF active' THEN Elements(layout') ELSE {})
  /\ ~active' => Elements(st.placed) = {} /\ Elements(st.pending) = {}
  /\ focus' \in Surfaces => focus' \in Elements(st.placed) /\ st.surf[focus'].mapped

LEMMA StepKeeps ==
  ASSUME LayerInv, NEW S, NEW st, Keeps(st, S), Become(st, PopupsLeft(S))
  PROVE  LayerInv'
<1>1. st \in Tracked /\ Tracking \in Tracked
  BY DEF Keeps, Good, LayerInv
<1>2. st.placed \in Seq(Surfaces) /\ placed \in Seq(Surfaces)
  BY <1>1 DEF Tracked, Tracking
<1>3. Elements(st.placed) \subseteq Surfaces /\ Elements(placed) \subseteq Surfaces
  BY <1>2, ElementsOf
<1>4. Tracking' = st
  BY <1>1 DEF Tracked, Tracking, Become
<1>5. PopupsGood'
  <2>. DEFINE D == Under(S)
              new == Elements(st.placed)
  <2>1. D \in SUBSET Popups /\ Children(S \cup D) \subseteq D
    BY UnderIsClosed DEF Under
  <2>2. popup' = [p \in Popups |-> IF p \in D THEN NoPopup ELSE popup[p]]
        /\ placed' = st.placed
        /\ hosted' = (hosted \ (Elements(placed) \cup PopupsGone(popup'))) \cup new
    BY DEF Become, PopupsLeft, HostSurface, Unhost
  <2>3. Elements(placed') = new
    BY <2>2
  <2>4. Elements(placed) \ S \subseteq new /\ PopupsGood
    BY DEF LayerInv, Keeps
  <2>5. new \in SUBSET Surfaces
    BY <1>3
  <2>. HIDE DEF D, new
  <2>. QED  BY <1>3, <2>1, <2>2, <2>3, <2>4, <2>5, TreesStay
<1>6. outputs' = st.outputs /\ pending' = st.pending /\ placed' = st.placed /\ surf' = st.surf
  BY DEF Become
<1>7. Good(Tracking)' /\ OnTracked(Tracking)'
  <2>1. Good(Tracking)' <=> Good(Tracking')
    BY DEF Good, Answered, AreasCurrent, ListsGood
  <2>2. OnTracked(Tracking)' <=> OnTracked(Tracking')
    BY DEF OnTracked
  <2>. QED  BY <1>4, <2>1, <2>2 DEF Keeps
<1>. QED  BY <1>5, <1>6, <1>7 DEF LayerInv, Keeps

\* The fields of Tracking, and what is known of them.
Known ==
  /\ Tracking.outputs = outputs /\ Tracking.pending = pending /\ Tracking.placed = placed
  /\ Tracking.surf = surf /\ Tracking.usable = usable
  /\ outputs \in Seq(Outputs) /\ pending \in Seq(Surfaces) /\ placed \in Seq(Surfaces)
  /\ surf \in SurfaceMap /\ usable \in AreaMap
  /\ Elements(placed) \subseteq Surfaces /\ Elements(pending) \subseteq Surfaces

LEMMA TrackingKnown == ASSUME LayerInv PROVE Known
<1>1. Tracking \in Tracked
  BY DEF LayerInv, Good
<1>2. outputs \in Seq(Outputs) /\ pending \in Seq(Surfaces) /\ placed \in Seq(Surfaces)
      /\ surf \in SurfaceMap /\ usable \in AreaMap
  BY <1>1 DEF Tracked, Tracking
<1>. QED  BY <1>2, ElementsOf DEF Known, Tracking

LEMMA ActivateStep == ASSUME LayerInv, Activate PROVE LayerInv'
<1>. DEFINE st == SeedOutputs
<1>1. Known
  BY TrackingKnown
<1>2. Seeded(Tracking, {})
  BY <1>1 DEF Seeded, LayerInv, Activate, Known
<1>3. Seeded(st, Elements(layout))
  BY <1>2, TrackAllSeeds DEF LayerInv, SeedOutputs
<1>4. Become(st, PopupsLeft({}))
  BY NoneLeave DEF Activate, LayerInv, PopupsGood
<1>. HIDE DEF st
<1>5. Elements(placed) = {} /\ focus \notin Surfaces
  BY DEF LayerInv, Activate
<1>6. Keeps(st, {})
  BY <1>3, <1>5 DEF Keeps, Activate, LayerInv, Seeded, OnTracked
<1>. QED  BY <1>4, <1>6, StepKeeps

\* With nothing tracked, an output comes and goes unnoticed.
LEMMA UnnoticedStep ==
  ASSUME LayerInv, ~active, active' = active, layout' \in Seq(Outputs),
         UNCHANGED <<outputs, usable, pending, placed, surf, focus, hosted, popup>>
  PROVE  LayerInv'
<1>1. Tracking' = Tracking
  BY DEF Tracking
<1>2. Good(Tracking)' /\ OnTracked(Tracking)'
  <2>1. Good(Tracking)' <=> Good(Tracking')
    BY DEF Good, Answered, AreasCurrent, ListsGood
  <2>2. OnTracked(Tracking)' <=> OnTracked(Tracking')
    BY DEF OnTracked
  <2>. QED  BY <1>1, <2>1, <2>2 DEF LayerInv
<1>. QED  BY <1>2 DEF LayerInv, PopupsGood, TreesHangTogether

LEMMA OutputAddedStep == ASSUME LayerInv, NEW o \in Outputs, OutputAdded(o) PROVE LayerInv'
<1>1. Known
  BY TrackingKnown
<1>2. layout' = Append(layout, o) /\ layout' \in Seq(Outputs)
      /\ Elements(layout') = Elements(layout) \cup {o}
  <2>1. layout \in Seq(Outputs) /\ layout' = Append(layout, o)
    BY DEF LayerInv, OutputAdded
  <2>. QED  BY <2>1, AppendElements
<1>3. CASE ~active
  BY <1>2, <1>3, UnnoticedStep DEF OutputAdded
<1>4. CASE active
  <2>1. PICK failed \in SUBSET Elements(pending) :
          Become(TrackOutput(Tracking, o, failed), PopupsLeft(failed))
    BY <1>4 DEF OutputAdded
  <2>. DEFINE st == TrackOutput(Tracking, o, failed)
  <2>2. Good(Tracking) /\ o \in Outputs \ Elements(Tracking.outputs)
        /\ failed \in SUBSET Elements(Tracking.pending)
    BY <1>1, <1>4 DEF LayerInv, OutputAdded, Known
  <2>3. Adopted(st, Tracking, o, failed)
    BY <2>2, TrackAdopts
  <2>. HIDE DEF st
  <2>4. \A q \in Elements(placed) : st.surf[q].mapped = surf[q].mapped
    <3>1. SUFFICES ASSUME NEW q \in Elements(placed) PROVE st.surf[q].mapped = surf[q].mapped
      OBVIOUS
    <3>2. SameBut(st.surf[q], surf[q])
      BY <1>1, <2>3 DEF Adopted, Known
    <3>3. st.surf[q] \in SurfaceRecord /\ surf[q] \in SurfaceRecord
      BY <1>1, <2>3 DEF Adopted, Good, Tracked, SurfaceMap, Known
    <3>. QED  BY <3>2, <3>3, SameButFields
  <2>5. active' = active /\ focus' = focus
    BY DEF OutputAdded
  <2>6. Keeps(st, failed)
    BY <1>1, <1>2, <1>4, <2>3, <2>4, <2>5 DEF Keeps, Adopted, LayerInv, Known
  <2>. QED  BY <2>1, <2>6, StepKeeps DEF st
<1>. QED  BY <1>3, <1>4

LEMMA OutputRemovedStep == ASSUME LayerInv, NEW o \in Outputs, OutputRemoved(o) PROVE LayerInv'
<1>1. Known
  BY TrackingKnown
<1>2. layout' \in Seq(Outputs) /\ Elements(layout') = Elements(layout) \ {o}
  <2>1. layout \in Seq(Outputs) /\ layout' = Dropped(layout, {o})
    BY DEF LayerInv, OutputRemoved
  <2>. QED  BY <2>1, DroppedProperties
<1>3. CASE ~active
  BY <1>2, <1>3, UnnoticedStep DEF OutputRemoved
<1>4. CASE active
  <2>. DEFINE doomed == OnOutput(o, placed, surf)
              rest == Dropped(outputs, {o})
              areas == [q \in DOMAIN usable \ {o} |-> usable[q]]
              forgotten == [Tracking EXCEPT !.outputs = rest, !.usable = areas]
              st == CloseAll(forgotten, doomed)
              D == Elements(doomed)
  <2>1. Become(st, PopupsLeft(D)) /\ focus' = (IF focus \in D THEN NoOne ELSE focus)
        /\ active' = active
    BY <1>4 DEF OutputRemoved
  <2>2. doomed \in Seq(Surfaces) /\ D = Elements(placed) \cap {s \in Surfaces : surf[s].output = o}
        /\ NoDuplicates(doomed)
    <3>. DEFINE S == {s \in Surfaces : surf[s].output = o}
    <3>1. doomed = Kept(placed, S)
      BY DEF OnOutput
    <3>2. NoDuplicates(placed) /\ placed \in Seq(Surfaces)
      BY <1>1 DEF LayerInv, Good, ListsGood, Known
    <3>. HIDE DEF doomed, S
    <3>3. doomed \in Seq(Surfaces) /\ D = Elements(placed) \cap S /\ NoDuplicates(doomed)
      BY <3>1, <3>2, KeptProperties
    <3>. QED  BY <3>3 DEF S
  <2>3. rest \in Seq(Outputs) /\ Elements(rest) = Elements(outputs) \ {o}
    BY <1>1, DroppedProperties DEF Known
  <2>4. areas \in AreaMap /\ \A q \in Outputs : q # o /\ q \in DOMAIN usable
                                => q \in DOMAIN areas /\ areas[q] = usable[q]
    <3>1. PICK R \in SUBSET Outputs : usable \in [R -> Areas]
      BY <1>1 DEF Known, AreaMap
    <3>2. areas \in [R \ {o} -> Areas] /\ R \ {o} \in SUBSET Outputs
      BY <3>1
    <3>3. areas \in AreaMap
      <4>. HIDE DEF areas
      <4>. QED  BY <3>2 DEF AreaMap
    <3>. QED  BY <3>1, <3>3
  <2>. HIDE DEF doomed, rest, areas
  <2>5. /\ forgotten \in Tracked
        /\ forgotten.outputs = rest /\ forgotten.pending = pending /\ forgotten.placed = placed
        /\ forgotten.surf = surf /\ forgotten.usable = areas
    BY <1>1, <2>3, <2>4 DEF Tracked, Known, Tracking
  <2>. HIDE DEF forgotten
  <2>6. Good(forgotten)
    <3>1. ListsGood(forgotten)
      BY <1>1, <2>3, <2>5 DEF LayerInv, Good, ListsGood, Known
    <3>2. AreasCurrent(forgotten)
      <4>1. \A q \in Elements(rest) : q \in Outputs /\ q # o
        BY <2>3, ElementsOf
      <4>. QED  BY <1>1, <2>3, <2>4, <2>5, <4>1 DEF LayerInv, Good, AreasCurrent, Known
    <3>3. Answered(forgotten)
      BY <1>1, <2>3, <2>5 DEF LayerInv, Good, Answered, Known
    <3>. QED  BY <2>5, <3>1, <3>2, <3>3 DEF Good
  <2>7. ClosedAll(st, forgotten, D)
    <3>1. D \subseteq Elements(forgotten.placed)
      BY <2>2, <2>5
    <3>. QED  BY <2>2, <2>6, <3>1, CloseAllCloses
  <2>. HIDE DEF st, D
  <2>8. \A q \in Surfaces \ D : SameFields(st.surf[q], surf[q])
                                /\ st.surf[q].mapped = surf[q].mapped
    <3>1. SUFFICES ASSUME NEW q \in Surfaces \ D
                   PROVE  SameFields(st.surf[q], surf[q]) /\ st.surf[q].mapped = surf[q].mapped
      OBVIOUS
    <3>2. SameBut(st.surf[q], surf[q])
      BY <2>5, <2>7 DEF ClosedAll
    <3>3. st.surf[q] \in SurfaceRecord /\ surf[q] \in SurfaceRecord
      BY <1>1, <2>7 DEF ClosedAll, Good, Tracked, SurfaceMap, Known
    <3>. QED  BY <3>2, <3>3, SameButFields
  <2>9. OnTracked(st)
    <3>1. \A q \in Elements(st.placed) : q \in Surfaces \ D /\ q \in Elements(placed)
      BY <1>1, <2>5, <2>7 DEF ClosedAll, Known
    <3>2. \A q \in Elements(st.placed) : st.surf[q].output = surf[q].output
                                         /\ surf[q].output \in Elements(outputs)
      BY <1>1, <2>8, <3>1 DEF SameFields, LayerInv, OnTracked, Known
    <3>3. \A q \in Elements(st.placed) : surf[q].output # o
      BY <2>2, <3>1 DEF D
    <3>. QED  BY <2>3, <2>5, <2>7, <3>2, <3>3 DEF OnTracked, ClosedAll
  <2>10. focus' \in Surfaces => focus' \in Elements(st.placed) /\ st.surf[focus'].mapped
    <3>1. NoOne \notin Surfaces
      BY LayerAssumption
    <3>. QED  BY <2>1, <2>5, <2>7, <2>8, <3>1 DEF LayerInv, ClosedAll
  <2>11. Elements(placed) \ D \subseteq Elements(st.placed)
         /\ Elements(st.outputs) = Elements(outputs) \ {o}
    BY <2>3, <2>5, <2>7 DEF ClosedAll
  <2>12. Keeps(st, D)
    <3>1. Good(st)
      BY <2>7 DEF ClosedAll
    <3>2. active' /\ Elements(outputs) = Elements(layout)
      BY <1>4, <2>1 DEF LayerInv
    <3>. QED  BY <1>2, <2>9, <2>10, <2>11, <3>1, <3>2 DEF Keeps
  <2>13. Become(st, PopupsLeft(D))
    BY <2>1 DEF D, st
  <2>. QED  BY <2>12, <2>13, StepKeeps
<1>. QED  BY <1>3, <1>4

LEMMA DestroyStep == ASSUME LayerInv, NEW s \in Surfaces, Destroy(s) PROVE LayerInv'
<1>1. Known
  BY TrackingKnown
<1>2. active' = active /\ layout' = layout /\ focus' = (IF focus = s THEN NoOne ELSE focus)
      /\ surf[s].alive
  BY DEF Destroy
<1>3. NoOne \notin Surfaces /\ LayerInv /\ active \in BOOLEAN /\ layout \in Seq(Outputs)
  BY LayerAssumption DEF LayerInv
<1>4. CASE s \in Elements(pending)
  <2>. DEFINE rest == Dropped(pending, {s})
              st == [Tracking EXCEPT !.pending = rest, !.surf[s] = Gone]
  <2>1. Become(st, PopupsLeft({s}))
    BY <1>4 DEF Destroy
  <2>2. /\ rest \in Seq(Surfaces) /\ Elements(rest) = Elements(pending) \ {s}
        /\ NoDuplicates(pending) => NoDuplicates(rest)
    BY <1>1, DroppedProperties DEF Known
  <2>. HIDE DEF rest
  <2>. DEFINE sf == [surf EXCEPT ![s] = Gone]
  <2>3. sf \in SurfaceMap /\ sf[s] = Gone /\ \A q \in Surfaces : q # s => sf[q] = surf[q]
    BY <1>1, GoneRecord DEF Known, SurfaceMap
  <2>4. st = [Tracking EXCEPT !.pending = rest, !.surf = sf]
    BY DEF Tracking
  <2>. HIDE DEF sf, st
  <2>5. /\ st \in Tracked
        /\ st.outputs = outputs /\ st.pending = rest /\ st.placed = placed
        /\ st.surf = sf /\ st.usable = usable
    BY <1>1, <2>2, <2>3, <2>4 DEF Tracked, Known, Tracking
  <2>6. s \notin Elements(placed) /\ ~Gone.alive /\ ~Gone.initialized
    BY <1>1, <1>4 DEF LayerInv, Good, ListsGood, Known, Gone
  <2>7. ListsGood(st)
    <3>1. {q \in Surfaces : sf[q].alive} = {q \in Surfaces : surf[q].alive} \ {s}
      BY <2>3, <2>6
    <3>2. \A q \in Elements(placed) : sf[q] = surf[q]
      BY <1>1, <2>3, <2>6 DEF Known
    <3>. QED  BY <1>1, <2>2, <2>3, <2>5, <2>6, <3>1, <3>2 DEF LayerInv, Good, ListsGood, Known
  <2>8. AreasCurrent(st) /\ Answered(st)
    <3>1. Elements(outputs) = {}
      BY <1>1, <1>4 DEF LayerInv, Good, ListsGood, Known
    <3>2. Answered(st)
      BY <1>1, <2>2, <2>3, <2>5, <2>6 DEF LayerInv, Good, Answered, Known
    <3>. QED  BY <2>5, <3>1, <3>2 DEF AreasCurrent
  <2>9. OnTracked(st)
    BY <1>1, <2>3, <2>5, <2>6 DEF LayerInv, OnTracked, Known
  <2>10. Keeps(st, {s})
    <3>1. focus' \in Surfaces => focus' \in Elements(st.placed) /\ st.surf[focus'].mapped
      BY <1>1, <1>2, <1>3, <2>3, <2>5, <2>6 DEF LayerInv, Known
    <3>2. ~active => Elements(st.placed) = {} /\ Elements(st.pending) = {}
      BY <2>2, <2>5 DEF LayerInv
    <3>. QED  BY <1>2, <1>3, <2>5, <2>7, <2>8, <2>9, <3>1, <3>2 DEF Keeps, Good, LayerInv
  <2>. QED  BY <2>1, <2>10, StepKeeps
<1>5. CASE s \notin Elements(pending)
  <2>. DEFINE st == Close(Tracking, s)
  <2>1. Become(st, PopupsLeft({s}))
    BY <1>5 DEF Destroy
  <2>2. s \in Elements(Tracking.placed) /\ Good(Tracking)
    BY <1>1, <1>2, <1>5 DEF LayerInv, Good, ListsGood, Known
  <2>3. Closed(st, Tracking, s)
    BY <2>2, CloseCloses
  <2>. HIDE DEF st
  <2>4. \A q \in Surfaces : q # s => SameFields(st.surf[q], surf[q])
                                     /\ st.surf[q].mapped = surf[q].mapped
    <3>1. SUFFICES ASSUME NEW q \in Surfaces, q # s
                   PROVE  SameFields(st.surf[q], surf[q]) /\ st.surf[q].mapped = surf[q].mapped
      OBVIOUS
    <3>2. SameBut(st.surf[q], surf[q])
      BY <1>1, <2>3, <3>1 DEF Closed, Known
    <3>3. st.surf[q] \in SurfaceRecord /\ surf[q] \in SurfaceRecord
      BY <1>1, <2>3 DEF Closed, Good, Tracked, SurfaceMap, Known
    <3>. QED  BY <3>2, <3>3, SameButFields
  <2>5. Elements(st.placed) = Elements(placed) \ {s} /\ st.outputs = outputs
        /\ st.pending = pending /\ Good(st)
    BY <1>1, <2>3 DEF Closed, Known
  <2>6. OnTracked(st)
    BY <1>1, <2>4, <2>5 DEF LayerInv, OnTracked, SameFields, Known
  <2>7. focus' \in Surfaces => focus' \in Elements(st.placed) /\ st.surf[focus'].mapped
    BY <1>2, <1>3, <2>4, <2>5 DEF LayerInv
  <2>8. Keeps(st, {s})
    BY <1>2, <1>3, <2>5, <2>6, <2>7 DEF Keeps, LayerInv
  <2>9. Become(st, PopupsLeft({s}))
    BY <2>1
  <2>. QED  BY <2>8, <2>9, StepKeeps
<1>. QED  BY <1>4, <1>5

LEMMA CommitStep ==
  ASSUME LayerInv, NEW s \in Surfaces, NEW state \in States, NEW keyboard \in Keyboards,
         NEW buffer \in BOOLEAN, Commit(s, state, keyboard, buffer)
  PROVE  LayerInv'
<1>. DEFINE now == Committed(s, state, keyboard, buffer)
            unmaps == surf[s].mapped /\ ~buffer
            kept == IF unmaps /\ focus = s THEN NoOne ELSE focus
            sf == [surf EXCEPT ![s] = now]
            after == [Tracking EXCEPT !.surf[s] = now]
            a == Arrange(now.output, placed, after.surf, usable)
            st == [after EXCEPT !.surf = a.surf, !.usable = a.usable]
<1>1. Known
  BY TrackingKnown
<1>2. active' = active /\ layout' = layout /\ surf[s].alive
  BY DEF Commit
<1>3. NoOne \notin Surfaces /\ LayerInv /\ active \in BOOLEAN /\ layout \in Seq(Outputs)
  BY LayerAssumption DEF LayerInv
<1>4. IF s \in Elements(placed)
      THEN /\ Become(st, IF unmaps THEN PopupsLeft({s}) ELSE popup)
           /\ focus' = IF buffer /\ keyboard = "exclusive" THEN s ELSE kept
      ELSE Become(after, popup) /\ focus' = kept
  BY DEF Commit
<1>5. now \in SurfaceRecord /\ now.alive = surf[s].alive /\ now.output = surf[s].output
      /\ now.mapped = buffer
  <2>1. surf[s] \in SurfaceRecord /\ state \in SurfaceState
    BY <1>1, LayerAssumption DEF Known, SurfaceMap
  <2>2. unmaps \in BOOLEAN
    OBVIOUS
  <2>3. now = [surf[s] EXCEPT !.state = state, !.keyboard = keyboard, !.mapped = buffer,
                     !.initialized = ~unmaps, !.configured = @ /\ ~unmaps]
    BY DEF Committed
  <2>. HIDE DEF unmaps, now
  <2>. QED  BY <2>1, <2>2, <2>3 DEF SurfaceRecord
<1>. HIDE DEF now, unmaps
<1>6. sf \in SurfaceMap /\ sf[s] = now /\ \A q \in Surfaces : q # s => sf[q] = surf[q]
  BY <1>1, <1>5 DEF Known, SurfaceMap
<1>7. after = [Tracking EXCEPT !.surf = sf]
  BY DEF Tracking
<1>. HIDE DEF after, sf
<1>8. /\ after \in Tracked
      /\ after.outputs = outputs /\ after.pending = pending /\ after.placed = placed
      /\ after.surf = sf /\ after.usable = usable
  BY <1>1, <1>6, <1>7 DEF Tracked, Known, Tracking
<1>9. \A q \in Surfaces : sf[q].alive = surf[q].alive /\ sf[q].output = surf[q].output
  BY <1>5, <1>6
<1>10. ListsGood(after)
  BY <1>1, <1>2, <1>6, <1>8, <1>9 DEF LayerInv, Good, ListsGood, Known
<1>11. kept \in Surfaces => kept \in Elements(placed) /\ sf[kept].mapped
  BY <1>3, <1>5, <1>6 DEF LayerInv, unmaps
<1>12. CASE s \in Elements(placed)
  <2>. DEFINE o == surf[s].output
  <2>1. o \in Outputs
    BY <1>1, <1>12 DEF LayerInv, Good, ListsGood, Known
  <2>2. a = Arrange(o, placed, sf, usable)
    BY <1>5, <1>8
  <2>3. ArrangedFrom(a, o, placed, sf, usable)
    <3>. HIDE DEF o, a
    <3>1. placed \in Seq(Surfaces) /\ usable \in AreaMap
      BY <1>1 DEF Known
    <3>. QED  BY <1>6, <2>1, <2>2, <3>1, ArrangeDoes
  <2>. HIDE DEF a
  <2>4. /\ st \in Tracked
        /\ st.outputs = outputs /\ st.pending = pending /\ st.placed = placed
        /\ st.surf = a.surf /\ st.usable = a.usable
    BY <1>8, <2>3 DEF Tracked, ArrangedFrom
  <2>. HIDE DEF st, o
  <2>5. \A q \in Surfaces : SameFields(st.surf[q], sf[q]) /\ st.surf[q].mapped = sf[q].mapped
    <3>1. SUFFICES ASSUME NEW q \in Surfaces
                   PROVE  SameFields(st.surf[q], sf[q]) /\ st.surf[q].mapped = sf[q].mapped
      OBVIOUS
    <3>2. SameBut(st.surf[q], sf[q])
      BY <2>3, <2>4 DEF ArrangedFrom
    <3>3. st.surf[q] \in SurfaceRecord /\ sf[q] \in SurfaceRecord
      BY <1>6, <2>4 DEF Tracked, SurfaceMap
    <3>. QED  BY <3>2, <3>3, SameButFields
  <2>6. ListsGood(st)
    <3>1. \A q \in Surfaces : ~st.surf[q].alive => st.surf[q] = Gone
      <4>1. SUFFICES ASSUME NEW q \in Surfaces, ~st.surf[q].alive PROVE st.surf[q] = Gone
        OBVIOUS
      <4>2. ~sf[q].alive
        BY <2>5, <4>1 DEF SameFields
      <4>3. q \notin Elements(placed) /\ sf[q] = Gone
        BY <1>8, <1>10, <4>2 DEF ListsGood
      <4>. QED  BY <2>3, <2>4, <4>3 DEF ArrangedFrom
    <3>2. {q \in Surfaces : st.surf[q].alive} = {q \in Surfaces : sf[q].alive}
      BY <2>5 DEF SameFields
    <3>3. \A q \in Elements(placed) : st.surf[q].output = sf[q].output
      BY <1>1, <2>5 DEF SameFields, Known
    <3>. QED  BY <1>8, <1>10, <2>4, <3>1, <3>2, <3>3 DEF ListsGood
  <2>7. AreasCurrent(st)
    <3>1. SUFFICES ASSUME NEW q \in Elements(outputs)
                   PROVE  q \in DOMAIN a.usable /\ a.usable[q] = Remaining(q, placed, a.surf)
      BY <2>4 DEF AreasCurrent
    <3>2. q \in Outputs /\ q \in DOMAIN usable /\ usable[q] = Remaining(q, placed, surf)
      BY <1>1, ElementsOf DEF LayerInv, Good, AreasCurrent, Known
    <3>3. CASE q = o
      BY <2>3, <3>3 DEF ArrangedFrom
    <3>4. CASE q # o
      <4>1. OnOutput(q, placed, surf) = OnOutput(q, placed, sf)
        BY <1>9 DEF OnOutput
      <4>2. \A x \in Elements(placed) : surf[x].output = q => surf[x].state = sf[x].state
        BY <1>1, <1>6, <3>4 DEF o, Known
      <4>3. Remaining(q, placed, surf) = Remaining(q, placed, sf)
        BY <1>1, <1>6, <4>1, <4>2, SameRemains DEF Known
      <4>. QED  BY <2>3, <3>2, <3>4, <4>3 DEF ArrangedFrom
    <3>. QED  BY <3>3, <3>4
  <2>8. Answered(st)
    <3>1. SUFFICES ASSUME NEW q \in Surfaces, st.surf[q].initialized
                   PROVE  IF q \in Elements(pending) THEN Elements(outputs) = {}
                          ELSE st.surf[q].configured
      BY <2>4 DEF Answered
    <3>2. CASE q = s
      <4>1. q \notin Elements(pending) /\ sf[q].output = o /\ q \in Elements(placed)
        BY <1>1, <1>9, <1>12, <3>2 DEF LayerInv, Good, ListsGood, Known, o
      <4>. QED  BY <2>3, <2>4, <4>1 DEF ArrangedFrom
    <3>3. CASE q # s
      BY <1>1, <1>6, <2>5, <3>1, <3>3 DEF LayerInv, Good, Answered, Known, SameFields
    <3>. QED  BY <3>2, <3>3
  <2>9. OnTracked(st)
    BY <1>1, <1>9, <2>4, <2>5 DEF LayerInv, OnTracked, SameFields, Known
  <2>10. focus' \in Surfaces => focus' \in Elements(placed) /\ st.surf[focus'].mapped
    <3>1. focus' \in Surfaces => focus' \in Elements(placed) /\ sf[focus'].mapped
      BY <1>4, <1>5, <1>6, <1>11, <1>12
    <3>. QED  BY <2>5, <3>1
  <2>11. \A S : Keeps(st, S)
    BY <1>2, <1>3, <2>4, <2>6, <2>7, <2>8, <2>9, <2>10 DEF Keeps, Good, LayerInv
  <2>12. Become(st, PopupsLeft({s})) \/ Become(st, PopupsLeft({}))
    BY <1>4, <1>12, NoneLeave DEF LayerInv, PopupsGood
  <2>. QED  BY <2>11, <2>12, StepKeeps
<1>13. CASE s \notin Elements(placed)
  <2>1. s \in Elements(pending)
    BY <1>1, <1>2, <1>13 DEF LayerInv, Good, ListsGood, Known
  <2>2. Elements(outputs) = {}
    BY <1>1, <2>1 DEF LayerInv, Good, ListsGood, Known
  <2>3. AreasCurrent(after) /\ Answered(after)
    <3>1. Answered(after)
      BY <1>1, <1>6, <1>8, <2>1, <2>2 DEF LayerInv, Good, Answered, Known
    <3>. QED  BY <1>8, <2>2, <3>1 DEF AreasCurrent
  <2>4. OnTracked(after)
    BY <1>1, <1>8, <1>9 DEF LayerInv, OnTracked, Known
  <2>5. Keeps(after, {})
    BY <1>2, <1>3, <1>4, <1>8, <1>10, <1>11, <1>13, <2>3, <2>4 DEF Keeps, Good, LayerInv
  <2>6. Become(after, PopupsLeft({}))
    BY <1>4, <1>13, NoneLeave DEF LayerInv, PopupsGood
  <2>. QED  BY <2>5, <2>6, StepKeeps
<1>. QED  BY <1>12, <1>13

LEMMA NewSurfaceStep ==
  ASSUME LayerInv, NEW s \in Surfaces, NEW o \in Outputs \cup {NoOne}, NewSurface(s, o)
  PROVE  LayerInv'
<1>. DEFINE out == IF o = NoOne /\ outputs # <<>> THEN Head(outputs) ELSE o
            new == [Gone EXCEPT !.alive = TRUE, !.output = out]
            there == [surf EXCEPT ![s] = new]
            parked == [Tracking EXCEPT !.pending = Append(pending, s), !.surf = there]
            P(failed) == Place(<<s>>, failed, placed, there)
            St(failed) == [Tracking EXCEPT !.placed = P(failed).placed, !.surf = P(failed).surf]
<1>1. Known
  BY TrackingKnown
<1>2. active /\ active' = active /\ layout' = layout /\ focus' = focus /\ ~surf[s].alive
      /\ Elements(outputs) = Elements(layout) /\ layout \in Seq(Outputs)
      /\ o \in Elements(layout) \cup {NoOne}
  BY DEF NewSurface, LayerInv
<1>3. surf[s] = Gone /\ s \notin Elements(placed) /\ s \notin Elements(pending)
      /\ placed \in Seq(Surfaces) /\ pending \in Seq(Surfaces)
  BY <1>1, <1>2 DEF LayerInv, Good, ListsGood, Known
<1>4. out \in Elements(outputs) \cup {NoOne} /\ (out = NoOne => Elements(outputs) = {})
  <2>1. outputs \in Seq(Outputs)
    BY <1>1 DEF Known
  <2>2. outputs # <<>> => Head(outputs) \in Elements(outputs)
    <3>1. outputs # <<>> => 1 \in DOMAIN outputs /\ Head(outputs) = outputs[1]
      BY <2>1
    <3>. QED  BY <3>1 DEF Elements
  <2>3. outputs = <<>> => Elements(outputs) = {}
    BY DEF Elements
  <2>4. NoOne \notin Elements(outputs)
    BY <2>1, ElementsOf, LayerAssumption
  <2>. QED  BY <1>2, <2>2, <2>3, <2>4
<1>5. IF out = NoOne THEN Become(parked, popup)
      ELSE \E failed \in SUBSET {s} : Become(St(failed), popup)
  <2>1. there[s].output = out
    <3>1. there[s] = new
      BY <1>1 DEF Known, SurfaceMap
    <3>2. new.output = out
      BY DEF Gone
    <3>. QED  BY <3>1, <3>2
  <2>2. IF there[s].output = NoOne THEN Become(parked, popup)
        ELSE \E failed \in SUBSET {s} : Become(St(failed), popup)
    BY DEF NewSurface
  <2>. HIDE DEF there, out, parked, St
  <2>. QED  BY <2>1, <2>2
<1>6. new \in SurfaceRecord /\ new.alive /\ ~new.initialized /\ new.output = out
      /\ new.state = Fresh
  <2>1. out \in Outputs \cup {NoOne}
    BY <1>1, <1>4, ElementsOf DEF Known
  <2>. HIDE DEF out
  <2>. QED  BY <2>1, FreshReservesNothing DEF Gone, SurfaceRecord
<1>. HIDE DEF new, out
<1>7. there \in SurfaceMap /\ there[s] = new /\ \A q \in Surfaces : q # s => there[q] = surf[q]
  BY <1>1, <1>6 DEF Known, SurfaceMap
<1>. HIDE DEF there
<1>8. \A q \in Elements(placed) : q # s /\ q \in Surfaces
  BY <1>1, <1>3 DEF Known
<1>9. ~Gone.initialized /\ ~Gone.alive
  BY DEF Gone
<1>10. {q \in Surfaces : there[q].alive} = {q \in Surfaces : surf[q].alive} \cup {s}
  BY <1>6, <1>7
<1>11. popup = PopupsLeft({})
  BY NoneLeave DEF LayerInv, PopupsGood
<1>12. CASE out = NoOne
  <2>1. /\ Append(pending, s) \in Seq(Surfaces)
        /\ Elements(Append(pending, s)) = Elements(pending) \cup {s}
        /\ NoDuplicates(pending) => NoDuplicates(Append(pending, s))
    BY <1>3, AppendElements
  <2>2. /\ parked \in Tracked
        /\ parked.outputs = outputs /\ parked.pending = Append(pending, s)
        /\ parked.placed = placed /\ parked.surf = there /\ parked.usable = usable
    BY <1>1, <1>7, <2>1 DEF Tracked, Known, Tracking
  <2>3. Become(parked, PopupsLeft({}))
    BY <1>5, <1>11, <1>12
  <2>. HIDE DEF parked
  <2>4. ListsGood(parked)
    BY <1>1, <1>3, <1>4, <1>6, <1>7, <1>8, <1>10, <1>12, <2>1, <2>2
       DEF LayerInv, Good, ListsGood, Known
  <2>5. AreasCurrent(parked) /\ Answered(parked) /\ OnTracked(parked)
    <3>1. Answered(parked)
      BY <1>1, <1>4, <1>6, <1>7, <1>12, <2>1, <2>2 DEF LayerInv, Good, Answered, Known
    <3>2. OnTracked(parked)
      BY <1>1, <1>7, <1>8, <2>2 DEF LayerInv, OnTracked, Known
    <3>. QED  BY <1>4, <1>12, <2>2, <3>1, <3>2 DEF AreasCurrent
  <2>6. Keeps(parked, {})
    BY <1>2, <1>7, <1>8, <2>2, <2>4, <2>5 DEF Keeps, Good, LayerInv
  <2>. QED  BY <2>3, <2>6, StepKeeps
<1>13. CASE out # NoOne
  <2>1. PICK failed \in SUBSET {s} : Become(St(failed), popup)
    BY <1>5, <1>13
  <2>. DEFINE one == <<s>>
              more == Dropped(one, failed)
              pl == placed \o more
              sf == [q \in Surfaces |-> IF q \in failed THEN Gone ELSE there[q]]
              st == St(failed)
  <2>2. one \in Seq(Surfaces) /\ Elements(one) = {s} /\ NoDuplicates(one)
    BY DEF Elements, NoDuplicates
  <2>3. P(failed).placed = pl /\ P(failed).surf = sf
    BY DEF Place
  <2>4. /\ more \in Seq(Surfaces) /\ Elements(more) = {s} \ failed /\ NoDuplicates(more)
    <3>. HIDE DEF one
    <3>. QED  BY <2>2, DroppedProperties
  <2>5. /\ pl \in Seq(Surfaces) /\ Elements(pl) = Elements(placed) \cup ({s} \ failed)
        /\ NoDuplicates(pl)
    <3>. HIDE DEF more
    <3>1. NoDuplicates(placed) /\ Elements(placed) \cap Elements(more) = {}
      BY <1>1, <1>3, <2>4 DEF LayerInv, Good, ListsGood, Known
    <3>. QED  BY <1>3, <2>4, <3>1, ConcatElements
  <2>6. /\ sf \in SurfaceMap /\ sf[s] = (IF s \in failed THEN Gone ELSE new)
        /\ \A q \in Surfaces : q # s => sf[q] = surf[q]
    BY <1>7, GoneRecord DEF SurfaceMap
  <2>. HIDE DEF pl, sf, more, one, P
  <2>7. /\ st \in Tracked
        /\ st.outputs = outputs /\ st.pending = pending /\ st.placed = pl
        /\ st.surf = sf /\ st.usable = usable
    BY <1>1, <2>3, <2>5, <2>6 DEF Tracked, Known, Tracking
  <2>. HIDE DEF st
  <2>8. out \in Elements(outputs) /\ out \in Outputs
    BY <1>1, <1>4, <1>13, ElementsOf DEF Known
  <2>9. failed = {} \/ failed = {s}
    OBVIOUS
  <2>10. ListsGood(st)
    <3>1. {q \in Surfaces : sf[q].alive} = {q \in Surfaces : surf[q].alive} \cup ({s} \ failed)
      BY <1>2, <1>6, <1>9, <2>6, <2>9
    <3>2. \A q \in Surfaces : ~sf[q].alive => sf[q] = Gone
      BY <1>1, <1>6, <2>6 DEF LayerInv, Good, ListsGood, Known
    <3>3. \A q \in Elements(pl) : sf[q].output \in Outputs
      <4>1. s \in Elements(pl) => sf[s].output = out
        BY <1>6, <1>8, <2>5, <2>6
      <4>. QED  BY <1>1, <1>8, <2>5, <2>6, <2>8, <4>1 DEF LayerInv, Good, ListsGood, Known
    <3>. QED  BY <1>1, <1>3, <2>5, <2>7, <3>1, <3>2, <3>3 DEF LayerInv, Good, ListsGood, Known
  <2>11. AreasCurrent(st)
    <3>1. SUFFICES ASSUME NEW q \in Elements(outputs)
                   PROVE  q \in DOMAIN usable /\ usable[q] = Remaining(q, pl, sf)
      BY <2>7 DEF AreasCurrent
    <3>2. q \in DOMAIN usable /\ usable[q] = Remaining(q, placed, surf)
      BY <1>1 DEF LayerInv, Good, AreasCurrent, Known
    <3>. DEFINE S == {x \in Surfaces : sf[x].output = q}
                T == {x \in Surfaces : surf[x].output = q}
    <3>3. Elements(placed) \cap S = Elements(placed) \cap T
      BY <1>8, <2>6
    <3>4. OnOutput(q, placed, surf) = Kept(placed, T) /\ OnOutput(q, pl, sf) = Kept(pl, S)
      BY DEF OnOutput
    <3>5. s \in S <=> sf[s].output = q
      OBVIOUS
    <3>. HIDE DEF S, T
    <3>6. Kept(placed, S) = Kept(placed, T)
      BY <1>3, <3>3, KeptSame
    <3>7. CASE s \in failed \/ q # out
      <4>1. Elements(more) \cap S = {}
        BY <1>6, <2>4, <2>6, <3>5, <3>7
      <4>2. Kept(placed \o more, S) = Kept(placed, S)
        BY <1>3, <2>4, <4>1, KeptConcat
      <4>3. OnOutput(q, placed, surf) = OnOutput(q, pl, sf)
        BY <3>4, <3>6, <4>2 DEF pl
      <4>4. \A x \in Elements(placed) : surf[x].state = sf[x].state
        BY <1>8, <2>6
      <4>5. Remaining(q, placed, surf) = Remaining(q, pl, sf)
        BY <1>1, <1>3, <2>5, <2>6, <4>3, <4>4, SameRemains DEF Known
      <4>. QED  BY <3>2, <4>5
    <3>8. CASE s \notin failed /\ q = out
      <4>. DEFINE on == Kept(placed, S)
                  le == [i \in DOMAIN on |-> sf[on[i]].state]
                  be == [i \in DOMAIN on |-> surf[on[i]].state]
                  af == [i \in DOMAIN Append(on, s) |-> sf[Append(on, s)[i]].state]
      <4>1. pl = Append(placed, s)
        <5>1. failed = {}
          BY <2>9, <3>8
        <5>5. more = <<s>>
          BY <5>1, DropNone DEF more, one
        <5>6. placed \o <<s>> = Append(placed, s)
          BY <1>3
        <5>. QED  BY <5>5, <5>6 DEF pl
      <4>2. s \in S
        BY <1>6, <2>6, <3>5, <3>8
      <4>3. Kept(Append(placed, s), S) = Append(on, s)
        BY <1>3, <4>2, KeptAppend
      <4>4. on \in Seq(Surfaces) /\ Elements(on) \subseteq Elements(placed)
        BY <1>3, KeptProperties
      <4>. HIDE DEF on
      <4>5. le = be
        <5>1. \A i \in DOMAIN on : on[i] \in Elements(placed)
          BY <4>4 DEF Elements
        <5>. QED  BY <1>8, <2>6, <5>1
      <4>6. be \in Seq(SurfaceState) /\ Remaining(q, placed, surf) = Left(be)
        <5>1. on = OnOutput(q, placed, surf)
          BY <3>4, <3>6 DEF on
        <5>. QED  BY <1>1, <1>3, <5>1, RemainingIsArea DEF Remaining, Known
      <4>7. af = Append(le, Fresh)
        <5>1. /\ Len(Append(on, s)) = Len(on) + 1 /\ Len(on) \in Nat
              /\ DOMAIN Append(on, s) = 1 .. Len(on) + 1 /\ DOMAIN on = 1 .. Len(on)
              /\ \A i \in 1 .. Len(on) : Append(on, s)[i] = on[i]
              /\ Append(on, s)[Len(on) + 1] = s
          BY <4>4
        <5>2. sf[s].state = Fresh
          BY <1>6, <2>6, <3>8
        <5>3. le \in Seq(SurfaceState) /\ Len(le) = Len(on)
          <6>1. le \in Seq(SurfaceState)
            BY <4>5, <4>6
          <6>2. DOMAIN le = 1 .. Len(on)
            BY <5>1
          <6>. HIDE DEF le
          <6>. QED  BY <5>1, <6>1, <6>2
        <5>4. \A i \in 1 .. Len(on) : af[i] = le[i]
          BY <5>1
        <5>5. af[Len(on) + 1] = Fresh
          BY <5>1, <5>2
        <5>6. DOMAIN af = 1 .. Len(on) + 1 /\ af = [i \in 1 .. Len(on) + 1 |-> af[i]]
          BY <5>1
        <5>. HIDE DEF af, le
        <5>. DEFINE ap == Append(le, Fresh)
        <5>7. /\ ap \in Seq(SurfaceState) /\ Len(ap) = Len(le) + 1
              /\ \A i \in 1 .. Len(le) : ap[i] = le[i]
              /\ ap[Len(le) + 1] = Fresh
          BY <5>3, FreshReservesNothing
        <5>. HIDE DEF ap
        <5>8. ap = [i \in 1 .. Len(on) + 1 |-> ap[i]]
          BY <5>3, <5>7
        <5>9. \A i \in 1 .. Len(on) + 1 : i \in 1 .. Len(on) \/ i = Len(on) + 1
          BY <5>1
        <5>10. \A i \in 1 .. Len(on) + 1 : af[i] = ap[i]
          BY <5>3, <5>4, <5>5, <5>7, <5>9
        <5>11. af = ap
          BY <5>6, <5>8, <5>10
        <5>. QED  BY <5>11 DEF ap
      <4>8. Remaining(q, pl, sf) = Left(af)
        <5>1. OnOutput(q, pl, sf) = Append(on, s)
          BY <3>4, <4>1, <4>3
        <5>. QED  BY <5>1 DEF Remaining
      <4>. HIDE DEF af, be, le
      <4>9. Left(Append(be, Fresh)) = ApplyExclusive(Left(be), Fresh)
        BY <4>6, FreshReservesNothing, LeftAppend
      <4>. QED  BY <3>2, <4>5, <4>6, <4>7, <4>8, <4>9, FreshReservesNothing
    <3>. QED  BY <3>7, <3>8
  <2>12. Answered(st)
    BY <1>1, <1>6, <1>9, <2>6, <2>7 DEF LayerInv, Good, Answered, Known
  <2>13. OnTracked(st)
    <3>1. s \in Elements(pl) => sf[s].output = out
      BY <1>6, <1>8, <2>5, <2>6
    <3>. QED  BY <1>1, <1>8, <2>5, <2>6, <2>7, <2>8, <3>1 DEF LayerInv, OnTracked, Known
  <2>14. Keeps(st, {})
    <3>1. focus \in Surfaces => focus \in Elements(pl) /\ sf[focus].mapped
      BY <1>8, <2>5, <2>6 DEF LayerInv
    <3>. QED  BY <1>2, <2>5, <2>7, <2>10, <2>11, <2>12, <2>13, <3>1 DEF Keeps, Good
  <2>15. Become(st, PopupsLeft({}))
    BY <1>11, <2>1 DEF st
  <2>. QED  BY <2>14, <2>15, StepKeeps
<1>. QED  BY <1>12, <1>13

\* A step that leaves the extension's own state alone.
LEMMA TrackingStays ==
  ASSUME LayerInv, PopupsGood',
         UNCHANGED <<active, layout, outputs, usable, pending, placed, surf>>,
         focus' \in Surfaces => focus' \in Elements(placed) /\ surf[focus'].mapped
  PROVE  LayerInv'
<1>1. Tracking' = Tracking
  BY DEF Tracking
<1>2. Good(Tracking)' /\ OnTracked(Tracking)'
  <2>1. Good(Tracking)' <=> Good(Tracking')
    BY DEF Good, Answered, AreasCurrent, ListsGood
  <2>2. OnTracked(Tracking)' <=> OnTracked(Tracking')
    BY DEF OnTracked
  <2>. QED  BY <1>1, <2>1, <2>2 DEF LayerInv
<1>. QED  BY <1>2 DEF LayerInv

LEMMA FocusStep ==
  ASSUME LayerInv,
         (\E s \in Surfaces : FocusOnDemandAt(s)) \/ (\E w \in Toplevels : FocusToplevel(w))
  PROVE  LayerInv'
<1>1. UNCHANGED <<active, layout, outputs, usable, pending, placed, surf, hosted, popup>>
  BY DEF FocusOnDemandAt, FocusToplevel
<1>2. focus' \in Surfaces => focus' \in Elements(placed) /\ surf[focus'].mapped
  BY LayerAssumption DEF FocusOnDemandAt, FocusToplevel
<1>3. PopupsGood'
  BY <1>1 DEF LayerInv, PopupsGood, TreesHangTogether
<1>. QED  BY <1>1, <1>2, <1>3, TrackingStays

LEMMA NewPopupStep ==
  ASSUME LayerInv, NEW p \in Popups, NEW parent \in Toplevels \cup (Popups \ {p}) \cup {NoOne},
         HandleNewPopup(p, parent)
  PROVE  LayerInv'
<1>. DEFINE tree == parent # NoOne /\ SceneTreeFor(hosted, parent)
            new == [parent |-> parent, alive |-> TRUE, tree |-> tree]
<1>1. UNCHANGED <<active, layout, outputs, usable, pending, placed, surf, focus>>
      /\ ~popup[p].alive
  BY DEF HandleNewPopup
<1>2. popup' = [popup EXCEPT ![p] = new]
      /\ hosted' = IF tree THEN HostSurface(hosted, {p}) ELSE hosted
  BY DEF HandleNewPopup
<1>3. tree \in BOOLEAN /\ (tree => parent \in hosted)
  BY DEF SceneTreeFor
<1>. HIDE DEF tree
<1>4. new \in PopupRecord /\ new.alive /\ new.parent = parent /\ (new.tree <=> tree)
  BY <1>3 DEF PopupRecord
<1>. HIDE DEF new
<1>5. popup' \in [Popups -> PopupRecord] /\ popup'[p] = new
      /\ \A q \in Popups : q # p => popup'[q] = popup[q]
  BY <1>2, <1>4 DEF LayerInv, PopupsGood
<1>6. ~popup[p].tree
  BY <1>1 DEF LayerInv, PopupsGood, NoPopup
<1>7. {q \in Popups : popup'[q].tree}
        = {q \in Popups : popup[q].tree} \cup (IF tree THEN {p} ELSE {})
  BY <1>4, <1>5, <1>6
<1>8. hosted' = hosted \cup (IF tree THEN {p} ELSE {})
  BY <1>2 DEF HostSurface
<1>9. PopupsGood'
  BY <1>1, <1>3, <1>4, <1>5, <1>7, <1>8 DEF LayerInv, PopupsGood, TreesHangTogether
<1>. QED  BY <1>1, <1>9, TrackingStays DEF LayerInv

LEMMA GetPopupStep ==
  ASSUME LayerInv, NEW p \in Popups, NEW s \in Surfaces, GetPopup(p, s) PROVE LayerInv'
<1>1. UNCHANGED <<active, layout, outputs, usable, pending, placed, surf, focus, hosted>>
      /\ popup' = [popup EXCEPT ![p].parent = s] /\ popup[p].alive /\ popup[p].parent = NoOne
  BY DEF GetPopup
<1>2. popup \in [Popups -> PopupRecord]
  BY DEF LayerInv, PopupsGood
<1>3. NoOne \notin hosted
  <2>1. Known
    BY TrackingKnown
  <2>. QED  BY <2>1, LayerAssumption DEF LayerInv, PopupsGood, Known
<1>4. ~popup[p].tree
  BY <1>1, <1>3 DEF LayerInv, PopupsGood, TreesHangTogether
<1>5. popup' \in [Popups -> PopupRecord] /\ popup'[p].alive /\ ~popup'[p].tree
      /\ \A q \in Popups : q # p => popup'[q] = popup[q]
  BY <1>1, <1>2, <1>4 DEF PopupRecord
<1>6. {q \in Popups : popup'[q].tree} = {q \in Popups : popup[q].tree}
  BY <1>4, <1>5
<1>7. PopupsGood'
  BY <1>1, <1>5, <1>6 DEF LayerInv, PopupsGood, TreesHangTogether
<1>. QED  BY <1>1, <1>7, TrackingStays DEF LayerInv

LEMMA DestroyPopupStep == ASSUME LayerInv, NEW p \in Popups, DestroyPopup(p) PROVE LayerInv'
<1>. DEFINE S == {p}
            D == Under(S) \cup S
            new == Elements(placed)
<1>1. UNCHANGED <<active, layout, outputs, usable, pending, placed, surf, focus>>
      /\ popup' = [PopupsLeft(S) EXCEPT ![p] = NoPopup]
      /\ hosted' = Unhost(hosted, PopupsGone(popup'))
  BY DEF DestroyPopup
<1>2. PopupsGood
  BY DEF LayerInv
<1>3. popup' = [q \in Popups |-> IF q \in D THEN NoPopup ELSE popup[q]]
  BY <1>1 DEF PopupsLeft
<1>4. D \in SUBSET Popups
  BY DEF Under
<1>5. Children(S \cup D) \subseteq D
  <2>1. S \cup D = S \cup Under(S)
    OBVIOUS
  <2>2. Children(S \cup Under(S)) \subseteq Under(S)
    BY UnderIsClosed
  <2>. QED  BY <2>1, <2>2
<1>6. new \in SUBSET Surfaces /\ Elements(placed') = new /\ Elements(placed) \ S \subseteq new
      /\ Elements(placed) \subseteq Surfaces
  <2>1. Known
    BY TrackingKnown
  <2>. QED  BY <1>1, <2>1 DEF Known
<1>7. hosted' = (hosted \ (Elements(placed) \cup PopupsGone(popup'))) \cup new
  <2>1. \A q \in PopupsGone(popup') : q \notin Elements(placed)
    BY <1>6, LayerAssumption DEF PopupsGone
  <2>2. Elements(placed) \subseteq hosted
    BY <1>2 DEF PopupsGood
  <2>. QED  BY <1>1, <2>1, <2>2 DEF Unhost
<1>. HIDE DEF S, D, new
<1>8. PopupsGood'
  BY <1>2, <1>3, <1>4, <1>5, <1>6, <1>7, TreesStay
<1>. QED  BY <1>1, <1>8, TrackingStays DEF LayerInv

LEMMA InitLayer == LayerInit => LayerInv
<1>. SUFFICES ASSUME LayerInit PROVE LayerInv
  OBVIOUS
<1>. DEFINE nil == <<>>
<1>1. Elements(nil) = {} /\ NoDuplicates(nil) /\ \A X : nil \in Seq(X)
  BY DEF Elements, NoDuplicates
<1>2. outputs = nil /\ pending = nil /\ placed = nil /\ layout = nil
      /\ surf = [s \in Surfaces |-> Gone] /\ active = FALSE /\ focus = NoOne
      /\ hosted = Toplevels /\ popup = [p \in Popups |-> NoPopup]
  BY DEF LayerInit
<1>3. usable \in AreaMap
  <2>1. usable \in [{} -> Areas] /\ {} \in SUBSET Outputs
    BY DEF LayerInit
  <2>. QED  BY <2>1 DEF AreaMap
<1>. HIDE DEF nil
<1>4. surf \in SurfaceMap /\ \A s \in Surfaces : surf[s] = Gone
  BY <1>2, GoneRecord DEF SurfaceMap
<1>5. ~Gone.alive /\ ~Gone.initialized
  BY DEF Gone
<1>6. Tracking \in Tracked
  BY <1>1, <1>2, <1>3, <1>4 DEF Tracking, Tracked
<1>7. Good(Tracking) /\ OnTracked(Tracking)
  BY <1>1, <1>2, <1>4, <1>5, <1>6
     DEF Good, OnTracked, ListsGood, AreasCurrent, Answered, Tracking
<1>8. PopupsGood
  <2>1. ~NoPopup.tree /\ ~NoPopup.alive
    BY DEF NoPopup
  <2>. QED  BY <1>1, <1>2, <2>1, NoPopupRecord DEF PopupsGood, TreesHangTogether
<1>. QED  BY <1>1, <1>2, <1>7, <1>8, LayerAssumption DEF LayerInv

LEMMA LayerStep == LayerInv /\ [LayerNext]_layerVars => LayerInv'
<1>. SUFFICES ASSUME LayerInv, [LayerNext]_layerVars PROVE LayerInv'
  OBVIOUS
<1>1. CASE Activate
  BY <1>1, ActivateStep
<1>2. CASE \E o \in Outputs : OutputAdded(o) \/ OutputRemoved(o)
  BY <1>2, OutputAddedStep, OutputRemovedStep
<1>3. CASE \E s \in Surfaces : \E o \in Outputs \cup {NoOne} : NewSurface(s, o)
  BY <1>3, NewSurfaceStep
<1>4. CASE \E s \in Surfaces : \E state \in States, keyboard \in Keyboards,
             buffer \in BOOLEAN : Commit(s, state, keyboard, buffer)
  BY <1>4, CommitStep
<1>5. CASE \E s \in Surfaces : Destroy(s)
  BY <1>5, DestroyStep
<1>6. CASE (\E s \in Surfaces : FocusOnDemandAt(s)) \/ (\E w \in Toplevels : FocusToplevel(w))
  BY <1>6, FocusStep
<1>7. CASE \E p \in Popups :
             \E parent \in Toplevels \cup (Popups \ {p}) \cup {NoOne} : HandleNewPopup(p, parent)
  BY <1>7, NewPopupStep
<1>8. CASE \E p \in Popups : \E s \in Surfaces : GetPopup(p, s)
  BY <1>8, GetPopupStep
<1>9. CASE \E p \in Popups : DestroyPopup(p)
  BY <1>9, DestroyPopupStep
<1>10. CASE UNCHANGED layerVars
  <2>1. UNCHANGED <<active, layout, outputs, usable, pending, placed, surf, focus, hosted, popup>>
    BY <1>10 DEF layerVars
  <2>2. PopupsGood'
    BY <2>1 DEF LayerInv, PopupsGood, TreesHangTogether
  <2>. QED  BY <2>1, <2>2, TrackingStays DEF LayerInv
<1>. QED  BY <1>1, <1>2, <1>3, <1>4, <1>5, <1>6, <1>7, <1>8, <1>9, <1>10 DEF LayerNext

LEMMA LayerAlways == LayerSpec => []LayerInv
BY InitLayer, LayerStep, PTL DEF LayerSpec

\* The lists of the extension, the registry and the keyboard focus agree at all times:
\* every live layer surface is parked or placed, once; the registry resolves exactly what
\* has a tree.
THEOREM LayerTypes == LayerSpec => []LayerTypeOK
<1>1. LayerInv => LayerTypeOK
  <2>1. AreaMap \subseteq {us \in AreaMap : DOMAIN us \subseteq Outputs}
    BY DEF AreaMap
  <2>. QED  BY <2>1, TrackingKnown
            DEF LayerInv, LayerTypeOK, Good, ListsGood, PopupsGood, Known
<1>. QED  BY <1>1, LayerAlways, PTL

\* No reservation lingers: the area ext-layer-shell keeps for an output is what its surfaces
\* leave now, for any number of surfaces and outputs, whatever they commit.
THEOREM NoReservationLingers == LayerSpec => []UsableIsCurrent
<1>1. LayerInv => UsableIsCurrent
  BY TrackingKnown DEF LayerInv, UsableIsCurrent, Good, AreasCurrent, Known
<1>. QED  BY <1>1, LayerAlways, PTL

\* Every initial commit is answered: the regression test_client.cpp guards against cannot
\* come back while the handlers are as they are.
THEOREM EveryoneIsAnswered == LayerSpec => []NobodyWaits
<1>1. LayerInv => NobodyWaits
  <2>. SUFFICES ASSUME LayerInv, NEW s \in Surfaces, surf[s].initialized
                PROVE  IF s \in Elements(pending) THEN outputs = <<>> ELSE surf[s].configured
    BY DEF NobodyWaits
  <2>1. Known
    BY TrackingKnown
  <2>2. Elements(outputs) = {} => outputs = <<>>
    <3>1. outputs \in Seq(Outputs)
      BY <2>1 DEF Known
    <3>2. outputs # <<>> => outputs[1] \in Elements(outputs)
      BY <3>1 DEF Elements
    <3>. QED  BY <3>2
  <2>. QED  BY <2>1, <2>2 DEF LayerInv, Good, Answered, Known
<1>. QED  BY <1>1, LayerAlways, PTL

\* Closing is complete: no surface is left on an output that is gone.
THEOREM ClosingIsComplete == LayerSpec => []PlacedOnTracked
<1>1. LayerInv => PlacedOnTracked
  BY TrackingKnown DEF LayerInv, PlacedOnTracked, OnTracked, Known
<1>. QED  BY <1>1, LayerAlways, PTL

\* No borrowed scene tree outlives its owner, however deep popups nest.
THEOREM NoTreeOutlives == LayerSpec => []TreesHangTogether
<1>1. LayerInv => TreesHangTogether
  BY DEF LayerInv, PopupsGood
<1>. QED  BY <1>1, LayerAlways, PTL

==============================================================================
