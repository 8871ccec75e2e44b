----------------------------- MODULE DockReveal -----------------------------
(***************************************************************************)
(* The reveal of the stage dock (ext-stage-dock/src/gesture.hpp,           *)
(* reveal.hpp, anim.hpp, and the glue in extension.cpp): one dock, slid by *)
(* an edge swipe on the kernel's touch bus, by a drag the ui substrate     *)
(* captured, by the keyboard and by the number of slots, and eased to rest *)
(* by an animator that a frame request drives.                             *)
(*                                                                         *)
(* Lengths are the revealed width: 0 is off screen, Width is shown (the    *)
(* source's slide_px is this minus dock_width).  Not kept: `dragging_`,    *)
(* which is written and never read, and times, of which only the speed at  *)
(* a release is left.                                                      *)
(*                                                                         *)
(* External, as the source uses them.  The substrate captures a finger     *)
(* that lands on the visible dock and keeps a finger it did not capture on *)
(* the bus to its end; RmlUi turns a captured press that moves into        *)
(* dragstart and drag, and its release into dragend.                       *)
(***************************************************************************)
EXTENDS Integers, FiniteSets

CONSTANTS
  TouchIds,   \* fingers on the touch bus
  Width,      \* dock_width
  EdgeSlop,   \* a swipe starts no further than this from the edge
  Duration,   \* frames of a full animation
  MaxSlots    \* bound: minimized windows

ASSUME RevealAssumption ==
  /\ TouchIds \subseteq Nat \ {0}
  /\ Width \in Nat \ {0}
  /\ EdgeSlop \in 0 .. Width
  /\ Duration \in Nat \ {0}
  /\ MaxSlots \in Nat

VARIABLES
  ctl,      \* gesture::Controller: open_, slide_px_ (the target), active_touch_ (0: none)
  rec,      \* reveal::RevealRecognizer
  slide,    \* slide_px_ of the glue, and the animator's value_
  anim,     \* anim::SlideAnimator: active_, to_, frames left of the run
  frame,    \* frame_.active(): the kernel calls on_frame
  visible,  \* the dock surface is composited and takes input
  slots,    \* number of minimized windows
  bus,      \* external: fingers whose stream is on the touch bus
  drag      \* external: captured press, [phase, x] with x where it is now

glue == <<slide, anim, frame, visible>>
vars == <<ctl, rec, glue, slots, bus, drag>>

Reveal == 0 .. Width
Positions == 0 .. Width + 1      \* of a finger: past Width it is beside the dock
OnDock(x) == x < Width
Speeds == {"fling_in", "slow", "fling_out"}

Clamp(f) == IF f < 0 THEN 0 ELSE IF f > Width THEN Width ELSE f
Between(a, b) == {s \in Reveal : (a <= s /\ s <= b) \/ (b <= s /\ s <= a)}

-----------------------------------------------------------------------------
(* The recognizer. *)

\* begin(x, start_fraction, force_active)
Begun(x, start, force) ==
  [active |-> force \/ x <= EdgeSlop, origin |-> x, start |-> Clamp(start),
   frac |-> Clamp(start), last |-> x, vel |-> "slow"]

\* The velocities update() can measure for a move to x; the last one is kept when no
\* time has passed.
SpeedsTo(r, x) ==
  {"slow", r.vel} \cup (IF x > r.last THEN {"fling_in"} ELSE {})
                  \cup (IF x < r.last THEN {"fling_out"} ELSE {})

\* update(x), with the velocity v
Updated(r, x, v) ==
  IF r.active
  THEN [r EXCEPT !.frac = Clamp(r.start + x - r.origin), !.last = x, !.vel = v]
  ELSE r

\* end() commits open
CommitsOpen(r) ==
  /\ r.active
  /\ \/ r.vel = "fling_in"
     \/ r.vel = "slow" /\ 2 * r.frac >= Width

-----------------------------------------------------------------------------
(* The controller's new states. *)

OpenNow == [ctl EXCEPT !.open = TRUE, !.slide = Width]
CloseNow == [ctl EXCEPT !.open = FALSE, !.slide = 0]
Snap(open) ==
  [open |-> open, slide |-> IF open THEN Width ELSE 0, touch |-> ctl.touch]
NoGesture(c) == [c EXCEPT !.touch = 0]

-----------------------------------------------------------------------------
(* The glue's three ways to apply an outcome. *)

\* Mutant of Finished: the hide is not guarded on the dock being closed.
FinishedUnguarded(open, shown) == FALSE

\* on_animation_finished(): whether the surface stays visible.
Finished(open, shown) == shown /\ open

\* animate_to(c.slide) over n frames, from the live value.  A run of no length ends
\* here, and leaves the frame request as it is.
AnimateTo(c, n, shown) ==
  IF n = 0
  THEN /\ slide' = c.slide
       /\ anim' = [active |-> FALSE, to |-> c.slide, left |-> 0]
       /\ visible' = Finished(c.open, shown)
       /\ UNCHANGED frame
  ELSE /\ anim' = [active |-> TRUE, to |-> c.slide, left |-> n]
       /\ frame' = TRUE
       /\ visible' = shown
       /\ UNCHANGED slide

\* apply_animated(): a full run to the controller's target.
ApplyAnimated(c) ==
  /\ ctl' = c
  /\ AnimateTo(c, Duration, visible \/ c.open)

\* The frames of a run scaled to the distance that is left: none if there is none.
ReleaseFrames(target) == IF target = slide THEN {0} ELSE 1 .. Duration

\* apply_release(): resume towards the controller's target.  An empty outcome resumes
\* too.
ApplyRelease(c, show) ==
  /\ ctl' = c
  /\ \E n \in ReleaseFrames(c.slide) : AnimateTo(c, n, visible \/ show)

\* apply_scrub() with dirty_slide set: the finger drives the dock, no run is left.
ApplyScrub(c) ==
  /\ ctl' = c
  /\ slide' = c.slide
  /\ anim' = [active |-> FALSE, to |-> anim.to, left |-> 0]

\* refresh_slots() when there are n slots.
RefreshSlots(n) ==
  /\ slots' = n
  /\ IF (n # 0) = ctl.open THEN UNCHANGED <<ctl, glue>>
     ELSE ApplyAnimated(IF n # 0 THEN OpenNow ELSE CloseNow)
  /\ UNCHANGED <<rec, bus, drag>>

-----------------------------------------------------------------------------
Init ==
  /\ ctl = [open |-> FALSE, slide |-> 0, touch |-> 0]
  /\ rec = [active |-> FALSE, origin |-> 0, start |-> 0, frac |-> 0, last |-> 0,
            vel |-> "slow"]
  /\ slide = 0
  /\ anim = [active |-> FALSE, to |-> 0, left |-> 0]
  /\ frame = FALSE
  /\ visible = FALSE
  /\ slots = 0
  /\ bus = {}
  /\ drag = [phase |-> "none", x |-> 0]

(* The kernel's touch bus. *)

\* A finger lands beside the visible dock.  Whatever the controller makes of it, the
\* glue stops the frame request.
TouchDown(f, x) ==
  /\ f \notin bus
  /\ ~(visible /\ OnDock(x))
  /\ bus' = bus \cup {f}
  /\ frame' = FALSE
  /\ IF ctl.touch # 0 \/ ctl.open
     THEN UNCHANGED <<ctl, rec, slide, anim, visible>>
     ELSE /\ rec' = Begun(x, 0, FALSE)
          /\ IF rec'.active
             THEN /\ ApplyScrub([ctl EXCEPT !.touch = f, !.slide = 0])
                  /\ visible' = TRUE
             ELSE UNCHANGED <<ctl, slide, anim, visible>>
  /\ UNCHANGED <<slots, drag>>

\* The finger of the swipe moves; every other finger's motion is a no-op.
TouchMotion(f, x) ==
  /\ f \in bus
  /\ f = ctl.touch
  /\ \E v \in SpeedsTo(rec, x) : rec' = Updated(rec, x, v)
  /\ ApplyScrub([ctl EXCEPT !.slide = rec'.frac])
  /\ UNCHANGED <<frame, visible, slots, bus, drag>>

\* Mutant of TouchUp: a finger the controller ignores resumes nothing.
TouchUpOfSwipeOnly(f) ==
  /\ f \in bus
  /\ bus' = bus \ {f}
  /\ IF f = ctl.touch
     THEN ApplyRelease(NoGesture(Snap(CommitsOpen(rec))), CommitsOpen(rec))
     ELSE UNCHANGED <<ctl, glue>>
  /\ UNCHANGED <<rec, slots, drag>>

TouchUp(f) ==
  /\ f \in bus
  /\ bus' = bus \ {f}
  /\ IF f = ctl.touch
     THEN ApplyRelease(NoGesture(Snap(CommitsOpen(rec))), CommitsOpen(rec))
     ELSE ApplyRelease(ctl, FALSE)
  /\ UNCHANGED <<rec, slots, drag>>

\* A cancelled swipe closes.
TouchCancel(f) ==
  /\ f \in bus
  /\ bus' = bus \ {f}
  /\ ApplyRelease(IF f = ctl.touch THEN NoGesture(Snap(FALSE)) ELSE ctl, FALSE)
  /\ UNCHANGED <<rec, slots, drag>>

(* What the substrate captured. *)

Press(x) ==
  /\ visible /\ OnDock(x)
  /\ drag.phase = "none"
  /\ drag' = [phase |-> "pressed", x |-> x]
  /\ UNCHANGED <<ctl, rec, glue, slots, bus>>

\* The first motion after a press: dragstart at the press, seeded with the
\* controller's target, and drag to x.  The frame request is stopped.
DragStart(x) ==
  /\ drag.phase = "pressed" /\ x # drag.x
  /\ drag' = [phase |-> "dragging", x |-> x]
  /\ LET begun == Begun(drag.x, ctl.slide, TRUE)
     IN  \E v \in SpeedsTo(begun, x) : rec' = Updated(begun, x, v)
  /\ ApplyScrub([ctl EXCEPT !.slide = rec'.frac])
  /\ frame' = FALSE
  /\ UNCHANGED <<visible, slots, bus>>

DragMove(x) ==
  /\ drag.phase = "dragging"
  /\ drag' = [phase |-> "dragging", x |-> x]
  /\ \E v \in SpeedsTo(rec, x) : rec' = Updated(rec, x, v)
  /\ ApplyScrub([ctl EXCEPT !.slide = rec'.frac])
  /\ UNCHANGED <<frame, visible, slots, bus>>

\* The press ends: dragend when it had moved, nothing (or a click, see Restore) else.
DragEnd ==
  /\ drag.phase # "none"
  /\ drag' = [phase |-> "none", x |-> 0]
  /\ IF drag.phase = "dragging"
     THEN ApplyRelease(Snap(CommitsOpen(rec)), CommitsOpen(rec))
     ELSE UNCHANGED <<ctl, glue>>
  /\ UNCHANGED <<rec, slots, bus>>

(* Windows and the keyboard. *)

\* Super+M
Minimize == slots < MaxSlots /\ RefreshSlots(slots + 1)

\* A click on a slot restores its window.
Restore == drag.phase # "none" /\ slots > 0 /\ RefreshSlots(slots - 1)

\* A window is unmapped; it may have had a slot.
Unmapped == \E n \in {slots, slots - 1} : n >= 0 /\ RefreshSlots(n)

\* Service::toggle_visible()
Toggle ==
  /\ ApplyAnimated(IF ctl.open THEN CloseNow ELSE OpenNow)
  /\ UNCHANGED <<rec, slots, bus, drag>>

\* Mutant of OnFrame: the frame request is held at rest.
OnFrameHeld ==
  /\ frame
  /\ \/ /\ anim.active /\ anim.left > 1
        /\ slide' \in Between(slide, anim.to)
        /\ anim' = [anim EXCEPT !.left = @ - 1]
        /\ UNCHANGED <<frame, visible>>
     \/ /\ ~anim.active \/ anim.left = 1
        /\ slide' = IF anim.active THEN anim.to ELSE slide
        /\ anim' = [anim EXCEPT !.active = FALSE, !.left = 0]
        /\ visible' = Finished(ctl.open, visible)
        /\ UNCHANGED frame
  /\ UNCHANGED <<ctl, rec, slots, bus, drag>>

\* on_frame(): the run advances, or is over (or was cancelled by a scrub), and then
\* the request is dropped.
OnFrame ==
  /\ frame
  /\ \/ /\ anim.active /\ anim.left > 1
        /\ slide' \in Between(slide, anim.to)
        /\ anim' = [anim EXCEPT !.left = @ - 1]
        /\ UNCHANGED <<frame, visible>>
     \/ /\ ~anim.active \/ anim.left = 1
        /\ slide' = IF anim.active THEN anim.to ELSE slide
        /\ anim' = [anim EXCEPT !.active = FALSE, !.left = 0]
        /\ visible' = Finished(ctl.open, visible)
        /\ frame' = FALSE
  /\ UNCHANGED <<ctl, rec, slots, bus, drag>>

Next ==
  \/ \E f \in TouchIds, x \in Positions : TouchDown(f, x) \/ TouchMotion(f, x)
  \/ \E f \in TouchIds : TouchUp(f) \/ TouchCancel(f)
  \/ \E x \in Positions : Press(x) \/ DragStart(x) \/ DragMove(x)
  \/ DragEnd
  \/ Minimize \/ Restore \/ Unmapped \/ Toggle
  \/ OnFrame

Spec == Init /\ [][Next]_vars

\* The kernel schedules another frame as long as a request is held.
FairSpec == Spec /\ WF_vars(OnFrame)

-----------------------------------------------------------------------------
TypeOK ==
  /\ ctl \in [open: BOOLEAN, slide: Reveal, touch: TouchIds \cup {0}]
  /\ rec \in [active: BOOLEAN, origin: Positions, start: Reveal, frac: Reveal,
              last: Positions, vel: Speeds]
  /\ slide \in Reveal
  /\ anim \in [active: BOOLEAN, to: Reveal, left: 0 .. Duration]
  /\ frame \in BOOLEAN
  /\ visible \in BOOLEAN
  /\ slots \in 0 .. MaxSlots
  /\ bus \subseteq TouchIds
  /\ drag \in [phase: {"none", "pressed", "dragging"}, x: Positions]

\* An open dock is never hidden, by whatever gesture, key or animation overtakes
\* another (extension.cpp:442-450 "a reveal that raced a conceal ... does not hide an
\* open dock").
OpenIsVisible == ctl.open => visible

\* The gesture's finger is on the screen: a swipe that lost its finger would refuse
\* every later one (gesture.hpp:96 "iff no gesture is active").
SwipeHasFinger == ctl.touch # 0 => ctl.touch \in bus

\* Where the dock must come to rest: shown or hidden, all the way.
AtRest == slide = (IF ctl.open THEN Width ELSE 0) /\ (visible <=> ctl.open)

\* Once no finger is on the screen and no frame is asked for, the dock is not left
\* between open and closed, nor visible and closed, where it would take the input of
\* the strip it covers.
NeverStranded == bus = {} /\ drag.phase # "dragging" /\ ~frame => AtRest

\* When the user leaves it alone the dock comes to rest and lets go of its frame
\* request (extension.cpp:438 "idle: stop scheduling frames").
DockSettles ==
  <>[][OnFrame]_vars =>
    <>[](bus = {} /\ drag.phase # "dragging" => AtRest /\ ~frame)

\* extension.cpp:184-185: "The Controller gates on edge-slop / already-open itself
\* (empty Outcome = ignored)".  A finger that is not the swipe's does nothing to it.
IgnoredTouchIsIgnored ==
  [][ bus' # bus /\ ctl'.touch = ctl.touch => UNCHANGED glue ]_vars

=============================================================================
