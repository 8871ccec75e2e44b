---------------------------- MODULE StageWindows ----------------------------
(***************************************************************************)
(* The three extensions that each keep their own idea of the windows:      *)
(* ext-xdg-shell (XdgFocus), ext-stage-dock's window tracking and          *)
(* minimized slots (ext-stage-dock/src/extension.cpp), and                 *)
(* ext-keybindings' focus ring (ext-keybindings/src/focus_ring.hpp).       *)
(*                                                                         *)
(* They are kept in step by ext-xdg-shell's mapped, unmapped and focused   *)
(* events, which are emitted synchronously, so each action is one handler  *)
(* with every emission it makes.  The dock subscribed before the           *)
(* keybindings; neither handler looks at the other's state.                *)
(*                                                                         *)
(* An extension of which a hook callback throws (before it did anything,   *)
(* here) is disabled: the kernel takes its hook subscriptions, so that it  *)
(* misses every later event and key.  What it gave out otherwise stays:    *)
(* the dock's document goes on showing its slots and calls it for a tap    *)
(* on a card, by the number of the row that was rendered last.             *)
(***************************************************************************)
EXTENDS XdgFocus, Lists, SequencesExt

CONSTANTS
  MaxSlots,   \* bound: entries of the dock
  MaxThrows   \* bound: extensions disabled

ASSUME SlotsAssumption == MaxSlots \in Nat /\ MaxThrows \in Nat

VARIABLES
  mapped_toplevels,  \* stage dock: sequence of windows in map order
  stage_focused,     \* stage dock: Toplevel* focused_
  slots,             \* stage dock: the windows of its slots
  ring,              \* keybindings: FocusRing::order_
  current,           \* keybindings: FocusRing::current_, NoOne when !has_current_
  disabled,          \* extensions of which a hook callback threw
  rows,              \* rows of the dock's document, as rendered last
  crashed            \* a window was used after it was freed, or a slot that is none

dock == <<mapped_toplevels, stage_focused, slots>>
keys == <<ring, current>>
rest == <<disabled, rows, crashed>>
stageVars == <<focusVars, dock, keys, rest>>

Extensions == {"stage-dock", "keybindings"}
Hears(e) == e \notin disabled /\ ~crashed

Minimized == Elements(slots)
Without(s, t) == Dropped(s, {t})

\* What the two followers make of an event, if they still get it.
DockBecomes(windows, focused, s) ==
  IF Hears("stage-dock")
  THEN mapped_toplevels' = windows /\ stage_focused' = focused /\ slots' = s
  ELSE UNCHANGED dock
RingBecomes(windows, cursor) ==
  IF Hears("keybindings") THEN ring' = windows /\ current' = cursor ELSE UNCHANGED keys

\* note_focused(): the ring moves its cursor to a window it knows.
Noted(t) == IF Hears("keybindings") /\ t \in Elements(ring) THEN t ELSE current

\* The focused event, when focus_toplevel(t) gets as far as emitting it.
NoteFocused(t) ==
  IF MovesFocus(t)
  THEN /\ stage_focused' = IF Hears("stage-dock") THEN t ELSE stage_focused
       /\ current' = Noted(t)
  ELSE UNCHANGED <<stage_focused, current>>

StageInit ==
  /\ InitFocus
  /\ mapped_toplevels = <<>>
  /\ stage_focused = NoOne
  /\ slots = <<>>
  /\ ring = <<>>
  /\ current = NoOne
  /\ disabled = {}
  /\ rows = 0
  /\ crashed = FALSE

\* Server::Impl::disable(): the throwing extension's subscriptions are purged.
Throw(e) ==
  /\ Hears(e)
  /\ Cardinality(disabled) < MaxThrows
  /\ disabled' = disabled \cup {e}
  /\ UNCHANGED <<focusVars, dock, keys, rows, crashed>>

\* The document is laid out again: ListBinding::count() says how many rows there are.
Render ==
  /\ ~crashed
  /\ rows # Len(slots)
  /\ rows' = Len(slots)
  /\ UNCHANGED <<focusVars, dock, keys, disabled, crashed>>

NewWindow(t) == ~crashed /\ NewToplevel(t) /\ UNCHANGED <<dock, keys, rest>>
AckWindow(t) == ~crashed /\ Configure(t) /\ UNCHANGED <<dock, keys, rest>>
WindowDestroyed(t) == ~crashed /\ DestroyWindow(t) /\ UNCHANGED <<dock, keys, rest>>

Joined(t) == IF t \in Elements(ring) THEN ring ELSE Append(ring, t)

\* Mutant of WindowMapped: the ring does not move its cursor on mapped.
WindowMappedUnnoted(t) ==
  /\ ~crashed
  /\ MapWindow(t)
  /\ DockBecomes(Append(mapped_toplevels, t), t, slots)
  /\ RingBecomes(Joined(t), current)
  /\ UNCHANGED rest

\* map: the focused event first, then mapped, after which both followers hold t.
WindowMapped(t) ==
  /\ ~crashed
  /\ MapWindow(t)
  /\ DockBecomes(Append(mapped_toplevels, t), t, slots)
  /\ RingBecomes(Joined(t), t)
  /\ UNCHANGED rest

\* Mutant of WindowUnmapped: the dock keeps the slot of a window that goes.
WindowUnmappedKeepsSlot(t) ==
  /\ ~crashed
  /\ UnmapWindow(t)
  /\ DockBecomes(Without(mapped_toplevels, t),
                 IF stage_focused = t THEN NoOne ELSE stage_focused, slots)
  /\ RingBecomes(Without(ring, t), IF current = t THEN NoOne ELSE current)
  /\ UNCHANGED rest

\* unmapped: the dock drops the slot and its tracking, the ring its entry.
WindowUnmapped(t) ==
  /\ ~crashed
  /\ UnmapWindow(t)
  /\ DockBecomes(Without(mapped_toplevels, t),
                 IF stage_focused = t THEN NoOne ELSE stage_focused, Without(slots, t))
  /\ RingBecomes(Without(ring, t), IF current = t THEN NoOne ELSE current)
  /\ UNCHANGED rest

\* Click or tap on a window.
Click(t) ==
  /\ ~crashed
  /\ t \in Visible
  /\ FocusToplevel(t)
  /\ NoteFocused(t)
  /\ UNCHANGED <<win, hidden, mapped_toplevels, slots, ring, rest>>

Index(s, e) == CHOOSE k \in DOMAIN s : s[k] = e

\* FocusRing::next() and prev(): from the cursor, or from an end without one.
Neighbour(forward) ==
  LET n == Len(ring)
      k == Index(ring, current)
  IN  IF current \notin Elements(ring) THEN (IF forward THEN ring[1] ELSE ring[n])
      ELSE IF forward THEN ring[(k % n) + 1] ELSE ring[((k + n - 2) % n) + 1]

\* rotate(): focus the neighbour and set the cursor to it.
Rotate(forward) ==
  /\ Hears("keybindings")
  /\ ring # <<>>
  /\ LET t == Neighbour(forward)
     IN  /\ FocusToplevel(t)
         /\ stage_focused' = IF MovesFocus(t) /\ Hears("stage-dock") THEN t ELSE stage_focused
         /\ current' = t
  /\ UNCHANGED <<win, hidden, mapped_toplevels, slots, ring, rest>>

\* The dock's key filter acts on Super+M, and eats it, while it has a focused window.
MinimizeKey == Hears("stage-dock") /\ stage_focused # NoOne

\* Mutant of Minimize: the next window is noted as focused but not focused.
MinimizeUnfocused ==
  /\ MinimizeKey
  /\ Len(slots) < MaxSlots
  /\ LET t == stage_focused
         others == Dropped(mapped_toplevels, Minimized \cup {t})
     IN  /\ slots' = Append(slots, t)
         /\ hidden' = hidden \cup {t}
         /\ IF others = <<>>
            THEN /\ stage_focused' = NoOne
                 /\ UNCHANGED <<kb_focus, activated, level, current>>
            ELSE /\ stage_focused' = others[1]
                 /\ UNCHANGED <<kb_focus, activated, level, current>>
  /\ UNCHANGED <<win, mapped_toplevels, ring, rest>>

\* do_minimize_focused(): a slot for the dock's focused window, hide it, and move the
\* focus to the first mapped window without a slot, if there is one.
Minimize ==
  /\ MinimizeKey
  /\ Len(slots) < MaxSlots
  /\ LET t == stage_focused
         others == Dropped(mapped_toplevels, Minimized \cup {t})
     IN  /\ slots' = Append(slots, t)
         /\ hidden' = hidden \cup {t}
         /\ IF others = <<>>
            THEN /\ stage_focused' = NoOne
                 /\ UNCHANGED <<kb_focus, activated, level, current>>
            ELSE /\ FocusToplevel(others[1])
                 /\ NoteFocused(others[1])
  /\ UNCHANGED <<win, mapped_toplevels, ring, rest>>

\* Mutant of Restore: focus() is taken to show the window too.
RestoreUnshown(i) ==
  /\ slots' = RemoveAt(slots, i)
  /\ IF slots[i] \in Mapped THEN FocusToplevel(slots[i]) ELSE UNCHANGED <<kb_focus, activated, level>>
  /\ stage_focused' = slots[i]
  /\ current' = IF slots[i] \in Mapped /\ MovesFocus(slots[i]) THEN Noted(slots[i]) ELSE current
  /\ UNCHANGED <<win, hidden, mapped_toplevels, ring, rest>>

\* do_restore(i) of a slot: drop it, show and focus its window, and take that as focused
\* whether the event came or not.  A window that is not mapped takes no focus.
Restore(i) ==
  LET t == slots[i] IN
  /\ slots' = RemoveAt(slots, i)
  /\ hidden' = hidden \ {t}
  /\ IF t \in Mapped THEN FocusToplevel(t) ELSE UNCHANGED <<kb_focus, activated, level>>
  /\ stage_focused' = t
  /\ current' = IF t \in Mapped /\ MovesFocus(t) THEN Noted(t) ELSE current
  /\ UNCHANGED <<win, mapped_toplevels, ring, rest>>

\* Mutant of RowsAnswer: a row number is taken to be a slot's.
EveryRowAnswers(i) == TRUE

\* do_restore() guards the number RmlUi delivers.
RowsAnswer(i) == i \in DOMAIN slots

\* A tap on a card, whether or not the dock is disabled.
Tap(i) ==
  /\ ~crashed
  /\ i <= rows
  /\ RowsAnswer(i)
  /\ IF i \notin DOMAIN slots \/ win[slots[i]] = "gone"
     THEN crashed' = TRUE /\ UNCHANGED <<focusVars, dock, keys, disabled, rows>>
     ELSE Restore(i)

FocusElsewhere == ~crashed /\ FocusMovesElsewhere /\ UNCHANGED <<dock, keys, rest>>

StageNext ==
  \/ \E t \in Toplevels : \/ NewWindow(t) \/ AckWindow(t) \/ WindowMapped(t) \/ WindowUnmapped(t)
                          \/ WindowDestroyed(t) \/ Click(t)
  \/ \E forward \in BOOLEAN : Rotate(forward)
  \/ Minimize
  \/ \E i \in 1 .. MaxSlots : Tap(i)
  \/ \E e \in Extensions : Throw(e)
  \/ Render
  \/ FocusElsewhere

StageSpec == StageInit /\ [][StageNext]_stageVars

-----------------------------------------------------------------------------
StageTypeOK ==
  /\ FocusTypeOK
  /\ mapped_toplevels \in Seq(Toplevels)
  /\ stage_focused \in OrNoOne(Toplevels)
  /\ slots \in Seq(Toplevels)
  /\ ring \in Seq(Toplevels)
  /\ current \in OrNoOne(Toplevels)
  /\ disabled \subseteq Extensions
  /\ rows \in 0 .. MaxSlots
  /\ crashed \in BOOLEAN

\* No extension holds a window past its unmapped event, and both lists name every
\* mapped window once (ext_xdg_shell.hpp "drop any tracking of it now"), also when
\* another extension that follows the same events threw.
BorrowsAreMapped ==
  /\ Hears("stage-dock") =>
       /\ Elements(mapped_toplevels) = Mapped /\ NoDuplicates(mapped_toplevels)
       /\ Minimized \subseteq Mapped
       /\ stage_focused \in OrNoOne(Mapped)
  /\ Hears("keybindings") =>
       /\ Elements(ring) = Mapped /\ NoDuplicates(ring)
       /\ current \in OrNoOne(Mapped)

\* No window is lost: a mapped window that is hidden has a slot to bring it back, even
\* when the dock was disabled while it was minimized.
HiddenHasSlot == hidden \cap Mapped \subseteq Minimized

\* "rotation always continues from wherever focus ACTUALLY is"
\* (ext-keybindings/src/extension.cpp:212-213): the cursor is the focused window.
RingFollowsFocus == Hears("keybindings") /\ kb_focus \in Mapped => current = kb_focus

\* Super+M minimizes the window that has the keyboard: the dock's focused window and
\* the seat's never name two different windows.
StageFollowsFocus ==
  Hears("stage-dock") /\ kb_focus \in Mapped /\ stage_focused # NoOne => stage_focused = kb_focus

\* Focus and stacking never come apart: no visible window covers the focused one,
\* although a focus request for the window that has the focus does not raise.
FocusedIsOnTop ==
  kb_focus \in Visible =>
    \A t \in Visible : level[t] <= level[kb_focus]

\* A tap on a card that was rendered before the slots changed reaches neither past the
\* slots nor a window that is gone, as long as the dock gets its events.
TapsAreSafe == crashed => "stage-dock" \in disabled

\* Refuted: an extension that threw is disabled with "its surfaces + subscriptions dropped"
\* (ui.hpp:101-103).  The surface of the disabled dock stays, with the slots of windows that
\* go, and a tap on one uses it.
NeverCrashes == ~crashed

\* GLOSSARY.md "restore": "its preview leaves the dock".
RestoreLeavesDock ==
  [][ \A i \in DOMAIN slots : Tap(i) => slots[i] \notin Elements(slots') ]_stageVars

=============================================================================
