------------------------------- MODULE KeyPath -------------------------------
(***************************************************************************)
(* The way of a key: the devices and the key handler of                    *)
(* kernel/src/input.cpp, the one link of the key filter                    *)
(* (ext-keybindings/src/extension.cpp) and the focused client.             *)
(*                                                                         *)
(* A handler runs to its end, so it is one step; keys of several keyboards,*)
(* reloads of the configuration, focus changes and devices interleave.     *)
(*                                                                         *)
(* External: wlroots resolves a key with the modifiers held before it, puts*)
(* it into keycodes before the handler runs and reports changed modifiers   *)
(* after it; it releases the keys of a keyboard that goes before its       *)
(* destroy event.  The default keymap gives a key one keysym or none, and  *)
(* a Super key its own whatever else is held, and the modifier with it.    *)
(* Locked modifiers and client-side key repeat are left out.               *)
(***************************************************************************)
EXTENDS KeyConfig, FiniteSets

CONSTANTS
  Keyboards, NoKeyboard,
  TouchDevices,
  Keys,           \* keycodes
  KeysOn,         \* [Keyboards -> SUBSET Keys]
  ModifierOf,     \* [Keys -> SUBSET Modifiers]: what holding the key sets
  Keysym,         \* [Keys -> [SUBSET Modifiers -> keysyms]], the keymap
  VtKeysyms,      \* XF86Switch_VT_1 .. 12
  HasSession,     \* the server has a wlr_session, i.e. a VT to switch from
  Texts,          \* contents the configuration file may have
  MaxHeld         \* bound: keys held at once

ASSUME KeyPathAssumption ==
  /\ NoKeyboard \notin Keyboards
  /\ IsFiniteSet(Keys)
  /\ KeysOn \in [Keyboards -> SUBSET Keys]
  /\ ModifierOf \in [Keys -> SUBSET Modifiers]
  /\ \A text \in Texts : IsList(text.keybind)

\* What the keymap says of Super keys.
SuperKeys == {k \in Keys : \A m \in SUBSET Modifiers : Keysym[k][m] \in super_keysyms}

ASSUME KeymapAssumption ==
  /\ VtKeysyms \cap super_keysyms = {}
  /\ \A k \in Keys, m \in SUBSET Modifiers : Keysym[k][m] \in super_keysyms => k \in SuperKeys
  /\ \A k \in SuperKeys : "logo" \in ModifierOf[k]

VARIABLES
  keyboards, touch_devices,   \* the kernel's device lists
  seat_caps,      \* advertised capabilities, the pointer aside
  seat_keyboard,  \* the keyboard of the seat
  held,           \* [Keyboards -> SUBSET Keys]: wlr_keyboard.keycodes
  matcher,        \* the live Matcher
  client_keys,    \* keys the focused client was told are down
  vt_switches,    \* whether the last step switched the VT
  running,        \* wl_display_run() goes on
  fired,          \* history: what the last step fired: a binding, or NoBinding
  others          \* history: a key the filter saw was pressed since the last Super press

devices == <<keyboards, touch_devices, seat_caps>>
vars == <<devices, seat_keyboard, held, matcher, client_keys, vt_switches, running, fired,
          others>>

ModifiersOn(b) == UNION {ModifierOf[k] : k \in held[b]}
HeldKeys == UNION {held[b] : b \in keyboards}
Resolved(b, k) == Keysym[k][ModifiersOn(b)]

\* update_seat_capabilities().
Capabilities(kbs, touches) ==
  (IF kbs = {} THEN {} ELSE {"keyboard"}) \cup (IF touches = {} THEN {} ELSE {"touch"})

Quiet == fired' = NoBinding /\ vt_switches' = FALSE

-----------------------------------------------------------------------------
Init ==
  /\ keyboards = {} /\ touch_devices = {} /\ seat_caps = {}
  /\ seat_keyboard = NoKeyboard
  /\ held = [b \in Keyboards |-> {}]
  /\ \E text \in Texts : matcher = Matcher(LoadBindings(text))
  /\ client_keys = {}
  /\ vt_switches = FALSE /\ running = TRUE
  /\ fired = NoBinding /\ others = FALSE

\* handle_new_input(), new_keyboard().
NewKeyboard(b) ==
  /\ b \notin keyboards
  /\ keyboards' = keyboards \cup {b}
  /\ seat_caps' = Capabilities(keyboards', touch_devices)
  /\ seat_keyboard' = b
  /\ Quiet
  /\ UNCHANGED <<touch_devices, held, matcher, client_keys, running, others>>

\* handle_new_input(), new_touch().
NewTouch(d) ==
  /\ d \notin touch_devices
  /\ touch_devices' = touch_devices \cup {d}
  /\ seat_caps' = Capabilities(keyboards, touch_devices')
  /\ Quiet
  /\ UNCHANGED <<keyboards, seat_keyboard, held, matcher, client_keys, running, others>>

\* The destroy handlers: the capabilities are those from before the removal.
KeyboardGone(b) ==
  /\ b \in keyboards /\ held[b] = {}
  /\ seat_caps' = Capabilities(keyboards, touch_devices)
  /\ keyboards' = keyboards \ {b}
  /\ seat_keyboard' = IF seat_keyboard = b THEN NoKeyboard ELSE seat_keyboard
  /\ Quiet
  /\ UNCHANGED <<touch_devices, held, matcher, client_keys, running, others>>

TouchGone(d) ==
  /\ d \in touch_devices
  /\ seat_caps' = Capabilities(keyboards, touch_devices)
  /\ touch_devices' = touch_devices \ {d}
  /\ Quiet
  /\ UNCHANGED <<keyboards, seat_keyboard, held, matcher, client_keys, running, others>>

-----------------------------------------------------------------------------
\* wlr_keyboard_notify_key(): the key is down or up before the handler runs.
Moves(b, k, pressed) ==
  /\ b \in keyboards /\ k \in KeysOn[b]
  /\ (k \in held[b]) # pressed
  /\ pressed => Cardinality(HeldKeys) < MaxHeld
  /\ held' = [held EXCEPT ![b] = IF pressed THEN @ \cup {k} ELSE @ \ {k}]

\* The session's escape hatch: neither the filter nor the client sees the key.
VtKey(b, k, pressed) ==
  /\ Moves(b, k, pressed)
  /\ Resolved(b, k) \in VtKeysyms
  /\ vt_switches' = (pressed /\ HasSession)
  /\ fired' = NoBinding
  /\ UNCHANGED <<devices, seat_keyboard, matcher, client_keys, running, others>>

\* What the focused client holds for down after run_action(): a rotation may have
\* entered another window, which is told the keys of the seat's keyboard.
KeysAfter(action) ==
  {client_keys} \cup
  (IF action \in {"focus-next", "focus-prev"} /\ seat_keyboard # NoKeyboard
   THEN {held'[seat_keyboard]} ELSE {})

\* wlr_seat_keyboard_notify_key().
Told(told, k, pressed) == IF pressed THEN told \cup {k} ELSE told \ {k}

\* The other keys: through the filter and, unless consumed, to the client; then the
\* modifiers event, when they changed.
FilteredKey(b, k, pressed) ==
  LET sym == Resolved(b, k)
      mods == ModifiersOn(b)
      binding == Fires(matcher, sym, mods, pressed)
      action == IF binding = NoBinding THEN "none" ELSE matcher.bindings[binding].action
      consumed == Consumes(matcher, sym, mods, pressed)
  IN
  /\ Moves(b, k, pressed)
  /\ sym \notin VtKeysyms
  /\ matcher' = Fed(matcher, sym, mods, pressed)
  /\ running' = (action # "quit")
  /\ \E told \in KeysAfter(action) :
       client_keys' = IF consumed THEN told ELSE Told(told, k, pressed)
  /\ seat_keyboard' = IF consumed /\ ModifierOf[k] = {} THEN seat_keyboard ELSE b
  /\ fired' = binding
  /\ vt_switches' = FALSE
  /\ others' = IF ~pressed THEN others ELSE sym \notin super_keysyms
  /\ UNCHANGED devices

-----------------------------------------------------------------------------

\* reload_config() with a readable file: a new Matcher when there is a new table.
ReloadConfig(text) ==
  /\ matcher' = IF LoadFromString(text) = <<>> THEN matcher
                ELSE Matcher(ReloadBindings(matcher.bindings, text))
  /\ Quiet
  /\ UNCHANGED <<devices, seat_keyboard, held, client_keys, running, others>>

\* The focus of the seat moves, for any reason: the new client, if any, is told the
\* keys of the seat's keyboard.
FocusMoves ==
  /\ \/ client_keys' = {}
     \/ seat_keyboard # NoKeyboard /\ client_keys' = held[seat_keyboard]
  /\ Quiet
  /\ UNCHANGED <<devices, seat_keyboard, held, matcher, running, others>>

Next ==
  /\ running
  /\ \/ \E b \in Keyboards : NewKeyboard(b) \/ KeyboardGone(b)
     \/ \E d \in TouchDevices : NewTouch(d) \/ TouchGone(d)
     \/ \E b \in keyboards, pressed \in BOOLEAN : \E k \in KeysOn[b] :
          VtKey(b, k, pressed) \/ FilteredKey(b, k, pressed)
     \/ \E text \in Texts : ReloadConfig(text)
     \/ FocusMoves

Spec == Init /\ [][Next]_vars

-----------------------------------------------------------------------------
\* A Super release finds the matcher armed only if a Super key is down: an armed tap
\* cannot outlive its key, whatever is reloaded, unplugged or pressed on another keyboard.
ArmedIsHeld ==
  matcher.super_down =>
    \E b \in keyboards, k \in HeldKeys : k \in held[b] /\ "logo" \in ModifierOf[k]

\* The lone-Super binding fires only if no key the filter saw was pressed since the
\* last press of a Super key, on any keyboard.
TapIsClean ==
  fired # NoBinding /\ matcher.bindings[fired].combo.is_tap => ~others

\* A client holds no key for down that nobody holds: a key whose press it saw also
\* reaches it released, whatever binding the release would match.  Keys that may
\* switch the VT are another matter, see VtKeysAreReleased.
NoKeyStuck ==
  \A k \in client_keys : k \in HeldKeys \/ \E m \in SUBSET Modifiers : Keysym[k][m] \in VtKeysyms

\* input.cpp says of VT keys that `the matching release carries the same keysym';
\* then no key at all is stuck.  The code refutes it: F1 pressed alone and released with
\* Ctrl and Alt down is swallowed.
VtKeysAreReleased == client_keys \subseteq HeldKeys

\* A client is never told that the seat has no keyboard, or no touch screen, while it
\* has one.
SeatCapsCoverDevices ==
  Capabilities(keyboards, touch_devices) \subseteq seat_caps

\* The live table is never empty and every binding in it can be pressed: a chord has a
\* key that is no modifier, a tap a single modifier and no key, spawn a command.
TableIsUsable ==
  /\ matcher.bindings # <<>>
  /\ \A i \in DOMAIN matcher.bindings :
       LET b == matcher.bindings[i] IN
       /\ b.action \in Actions
       /\ b.action = "spawn" => b.command \notin {"", "number"}
       /\ IF b.combo.is_tap THEN Cardinality(b.combo.modifiers) = 1 ELSE b.combo.keysym # NoSymbol

TypeOK ==
  /\ keyboards \subseteq Keyboards /\ touch_devices \subseteq TouchDevices
  /\ seat_caps \subseteq {"keyboard", "touch"}
  /\ seat_keyboard \in keyboards \cup {NoKeyboard}
  /\ held \in [Keyboards -> SUBSET Keys]
  /\ \A b \in Keyboards : held[b] \subseteq KeysOn[b] /\ (held[b] # {} => b \in keyboards)
  /\ client_keys \subseteq Keys
  /\ matcher.super_down \in BOOLEAN /\ matcher.super_used \in BOOLEAN
  /\ vt_switches \in BOOLEAN /\ running \in BOOLEAN /\ others \in BOOLEAN
  /\ fired \in {NoBinding} \cup DOMAIN matcher.bindings
=============================================================================
