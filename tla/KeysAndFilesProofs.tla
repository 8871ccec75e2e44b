------------------------- MODULE KeysAndFilesProofs -------------------------
(***************************************************************************)
(* The configuration and the way of a key, for every keymap, keyboard and  *)
(* configuration file; and what is reloaded when a file changes, for every *)
(* set of directories, files, contents, surfaces and watches.              *)
(***************************************************************************)
EXTENDS KeyPath, HotReload, ListsProofs, FiniteSetTheorems

\* Why a binding can be pressed.
CanBePressed(b) ==
  /\ b.action \in Actions
  /\ b.action = "spawn" => b.command \notin {"", "number"}
  /\ IF b.combo.is_tap THEN Cardinality(b.combo.modifiers) = 1 ELSE b.combo.keysym # NoSymbol

\* A list of bindings that can be pressed.
IsTable(table) == IsList(table) /\ \A i \in DOMAIN table : CanBePressed(table[i])

\* An entry that passes the checks of load_from_string() makes a binding that can be pressed.
LEMMA UsableBinding == ASSUME NEW e, Usable(e) PROVE CanBePressed(BindingOf(e))
<1>. DEFINE b == BindingOf(e)
<1>1. b.action = e.action /\ b.command = e.command /\ b.combo = ParseCombo(e.keys)
  BY DEF BindingOf
<1>2. ParseCombo(e.keys) # NoCombo
  BY DEF Usable
<1>. HIDE DEF b
<1>3. CASE IsTap(e.keys)
  <2>1. b.combo.is_tap /\ b.combo.modifiers = {modifier_bit[e.keys[1]]}
    BY <1>1, <1>3 DEF ParseCombo
  <2>. QED  BY <1>1, <2>1, FS_Singleton DEF CanBePressed, Usable, b
<1>4. CASE ~IsTap(e.keys) /\ IsChord(e.keys)
  <2>1. ~b.combo.is_tap /\ b.combo.keysym = KeysymNamed[e.keys[Len(e.keys)]]
    BY <1>1, <1>4 DEF ParseCombo
  <2>2. e.keys[Len(e.keys)] \in DOMAIN KeysymNamed
    BY <1>4 DEF IsChord
  <2>. QED  BY <1>1, <2>1, <2>2, KeysymAssumption DEF CanBePressed, Usable, b
<1>5. CASE ~IsTap(e.keys) /\ ~IsChord(e.keys)
  BY <1>2, <1>5 DEF ParseCombo
<1>. QED  BY <1>3, <1>4, <1>5

LEMMA LoadedTable ==
  ASSUME NEW text, IsList(text.keybind)
  PROVE  IsTable(LoadFromString(text))
<1>. DEFINE U == {e \in Elements(text.keybind) : Usable(e)}
            entries == IF text.parses THEN Kept(text.keybind, U) ELSE <<>>
<1>1. entries \in Seq(Elements(text.keybind)) /\ \A i \in DOMAIN entries : Usable(entries[i])
  <2>1. Kept(text.keybind, U) \in Seq(Elements(text.keybind))
        /\ Elements(Kept(text.keybind, U)) = Elements(text.keybind) \cap U
    BY KeptProperties DEF IsList
  <2>2. \A i \in DOMAIN Kept(text.keybind, U) : Usable(Kept(text.keybind, U)[i])
    BY <2>1 DEF Elements
  <2>3. <<>> \in Seq(Elements(text.keybind)) /\ DOMAIN <<>> = {}
    OBVIOUS
  <2>. QED  BY <2>1, <2>2, <2>3, Zenon
<1>2. LoadFromString(text) = [i \in DOMAIN entries |-> BindingOf(entries[i])]
  BY DEF LoadFromString
<1>. HIDE DEF entries
<1>. DEFINE table == [i \in DOMAIN entries |-> BindingOf(entries[i])]
<1>3. DOMAIN entries = 1 .. Len(entries) /\ Len(entries) \in Nat
  BY <1>1
<1>4. \A i \in DOMAIN entries : table[i] \in Elements(table)
  BY DEF Elements
<1>5. table \in [1 .. Len(entries) -> Elements(table)]
  BY <1>3, <1>4
<1>6. IsList(table)
  BY <1>3, <1>5 DEF IsList
<1>. QED  BY <1>1, <1>2, <1>6, UsableBinding DEF IsTable

\* The built-in table is one, and not empty.
LEMMA DefaultTable == IsTable(default_bindings) /\ default_bindings # <<>>
<1>. DEFINE e1 == DefaultEntry(<<"super">>, "spawn", "fuzzel")
            e2 == DefaultEntry(<<"alt", "tab">>, "focus-next", "")
            e3 == DefaultEntry(<<"alt", "shift", "tab">>, "focus-prev", "")
            e4 == DefaultEntry(<<"alt", "f1">>, "focus-next", "")
            e5 == DefaultEntry(<<"ctrl", "alt", "backspace">>, "quit", "")
            e6 == DefaultEntry(<<"super", "d">>, "dock-toggle-visible", "")
            built_in == <<e1, e2, e3, e4, e5, e6>>
            text == [parses |-> TRUE, keybind |-> built_in]
            U == {e \in Elements(built_in) : Usable(e)}
<1>1. default_bindings = LoadFromString(text)
  BY DEF default_bindings
<1>2. Usable(e1)
  <2>1. Len(<<"super">>) = 1 /\ <<"super">>[1] = "super"
    OBVIOUS
  <2>2. IsTap(<<"super">>)
    BY <2>1 DEF IsTap, ModifierNames, modifier_bit
  <2>3. ParseCombo(<<"super">>) # NoCombo
    BY <2>2 DEF ParseCombo, NoCombo
  <2>. QED  BY <2>3 DEF Usable, DefaultEntry, Actions
<1>. HIDE DEF e1, e2, e3, e4, e5, e6
<1>3. built_in \in Seq({e1, e2, e3, e4, e5, e6}) /\ DOMAIN built_in = 1 .. 6
  OBVIOUS
<1>4. Elements(built_in) = {e1, e2, e3, e4, e5, e6}
  <2>1. /\ built_in[1] = e1 /\ built_in[2] = e2 /\ built_in[3] = e3
        /\ built_in[4] = e4 /\ built_in[5] = e5 /\ built_in[6] = e6
    OBVIOUS
  <2>2. 1 .. 6 = {1, 2, 3, 4, 5, 6}
    OBVIOUS
  <2>. HIDE DEF built_in
  <2>. QED  BY <1>3, <2>1, <2>2 DEF Elements
<1>. HIDE DEF built_in
<1>5. IsList(built_in)
  BY <1>3, <1>4 DEF IsList
<1>6. IsTable(LoadFromString(text))
  BY <1>5, LoadedTable
<1>7. e1 \in Elements(Kept(built_in, U)) /\ Kept(built_in, U) \in Seq(Elements(built_in))
  BY <1>2, <1>4, <1>5, KeptProperties DEF IsList
<1>8. PICK i \in DOMAIN Kept(built_in, U) : TRUE
  BY <1>7 DEF Elements
<1>9. LoadFromString(text) = [j \in DOMAIN Kept(built_in, U) |-> BindingOf(Kept(built_in, U)[j])]
  BY DEF LoadFromString
<1>10. DOMAIN LoadFromString(text) # {}
  BY <1>8, <1>9
<1>11. DOMAIN <<>> = {}
  OBVIOUS
<1>12. LoadFromString(text) # <<>>
  BY <1>10, <1>11, Zenon
<1>. QED  BY <1>1, <1>6, <1>12

\* Whatever the file says, a load or reload leaves a table that can be used.
LEMMA ReloadedTable ==
  ASSUME NEW current, IsTable(current), current # <<>>, NEW text \in Texts
  PROVE  IsTable(ReloadBindings(current, text)) /\ ReloadBindings(current, text) # <<>>
BY LoadedTable, KeyPathAssumption DEF ReloadBindings

-----------------------------------------------------------------------------
\* FirstOf() returns one of the indices it is given.
LEMMA FirstOfIsOne ==
  ASSUME NEW S \in SUBSET Nat
  PROVE  S # {} => FirstOf(S) \in S
<1>. SUFFICES ASSUME S # {} PROVE FirstOf(S) \in S
  OBVIOUS
<1>1. \E i \in S : \A j \in S : i <= j
  BY LeastExists
<1>. QED  BY <1>1 DEF FirstOf

\* What fires is NoBinding or a binding of the table, for a key that is no Super key a chord,
\* for a Super key only at the end of a clean tap.
LEMMA FiresWhat ==
  ASSUME NEW m, IsList(m.bindings), NEW keysym, NEW mods, NEW pressed \in BOOLEAN
  PROVE  LET i == Fires(m, keysym, mods, pressed) IN
         i # NoBinding =>
           /\ i \in DOMAIN m.bindings
           /\ keysym \notin super_keysyms => pressed /\ ~m.bindings[i].combo.is_tap
           /\ keysym \in super_keysyms => ~pressed /\ m.super_down /\ ~m.super_used
<1>. DEFINE bs == m.bindings
            taps == {i \in DOMAIN bs : bs[i].combo.is_tap /\ "logo" \in bs[i].combo.modifiers}
            chords == {i \in DOMAIN bs : /\ ~bs[i].combo.is_tap
                                         /\ bs[i].combo.keysym = keysym
                                         /\ bs[i].combo.modifiers = mods}
<1>1. DOMAIN bs \subseteq Nat
  BY DEF IsList
<1>2. find_super_tap(bs) = FirstOf(taps) /\ ChordFor(bs, keysym, mods) = FirstOf(chords)
  BY DEF find_super_tap, ChordFor
<1>3. FirstOf(taps) # NoBinding => FirstOf(taps) \in DOMAIN bs
  <2>1. taps = {} => FirstOf(taps) = NoBinding
    BY DEF FirstOf
  <2>2. taps # {} => FirstOf(taps) \in taps
    BY <1>1, FirstOfIsOne
  <2>. QED  BY <2>1, <2>2
<1>4. FirstOf(chords) # NoBinding =>
        FirstOf(chords) \in DOMAIN bs /\ ~bs[FirstOf(chords)].combo.is_tap
  <2>1. chords = {} => FirstOf(chords) = NoBinding
    BY DEF FirstOf
  <2>2. chords # {} => FirstOf(chords) \in chords
    BY <1>1, FirstOfIsOne
  <2>. QED  BY <2>1, <2>2
<1>. HIDE DEF taps, chords
<1>. QED  BY <1>2, <1>3, <1>4 DEF Fires

-----------------------------------------------------------------------------
Matchers(m) ==
  /\ m = [bindings |-> m.bindings, super_down |-> m.super_down, super_used |-> m.super_used]
  /\ m.super_down \in BOOLEAN /\ m.super_used \in BOOLEAN
  /\ IsTable(m.bindings) /\ m.bindings # <<>>

\* An armed matcher has a Super key that is down, and an unspoiled one has seen no other
\* key since: the history of the keys and the two booleans of the Matcher agree.
KeyInv ==
  /\ TypeOK
  /\ Matchers(matcher)
  /\ matcher.super_down => \E b \in keyboards : \E k \in held[b] : k \in SuperKeys
  /\ matcher.super_down /\ ~matcher.super_used => ~others
  /\ TapIsClean
  /\ NoKeyStuck

LEMMA InitKeys == Init => KeyInv
<1>. SUFFICES ASSUME Init PROVE KeyInv
  OBVIOUS
<1>1. PICK text \in Texts : matcher = Matcher(LoadBindings(text))
  BY DEF Init
<1>2. IsTable(LoadBindings(text)) /\ LoadBindings(text) # <<>>
  BY DefaultTable, ReloadedTable DEF LoadBindings
<1>3. Matchers(matcher) /\ ~matcher.super_down /\ ~matcher.super_used
  BY <1>1, <1>2 DEF Matchers, Matcher
<1>4. TypeOK
  <2>1. held \in [Keyboards -> SUBSET Keys] /\ \A b \in Keyboards : held[b] = {}
    BY DEF Init
  <2>. QED  BY <1>3, <2>1 DEF Init, TypeOK, Matchers
<1>. QED  BY <1>3, <1>4 DEF Init, KeyInv, TapIsClean, NoKeyStuck

\* Devices that come and go, a reload and a change of focus press no key.
LEMMA NewKeyboardKeeps ==
  ASSUME KeyInv, NEW b \in Keyboards, NewKeyboard(b)
  PROVE  KeyInv'
<1>. USE DEF KeyInv, NewKeyboard, Quiet
<1>1. TypeOK'
  BY DEF TypeOK, Capabilities
<1>2. NoKeyStuck'
  BY DEF NoKeyStuck, HeldKeys
<1>3. TapIsClean' /\ Matchers(matcher)'
  BY DEF TapIsClean, Matchers
<1>. QED  BY <1>1, <1>2, <1>3

LEMMA KeyboardGoneKeeps ==
  ASSUME KeyInv, NEW b \in Keyboards, KeyboardGone(b)
  PROVE  KeyInv'
<1>. USE DEF KeyInv, KeyboardGone, Quiet
<1>1. TypeOK'
  BY DEF TypeOK, Capabilities
<1>2. HeldKeys' = HeldKeys
  BY DEF HeldKeys
<1>3. NoKeyStuck'
  BY <1>2 DEF NoKeyStuck
<1>4. TapIsClean' /\ Matchers(matcher)'
  BY DEF TapIsClean, Matchers
<1>. QED  BY <1>1, <1>3, <1>4

LEMMA TouchKeeps ==
  ASSUME KeyInv, NEW d \in TouchDevices, NewTouch(d) \/ TouchGone(d)
  PROVE  KeyInv'
<1>. USE DEF KeyInv, NewTouch, TouchGone, Quiet
<1>1. TypeOK'
  BY DEF TypeOK, Capabilities
<1>2. NoKeyStuck' /\ TapIsClean' /\ Matchers(matcher)'
  BY DEF NoKeyStuck, HeldKeys, TapIsClean, Matchers
<1>. QED  BY <1>1, <1>2

LEMMA ReloadKeeps ==
  ASSUME KeyInv, NEW text \in Texts, ReloadConfig(text)
  PROVE  KeyInv'
<1>. USE DEF KeyInv, ReloadConfig, Quiet, devices
<1>1. IsTable(ReloadBindings(matcher.bindings, text)) /\ ReloadBindings(matcher.bindings, text) # <<>>
  BY ReloadedTable DEF Matchers
<1>2. \/ matcher' = matcher
      \/ Matchers(matcher') /\ ~matcher'.super_down /\ ~matcher'.super_used
  BY <1>1 DEF Matcher, Matchers
<1>3. Matchers(matcher')
  BY <1>2
<1>4. TypeOK'
  BY <1>3 DEF TypeOK, Matchers
<1>5. NoKeyStuck' /\ TapIsClean'
  BY DEF NoKeyStuck, HeldKeys, TapIsClean
<1>. QED  BY <1>2, <1>3, <1>4, <1>5

LEMMA FocusKeeps == ASSUME KeyInv, FocusMoves PROVE KeyInv'
<1>. USE DEF KeyInv, FocusMoves, Quiet, devices
<1>1. client_keys' \subseteq HeldKeys \cup client_keys /\ client_keys' \subseteq Keys
  BY DEF TypeOK, HeldKeys
<1>2. TypeOK'
  BY <1>1 DEF TypeOK
<1>3. NoKeyStuck' /\ TapIsClean' /\ Matchers(matcher)'
  BY <1>1 DEF NoKeyStuck, HeldKeys, TapIsClean, Matchers
<1>. QED  BY <1>2, <1>3

-----------------------------------------------------------------------------
\* What pressing or releasing a key does to the keys that are down.
HasMoved(b, k, pressed) ==
  /\ k \in Keys /\ b \in Keyboards
  /\ held' \in [Keyboards -> SUBSET Keys]
  /\ \A c \in Keyboards : held'[c] \subseteq KeysOn[c] /\ (held'[c] # {} => c \in keyboards)
  /\ \A c \in Keyboards : held[c] \ {k} \subseteq held'[c]
  /\ \A c \in Keyboards \ {b} : held'[c] = held[c]
  /\ held'[b] = IF pressed THEN held[b] \cup {k} ELSE held[b] \ {k}
  /\ ModifiersOn(b) \in SUBSET Modifiers

LEMMA MovesWhat ==
  ASSUME TypeOK, NEW b \in keyboards, NEW k \in KeysOn[b], NEW pressed \in BOOLEAN,
         Moves(b, k, pressed)
  PROVE  HasMoved(b, k, pressed)
<1>1. k \in Keys /\ b \in Keyboards
  BY KeyPathAssumption DEF TypeOK
<1>2. ModifiersOn(b) \subseteq Modifiers
  BY <1>1, KeyPathAssumption DEF ModifiersOn, TypeOK
<1>. QED  BY <1>1, <1>2, KeyPathAssumption DEF Moves, TypeOK, HasMoved

LEMMA VtKeyKeeps ==
  ASSUME KeyInv, NEW b \in keyboards, NEW k \in KeysOn[b], NEW pressed \in BOOLEAN,
         VtKey(b, k, pressed)
  PROVE  KeyInv'
<1>. USE DEF KeyInv
<1>1. /\ Moves(b, k, pressed) /\ Resolved(b, k) \in VtKeysyms
      /\ UNCHANGED <<devices, seat_keyboard, matcher, client_keys, running, others>>
      /\ fired' = NoBinding /\ vt_switches' \in BOOLEAN
  BY DEF VtKey
<1>2. /\ k \in Keys /\ b \in Keyboards
      /\ held' \in [Keyboards -> SUBSET Keys]
      /\ \A c \in Keyboards : held'[c] \subseteq KeysOn[c] /\ (held'[c] # {} => c \in keyboards)
      /\ \A c \in Keyboards : held[c] \ {k} \subseteq held'[c]
      /\ ModifiersOn(b) \in SUBSET Modifiers
  <2>1. HasMoved(b, k, pressed)
    BY <1>1, MovesWhat
  <2>. QED  BY <2>1 DEF HasMoved
<1>3. Keysym[k][ModifiersOn(b)] \in VtKeysyms
  BY <1>1 DEF Resolved
<1>4. k \notin SuperKeys
  BY <1>2, <1>3, KeymapAssumption DEF SuperKeys
<1>5. TypeOK'
  BY <1>1, <1>2 DEF TypeOK, devices
<1>6. NoKeyStuck'
  <2>1. HeldKeys \ {k} \subseteq HeldKeys'
    BY <1>1, <1>2 DEF HeldKeys, devices, TypeOK
  <2>. QED  BY <1>1, <1>2, <1>3, <2>1 DEF NoKeyStuck
<1>7. TapIsClean' /\ Matchers(matcher)'
  BY <1>1 DEF TapIsClean, Matchers
<1>8. matcher'.super_down => \E c \in keyboards' : \E j \in held'[c] : j \in SuperKeys
  BY <1>1, <1>2, <1>4 DEF devices, TypeOK
<1>. QED  BY <1>1, <1>5, <1>6, <1>7, <1>8

\* What feed() makes of the matcher.
LEMMA FedWhat ==
  ASSUME NEW m, Matchers(m), NEW keysym, NEW mods, NEW pressed \in BOOLEAN
  PROVE  LET n == Fed(m, keysym, mods, pressed) IN
         /\ Matchers(n) /\ n.bindings = m.bindings
         /\ IF keysym \in super_keysyms
            THEN n.super_down = pressed
            ELSE /\ n.super_down = m.super_down
                 /\ m.super_used \/ (pressed /\ m.super_down) => n.super_used
<1>1. CASE keysym \in super_keysyms
  <2>1. Fed(m, keysym, mods, pressed) =
          [bindings |-> m.bindings, super_down |-> pressed,
           super_used |-> pressed /\ m.super_down /\ m.super_used]
    BY <1>1 DEF Fed, Matchers
  <2>. QED  BY <1>1, <2>1 DEF Matchers
<1>2. CASE keysym \notin super_keysyms
  <2>1. Fed(m, keysym, mods, pressed) =
          [bindings |-> m.bindings, super_down |-> m.super_down,
           super_used |-> m.super_used \/ (pressed /\ (m.super_down \/ "logo" \in mods))]
    BY <1>2 DEF Fed, Matchers
  <2>. QED  BY <1>2, <2>1 DEF Matchers
<1>. QED  BY <1>1, <1>2

LEMMA FilteredKeyKeeps ==
  ASSUME KeyInv, NEW b \in keyboards, NEW k \in KeysOn[b], NEW pressed \in BOOLEAN,
         FilteredKey(b, k, pressed)
  PROVE  KeyInv'
<1>. DEFINE sym == Resolved(b, k)
            mods == ModifiersOn(b)
            binding == Fires(matcher, sym, mods, pressed)
            action == IF binding = NoBinding THEN "none" ELSE matcher.bindings[binding].action
            consumed == Consumes(matcher, sym, mods, pressed)
<1>1. /\ Moves(b, k, pressed)
      /\ matcher' = Fed(matcher, sym, mods, pressed)
      /\ running' \in BOOLEAN
      /\ seat_keyboard' \in {seat_keyboard, b}
      /\ fired' = binding
      /\ vt_switches' = FALSE
      /\ others' = IF ~pressed THEN others ELSE sym \notin super_keysyms
      /\ UNCHANGED devices
  BY DEF FilteredKey
<1>2. PICK told \in KeysAfter(action) :
        client_keys' = IF consumed THEN told ELSE Told(told, k, pressed)
  BY DEF FilteredKey
<1>3. /\ TypeOK /\ Matchers(matcher) /\ NoKeyStuck
      /\ matcher.super_down => \E c \in keyboards : \E j \in held[c] : j \in SuperKeys
      /\ matcher.super_down /\ ~matcher.super_used => ~others
  BY DEF KeyInv
<1>4. HasMoved(b, k, pressed)
  BY <1>1, <1>3, MovesWhat
<1>5. sym \in super_keysyms <=> k \in SuperKeys
  BY <1>4, KeymapAssumption DEF SuperKeys, Resolved, HasMoved
<1>6. binding # NoBinding =>
        /\ binding \in DOMAIN matcher.bindings
        /\ sym \notin super_keysyms => pressed /\ ~matcher.bindings[binding].combo.is_tap
        /\ sym \in super_keysyms => ~pressed /\ matcher.super_down /\ ~matcher.super_used
  <2>1. IsList(matcher.bindings)
    BY <1>3 DEF Matchers, IsTable
  <2>. QED  BY <2>1, FiresWhat
<1>7. consumed => pressed
  BY <1>6 DEF Consumes
<1>8. /\ Matchers(matcher') /\ matcher'.bindings = matcher.bindings
      /\ IF sym \in super_keysyms
         THEN matcher'.super_down = pressed
         ELSE /\ matcher'.super_down = matcher.super_down
              /\ matcher.super_used \/ (pressed /\ matcher.super_down) => matcher'.super_used
  BY <1>1, <1>3, FedWhat
<1>9. told \subseteq client_keys \cup HeldKeys' /\ told \subseteq Keys
  BY <1>1, <1>3, <1>4 DEF KeysAfter, HeldKeys, TypeOK, HasMoved, devices
<1>. HIDE DEF sym, mods, binding, action, consumed
<1>10. TypeOK'
  <2>1. client_keys' \subseteq Keys
    BY <1>2, <1>4, <1>9 DEF Told, HasMoved
  <2>2. fired' \in {NoBinding} \cup DOMAIN matcher'.bindings
    BY <1>1, <1>6, <1>8
  <2>3. others' \in BOOLEAN
    BY <1>1, <1>3 DEF TypeOK
  <2>4. matcher'.super_down \in BOOLEAN /\ matcher'.super_used \in BOOLEAN
    BY <1>8 DEF Matchers
  <2>5. seat_keyboard' \in keyboards' \cup {NoKeyboard}
    BY <1>1, <1>3 DEF TypeOK, devices
  <2>. QED  BY <1>1, <1>3, <1>4, <2>1, <2>2, <2>3, <2>4, <2>5 DEF TypeOK, HasMoved, devices
<1>11. matcher'.super_down => \E c \in keyboards' : \E j \in held'[c] : j \in SuperKeys
  <2>1. CASE sym \in super_keysyms
    BY <1>1, <1>4, <1>5, <1>8, <2>1 DEF HasMoved, devices
  <2>2. CASE sym \notin super_keysyms
    <3>1. SUFFICES ASSUME matcher.super_down
                   PROVE  \E c \in keyboards' : \E j \in held'[c] : j \in SuperKeys
      BY <1>8, <2>2
    <3>2. PICK c \in keyboards : \E j \in held[c] : j \in SuperKeys
      BY <1>3, <3>1
    <3>3. c \in Keyboards /\ c \in keyboards'
      BY <1>1, <1>3 DEF TypeOK, devices
    <3>. QED  BY <1>4, <1>5, <2>2, <3>2, <3>3 DEF HasMoved
  <2>. QED  BY <2>1, <2>2
<1>12. matcher'.super_down /\ ~matcher'.super_used => ~others'
  BY <1>1, <1>3, <1>8
<1>13. TapIsClean'
  <2>. SUFFICES ASSUME fired' # NoBinding, matcher'.bindings[fired'].combo.is_tap PROVE ~others'
    BY DEF TapIsClean
  <2>. QED  BY <1>1, <1>3, <1>6, <1>8
<1>14. NoKeyStuck'
  <2>1. client_keys' \subseteq client_keys \cup HeldKeys'
    <3>1. pressed => k \in HeldKeys'
      BY <1>1, <1>3, <1>4 DEF HasMoved, HeldKeys, devices, TypeOK
    <3>. QED  BY <1>2, <1>9, <3>1 DEF Told
  <2>2. ~pressed => k \notin client_keys'
    BY <1>2, <1>7 DEF Told
  <2>3. pressed => k \in HeldKeys'
    BY <1>1, <1>3, <1>4 DEF HasMoved, HeldKeys, devices, TypeOK
  <2>4. HeldKeys \ {k} \subseteq HeldKeys'
    BY <1>1, <1>3, <1>4 DEF HasMoved, HeldKeys, devices, TypeOK
  <2>. QED  BY <1>3, <2>1, <2>2, <2>3, <2>4 DEF NoKeyStuck
<1>. QED  BY <1>8, <1>10, <1>11, <1>12, <1>13, <1>14 DEF KeyInv

LEMMA StepKeys == KeyInv /\ [Next]_vars => KeyInv'
<1>. SUFFICES ASSUME KeyInv, [Next]_vars PROVE KeyInv'
  OBVIOUS
<1>1. ASSUME NEW b \in Keyboards, NewKeyboard(b) \/ KeyboardGone(b) PROVE KeyInv'
  BY <1>1, NewKeyboardKeeps, KeyboardGoneKeeps
<1>2. ASSUME NEW d \in TouchDevices, NewTouch(d) \/ TouchGone(d) PROVE KeyInv'
  BY <1>2, TouchKeeps
<1>3. ASSUME NEW b \in keyboards, NEW pressed \in BOOLEAN, NEW k \in KeysOn[b],
             VtKey(b, k, pressed) \/ FilteredKey(b, k, pressed)
      PROVE  KeyInv'
  BY <1>3, VtKeyKeeps, FilteredKeyKeeps
<1>4. ASSUME NEW text \in Texts, ReloadConfig(text) PROVE KeyInv'
  BY <1>4, ReloadKeeps
<1>5. CASE FocusMoves
  BY <1>5, FocusKeeps
<1>6. CASE UNCHANGED vars
  BY <1>6 DEF vars, devices, KeyInv, TypeOK, Matchers, TapIsClean, NoKeyStuck, HeldKeys
<1>. QED  BY <1>1, <1>2, <1>3, <1>4, <1>5, <1>6 DEF Next

\* KeyInv holds in every state.
THEOREM KeysInvariant == Spec => []KeyInv
BY InitKeys, StepKeys, PTL DEF Spec

\* An armed tap never outlives the Super key that armed it: whatever is reloaded, unplugged
\* or pressed on another keyboard, Matcher::super_down means that a Super key is down.
THEOREM ArmedTapIsHeld == Spec => []ArmedIsHeld
<1>1. KeyInv => ArmedIsHeld
  <2>. SUFFICES ASSUME KeyInv, matcher.super_down
                PROVE  \E b \in keyboards, k \in HeldKeys : k \in held[b] /\ "logo" \in ModifierOf[k]
    BY DEF ArmedIsHeld
  <2>1. PICK b \in keyboards : \E k \in held[b] : k \in SuperKeys
    BY DEF KeyInv
  <2>2. PICK k \in held[b] : k \in SuperKeys
    BY <2>1
  <2>3. k \in HeldKeys /\ "logo" \in ModifierOf[k]
    BY <2>2, KeymapAssumption DEF HeldKeys
  <2>. QED  BY <2>2, <2>3
<1>. QED  BY <1>1, KeysInvariant, PTL

\* The lone-Super binding fires for a lone Super only: no key the filter saw was pressed
\* since the last Super press, on any keyboard, whatever table is live.
THEOREM TapsAreClean == Spec => []TapIsClean
<1>1. KeyInv => TapIsClean
  BY DEF KeyInv
<1>. QED  BY <1>1, KeysInvariant, PTL

\* No client is left with a key that nobody holds, the keys that may switch the VT aside:
\* the press of a chord is consumed, its release never is.
THEOREM NoKeyStaysDown == Spec => []NoKeyStuck
<1>1. KeyInv => NoKeyStuck
  BY DEF KeyInv
<1>. QED  BY <1>1, KeysInvariant, PTL

\* However wrong the configuration files are, the live table is never empty and all of it
\* can be pressed.
THEOREM TableStaysUsable == Spec => []TableIsUsable
<1>1. KeyInv => TableIsUsable
  BY DEF KeyInv, Matchers, IsTable, CanBePressed, TableIsUsable
<1>. QED  BY <1>1, KeysInvariant, PTL

\* The seat advertises a keyboard or a touch screen for as long as there is one, although
\* the destroy handlers publish the capabilities before the device leaves its list.
THEOREM SeatCapsNeverTooFew == Spec => []SeatCapsCoverDevices
<1>1. Init => SeatCapsCoverDevices
  BY DEF Init, SeatCapsCoverDevices, Capabilities
<1>2. ASSUME SeatCapsCoverDevices, [Next]_vars PROVE SeatCapsCoverDevices'
  <2>. USE DEF SeatCapsCoverDevices, Capabilities, devices
  <2>1. ASSUME NEW b \in Keyboards, NewKeyboard(b) \/ KeyboardGone(b)
        PROVE  SeatCapsCoverDevices'
    BY <1>2, <2>1 DEF NewKeyboard, KeyboardGone
  <2>2. ASSUME NEW d \in TouchDevices, NewTouch(d) \/ TouchGone(d) PROVE SeatCapsCoverDevices'
    BY <1>2, <2>2 DEF NewTouch, TouchGone
  <2>3. CASE UNCHANGED devices
    BY <1>2, <2>3
  <2>. QED  BY <1>2, <2>1, <2>2, <2>3
            DEF Next, VtKey, FilteredKey, ReloadConfig, FocusMoves, vars
<1>. QED  BY <1>1, <1>2, PTL DEF Spec

------------------------------------------------------------------------------
(* The watcher.                                                            *)

Entry == [dir: Dirs, base: Files \cup {AnyFile}, who: Surfaces \cup {"config", "ext"}]
EntryMap == UNION {[D -> Entry] : D \in SUBSET Nat}
Watcher ==
  [started: BOOLEAN, entries: EntryMap, next_token: Nat, armed: SUBSET Dirs,
   wd_dirs: SUBSET Dirs, events: SUBSET Files, fresh: SUBSET Dirs]

\* No event is one of an unknown descriptor, and a directory that is watched, there, and
\* not armed was created since it was last looked at.
WatcherGood(w) ==
  /\ w \in Watcher
  /\ Live(w) \subseteq 1 .. w.next_token
  /\ w.armed \subseteq w.wd_dirs
  /\ \A f \in w.events : DirOf[f] \in w.wd_dirs
  /\ \A t \in Live(w) :
       w.entries[t].dir \in existing => w.entries[t].dir \in w.armed \cup w.fresh

\* The entries w and e make up those of a.
EntriesPlus(a, w, e) ==
  /\ Live(a) = Live(w) \cup {w.next_token + 1} /\ w.next_token + 1 \notin Live(w)
  /\ a.entries[w.next_token + 1] = e
  /\ \A t \in Live(w) : a.entries[t] = w.entries[t]
  /\ a.events = w.events

LEMMA AddKeeps ==
  ASSUME NEW w, WatcherGood(w), existing \subseteq Dirs, NEW e \in Entry
  PROVE  WatcherGood(Add(w, e)) /\ EntriesPlus(Add(w, e), w, e)
<1>. DEFINE n == w.next_token + 1
            more == [t \in Live(w) \cup {n} |-> IF t = n THEN e ELSE w.entries[t]]
            here == {e.dir} \cap existing
            a == Add(w, e)
<1>1. w \in Watcher /\ n \in Nat /\ n \notin Live(w) /\ e.dir \in Dirs
      /\ Live(w) = DOMAIN w.entries
  BY DEF WatcherGood, Watcher, Entry, Live
<1>2. a = [[w EXCEPT !.started = TRUE, !.next_token = n, !.entries = more]
             EXCEPT !.armed = @ \cup here, !.wd_dirs = @ \cup here, !.fresh = @ \ {e.dir}]
  BY DEF Add, ArmDir
<1>3. more \in EntryMap /\ DOMAIN more = Live(w) \cup {n} /\ more[n] = e
      /\ \A t \in Live(w) : more[t] = w.entries[t]
  <2>1. PICK D \in SUBSET Nat : w.entries \in [D -> Entry]
    BY <1>1 DEF Watcher, EntryMap
  <2>2. more \in [D \cup {n} -> Entry] /\ D \cup {n} \in SUBSET Nat
    BY <1>1, <2>1
  <2>3. more \in EntryMap
    <3>. HIDE DEF more
    <3>. QED  BY <2>2 DEF EntryMap
  <2>. QED  BY <1>1, <2>3
<1>. HIDE DEF more, a
<1>4. /\ a.started = TRUE /\ a.entries = more /\ a.next_token = n
      /\ a.armed = w.armed \cup here /\ a.wd_dirs = w.wd_dirs \cup here
      /\ a.events = w.events /\ a.fresh = w.fresh \ {e.dir}
      /\ a \in Watcher
  <2>. HIDE DEF n
  <2>. QED  BY <1>1, <1>2, <1>3 DEF Watcher
<1>5. Live(a) = Live(w) \cup {n}
  BY <1>3, <1>4 DEF Live
<1>6. EntriesPlus(a, w, e)
  BY <1>1, <1>3, <1>4, <1>5 DEF EntriesPlus
<1>7. WatcherGood(a)
  <2>1. Live(a) \subseteq 1 .. a.next_token
    BY <1>1, <1>4, <1>5 DEF WatcherGood, Watcher
  <2>2. ASSUME NEW t \in Live(a), a.entries[t].dir \in existing
        PROVE  a.entries[t].dir \in a.armed \cup a.fresh
    <3>1. CASE t = n
      BY <1>3, <1>4, <2>2, <3>1
    <3>2. CASE t \in Live(w)
      BY <1>3, <1>4, <2>2, <3>2 DEF WatcherGood
    <3>. QED  BY <1>5, <3>1, <3>2
  <2>. QED  BY <1>4, <2>1, <2>2 DEF WatcherGood
<1>. QED  BY <1>6, <1>7 DEF a

\* The entries of a are those of w but for one.
EntriesMinus(a, w, t) ==
  /\ Live(a) = Live(w) \ {t}
  /\ \A u \in Live(a) : a.entries[u] = w.entries[u]
  /\ t \notin Live(w) => a = w

LEMMA IdleGood == \A n \in Nat : WatcherGood([Idle EXCEPT !.next_token = n])
<1>. SUFFICES ASSUME NEW n \in Nat PROVE WatcherGood([Idle EXCEPT !.next_token = n])
  OBVIOUS
<1>. DEFINE nil == <<>>
            w == [Idle EXCEPT !.next_token = n]
<1>1. nil \in EntryMap /\ DOMAIN nil = {}
  <2>1. nil \in [{} -> Entry] /\ {} \in SUBSET Nat /\ DOMAIN nil = {}
    OBVIOUS
  <2>. HIDE DEF nil
  <2>. QED  BY <2>1 DEF EntryMap
<1>2. Idle = [started |-> FALSE, entries |-> nil, next_token |-> 0,
              armed |-> {}, wd_dirs |-> {}, events |-> {}, fresh |-> {}]
  BY DEF Idle
<1>. HIDE DEF nil
<1>3. w.entries = nil /\ w.armed = {} /\ w.wd_dirs = {} /\ w.events = {} /\ w.fresh = {}
  BY <1>2
<1>4. Idle \in Watcher
  BY <1>1, <1>2 DEF Watcher
<1>5. w \in Watcher /\ w.next_token = n
  BY <1>4 DEF Watcher
<1>. HIDE DEF w
<1>6. Live(w) = {}
  BY <1>1, <1>3 DEF Live
<1>7. WatcherGood(w)
  BY <1>3, <1>5, <1>6 DEF WatcherGood
<1>. QED  BY <1>7 DEF w

LEMMA RemoveKeeps ==
  ASSUME NEW w, WatcherGood(w), existing \subseteq Dirs, NEW t
  PROVE  /\ WatcherGood(RemoveWatch(w, t)) /\ EntriesMinus(RemoveWatch(w, t), w, t)
<1>. DEFINE left == Live(w) \ {t}
            fewer == [u \in left |-> w.entries[u]]
            dirs == {w.entries[u].dir : u \in left} \cap existing
            a == RemoveWatch(w, t)
<1>1. w \in Watcher /\ Live(w) = DOMAIN w.entries
  BY DEF WatcherGood, Live
<1>2. CASE t \notin Live(w)
  <2>1. a = w
    BY <1>2 DEF RemoveWatch
  <2>. HIDE DEF a
  <2>2. WatcherGood(a) /\ EntriesMinus(a, w, t)
    BY <1>2, <2>1 DEF EntriesMinus
  <2>. QED  BY <2>2 DEF a
<1>3. CASE Live(w) = {t}
  <2>1. a = [Idle EXCEPT !.next_token = w.next_token]
    BY <1>3 DEF RemoveWatch
  <2>2. WatcherGood(a)
    BY <1>1, <2>1, IdleGood DEF Watcher
  <2>3. Live(a) = {}
    <3>1. a.entries = <<>>
      BY <2>1 DEF Idle
    <3>2. DOMAIN <<>> = {}
      OBVIOUS
    <3>. QED  BY <3>1, <3>2 DEF Live
  <2>. HIDE DEF a
  <2>4. EntriesMinus(a, w, t)
    BY <1>3, <2>3 DEF EntriesMinus
  <2>. QED  BY <2>2, <2>4 DEF a
<1>4. CASE t \in Live(w) /\ Live(w) # {t}
  <2>1. a = [w EXCEPT !.entries = fewer, !.armed = dirs, !.wd_dirs = dirs, !.events = {},
                      !.fresh = {}]
    BY <1>4 DEF RemoveWatch
  <2>2. fewer \in EntryMap /\ DOMAIN fewer = left /\ \A u \in left : fewer[u] = w.entries[u]
    <3>1. PICK D \in SUBSET Nat : w.entries \in [D -> Entry]
      BY <1>1 DEF Watcher, EntryMap
    <3>2. fewer \in [left -> Entry] /\ left \in SUBSET Nat
      BY <1>1, <3>1
    <3>3. fewer \in EntryMap
      <4>. HIDE DEF fewer
      <4>. QED  BY <3>2 DEF EntryMap
    <3>. QED  BY <3>3
  <2>3. dirs \subseteq Dirs
    OBVIOUS
  <2>4. \A u \in left : w.entries[u].dir \in existing => w.entries[u].dir \in dirs
    OBVIOUS
  <2>. HIDE DEF fewer, dirs, left, a
  <2>5. /\ a.entries = fewer /\ a.next_token = w.next_token /\ a.armed = dirs
        /\ a.wd_dirs = dirs /\ a.events = {} /\ a.fresh = {} /\ a \in Watcher
    BY <1>1, <2>1, <2>2, <2>3 DEF Watcher
  <2>6. Live(a) = left
    BY <2>2, <2>5 DEF Live
  <2>7. WatcherGood(a)
    <3>1. Live(a) \subseteq 1 .. a.next_token
      BY <2>5, <2>6 DEF WatcherGood, left
    <3>. QED  BY <2>2, <2>4, <2>5, <2>6, <3>1 DEF WatcherGood
  <2>8. EntriesMinus(a, w, t)
    BY <1>4, <2>2, <2>5, <2>6 DEF EntriesMinus, left
  <2>. QED  BY <2>7, <2>8 DEF a
<1>. QED  BY <1>2, <1>3, <1>4

\* The watches of a surface that is loaded for the first time, one after the other.
AllAdded(a, w, order, k) ==
  /\ WatcherGood(a) /\ a.next_token = w.next_token + k
  /\ Live(a) = Live(w) \cup w.next_token + 1 .. w.next_token + k
  /\ a.events = w.events
  /\ \A t \in Live(w) : a.entries[t] = w.entries[t]
  /\ \A i \in 1 .. k : a.entries[w.next_token + i] = AssetWatch(order[i])

LEMMA AddAllKeeps ==
  ASSUME NEW w, WatcherGood(w), existing \subseteq Dirs, NEW order \in Seq(Surfaces)
  PROVE  AllAdded(AddAssetWatches(w, order), w, order, Len(order))
<1>. DEFINE N == Len(order)
            A == {a \in Watcher : WatcherGood(a)}
            Step(a, i) == Add(a, AssetWatch(order[i]))
            step == [i \in 1 .. N |-> [a \in A |-> Step(a, i)]]
            f == CHOOSE g : g = [i \in 0 .. N |-> IF i = 0 THEN w ELSE Step(g[i - 1], i)]
<1>1. /\ N \in Nat /\ DOMAIN order = 1 .. N
      /\ \A i \in 1 .. N : order[i] \in Surfaces /\ AssetWatch(order[i]) \in Entry
  BY FilesAssumption, HotReloadAssumption DEF AssetWatch, Entry
<1>2. w \in A /\ w.next_token \in Nat
  BY DEF WatcherGood, Watcher
<1>3. AddAssetWatches(w, order) = f[N]
  BY DEF AddAssetWatches
<1>4. \A i \in 1 .. N : \A a \in A :
        /\ Step(a, i) \in A
        /\ EntriesPlus(Step(a, i), a, AssetWatch(order[i]))
        /\ Step(a, i).next_token = a.next_token + 1
  <2>1. \A i \in 1 .. N : \A a \in A :
          WatcherGood(Step(a, i)) /\ EntriesPlus(Step(a, i), a, AssetWatch(order[i]))
    BY <1>1, AddKeeps
  <2>2. \A i \in 1 .. N : \A a \in A : Step(a, i).next_token = a.next_token + 1
    BY <1>1 DEF Add, ArmDir, Watcher
  <2>. QED  BY <2>1, <2>2 DEF WatcherGood
<1>. HIDE DEF N, Step, A
<1>5. step \in [1 .. N -> [A -> A]]
  BY <1>4
<1>6. \E u \in [0 .. N -> A] : u[0] = w /\ \A i \in 1 .. N : u[i] = step[i][u[i - 1]]
  <2>. HIDE DEF step, f
  <2>1. \E u \in [0 .. N -> A] : Repeats(u, N, w, step)
    BY <1>1, <1>2, <1>5, RecursionExists
  <2>. QED  BY <2>1 DEF Repeats
<1>7. PICK u \in [0 .. N -> A] : u[0] = w /\ \A i \in 1 .. N : u[i] = step[i][u[i - 1]]
  BY <1>6
<1>8. ASSUME NEW i \in 1 .. N PROVE u[i] = Step(u[i - 1], i)
  <2>1. u[i - 1] \in A
    BY <1>1, <1>7
  <2>. QED  BY <1>7, <2>1
<1>. HIDE DEF step
<1>9. u = [i \in 0 .. N |-> IF i = 0 THEN w ELSE Step(u[i - 1], i)]
  <2>1. \A i \in 0 .. N : i = 0 \/ i \in 1 .. N
    BY <1>1
  <2>. QED  BY <1>7, <1>8, <2>1
<1>10. f = [i \in 0 .. N |-> IF i = 0 THEN w ELSE Step(f[i - 1], i)]
  BY <1>9
<1>. HIDE DEF f
<1>11. \A i \in 0 .. N : i \in {k \in 0 .. N : f[k] \in A /\ AllAdded(f[k], w, order, k)}
  <2>. DEFINE E == {k \in 0 .. N : f[k] \in A /\ AllAdded(f[k], w, order, k)}
  <2>1. 0 \in E
    <3>1. f[0] = w
      BY <1>1, <1>10
    <3>2. w.next_token + 1 .. w.next_token + 0 = {} /\ 1 .. 0 = {}
      BY <1>2
    <3>3. AllAdded(w, w, order, 0)
      BY <1>2, <3>2 DEF AllAdded
    <3>. QED  BY <1>1, <1>2, <3>1, <3>3
  <2>2. ASSUME NEW i \in 0 .. N - 1, i \in E PROVE i + 1 \in E
    <3>. DEFINE a == f[i]
                b == f[i + 1]
                n == w.next_token
    <3>1. i + 1 \in 1 .. N /\ (i + 1) - 1 = i /\ i + 1 # 0 /\ i + 1 \in 0 .. N
      BY <1>1
    <3>2. b = Step(a, i + 1)
      BY <1>10, <3>1
    <3>3. a \in A /\ AllAdded(a, w, order, i)
      BY <2>2
    <3>4. /\ b \in A /\ EntriesPlus(b, a, AssetWatch(order[i + 1]))
          /\ b.next_token = a.next_token + 1
      BY <1>4, <3>1, <3>2, <3>3
    <3>. HIDE DEF a, b, n
    <3>5. /\ n \in Nat /\ a.next_token = n + i /\ a.next_token + 1 = n + (i + 1)
          /\ n + 1 .. n + (i + 1) = (n + 1 .. n + i) \cup {n + (i + 1)}
          /\ \A j \in 1 .. i + 1 : j = i + 1 \/ (j \in 1 .. i /\ n + j \in n + 1 .. n + i)
      <4>1. n \in Nat /\ i \in Nat /\ a.next_token = n + i
        BY <1>1, <1>2, <3>3 DEF AllAdded, n
      <4>. QED  BY <4>1
    <3>6. AllAdded(b, w, order, i + 1)
      <4>1. WatcherGood(b)
        BY <3>4 DEF A
      <4>2. Live(b) = Live(w) \cup n + 1 .. n + (i + 1)
        BY <3>3, <3>4, <3>5 DEF AllAdded, EntriesPlus, n
      <4>3. \A j \in 1 .. i + 1 : b.entries[n + j] = AssetWatch(order[j])
        BY <3>3, <3>4, <3>5 DEF AllAdded, EntriesPlus, n
      <4>4. \A t \in Live(w) : b.entries[t] = w.entries[t]
        BY <3>3, <3>4 DEF AllAdded, EntriesPlus
      <4>5. b.events = w.events
        BY <3>3, <3>4 DEF AllAdded, EntriesPlus
      <4>. QED  BY <3>4, <3>5, <4>1, <4>2, <4>3, <4>4, <4>5 DEF AllAdded, n
    <3>. QED  BY <3>1, <3>4, <3>6 DEF b
  <2>. HIDE DEF E
  <2>3. \A i \in 0 .. N : i \in E
    BY <1>1, <2>1, <2>2, InductionUpTo
  <2>. QED  BY <2>3 DEF E
<1>12. AllAdded(f[N], w, order, N)
  BY <1>1, <1>11
<1>. QED  BY <1>3, <1>12 DEF N

------------------------------------------------------------------------------
(* The state.                                                              *)

ReloadTypes ==
  /\ existing \subseteq Dirs
  /\ content \in [Files -> Contents]
  /\ alive \subseteq Surfaces /\ doc_loaded \subseteq alive /\ pending_reloads \subseteq alive
  /\ document \in [Surfaces -> Contents \cup {Partial, None}]
  /\ WatcherGood(watcher)

\* A file that is there is in a directory that is there.
FilesAreSomewhere == \A f \in Files : content[f] # Absent => DirOf[f] \in existing

\* Every watch belongs to the bindings, to the extension, or to a surface that was loaded,
\* which has one.
Owned(e) ==
  \/ e = ConfigWatch \/ e.who = "ext"
  \/ \E s \in doc_loaded : e = AssetWatch(s)
WatchesOwned == \A t \in Live(watcher) : Owned(watcher.entries[t])
OneWatchEach ==
  \A t, u \in Live(watcher) :
    watcher.entries[t].who = watcher.entries[u].who /\ watcher.entries[t].who \in Surfaces
      => t = u

\* A change of the file that the bindings do not have is on its way to them.
ConfigToCome ==
  \A t \in WatchesOf("config") \ missed :
    content[ConfigFile] \in UsableContents
      => \/ bindings = content[ConfigFile]
         \/ ConfigFile \in watcher.events \/ t \in to_fire

DocumentToCome ==
  \A t \in Live(watcher) \ missed : \A s \in Surfaces :
    watcher.entries[t].who = s /\ content[DocumentOf[s]] \in UsableContents
      => \/ document[s] = content[DocumentOf[s]] \/ s \in pending_reloads
         \/ DocumentOf[s] \in watcher.events \/ t \in to_fire

ReloadInv ==
  /\ ReloadTypes /\ FilesAreSomewhere /\ WatchesOwned /\ OneWatchEach
  /\ ConfigToCome /\ DocumentToCome

LEMMA EntryFacts ==
  /\ ConfigWatch \in Entry /\ ConfigWatch.who = "config" /\ Matches(ConfigWatch, ConfigFile)
  /\ \A s \in Surfaces : /\ AssetWatch(s) \in Entry /\ AssetWatch(s).who = s
                         /\ AssetWatch(s).who \notin {"config", "ext"}
                         /\ Matches(AssetWatch(s), DocumentOf[s])
  /\ ConfigWatch.who \notin Surfaces /\ "ext" \notin Surfaces
BY FilesAssumption, HotReloadAssumption DEF ConfigWatch, AssetWatch, Entry, Matches

\* Whose watch an entry is says all of it.
LEMMA OwnersKnown ==
  ASSUME WatchesOwned, doc_loaded \subseteq Surfaces, NEW t \in Live(watcher)
  PROVE  /\ watcher.entries[t].who = "config" =>
              watcher.entries[t] = ConfigWatch /\ Matches(watcher.entries[t], ConfigFile)
         /\ \A s \in Surfaces : watcher.entries[t].who = s =>
              /\ s \in doc_loaded /\ watcher.entries[t] = AssetWatch(s)
              /\ Matches(watcher.entries[t], DocumentOf[s])
         /\ watcher.entries[t].who \in doc_loaded \cup {"config", "ext"}
<1>. DEFINE e == watcher.entries[t]
<1>1. Owned(e)
  BY DEF WatchesOwned
<1>. HIDE DEF e
<1>2. CASE e = ConfigWatch
  BY <1>2, EntryFacts DEF e
<1>3. CASE e.who = "ext"
  BY <1>3, EntryFacts DEF e
<1>4. CASE \E s \in doc_loaded : e = AssetWatch(s)
  BY <1>4, EntryFacts DEF e
<1>. QED  BY <1>1, <1>2, <1>3, <1>4 DEF Owned

LEMMA RereadUsable == \A old : \A c \in UsableContents : Reread(old, c) = {c}
BY HotReloadAssumption DEF Reread

LEMMA ReloadInitGood == ReloadInit => ReloadInv
<1>. SUFFICES ASSUME ReloadInit PROVE ReloadInv
  OBVIOUS
<1>1. existing \subseteq Dirs /\ content \in [Files -> Contents] /\ FilesAreSomewhere
  BY DEF ReloadInit, FilesInit, FilesAreSomewhere
<1>. DEFINE w == [Idle EXCEPT !.next_token = 0]
<1>2. Idle = w /\ Live(w) = {}
  <2>1. Idle = w
    BY DEF Idle
  <2>2. Idle.entries = <<>>
    BY DEF Idle
  <2>3. DOMAIN <<>> = {}
    OBVIOUS
  <2>. QED  BY <2>1, <2>2, <2>3 DEF Live
<1>3. WatcherGood(w)
  BY IdleGood
<1>. HIDE DEF w
<1>4. watcher = Add(w, ConfigWatch)
  BY <1>2 DEF ReloadInit
<1>5. WatcherGood(watcher) /\ EntriesPlus(watcher, w, ConfigWatch)
  BY <1>1, <1>3, <1>4, AddKeeps, EntryFacts
<1>6. /\ \A t, u \in Live(watcher) : t = u
      /\ \A t \in Live(watcher) : watcher.entries[t] = ConfigWatch
  BY <1>2, <1>5 DEF EntriesPlus
<1>7. ReloadTypes
  BY <1>1, <1>5 DEF ReloadTypes, ReloadInit
<1>8. WatchesOwned /\ OneWatchEach
  BY <1>6 DEF WatchesOwned, OneWatchEach, Owned
<1>9. ConfigToCome
  BY RereadUsable DEF ConfigToCome, ReloadInit
<1>10. DocumentToCome
  BY <1>6, EntryFacts DEF DocumentToCome
<1>. QED  BY <1>1, <1>7, <1>8, <1>9, <1>10 DEF ReloadInv

\* A write that the watcher is told of, or else notes as missed.
LEMMA WriteKeeps ==
  ASSUME ReloadInv, NEW f \in Files, NEW c \in Contents, DirOf[f] \in existing, Written(f, c),
         UNCHANGED <<bindings, surfs>>
  PROVE  ReloadInv'
<1>. USE DEF surfs
<1>1. /\ content' = [content EXCEPT ![f] = c] /\ content' \in [Files -> Contents]
      /\ existing' = existing /\ to_fire' = to_fire /\ watcher \in Watcher
      /\ doc_loaded \subseteq Surfaces
  BY DEF ReloadInv, ReloadTypes, WatcherGood, Written
<1>2. /\ watcher' \in Watcher /\ watcher'.entries = watcher.entries
      /\ watcher'.next_token = watcher.next_token /\ watcher'.armed = watcher.armed
      /\ watcher'.wd_dirs = watcher.wd_dirs /\ watcher'.fresh = watcher.fresh
      /\ watcher'.events = IF DirOf[f] \in watcher.armed THEN watcher.events \cup {f}
                           ELSE watcher.events
  BY <1>1 DEF Written, Watcher
<1>3. Live(watcher') = Live(watcher) /\ \A w : WatchesOf(w)' = WatchesOf(w)
  BY <1>2 DEF Live, WatchesOf
<1>4. WatcherGood(watcher)'
  BY <1>1, <1>2, <1>3 DEF ReloadInv, ReloadTypes, WatcherGood
<1>5. ReloadTypes'
  BY <1>1, <1>4 DEF ReloadInv, ReloadTypes
<1>6. FilesAreSomewhere' /\ WatchesOwned' /\ OneWatchEach'
  BY <1>1, <1>2, <1>3 DEF ReloadInv, FilesAreSomewhere, WatchesOwned, OneWatchEach, Owned
<1>7. missed \subseteq missed'
  BY DEF Written
<1>8. \A t \in Live(watcher) : Matches(watcher.entries[t], f) /\ t \notin missed'
                                 => f \in watcher'.events
  <2>1. SUFFICES ASSUME NEW t \in Live(watcher), Matches(watcher.entries[t], f), t \notin missed'
                 PROVE  f \in watcher'.events
    OBVIOUS
  <2>2. watcher.entries[t].dir = DirOf[f] /\ t \in Watching(watcher, f)
    BY <2>1 DEF Matches, Watching
  <2>3. DirOf[f] \in watcher.armed \cup watcher.fresh
    BY <2>2 DEF ReloadInv, ReloadTypes, WatcherGood
  <2>4. DirOf[f] \notin watcher.fresh
    BY <2>1, <2>2 DEF Written
  <2>. QED  BY <1>2, <2>3, <2>4
<1>9. ConfigToCome'
  <2>1. SUFFICES ASSUME NEW t \in WatchesOf("config") \ missed',
                        content'[ConfigFile] \in UsableContents,
                        bindings # content'[ConfigFile], ConfigFile \notin watcher'.events
                 PROVE  t \in to_fire
    BY <1>1, <1>3 DEF ConfigToCome
  <2>2. t \in Live(watcher) /\ Matches(watcher.entries[t], ConfigFile)
    BY <1>1, OwnersKnown DEF ReloadInv, WatchesOf
  <2>3. f # ConfigFile
    BY <1>8, <2>1, <2>2
  <2>4. content'[ConfigFile] = content[ConfigFile]
    BY <1>1, <2>3, HotReloadAssumption
  <2>. QED  BY <1>2, <1>7, <2>1, <2>4 DEF ReloadInv, ConfigToCome
<1>10. DocumentToCome'
  <2>1. SUFFICES ASSUME NEW t \in Live(watcher) \ missed', NEW s \in Surfaces,
                        watcher.entries[t].who = s, content'[DocumentOf[s]] \in UsableContents,
                        document[s] # content'[DocumentOf[s]], s \notin pending_reloads,
                        DocumentOf[s] \notin watcher'.events
                 PROVE  t \in to_fire
    BY <1>1, <1>2, <1>3 DEF DocumentToCome
  <2>2. Matches(watcher.entries[t], DocumentOf[s]) /\ DocumentOf[s] \in Files
    BY <1>1, <2>1, OwnersKnown, HotReloadAssumption DEF ReloadInv
  <2>3. f # DocumentOf[s]
    BY <1>8, <2>1, <2>2
  <2>4. content'[DocumentOf[s]] = content[DocumentOf[s]]
    BY <1>1, <2>2, <2>3
  <2>. QED  BY <1>2, <1>7, <2>1, <2>4 DEF ReloadInv, DocumentToCome
<1>. QED  BY <1>5, <1>6, <1>9, <1>10 DEF ReloadInv

\* A change of the files nobody has to be told of: none of those that changed says
\* anything usable.
LEMMA LossKeeps ==
  ASSUME ReloadInv, UNCHANGED <<to_fire, missed, bindings, surfs>>,
         existing' \subseteq Dirs, content' \in [Files -> Contents], FilesAreSomewhere',
         \A f \in Files : content'[f] \in {content[f], Absent, Torn},
         WatcherGood(watcher)', watcher'.entries = watcher.entries,
         watcher'.events = watcher.events
  PROVE  ReloadInv'
<1>. USE DEF surfs
<1>1. Live(watcher') = Live(watcher) /\ \A w : WatchesOf(w)' = WatchesOf(w)
  BY DEF Live, WatchesOf
<1>2. ReloadTypes'
  BY DEF ReloadInv, ReloadTypes
<1>3. WatchesOwned' /\ OneWatchEach'
  BY <1>1 DEF ReloadInv, WatchesOwned, OneWatchEach, Owned
<1>4. \A f \in Files : content'[f] \in UsableContents => content'[f] = content[f]
  BY HotReloadAssumption
<1>5. ConfigToCome'
  BY <1>1, <1>4, HotReloadAssumption DEF ReloadInv, ConfigToCome
<1>6. DocumentToCome'
  BY <1>1, <1>4, HotReloadAssumption DEF ReloadInv, DocumentToCome
<1>. QED  BY <1>2, <1>3, <1>5, <1>6 DEF ReloadInv

LEMMA SavesKeep ==
  ASSUME ReloadInv, Saves, UNCHANGED <<bindings, surfs>>
  PROVE  ReloadInv'
<1>1. /\ Absent \in Contents /\ Torn \in Contents /\ Absent # Torn
      /\ \A f \in Files : \A c \in Complete[f] : c \in Contents
  <2>1. Absent # Torn
    BY DEF Absent, Torn
  <2>2. Absent \in Contents /\ Torn \in Contents
    BY DEF Contents
  <2>3. \A f \in Files : \A c \in Complete[f] : c \in Contents
    BY DEF Contents
  <2>. QED  BY <2>1, <2>2, <2>3
<1>2. /\ content \in [Files -> Contents] /\ existing \subseteq Dirs /\ WatcherGood(watcher)
      /\ FilesAreSomewhere /\ watcher \in Watcher
  BY DEF ReloadInv, ReloadTypes, WatcherGood
<1>3. ASSUME NEW f \in InPlace, OpenToWrite(f) PROVE ReloadInv'
  <2>1. f \in Files /\ DirOf[f] \in existing
    BY <1>3, FilesAssumption DEF OpenToWrite
  <2>2. CASE content[f] = Absent
    BY <1>1, <1>3, <2>1, <2>2, WriteKeeps DEF OpenToWrite
  <2>3. CASE content[f] # Absent
    <3>1. /\ content' = [content EXCEPT ![f] = Torn]
          /\ UNCHANGED <<existing, watcher, to_fire, missed>>
      BY <1>3, <2>3 DEF OpenToWrite
    <3>2. FilesAreSomewhere'
      BY <1>2, <2>1, <3>1 DEF FilesAreSomewhere
    <3>3. WatcherGood(watcher)'
      BY <1>2, <3>1 DEF WatcherGood
    <3>4. content' \in [Files -> Contents]
          /\ \A g \in Files : content'[g] \in {content[g], Absent, Torn}
      BY <1>1, <1>2, <2>1, <3>1
    <3>. QED  BY <1>2, <3>1, <3>2, <3>3, <3>4, LossKeeps
  <2>. QED  BY <2>2, <2>3
<1>4. ASSUME NEW f \in Files, Delete(f) PROVE ReloadInv'
  <2>1. /\ content' = [content EXCEPT ![f] = Absent]
        /\ UNCHANGED <<existing, watcher, to_fire, missed>>
    BY <1>4 DEF Delete
  <2>2. FilesAreSomewhere'
    BY <1>2, <2>1 DEF FilesAreSomewhere
  <2>3. WatcherGood(watcher)'
    BY <1>2, <2>1 DEF WatcherGood
  <2>4. content' \in [Files -> Contents]
        /\ \A g \in Files : content'[g] \in {content[g], Absent, Torn}
    BY <1>1, <1>2, <2>1
  <2>. QED  BY <1>2, <2>1, <2>2, <2>3, <2>4, LossKeeps
<1>5. ASSUME NEW f \in Files, NEW c \in Complete[f], CloseWritten(f, c) \/ RenameOver(f, c)
      PROVE  ReloadInv'
  <2>1. DirOf[f] \in existing /\ Written(f, c)
    BY <1>1, <1>2, <1>5 DEF CloseWritten, RenameOver, FilesAreSomewhere
  <2>. QED  BY <1>1, <2>1, WriteKeeps
<1>6. ASSUME NEW d \in Removable, DirRemoved(d) PROVE ReloadInv'
  <2>1. /\ existing' = existing \ {d}
        /\ content' = [f \in Files |-> IF DirOf[f] = d THEN Absent ELSE content[f]]
        /\ watcher' = [watcher EXCEPT !.armed = @ \ {d}]
        /\ UNCHANGED <<to_fire, missed>>
    BY <1>6 DEF DirRemoved
  <2>2. /\ watcher' \in Watcher /\ watcher'.entries = watcher.entries
        /\ watcher'.next_token = watcher.next_token /\ watcher'.armed = watcher.armed \ {d}
        /\ watcher'.wd_dirs = watcher.wd_dirs /\ watcher'.fresh = watcher.fresh
        /\ watcher'.events = watcher.events
    BY <1>2, <2>1 DEF Watcher
  <2>3. WatcherGood(watcher)'
    BY <1>2, <2>1, <2>2 DEF WatcherGood, Live
  <2>4. content' \in [Files -> Contents]
        /\ \A g \in Files : content'[g] \in {content[g], Absent, Torn}
    BY <1>1, <1>2, <2>1
  <2>5. FilesAreSomewhere'
    BY <1>2, <2>1 DEF FilesAreSomewhere
  <2>. QED  BY <1>2, <2>1, <2>2, <2>3, <2>4, <2>5, LossKeeps
<1>7. ASSUME NEW d \in Removable, DirCreated(d) PROVE ReloadInv'
  <2>1. /\ existing' = existing \cup {d} /\ d \in Dirs
        /\ watcher' = [watcher EXCEPT !.fresh = @ \cup {d}]
        /\ UNCHANGED <<content, to_fire, missed>>
    BY <1>7, FilesAssumption DEF DirCreated
  <2>2. /\ watcher' \in Watcher /\ watcher'.entries = watcher.entries
        /\ watcher'.next_token = watcher.next_token /\ watcher'.armed = watcher.armed
        /\ watcher'.wd_dirs = watcher.wd_dirs /\ watcher'.fresh = watcher.fresh \cup {d}
        /\ watcher'.events = watcher.events
    BY <1>2, <2>1 DEF Watcher
  <2>3. WatcherGood(watcher)'
    BY <1>2, <2>1, <2>2 DEF WatcherGood, Live
  <2>4. FilesAreSomewhere'
    BY <1>2, <2>1 DEF FilesAreSomewhere
  <2>. QED  BY <1>2, <2>1, <2>2, <2>3, <2>4, LossKeeps
<1>. QED  BY <1>3, <1>4, <1>5, <1>6, <1>7 DEF Saves

LEMMA DrainKeeps ==
  ASSUME ReloadInv, Drain, UNCHANGED <<bindings, surfs>>
  PROVE  ReloadInv'
<1>. USE DEF surfs
<1>1. /\ watcher \in Watcher /\ to_fire = {} /\ UNCHANGED <<existing, content, missed>>
      /\ watcher' = [watcher EXCEPT !.events = {}] /\ doc_loaded \subseteq Surfaces
  BY DEF ReloadInv, ReloadTypes, WatcherGood, Drain, fs
<1>2. /\ watcher' \in Watcher /\ watcher'.entries = watcher.entries
      /\ watcher'.next_token = watcher.next_token /\ watcher'.armed = watcher.armed
      /\ watcher'.wd_dirs = watcher.wd_dirs /\ watcher'.fresh = watcher.fresh
      /\ watcher'.events = {}
  BY <1>1 DEF Watcher
<1>3. Live(watcher') = Live(watcher) /\ \A w : WatchesOf(w)' = WatchesOf(w)
  BY <1>2 DEF Live, WatchesOf
<1>4. \A f \in watcher.events : \A t \in Live(watcher) :
        Matches(watcher.entries[t], f) => t \in to_fire'
  BY DEF Drain, Watching, ReloadInv, ReloadTypes, WatcherGood
<1>5. WatcherGood(watcher)'
  <2>1. WatcherGood(watcher)
    BY DEF ReloadInv, ReloadTypes
  <2>2. \A f \in watcher'.events : DirOf[f] \in watcher'.wd_dirs
    BY <1>2
  <2>3. Live(watcher') \subseteq 1 .. watcher'.next_token
    BY <1>2, <1>3, <2>1 DEF WatcherGood
  <2>4. \A t \in Live(watcher') :
          watcher'.entries[t].dir \in existing'
            => watcher'.entries[t].dir \in watcher'.armed \cup watcher'.fresh
    BY <1>1, <1>2, <1>3, <2>1 DEF WatcherGood
  <2>5. watcher'.armed \subseteq watcher'.wd_dirs
    BY <1>2, <2>1 DEF WatcherGood
  <2>. QED  BY <1>2, <2>2, <2>3, <2>4, <2>5 DEF WatcherGood
<1>6. ReloadTypes' /\ FilesAreSomewhere' /\ WatchesOwned' /\ OneWatchEach'
  BY <1>1, <1>2, <1>3, <1>5
     DEF ReloadInv, ReloadTypes, FilesAreSomewhere, WatchesOwned, OneWatchEach, Owned
<1>7. ConfigToCome'
  <2>1. SUFFICES ASSUME NEW t \in WatchesOf("config") \ missed, ConfigFile \in watcher.events
                 PROVE  t \in to_fire'
    BY <1>1, <1>3 DEF ReloadInv, ConfigToCome
  <2>2. t \in Live(watcher) /\ Matches(watcher.entries[t], ConfigFile)
    BY <1>1, OwnersKnown DEF ReloadInv, WatchesOf
  <2>. QED  BY <1>4, <2>1, <2>2
<1>8. DocumentToCome'
  <2>1. SUFFICES ASSUME NEW t \in Live(watcher) \ missed, NEW s \in Surfaces,
                        watcher.entries[t].who = s, DocumentOf[s] \in watcher.events
                 PROVE  t \in to_fire'
    BY <1>1, <1>2, <1>3 DEF ReloadInv, DocumentToCome
  <2>2. Matches(watcher.entries[t], DocumentOf[s])
    BY <1>1, <2>1, OwnersKnown DEF ReloadInv
  <2>. QED  BY <1>4, <2>1, <2>2
<1>. QED  BY <1>6, <1>7, <1>8 DEF ReloadInv

\* The tokens that leave to_fire without their file being read again belong to the
\* extension, or to nobody any more.
Skipped == \A t \in to_fire \ to_fire' : t \notin Live(watcher) \/ watcher.entries[t].who = "ext"

\* A watch that is taken away costs the others what was queued, which is noted.
LEMMA RemovalKeeps ==
  ASSUME ReloadInv, UNCHANGED <<fs, bindings>>, Skipped, NEW t,
         watcher' = RemoveWatch(watcher, t), missed' = missed \cup Unheard(watcher, t),
         NEW gone \in SUBSET Surfaces,
         \A u \in Live(watcher) : watcher.entries[u].who \in gone => u = t,
         alive' = alive \ gone, doc_loaded' = doc_loaded \ gone,
         pending_reloads' = pending_reloads \ gone,
         document' = [s \in Surfaces |-> IF s \in gone THEN None ELSE document[s]]
  PROVE  ReloadInv'
<1>1. /\ WatcherGood(watcher) /\ existing \subseteq Dirs /\ doc_loaded \subseteq Surfaces
      /\ existing' = existing /\ content' = content
  BY DEF ReloadInv, ReloadTypes, fs
<1>2. WatcherGood(watcher') /\ EntriesMinus(watcher', watcher, t)
  BY <1>1, RemoveKeeps
<1>3. WatcherGood(watcher)'
  BY <1>1, <1>2 DEF WatcherGood
<1>4. document' \in [Surfaces -> Contents \cup {Partial, None}]
  BY DEF ReloadInv, ReloadTypes
<1>5. ReloadTypes'
  BY <1>1, <1>3, <1>4 DEF ReloadInv, ReloadTypes
<1>6. FilesAreSomewhere'
  BY <1>1 DEF ReloadInv, FilesAreSomewhere
<1>7. \A u \in Live(watcher') :
        /\ u \in Live(watcher) /\ u # t /\ watcher'.entries[u] = watcher.entries[u]
        /\ watcher'.entries[u].who \notin gone
  <2>1. CASE t \in Live(watcher)
    BY <1>2 DEF EntriesMinus
  <2>2. CASE t \notin Live(watcher)
    BY <1>2, <2>2 DEF EntriesMinus
  <2>. QED  BY <2>1, <2>2
<1>8. WatchesOwned'
  <2>1. SUFFICES ASSUME NEW u \in Live(watcher')
                 PROVE  \/ watcher'.entries[u] = ConfigWatch \/ watcher'.entries[u].who = "ext"
                        \/ \E s \in doc_loaded' : watcher'.entries[u] = AssetWatch(s)
    BY DEF WatchesOwned, Owned
  <2>. DEFINE e == watcher'.entries[u]
  <2>2. Owned(e) /\ e.who \notin gone
    BY <1>7 DEF ReloadInv, WatchesOwned
  <2>. HIDE DEF e
  <2>3. e = ConfigWatch \/ e.who = "ext" \/ \E s \in doc_loaded' : e = AssetWatch(s)
    BY <1>1, <2>2, EntryFacts DEF Owned
  <2>. QED  BY <2>3 DEF e
<1>9. OneWatchEach'
  BY <1>7 DEF ReloadInv, OneWatchEach
<1>10. \A u \in Live(watcher') \ missed' : \A f \in watcher.events :
         Matches(watcher.entries[u], f) => f \in watcher'.events
  <2>1. CASE t \in Live(watcher)
    <3>1. ASSUME NEW u \in Live(watcher'), NEW f \in watcher.events,
                 Matches(watcher.entries[u], f)
          PROVE  u \in missed'
      <4>1. u \in Watching(watcher, f) /\ u # t
        BY <1>7, <3>1 DEF Watching
      <4>2. u \in (UNION {Watching(watcher, g) : g \in watcher.events}) \ {t}
        BY <4>1
      <4>. QED  BY <2>1, <4>2 DEF Unheard
    <3>. QED  BY <3>1
  <2>2. CASE t \notin Live(watcher)
    BY <1>2, <2>2 DEF EntriesMinus
  <2>. QED  BY <2>1, <2>2
<1>11. ConfigToCome'
  <2>1. SUFFICES ASSUME NEW u \in WatchesOf("config")' \ missed',
                        content[ConfigFile] \in UsableContents,
                        bindings # content[ConfigFile], ConfigFile \notin watcher'.events
                 PROVE  u \in to_fire'
    BY <1>1 DEF ConfigToCome
  <2>2. /\ u \in Live(watcher') /\ u \in Live(watcher) /\ u \notin missed
        /\ watcher.entries[u].who = "config" /\ u \in WatchesOf("config")
    BY <1>7 DEF WatchesOf
  <2>3. Matches(watcher.entries[u], ConfigFile)
    BY <1>1, <2>2, OwnersKnown DEF ReloadInv
  <2>4. u \in to_fire
    BY <1>10, <2>1, <2>2, <2>3 DEF ReloadInv, ConfigToCome
  <2>. QED  BY <2>2, <2>4 DEF Skipped
<1>12. DocumentToCome'
  <2>1. SUFFICES ASSUME NEW u \in Live(watcher') \ missed', NEW s \in Surfaces,
                        watcher'.entries[u].who = s, content[DocumentOf[s]] \in UsableContents,
                        document'[s] # content[DocumentOf[s]], s \notin pending_reloads',
                        DocumentOf[s] \notin watcher'.events
                 PROVE  u \in to_fire'
    BY <1>1 DEF DocumentToCome
  <2>2. /\ u \in Live(watcher) /\ u \notin missed /\ watcher.entries[u].who = s /\ s \notin gone
    BY <1>7, <2>1
  <2>3. document'[s] = document[s] /\ s \notin pending_reloads
    BY <2>1, <2>2
  <2>4. Matches(watcher.entries[u], DocumentOf[s])
    BY <1>1, <2>2, OwnersKnown DEF ReloadInv
  <2>5. u \in to_fire
    BY <1>10, <2>1, <2>2, <2>3, <2>4 DEF ReloadInv, DocumentToCome
  <2>. QED  BY <2>2, <2>5, EntryFacts DEF Skipped
<1>. QED  BY <1>5, <1>6, <1>8, <1>9, <1>11, <1>12 DEF ReloadInv

\* What the extension does keeps the invariant, in a callback of its own and elsewhere.
LEMMA ActsKeep ==
  ASSUME ReloadInv, ExtensionActs, UNCHANGED <<fs, bindings>>, Skipped
  PROVE  ReloadInv'
<1>1. /\ WatcherGood(watcher) /\ existing \subseteq Dirs /\ doc_loaded \subseteq Surfaces
      /\ existing' = existing /\ content' = content
      /\ document \in [Surfaces -> Contents \cup {Partial, None}]
  BY DEF ReloadInv, ReloadTypes, fs
<1>2. ASSUME NEW f \in WatchedByExt, Watch(f) PROVE ReloadInv'
  <2>. DEFINE e == [dir |-> DirOf[f], base |-> f, who |-> "ext"]
  <2>1. e \in Entry /\ e.who = "ext"
    BY FilesAssumption, HotReloadAssumption DEF Entry
  <2>2. watcher' = Add(watcher, e) /\ missed' = missed /\ surfs' = surfs
    BY <1>2 DEF Watch
  <2>. HIDE DEF e
  <2>3. WatcherGood(watcher') /\ EntriesPlus(watcher', watcher, e)
    BY <1>1, <2>1, <2>2, AddKeeps
  <2>4. WatcherGood(watcher)'
    BY <1>1, <2>3 DEF WatcherGood
  <2>5. \A t \in Live(watcher') :
          \/ t \in Live(watcher) /\ watcher'.entries[t] = watcher.entries[t]
          \/ watcher'.entries[t].who = "ext"
    BY <2>1, <2>3 DEF EntriesPlus
  <2>6. watcher'.events = watcher.events
    BY <2>3 DEF EntriesPlus
  <2>7. ReloadTypes' /\ FilesAreSomewhere'
    BY <1>1, <2>2, <2>4 DEF ReloadInv, ReloadTypes, FilesAreSomewhere, surfs
  <2>8. WatchesOwned'
    BY <2>2, <2>5 DEF ReloadInv, WatchesOwned, Owned, surfs
  <2>9. OneWatchEach'
    BY <2>5, EntryFacts DEF ReloadInv, OneWatchEach
  <2>10. ConfigToCome'
    <3>1. \A t \in WatchesOf("config")' : t \in WatchesOf("config")
      BY <2>5 DEF WatchesOf
    <3>2. \A t \in WatchesOf("config") : t \in to_fire => t \in to_fire'
      BY DEF Skipped, WatchesOf
    <3>. QED  BY <1>1, <2>2, <2>6, <3>1, <3>2 DEF ReloadInv, ConfigToCome, surfs
  <2>11. DocumentToCome'
    BY <1>1, <2>2, <2>5, <2>6, EntryFacts DEF ReloadInv, DocumentToCome, Skipped, surfs
  <2>. QED  BY <2>7, <2>8, <2>9, <2>10, <2>11 DEF ReloadInv
<1>3. ASSUME NEW t \in Live(watcher), Unwatch(t) PROVE ReloadInv'
  <2>1. /\ watcher' = RemoveWatch(watcher, t) /\ missed' = missed \cup Unheard(watcher, t)
        /\ UNCHANGED <<alive, doc_loaded, document, pending_reloads>>
    BY <1>3 DEF Unwatch, surfs
  <2>. DEFINE gone == {}
  <2>2. /\ alive' = alive \ gone /\ doc_loaded' = doc_loaded \ gone
        /\ pending_reloads' = pending_reloads \ gone /\ gone \in SUBSET Surfaces
        /\ document' = [s \in Surfaces |-> IF s \in gone THEN None ELSE document[s]]
    BY <1>1, <2>1
  <2>3. \A u \in Live(watcher) : watcher.entries[u].who \in gone => u = t
    OBVIOUS
  <2>. HIDE DEF gone
  <2>. QED  BY <2>1, <2>2, <2>3, RemovalKeeps
<1>4. ASSUME NEW s \in Surfaces, DestroySurface(s) PROVE ReloadInv'
  <2>. DEFINE gone == {s}
              t == CHOOSE t \in WatchesOf(s) \cup {NoToken} : WatchesOf(s) # {} => t # NoToken
  <2>1. /\ watcher' = RemoveWatch(watcher, t) /\ missed' = missed \cup Unheard(watcher, t)
        /\ alive' = alive \ {s} /\ doc_loaded' = doc_loaded \ {s}
        /\ pending_reloads' = pending_reloads \ {s} /\ document' = [document EXCEPT ![s] = None]
    BY <1>4 DEF DestroySurface, Forgotten
  <2>2. /\ alive' = alive \ gone /\ doc_loaded' = doc_loaded \ gone
        /\ pending_reloads' = pending_reloads \ gone /\ gone \in SUBSET Surfaces
        /\ document' = [r \in Surfaces |-> IF r \in gone THEN None ELSE document[r]]
    BY <1>1, <2>1
  <2>3. WatchesOf(s) # {} => t \in WatchesOf(s)
    <3>1. \A u \in WatchesOf(s) : u # NoToken
      BY <1>1 DEF WatcherGood, Watcher, WatchesOf, NoToken
    <3>. QED  BY <3>1
  <2>. HIDE DEF t
  <2>4. \A u \in Live(watcher) : watcher.entries[u].who \in gone => u = t
    BY <2>3 DEF ReloadInv, OneWatchEach, WatchesOf
  <2>. HIDE DEF gone
  <2>. QED  BY <2>1, <2>2, <2>4, RemovalKeeps
<1>. QED  BY <1>2, <1>3, <1>4 DEF ExtensionActs

LEMMA FireKeeps ==
  ASSUME ReloadInv, NEW t, Fire(t)
  PROVE  ReloadInv'
<1>1. /\ WatcherGood(watcher) /\ existing' = existing /\ content' = content
      /\ to_fire' = to_fire \ {t} /\ doc_loaded \subseteq Surfaces
      /\ doc_loaded \subseteq alive /\ UNCHANGED fs
  BY DEF ReloadInv, ReloadTypes, Fire, fs
<1>2. CASE t \notin Live(watcher) /\ UNCHANGED <<watcher, missed, bindings, surfs>>
  BY <1>1, <1>2
     DEF ReloadInv, ReloadTypes, WatcherGood, FilesAreSomewhere, WatchesOwned, OneWatchEach, Owned,
         ConfigToCome, DocumentToCome, WatchesOf, surfs
<1>3. CASE /\ t \in WatchesOf("config") /\ RereadConfig /\ missed' = missed \ {t}
           /\ UNCHANGED <<watcher, surfs>>
  <2>1. ReloadTypes' /\ FilesAreSomewhere' /\ WatchesOwned' /\ OneWatchEach'
    BY <1>1, <1>3
       DEF ReloadInv, ReloadTypes, WatcherGood, FilesAreSomewhere, WatchesOwned, OneWatchEach,
           Owned, surfs
  <2>2. ConfigToCome'
    BY <1>1, <1>3, RereadUsable DEF ConfigToCome, RereadConfig
  <2>3. DocumentToCome'
    <3>1. \A u \in Live(watcher) : watcher.entries[u].who \in Surfaces => u # t
      BY <1>3, EntryFacts DEF WatchesOf
    <3>. QED  BY <1>1, <1>3, <3>1 DEF ReloadInv, DocumentToCome, surfs
  <2>. QED  BY <2>1, <2>2, <2>3 DEF ReloadInv
<1>4. CASE /\ t \in Live(watcher) /\ watcher.entries[t].who \in Surfaces
           /\ pending_reloads' = pending_reloads \cup {watcher.entries[t].who}
           /\ missed' = missed \ {t}
           /\ UNCHANGED <<watcher, bindings, alive, doc_loaded, document>>
  <2>1. watcher.entries[t].who \in alive
    BY <1>1, <1>4, OwnersKnown, EntryFacts DEF ReloadInv
  <2>2. ReloadTypes' /\ FilesAreSomewhere' /\ WatchesOwned' /\ OneWatchEach'
    BY <1>1, <1>4, <2>1
       DEF ReloadInv, ReloadTypes, WatcherGood, FilesAreSomewhere, WatchesOwned, OneWatchEach,
           Owned
  <2>3. ConfigToCome'
    <3>1. \A u \in WatchesOf("config") : u # t
      BY <1>4, EntryFacts DEF WatchesOf
    <3>2. WatchesOf("config")' = WatchesOf("config")
      BY <1>4 DEF WatchesOf
    <3>. QED  BY <1>1, <1>4, <3>1, <3>2 DEF ReloadInv, ConfigToCome
  <2>4. DocumentToCome'
    BY <1>1, <1>4 DEF ReloadInv, DocumentToCome
  <2>. QED  BY <2>2, <2>3, <2>4 DEF ReloadInv
<1>5. CASE /\ t \in WatchesOf("ext") /\ UNCHANGED bindings
           /\ (ExtensionActs \/ UNCHANGED <<watcher, missed, surfs>>)
  <2>1. watcher.entries[t].who = "ext"
    BY <1>5 DEF WatchesOf
  <2>2. CASE ExtensionActs
    BY <1>1, <1>5, <2>1, <2>2, ActsKeep DEF Skipped
  <2>3. CASE UNCHANGED <<watcher, missed, surfs>>
    <3>1. ReloadTypes' /\ FilesAreSomewhere' /\ WatchesOwned' /\ OneWatchEach'
      BY <1>1, <2>3
         DEF ReloadInv, ReloadTypes, WatcherGood, FilesAreSomewhere, WatchesOwned, OneWatchEach,
             Owned, surfs
    <3>2. ConfigToCome'
      BY <1>1, <1>5, <2>1, <2>3 DEF ReloadInv, ConfigToCome, WatchesOf
    <3>3. DocumentToCome'
      BY <1>1, <2>1, <2>3, EntryFacts DEF ReloadInv, DocumentToCome, surfs
    <3>. QED  BY <3>1, <3>2, <3>3 DEF ReloadInv
  <2>. QED  BY <1>5, <2>2, <2>3
<1>. QED  BY <1>2, <1>3, <1>4, <1>5 DEF Fire

LEMMA CreateKeeps ==
  ASSUME ReloadInv, NEW s \in Surfaces, CreateSurface(s)
  PROVE  ReloadInv'
<1>1. ReloadTypes'
  BY DEF ReloadInv, ReloadTypes, WatcherGood, CreateSurface, fs
<1>2. FilesAreSomewhere' /\ WatchesOwned' /\ OneWatchEach'
  BY DEF ReloadInv, FilesAreSomewhere, WatchesOwned, OneWatchEach, Owned, CreateSurface, fs
<1>3. ConfigToCome' /\ DocumentToCome'
  BY DEF ReloadInv, ConfigToCome, DocumentToCome, WatchesOf, CreateSurface, fs
<1>. QED  BY <1>1, <1>2, <1>3 DEF ReloadInv

LEMMA TickKeeps ==
  ASSUME ReloadInv, Tick
  PROVE  ReloadInv'
<1>1. /\ WatcherGood(watcher) /\ existing \subseteq Dirs /\ alive \subseteq Surfaces
      /\ doc_loaded \subseteq alive /\ pending_reloads \subseteq alive
      /\ content \in [Files -> Contents]
      /\ existing' = existing /\ content' = content /\ to_fire' = to_fire /\ missed' = missed
      /\ bindings' = bindings /\ alive' = alive /\ pending_reloads' = {}
      /\ doc_loaded' = doc_loaded \cup alive
  BY DEF ReloadInv, ReloadTypes, Tick, fs
<1>2. PICK reloaded \in [Surfaces -> Contents \cup {Partial, None}] :
        /\ \A s \in Surfaces :
             reloaded[s] \in (IF s \in pending_reloads /\ s \in doc_loaded
                              THEN Reread(document[s], content[DocumentOf[s]])
                              ELSE {document[s]})
        /\ document' = [s \in Surfaces |-> IF s \in FirstLoads THEN content[DocumentOf[s]]
                                           ELSE reloaded[s]]
  BY DEF Tick
<1>0. PICK n \in 0 .. MaxToken - watcher.next_token : \E order \in [1 .. n -> FirstLoads] :
        /\ NoDuplicates(order) /\ Elements(order) = FirstLoads
        /\ watcher' = AddAssetWatches(watcher, order)
  BY DEF Tick
<1>3. PICK order \in [1 .. n -> FirstLoads] :
        /\ NoDuplicates(order) /\ Elements(order) = FirstLoads
        /\ watcher' = AddAssetWatches(watcher, order)
  BY <1>0
<1>4. /\ FirstLoads \subseteq alive /\ FirstLoads \cap doc_loaded = {}
      /\ FirstLoads \subseteq Surfaces
  BY <1>1 DEF FirstLoads
<1>5. order \in Seq(Surfaces) /\ Len(order) = n /\ DOMAIN order = 1 .. n /\ n \in Nat
  <2>1. n \in Nat
    BY <1>1, FilesAssumption DEF WatcherGood, Watcher
  <2>. QED  BY <1>3, <1>4, <2>1
<1>. DEFINE k == watcher.next_token
<1>6. AllAdded(watcher', watcher, order, n)
  BY <1>1, <1>3, <1>5, AddAllKeeps
<1>7. WatcherGood(watcher)'
  BY <1>1, <1>6 DEF AllAdded, WatcherGood
<1>8. k \in Nat /\ Live(watcher) \subseteq 1 .. k /\ watcher'.events = watcher.events
  BY <1>1, <1>6 DEF WatcherGood, Watcher, AllAdded
<1>9. \A t \in Live(watcher) : t \in Live(watcher') /\ watcher'.entries[t] = watcher.entries[t]
  BY <1>6 DEF AllAdded
<1>10. ASSUME NEW t \in Live(watcher'), t \notin Live(watcher)
       PROVE  /\ t - k \in 1 .. n /\ order[t - k] \in FirstLoads /\ order[t - k] \in Surfaces
              /\ watcher'.entries[t] = AssetWatch(order[t - k])
  <2>1. t \in k + 1 .. k + n
    BY <1>6, <1>10 DEF AllAdded
  <2>. HIDE DEF k
  <2>2. t - k \in 1 .. n /\ k + (t - k) = t
    BY <1>5, <1>8, <2>1
  <2>3. watcher'.entries[k + (t - k)] = AssetWatch(order[t - k])
    BY <1>6, <2>2 DEF AllAdded, k
  <2>. QED  BY <1>3, <1>4, <2>2, <2>3
<1>. HIDE DEF k
<1>11. ReloadTypes'
  <2>1. document' \in [Surfaces -> Contents \cup {Partial, None}]
    BY <1>1, <1>2, HotReloadAssumption
  <2>. QED  BY <1>1, <1>7, <2>1 DEF ReloadTypes
<1>12. FilesAreSomewhere'
  BY <1>1 DEF ReloadInv, FilesAreSomewhere
<1>13. WatchesOwned'
  <2>1. SUFFICES ASSUME NEW t \in Live(watcher')
                 PROVE  \/ watcher'.entries[t] = ConfigWatch \/ watcher'.entries[t].who = "ext"
                        \/ \E s \in doc_loaded' : watcher'.entries[t] = AssetWatch(s)
    BY DEF WatchesOwned, Owned
  <2>2. CASE t \in Live(watcher)
    BY <1>1, <1>9, <2>2 DEF ReloadInv, WatchesOwned, Owned
  <2>3. CASE t \notin Live(watcher)
    BY <1>1, <1>4, <1>10, <2>3
  <2>. QED  BY <2>2, <2>3
<1>14. \A t \in Live(watcher) : \A s \in FirstLoads : watcher.entries[t].who # s
  BY <1>1, <1>4, OwnersKnown DEF ReloadInv
<1>15. OneWatchEach'
  <2>1. SUFFICES ASSUME NEW t \in Live(watcher'), NEW u \in Live(watcher'),
                        watcher'.entries[t].who = watcher'.entries[u].who,
                        watcher'.entries[t].who \in Surfaces
                 PROVE  t = u
    BY DEF OneWatchEach
  <2>2. CASE t \in Live(watcher) /\ u \in Live(watcher)
    BY <1>9, <2>1, <2>2 DEF ReloadInv, OneWatchEach
  <2>3. CASE t \in Live(watcher) /\ u \notin Live(watcher)
    BY <1>9, <1>10, <1>14, <2>1, <2>3, EntryFacts
  <2>4. CASE t \notin Live(watcher) /\ u \in Live(watcher)
    BY <1>9, <1>10, <1>14, <2>1, <2>4, EntryFacts
  <2>5. CASE t \notin Live(watcher) /\ u \notin Live(watcher)
    <3>1. order[t - k] = order[u - k] /\ t - k \in 1 .. n /\ u - k \in 1 .. n
      BY <1>10, <2>1, <2>5, EntryFacts
    <3>2. t - k = u - k
      BY <1>3, <1>5, <3>1 DEF NoDuplicates
    <3>3. t \in Nat /\ u \in Nat
      BY <1>7 DEF WatcherGood, Watcher
    <3>. QED  BY <1>8, <3>2, <3>3
  <2>. QED  BY <2>2, <2>3, <2>4, <2>5
<1>16. ConfigToCome'
  <2>1. SUFFICES ASSUME NEW t \in Live(watcher'), watcher'.entries[t].who = "config"
                 PROVE  t \in Live(watcher) /\ watcher.entries[t].who = "config"
    BY <1>1, <1>8 DEF ReloadInv, ConfigToCome, WatchesOf
  <2>. QED  BY <1>9, <1>10, <2>1, EntryFacts
<1>17. DocumentToCome'
  <2>1. SUFFICES ASSUME NEW t \in Live(watcher') \ missed, NEW s \in Surfaces,
                        watcher'.entries[t].who = s, content[DocumentOf[s]] \in UsableContents,
                        document'[s] # content[DocumentOf[s]],
                        DocumentOf[s] \notin watcher.events
                 PROVE  t \in to_fire
    BY <1>1, <1>8 DEF DocumentToCome
  <2>2. s \notin FirstLoads
    BY <1>2, <2>1
  <2>3. t \in Live(watcher) /\ watcher.entries[t].who = s
    BY <1>9, <1>10, <2>1, <2>2, EntryFacts
  <2>4. s \in doc_loaded
    BY <1>1, <2>3, OwnersKnown DEF ReloadInv
  <2>5. s \notin pending_reloads /\ document'[s] = document[s]
    BY <1>2, <2>1, <2>2, <2>4, RereadUsable
  <2>. QED  BY <2>1, <2>3, <2>5 DEF ReloadInv, DocumentToCome
<1>. QED  BY <1>11, <1>12, <1>13, <1>15, <1>16, <1>17 DEF ReloadInv

\* ReloadInv holds in every state of the watcher and of those who read the files.
THEOREM ReloadInvariant == ReloadSpec => []ReloadInv
<1>1. ReloadInit => ReloadInv
  BY ReloadInitGood
<1>2. ASSUME ReloadInv, [ReloadNext]_reloadVars PROVE ReloadInv'
  <2>1. CASE Saves /\ UNCHANGED <<bindings, surfs>>
    BY <1>2, <2>1, SavesKeep
  <2>2. CASE Dispatch
    BY <1>2, <2>2, DrainKeeps DEF Dispatch
  <2>3. CASE Callbacks
    BY <1>2, <2>3, FireKeeps DEF Callbacks
  <2>4. CASE \E s \in Surfaces : CreateSurface(s)
    BY <1>2, <2>4, CreateKeeps
  <2>5. CASE Tick
    BY <1>2, <2>5, TickKeeps
  <2>6. CASE ExtensionActs /\ UNCHANGED <<fs, to_fire, bindings>>
    <3>1. Skipped
      BY <2>6 DEF Skipped
    <3>. QED  BY <1>2, <2>6, <3>1, ActsKeep
  <2>7. CASE UNCHANGED reloadVars
    BY <1>2, <2>7
       DEF ReloadInv, ReloadTypes, WatcherGood, FilesAreSomewhere, WatchesOwned, OneWatchEach,
           Owned, ConfigToCome, DocumentToCome, WatchesOf, reloadVars, surfs, fs
  <2>. QED  BY <1>2, <2>1, <2>2, <2>3, <2>4, <2>5, <2>6, <2>7 DEF ReloadNext
<1>. QED  BY <1>1, <1>2, PTL DEF ReloadSpec

\* Once the watcher has nothing left to report, the live bindings are those of the file as
\* it was saved last, however it is saved and whatever is watched and no longer watched
\* around it.
THEOREM ConfigStaysCurrent == ReloadSpec => []ConfigIsCurrent
<1>1. ReloadInv => ConfigIsCurrent
  BY DEF ReloadInv, ConfigToCome, ConfigIsCurrent, NothingQueued, Informed
<1>. QED  BY <1>1, ReloadInvariant, PTL

\* A loaded document is the file as it was saved last, once nothing is queued or due, unless
\* its directory was not there to be watched or its event was dropped with another watch.
THEOREM DocumentsStayCurrent == ReloadSpec => []DocumentIsCurrent
<1>1. ReloadInv => DocumentIsCurrent
  <2>1. SUFFICES ASSUME ReloadInv, NEW s \in alive, NothingQueued, s \notin pending_reloads,
                        Informed(s), content[DocumentOf[s]] \in UsableContents
                 PROVE  document[s] = content[DocumentOf[s]]
    BY DEF DocumentIsCurrent
  <2>2. PICK t \in Live(watcher) : watcher.entries[t].who = s /\ t \notin missed
    BY <2>1 DEF Informed, WatchesOf
  <2>3. s \in Surfaces
    BY <2>1 DEF ReloadInv, ReloadTypes
  <2>. QED  BY <2>1, <2>2, <2>3 DEF ReloadInv, DocumentToCome, NothingQueued
<1>. QED  BY <1>1, ReloadInvariant, PTL

\* tick_all() never reloads a surface that was destroyed (ui_substrate.cpp:868-874).
THEOREM NoReloadOfTheGone == ReloadSpec => []ReloadsAreLive
<1>1. ReloadInv => ReloadsAreLive
  <2>1. SUFFICES ASSUME ReloadInv, NEW t \in Live(watcher)
                 PROVE  watcher.entries[t].who \in alive \cup {"config", "ext"}
    BY DEF ReloadsAreLive, ReloadInv, ReloadTypes
  <2>2. doc_loaded \subseteq alive /\ doc_loaded \subseteq Surfaces
    BY <2>1 DEF ReloadInv, ReloadTypes
  <2>. QED  BY <2>1, <2>2, OwnersKnown DEF ReloadInv
<1>. QED  BY <1>1, ReloadInvariant, PTL
=============================================================================
