------------------------------ MODULE KeyConfig ------------------------------
(***************************************************************************)
(* The pure parts of ext-keybindings: what a configuration file means      *)
(* (src/config.cpp, src/policy.hpp) and what a key does to the matcher.     *)
(*                                                                         *)
(* A `keys' string is the sequence of its tokens, split at `+' and with     *)
(* their case folded; the empty string between two pluses is the token "". *)
(* A file is either unparsable or a sequence of [[keybind]] tables.         *)
(*                                                                         *)
(* External: KeysymNamed is xkb_keysym_from_name().                        *)
(***************************************************************************)
EXTENDS Lists

CONSTANTS
  NoSymbol,       \* XKB_KEY_NoSymbol
  KeysymNamed     \* [the tokens that name a key -> keysyms]

ASSUME KeysymAssumption == \A token \in DOMAIN KeysymNamed : KeysymNamed[token] # NoSymbol

\* The modifier bits a combo may require, mod_relevant.
Modifiers == {"shift", "ctrl", "alt", "logo"}
Actions == {"spawn", "focus-next", "focus-prev", "close-active", "quit",
            "dock-toggle-visible"}

modifier_bit == [super |-> "logo", logo |-> "logo", alt |-> "alt", ctrl |-> "ctrl",
                 control |-> "ctrl", shift |-> "shift"]
ModifierNames == DOMAIN modifier_bit

super_keysyms == {"Super_L", "Super_R"}

-----------------------------------------------------------------------------
NoCombo == [is_tap |-> FALSE, modifiers |-> {}, keysym |-> NoSymbol]

IsTap(tokens) == Len(tokens) = 1 /\ tokens[1] \in ModifierNames
IsChord(tokens) ==
  /\ tokens # <<>>
  /\ \A i \in 1 .. Len(tokens) - 1 : tokens[i] \in ModifierNames
  /\ tokens[Len(tokens)] \in DOMAIN KeysymNamed \ ModifierNames

\* parse_combo(), NoCombo being nullopt.
ParseCombo(tokens) ==
  IF IsTap(tokens)
  THEN [is_tap |-> TRUE, modifiers |-> {modifier_bit[tokens[1]]}, keysym |-> NoSymbol]
  ELSE IF IsChord(tokens)
  THEN [is_tap |-> FALSE,
        modifiers |-> {modifier_bit[tokens[i]] : i \in 1 .. Len(tokens) - 1},
        keysym |-> KeysymNamed[tokens[Len(tokens)]]]
  ELSE NoCombo

-----------------------------------------------------------------------------
(* An entry of the file: [table, keys, action, command], where a missing or  *)
(* ill-typed `keys' is <<>>, an ill-typed `command' is "number" and an       *)
(* absent or empty one is "".                                              *)

Usable(entry) ==
  /\ entry.table
  /\ entry.action \in Actions
  /\ entry.command # "number"
  /\ entry.action = "spawn" => entry.command # ""
  /\ ParseCombo(entry.keys) # NoCombo

BindingOf(entry) == [combo |-> ParseCombo(entry.keys), action |-> entry.action,
                     command |-> entry.command]

\* load_from_string(): the bindings of the entries that are in order.
LoadFromString(text) ==
  LET entries == IF text.parses
                 THEN Kept(text.keybind, {e \in Elements(text.keybind) : Usable(e)})
                 ELSE <<>>
  IN  [i \in DOMAIN entries |-> BindingOf(entries[i])]

DefaultEntry(keys, action, command) ==
  [table |-> TRUE, keys |-> keys, action |-> action, command |-> command]

default_bindings ==
  LoadFromString([parses |-> TRUE, keybind |->
    << DefaultEntry(<<"super">>, "spawn", "fuzzel"),
       DefaultEntry(<<"alt", "tab">>, "focus-next", ""),
       DefaultEntry(<<"alt", "shift", "tab">>, "focus-prev", ""),
       DefaultEntry(<<"alt", "f1">>, "focus-next", ""),
       DefaultEntry(<<"ctrl", "alt", "backspace">>, "quit", ""),
       DefaultEntry(<<"super", "d">>, "dock-toggle-visible", "") >>])

\* reload_bindings(): the new table, or the live one when there is none.
ReloadBindings(current, text) ==
  IF LoadFromString(text) = <<>> THEN current ELSE LoadFromString(text)

\* load_bindings(), at start.
LoadBindings(text) == ReloadBindings(default_bindings, text)

-----------------------------------------------------------------------------
(* The matcher: [bindings, super_down, super_used].                        *)

NoBinding == 0
FirstOf(indices) == IF indices = {} THEN NoBinding
                    ELSE CHOOSE i \in indices : \A j \in indices : i <= j

find_super_tap(bindings) ==
  FirstOf({i \in DOMAIN bindings : bindings[i].combo.is_tap
                                   /\ "logo" \in bindings[i].combo.modifiers})

ChordFor(bindings, keysym, modifiers) ==
  FirstOf({i \in DOMAIN bindings : /\ ~bindings[i].combo.is_tap
                                   /\ bindings[i].combo.keysym = keysym
                                   /\ bindings[i].combo.modifiers = modifiers})

Matcher(bindings) == [bindings |-> bindings, super_down |-> FALSE, super_used |-> FALSE]

\* Feed() splits Matcher::feed() into the matcher it leaves, the binding that
\* fires and whether the key is consumed.

\* Mutant of Fed: another key does not spoil the tap, only a chord with Super does.
FedOnlyLogo(m, keysym, modifiers, pressed) ==
  IF keysym \in super_keysyms
  THEN [m EXCEPT !.super_down = pressed,
                 !.super_used = pressed /\ m.super_down /\ m.super_used]
  ELSE [m EXCEPT !.super_used = @ \/ (pressed /\ "logo" \in modifiers)]

\* Mutant of Fed: a tap that was spoiled is not forgotten at the release.
FedStaysDown(m, keysym, modifiers, pressed) ==
  IF keysym \in super_keysyms
  THEN [m EXCEPT !.super_down = pressed \/ m.super_used,
                 !.super_used = pressed /\ m.super_down /\ m.super_used]
  ELSE [m EXCEPT !.super_used = @ \/ (pressed /\ (m.super_down \/ "logo" \in modifiers))]

Fed(m, keysym, modifiers, pressed) ==
  IF keysym \in super_keysyms
  THEN [m EXCEPT !.super_down = pressed,
                 !.super_used = pressed /\ m.super_down /\ m.super_used]
  ELSE [m EXCEPT !.super_used = @ \/ (pressed /\ (m.super_down \/ "logo" \in modifiers))]

Fires(m, keysym, modifiers, pressed) ==
  IF keysym \in super_keysyms
  THEN IF ~pressed /\ m.super_down /\ ~m.super_used THEN find_super_tap(m.bindings)
       ELSE NoBinding
  ELSE IF pressed THEN ChordFor(m.bindings, keysym, modifiers) ELSE NoBinding

\* Mutant of Consumes: the release of a chord is kept from the client too.
ConsumesRelease(m, keysym, modifiers, pressed) ==
  /\ keysym \notin super_keysyms
  /\ ChordFor(m.bindings, keysym, modifiers) # NoBinding

Consumes(m, keysym, modifiers, pressed) ==
  /\ keysym \notin super_keysyms
  /\ Fires(m, keysym, modifiers, pressed) # NoBinding
=============================================================================
