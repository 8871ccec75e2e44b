------------------------------ MODULE MCKeyPath ------------------------------
\* A full keyboard and a small one, with the part of the US layout that the default
\* bindings and the VT keys need.
EXTENDS KeyPath

const_KeysymNamed == [tab |-> "Tab", f1 |-> "F1", d |-> "d", backspace |-> "BackSpace"]

const_Keys == {"super", "ctrl", "alt", "d", "f1", "fn"}
const_KeysOn == [full |-> const_Keys \ {"fn"}, small |-> {"super", "d", "fn"}]
const_ModifierOf == [super |-> {"logo"}, ctrl |-> {"ctrl"}, alt |-> {"alt"},
                     d |-> {}, f1 |-> {}, fn |-> {}]
const_Keysym ==
  [k \in const_Keys |-> [m \in SUBSET Modifiers |->
     CASE k = "super" -> "Super_L"
       [] k = "ctrl" -> "Control_L"
       [] k = "alt" -> IF "shift" \in m THEN "Meta_L" ELSE "Alt_L"
       [] k = "d" -> IF "shift" \in m THEN "D" ELSE "d"
       [] k = "f1" -> IF {"ctrl", "alt"} \subseteq m THEN "XF86Switch_VT_1" ELSE "F1"
       [] OTHER -> NoSymbol]]

\* Files: unparsable, every entry wrong, and one that is partly right.
const_Texts ==
  { [parses |-> FALSE, keybind |-> <<>>],
    [parses |-> TRUE, keybind |->
       << DefaultEntry(<<"alt", "shift">>, "quit", ""),
          DefaultEntry(<<"alt", "", "d">>, "quit", ""),
          DefaultEntry(<<"d", "tab">>, "quit", ""),
          DefaultEntry(<<"alt", "d">>, "spawn", ""),
          DefaultEntry(<<"alt", "d">>, "quit", "number"),
          DefaultEntry(<<"alt", "d">>, "explode", ""),
          DefaultEntry(<<>>, "quit", "") >>],
    [parses |-> TRUE, keybind |->
       << [DefaultEntry(<<"alt", "d">>, "quit", "") EXCEPT !.table = FALSE],
          DefaultEntry(<<"super">>, "focus-prev", ""),
          DefaultEntry(<<"super", "f1">>, "quit", ""),
          DefaultEntry(<<"d">>, "close-active", "") >>] }
=============================================================================
