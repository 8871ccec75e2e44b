SPECIFICATION Spec
CONSTANTS
  NoSymbol = "NoSymbol"
  NoKeyboard = NoKeyboard
  Keyboards = {"full", "small"}
  TouchDevices = {"screen"}
  KeysymNamed <- const_KeysymNamed
  Keys <- const_Keys
  KeysOn <- const_KeysOn
  ModifierOf <- const_ModifierOf
  Keysym <- const_Keysym
  VtKeysyms = {"XF86Switch_VT_1"}
  HasSession = TRUE
  Texts <- const_Texts
  MaxHeld = 4
INVARIANTS
  ArmedIsHeld
  TapIsClean
  NoKeyStuck
\* The quit binding stops the compositor.
CHECK_DEADLOCK FALSE
