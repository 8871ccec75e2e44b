SPECIFICATION Spec
CONSTANTS
  w1 = w1
  w2 = w2
  Toplevels = {w1, w2}
  NoOne = NoOne
  Elsewhere = Elsewhere
  HasKeyboard = TRUE
  left = left
  right = right
  Buttons = {left, right}
  TouchIds = {1, 2}
  Positions = {0}
  MaxDrift = 0
SYMMETRY Symmetry
INVARIANTS
  PointerGrabIsHeld
  GrabHasTarget
PROPERTY EngageOnlyWhileHeld
