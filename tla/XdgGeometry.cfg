SPECIFICATION Spec
CONSTANTS
  w1 = w1
  Toplevels = {w1}
  NoOne = NoOne
  Elsewhere = Elsewhere
  HasKeyboard = TRUE
  left = left
  Buttons = {left}
  TouchIds = {1}
  Positions = {0, 2}
  MaxDrift = 2
INVARIANTS
  MoveFollowsCursor
  
