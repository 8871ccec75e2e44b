SPECIFICATION ModeSpec
CONSTANTS
  s1 = s1
  s2 = s2
  Surfaces = {s1, s2}
  NoSurface = NoSurface
  here = here
  there = there
  Points = {here, there}
  left = left
  right = right
  Buttons = {left, right}
  f1 = f1
  f2 = f2
  TouchIds = {f1, f2}
SYMMETRY Symmetry
INVARIANTS
  ButtonStreamHasOneOwner
  
