SPECIFICATION Spec
CONSTANTS
  s1 = s1
  s2 = s2
  Surfaces = {s1, s2}
  NoSurface = NoSurface
  p1 = p1
  Previews = {p1}
  small = small
  large = large
  Sizes = {small, large}
  None = None
SYMMETRY Symmetry
CHECK_DEADLOCK FALSE
INVARIANTS
  
  
  PreviewsCanBeShown
PROPERTY TickBringsUpToDate
