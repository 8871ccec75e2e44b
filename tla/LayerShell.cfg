SPECIFICATION LayerSpec
CONSTANTS
  Outputs = {o1, o2}
  Surfaces = {s1, s2}
  Toplevels = {w}
  Popups = {p1, p2}
  Keyboards = {"exclusive", "on_demand"}
  States <- MCStates
  Full <- MCFull
  NoOne = NoOne
SYMMETRY MCSymmetry
INVARIANTS
  
  NobodyWaits
  PlacedOnTracked
  
