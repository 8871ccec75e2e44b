SPECIFICATION StageSpec
CONSTANTS
  w1 = w1
  w2 = w2
  w3 = w3
  Toplevels = {w1, w2, w3}
  NoOne = NoOne
  Elsewhere = Elsewhere
  HasKeyboard = TRUE
  MaxSlots = 3
  MaxThrows = 1
SYMMETRY Symmetry
VIEW Read
INVARIANTS
  BorrowsAreMapped
  HiddenHasSlot
  
  
  
  TapsAreSafe
CHECK_DEADLOCK FALSE
