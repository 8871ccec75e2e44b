SPECIFICATION FairSpec
CONSTANTS
  TouchIds = {1, 2}
  Width = 2
  EdgeSlop = 0
  Duration = 2
  MaxSlots = 1
INVARIANTS
  OpenIsVisible
  NeverStranded
PROPERTY DockSettles
