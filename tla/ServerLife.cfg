SPECIFICATION LifeSpec
CONSTANTS
  e1 = e1
  e2 = e2
  e3 = e3
  Extensions = {e1, e2, e3}
SYMMETRY Symmetry
INVARIANTS
  DependenciesActiveFirst
  HooksOutliveSubscriptions
  NothingOutlivesWhatItUses
CHECK_DEADLOCK FALSE
