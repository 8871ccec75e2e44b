SPECIFICATION Spec
CONSTANTS
  event = event
  filter = filter
  e1 = e1
  Hooks = {event, filter}
  Filters = {filter}
  Registered = {event, filter}
  ExtensionIds = {e1}
  Kernel = Kernel
  Garbage = Garbage
  MaxTokens = 2
  MaxDepth = 2
INVARIANTS
  IndexStable
  ValueThreadsSurvivors
  IdleHookIsSwept
PROPERTY DeliversAsPromised
CHECK_DEADLOCK FALSE
