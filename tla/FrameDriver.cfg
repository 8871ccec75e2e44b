SPECIFICATION FairSpec
CONSTANTS
  Outputs = {o1, o2, o3}
  ExtensionIds = {e1}
  NoOutput = NoOutput
  MaxTokens = 3
PROPERTIES
  RequestsAreServed
  StopsAtRest
