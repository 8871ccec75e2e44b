SPECIFICATION FairSpec
CONSTANTS
  Dirs = {"config", "assets"}
  Files = {"toml", "rml"}
  DirOf <- const_DirOf
  AnyFile = "any"
  InPlace = {"toml"}
  WatchedByExt = {"toml"}
  Removable = {"config"}
  Complete <- const_Complete
  UsableContents = {"a", "b"}
  MaxToken = 3
  ConfigFile = "toml"
  Surfaces = {"dock"}
  DocumentOf <- const_DocumentOf
INVARIANTS
  
  
  ReloadsAreLive

  
