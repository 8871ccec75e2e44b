----------------------------- MODULE MCHotReload -----------------------------
EXTENDS HotReload
const_DirOf == [toml |-> "config", rml |-> "assets"]
const_Complete == [toml |-> {"a", "b"}, rml |-> {"a", "b"}]
const_DocumentOf == [dock |-> "rml"]
=============================================================================
