----------------------------- MODULE MCEventBus -----------------------------
(***************************************************************************)
(* Small instances of EventBus for TLC, the properties checked on them and *)
(* the mutants those properties tell apart from the code.                  *)
(***************************************************************************)
EXTENDS EventBus, TLC

\* hooks.hpp:37-39: "Hooks tag every subscription with the id of the subscribing
\* extension so a throwing callback disables the RIGHT one".  Once a callback has
\* thrown, its extension is disabled (sink in reach) and holds no live listener.
ThrowDisablesTheRightOne ==
  [][ Throw /\ Top.hook \in Registered /\ owner[Top.hook][Top.cur] # Kernel
      => owner[Top.hook][Top.cur] \in disabled' ]_vars

=============================================================================
