--------------------------- MODULE MCStageWindows ---------------------------
(***************************************************************************)
(* Small instances of StageWindows for TLC.                                *)
(***************************************************************************)
EXTENDS StageWindows

Symmetry == Permutations(Toplevels)

\* What a disabled extension alone reads makes no difference any more.
Read ==
  <<focusVars, slots, rest,
    IF Hears("stage-dock") THEN <<mapped_toplevels, stage_focused>> ELSE <<>>,
    IF Hears("keybindings") THEN keys ELSE <<>>>>

=============================================================================
