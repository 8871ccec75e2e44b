----------------------------- MODULE MCTouchMode -----------------------------
(***************************************************************************)
(* A small instance of TouchMode, and with it of InputRouting, for TLC.    *)
(***************************************************************************)
EXTENDS TouchMode, TLC

\* Nothing tells two surfaces, places, buttons or touch points apart.
Symmetry ==
  Permutations(Surfaces) \cup Permutations(Points) \cup Permutations(Buttons)
    \cup Permutations(TouchIds)

=============================================================================
