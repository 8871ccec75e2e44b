---------------------------- MODULE MCUiSurfaces ----------------------------
(***************************************************************************)
(* A small instance of UiSurfaces for TLC.                                 *)
(***************************************************************************)
EXTENDS UiSurfaces, TLC

\* Neither two surfaces nor two sizes are told apart.
Symmetry == Permutations(Surfaces) \cup Permutations(Sizes)

=============================================================================
