----------------------------- MODULE MCXdgInput -----------------------------
(***************************************************************************)
(* Small instances of XdgInput for TLC.                                    *)
(***************************************************************************)
EXTENDS XdgInput, TLC

\* Windows and buttons are interchangeable; touch ids are numbers.
Symmetry == Permutations(Toplevels) \cup Permutations(Buttons)

=============================================================================
