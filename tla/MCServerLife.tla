---------------------------- MODULE MCServerLife ----------------------------
(***************************************************************************)
(* Small instances of ServerLife for TLC.                                  *)
(***************************************************************************)
EXTENDS ServerLife, TLC

Symmetry == Permutations(Extensions)

=============================================================================
