---------------------------- MODULE MCLayerShell -----------------------------
(* TLC instance of LayerShell: a bar at the bottom, two of which exceed the    *)
(* output, and a corner panel that names its edge.                             *)
EXTENDS LayerShell, TLC

Margins(m) == [e \in Edges \cup {"none"} |-> m]
BottomBar == [anchor |-> {"bottom", "left", "right"}, zone |-> 2, margin |-> Margins(1),
              override |-> "none"]
Corner == [anchor |-> {"top", "left"}, zone |-> 1, margin |-> Margins(0), override |-> "left"]

MCStates == {BottomBar, Corner}
MCFull == Box(0, 0, 4, 4)
MCSymmetry == Permutations(Outputs) \cup Permutations(Surfaces)
==============================================================================
