----------------------------- MODULE Arrangement -----------------------------
(* The usable-area arithmetic of ext-layer-shell (arrangement.hpp): which edge *)
(* a layer surface reserves and what is left of the area once it has.          *)
(* wlr_scene_layer_surface_v1_configure mutates its box the same way.          *)
EXTENDS Integers

Edges == {"top", "bottom", "left", "right"}

Opposite == [e \in Edges |-> CASE e = "top" -> "bottom" [] e = "bottom" -> "top"
                               [] e = "left" -> "right" [] e = "right" -> "left"]

Box(x, y, w, h) == [x |-> x, y |-> y, width |-> w, height |-> h]

(* A surface state is [anchor \in SUBSET Edges, zone \in Int,                  *)
(* margin \in [Edges -> Int], override \in Edges \cup {"none"}].               *)

\* A strip: anchored to e, not to its opposite, and to both or none of the others.
IsStrip(anchor, e) ==
  /\ e \in anchor /\ Opposite[e] \notin anchor
  /\ (Edges \ {e, Opposite[e]}) \cap anchor \in {{}, Edges \ {e, Opposite[e]}}

\* At most one edge makes a strip, so the order of the code's tests is immaterial.
ExclusiveEdge(s) ==
  IF s.zone <= 0 THEN "none"
  ELSE IF s.override # "none"
       THEN IF s.override \in s.anchor THEN s.override ELSE "none"
       ELSE IF \E e \in Edges : IsStrip(s.anchor, e)
            THEN CHOOSE e \in Edges : IsStrip(s.anchor, e)
            ELSE "none"

NotNegative(n) == IF n < 0 THEN 0 ELSE n

ApplyExclusive(usable, s) ==
  LET e == ExclusiveEdge(s)
      d == s.zone + s.margin[e]
  IN IF e = "none" THEN usable
     ELSE [x      |-> usable.x + (IF e = "left" THEN d ELSE 0),
           y      |-> usable.y + (IF e = "top" THEN d ELSE 0),
           width  |-> NotNegative(usable.width - (IF e \in {"left", "right"} THEN d ELSE 0)),
           height |-> NotNegative(usable.height - (IF e \in {"top", "bottom"} THEN d ELSE 0))]
==============================================================================
