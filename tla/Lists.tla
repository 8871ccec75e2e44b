-------------------------------- MODULE Lists --------------------------------
(***************************************************************************)
(* What the components do with their lists: std::vector::erase and the     *)
(* loops that filter, as a recursive function, so that ListsProofs can say *)
(* what is left.                                                           *)
(***************************************************************************)
EXTENDS Naturals, Sequences

Elements(s) == {s[i] : i \in DOMAIN s}

IsList(s) == s \in Seq(Elements(s))

NoDuplicates(s) == \A i, j \in DOMAIN s : s[i] = s[j] => i = j

\* The elements of s that are in S, in their order.
Kept(s, S) ==
  LET upto[i \in 0 .. Len(s)] ==
        IF i = 0 THEN <<>>
        ELSE IF s[i] \in S THEN Append(upto[i - 1], s[i]) ELSE upto[i - 1]
  IN  upto[Len(s)]

Dropped(s, S) == Kept(s, Elements(s) \ S)
=============================================================================
