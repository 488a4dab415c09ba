------------------------ MODULE MCContentPublishing ------------------------
(* Instances of ContentPublishing for TLC: every item is created for the same channel. *)
EXTENDS ContentPublishing, TLC

CONSTANTS i1, i2, i3, p1, p2, web, linkedin

MCChannelOf == [i \in Items |-> web]

Symmetry == Permutations(Items) \cup Permutations(Publishers)
=============================================================================
