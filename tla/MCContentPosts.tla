--------------------------- MODULE MCContentPosts ----------------------------
(* ContentPosts on small instances for TLC. *)
EXTENDS ContentPosts, TLC

Symmetry == Permutations(Posts) \cup Permutations(Instances) \cup Permutations(Sessions)
==============================================================================
