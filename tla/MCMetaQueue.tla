---------------------------- MODULE MCMetaQueue ----------------------------
(* Small instances of MetaQueue for TLC. *)
EXTENDS MetaQueue, TLC

IdSymmetry == Permutations(Ids \ Favorites) \cup Permutations(Favorites)
=============================================================================
