---------------------------- MODULE MCPublication ----------------------------
(* Small instances of Publication for TLC.                                  *)
EXTENDS Publication, TLC

Symmetry ==
  Permutations(Markets) \union Permutations(Offers) \union Permutations(Texts) \union
  Permutations(Dates)
=============================================================================
