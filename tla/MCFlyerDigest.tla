--------------------------- MODULE MCFlyerDigest ---------------------------
(* Small instances of FlyerDigest for TLC.                                  *)
EXTENDS FlyerDigest, TLC

\* Safety properties do not tell apart workers, users or flyers.
Symmetry == Permutations(Users \ Muted) \union Permutations(Flyers) \union Permutations(Workers)

\* For liveness, which excludes symmetry: one flyer is always the first to be
\* published, and faults strike only while it is the only one.
First == CHOOSE f \in Flyers : TRUE
FaultsOrFlyers ==
  \A f \in Flyers \ {First} : parent[f] # NoJob => faults = 0 /\ parent[First] # NoJob
LiveSpec == Init /\ [][Next /\ FaultsOrFlyers']_vars /\ Fairness
=============================================================================
