-------------------------- MODULE MCFlyerSourceCache --------------------------
(* Small instances of FlyerSourceCache for TLC.                             *)
EXTENDS FlyerSourceCache, TLC

CONSTANTS k1, k2

\* One source that fills the cache and one that fills half of it.
SmallAndLarge == [k \in Keys |-> IF k = k1 THEN 1 ELSE 2]

=============================================================================
