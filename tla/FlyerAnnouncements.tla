-------------------------- MODULE FlyerAnnouncements --------------------------
(***************************************************************************)
(* What the notification pipeline promises to users: a summary belongs to  *)
(* a user and a Rome day, announces at least one flyer, none that another  *)
(* summary of that user announced, never changes once announced, and is    *)
(* pushed at most once, after it was announced.                            *)
(* FlyerDigest implements this specification.                              *)
(***************************************************************************)
EXTENDS Integers

CONSTANTS
  Users,    \* recipients
  Flyers,   \* published flyers
  LastDay   \* bound: the last modelled Rome day

VARIABLES
  announced,  \* flyers in a summary, {} when it was not announced
  pushes      \* pushes attempted for a summary

Summaries == Users \X (0..LastDay)

Init ==
  /\ announced = [k \in Summaries |-> {}]
  /\ pushes = [k \in Summaries |-> 0]

\* The inbox row of a summary and its reservation are stored together.
Announce(k) ==
  /\ announced[k] = {}
  /\ \E items \in (SUBSET Flyers) \ {{}} :
       /\ \A l \in Summaries : l[1] = k[1] => announced[l] \intersect items = {}
       /\ announced' = [announced EXCEPT ![k] = items]
  /\ UNCHANGED pushes

\* The only push attempt.
Push(k) ==
  /\ announced[k] # {}
  /\ pushes[k] = 0
  /\ pushes' = [pushes EXCEPT ![k] = 1]
  /\ UNCHANGED announced

Next == \E k \in Summaries : Announce(k) \/ Push(k)

Spec == Init /\ [][Next]_<<announced, pushes>>
=============================================================================
