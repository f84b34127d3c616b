----------------------------- MODULE MCFlyerFiles -----------------------------
(* A small instance of FlyerFiles for TLC, beside the subscriptions of       *)
(* devices and the accounts.  The three share the constants of Processes and *)
(* no state, so that a behaviour is of one of them, which the first state    *)
(* chooses; one run checks them all.                                         *)
EXTENDS FlyerFiles, PushDelivery, Accounts, TLC

VARIABLE part

PartsInit == part \in {"files", "push", "accounts"} /\ Init /\ PushInit /\ AccountsInit
PartsNext ==
  /\ UNCHANGED part
  /\ \/ part = "files" /\ Next /\ UNCHANGED <<pushVars, accountVars>>
     \/ part = "push" /\ PushNext /\ UNCHANGED <<vars, accountVars>>
     \/ part = "accounts" /\ AccountsNext /\ UNCHANGED <<vars, pushVars>>
PartsSpec == PartsInit /\ [][PartsNext]_<<part, vars, pushVars, accountVars>>

\* All documents are of one week and look the same.
MCValidity == [h \in Contents |-> "a week"]
MCAlike == Contents \X Contents

\* Bound: two uploads and one fault or moved validity, or one upload and an image.
FilesBound ==
  Cardinality({p \in Paths : asked[p] # None}) + faults + renewals
    + 2 * Cardinality(crops) <= 3

Symmetry ==
  Permutations(Flyers) \union Permutations(Markets) \union Permutations(Paths)
    \union Permutations(Contents)
===============================================================================
