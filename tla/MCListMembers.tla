---------------------------- MODULE MCListMembers ----------------------------
(* A small instance of ListMembers for TLC, beside the stream of events of  *)
(* a list and the pages of the history of purchases.  The three share no    *)
(* state, so that a behaviour is of one of them, which the first state      *)
(* chooses; one run checks them all.                                        *)
EXTENDS ListMembers, ListSync, PurchaseHistory, TLC

VARIABLE part

\* The first stream is about the first list, the others about another one.
ListOfStream ==
  LET l == CHOOSE l \in SharedLists : TRUE
      c == CHOOSE c \in Streams : TRUE
  IN [s \in Streams |-> IF s = c THEN l ELSE CHOOSE k \in SharedLists : k # l]

PartsInit == part \in {"members", "sync", "pages"} /\ Init /\ SyncInit /\ HistoryInit
PartsNext ==
  /\ UNCHANGED part
  /\ \/ part = "members" /\ Next /\ UNCHANGED <<syncVars, historyVars>>
     \/ part = "sync" /\ SyncNext /\ UNCHANGED <<vars, historyVars>>
     \/ part = "pages" /\ HistoryNext /\ UNCHANGED <<vars, syncVars>>
PartsSpec == PartsInit /\ [][PartsNext]_<<part, vars, syncVars, historyVars>>

Symmetry == Permutations(Users) \union Permutations(Lists) \union Permutations(Invites)
=============================================================================
