--------------------------- MODULE MCShoppingList ---------------------------
(* Small instances of ShoppingList for TLC.                                 *)
EXTENDS ShoppingList, TLC

CONSTANT far \* a user whose supermarkets do not have the offer

\* Every item is added from an offer; all users but one see it.
MCPinOf == [i \in Items |-> CHOOSE o \in Offers : TRUE]
MCSees == [u \in Users |-> IF u = far THEN {} ELSE Offers]

Symmetry == Permutations(Users \ {far}) \union Permutations(Requests) \union Permutations(Items)
=============================================================================
