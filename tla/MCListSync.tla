----------------------------- MODULE MCListSync -----------------------------
(* A small instance of ListSync for TLC.                                    *)
EXTENDS ListSync, TLC

CONSTANTS l1, l2, c1, c2

\* One stream is about the first list, the other about the second.
MCListOf == (c1 :> l1) @@ (c2 :> l2)
=============================================================================
