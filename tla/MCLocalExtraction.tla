--------------------------- MODULE MCLocalExtraction ---------------------------
(* Small instances of LocalExtraction for TLC.                              *)
EXTENDS LocalExtraction, TLC

CONSTANTS c1, c2, x1, x2, o1, o2, o3

\* c1 has every chunk, c2 only one; chunks have drafts in common, and none under
\* the content x2, so that sessions end up without any.
MCChunks == [c \in Configs |-> IF c = c1 THEN MaxChunks ELSE 1]
MCDrafts ==
  [k \in (1..MaxChunks) \X Payloads |->
     CASE k = <<1, x1>> -> {o1, o2}
       [] k = <<2, x1>> -> {o2, o3}
       [] k = <<3, x1>> -> {o1, o3}
       [] OTHER -> {}]
=============================================================================
