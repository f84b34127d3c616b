----------------------------- MODULE ExtractionLog -----------------------------
(***************************************************************************)
(* What a resumable local extraction promises: once it has a size, the     *)
(* contents of its chunks are appended one after the other, nothing that   *)
(* was appended is ever replaced, and it is complete only when every chunk *)
(* is there.  LocalExtraction implements this specification.               *)
(***************************************************************************)
EXTENDS Integers, Sequences

CONSTANTS
  Payloads   \* contents a chunk may have

VARIABLES
  size,      \* number of chunks, 0 before the extraction starts
  log,       \* contents of the committed chunks
  complete   \* the extraction has ended

Init ==
  /\ size = 0
  /\ log = <<>>
  /\ complete = FALSE

Start ==
  /\ size = 0
  /\ size' \in Nat \ {0}
  /\ UNCHANGED <<log, complete>>

Commit(x) ==
  /\ ~complete
  /\ Len(log) < size
  /\ log' = Append(log, x)
  /\ UNCHANGED <<size, complete>>

Complete ==
  /\ ~complete
  /\ size # 0
  /\ Len(log) = size
  /\ complete' = TRUE
  /\ UNCHANGED <<size, log>>

Next == Start \/ Complete \/ \E x \in Payloads : Commit(x)

Spec == Init /\ [][Next]_<<size, log, complete>>
=============================================================================
