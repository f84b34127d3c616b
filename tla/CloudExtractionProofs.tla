------------------------- MODULE CloudExtractionProofs -------------------------
(***************************************************************************)
(* Theorems about CloudExtraction, for any runs, chunks, pages, retries,   *)
(* deployments and bounds.                                                 *)
(***************************************************************************)
EXTENDS CloudExtraction, FiniteSetTheorems, TLAPS

\* The drafts of the first n chunks were stored.
Through(n, s) == 1..n \subseteq s

\* A row, or a copy of it that somebody will write back, that names stored
\* chunks only; an image is saved before it is reported as being saved.
RowGood(m, s) ==
  /\ m \in Row
  /\ Through(m.last, s)
  /\ m.next # 0 => Through(m.next - 1, s)
  /\ m.status = "done" => Through(Total, s)
  /\ ~pdf /\ m.stage = "saving" => Through(Total, s)

\* What a run has stored when it comes to each of its requests.
RunGood(x, s) ==
  /\ x \in Run
  /\ x.attempt < MaxRetries
  /\ Through(x.done, s)
  /\ x.failed # 0 => Through(x.failed - 1, s)
  /\ x.pc \in {"begin", "report", "call", "persist", "checkpoint", "progress"} =>
       x.chunk \in 1..Total
  /\ x.pc \in {"begin", "report", "call", "persist"} => Through(x.chunk - 1, s)
  /\ x.pc \in {"checkpoint", "progress"} => pdf /\ Through(x.chunk, s)
  /\ x.pc \in {"saving", "verify", "finish"} => Through(Total, s)
  /\ x.pc = "fail" => RowGood(x.read, s)

RunsGood(f, s) ==
  /\ f \in [Runs -> Run \union {None}]
  /\ \A r \in Runs : f[r] # None => RunGood(f[r], s)

Rest ==
  /\ pdf \in BOOLEAN
  /\ rolling \in BOOLEAN
  /\ silent \in BOOLEAN
  /\ boot \in {"up", "due", "mark"}
  /\ interrupted \in Row \union {None}
  /\ boot = "mark" => RowGood(interrupted, saved)
  /\ sent \in Nat
  /\ faults \in Nat
  /\ died \in BOOLEAN

Inv ==
  /\ Rest
  /\ saved \subseteq 1..Chunks
  /\ RowGood(row, saved)
  /\ RunsGood(run, saved)

LEMMA TotalIsNat == Total \in 1..Chunks /\ Total \in Nat
  BY ConstantsAssumption DEF Total

\* More drafts keep what is good good.
LEMMA Grows ==
  ASSUME NEW s, NEW t, s \subseteq t
  PROVE  /\ \A m : RowGood(m, s) => RowGood(m, t)
         /\ \A x : RunGood(x, s) => RunGood(x, t)
<1>1. \A n : Through(n, s) => Through(n, t)
  BY DEF Through
<1>2. ASSUME NEW m, RowGood(m, s) PROVE RowGood(m, t)
  BY <1>1, <1>2 DEF RowGood
<1>3. ASSUME NEW x, RunGood(x, s) PROVE RunGood(x, t)
  BY <1>1, <1>2, <1>3 DEF RunGood
<1> QED BY <1>2, <1>3

\* A run that learns that it came too late stays what it is.
LEMMA LateGood ==
  ASSUME NEW f, NEW s, RunsGood(f, s)
  PROVE  RunsGood(Late(f), s)
<1>1. ASSUME NEW q \in Runs, f[q] # None, f[q].pc = "claim"
      PROVE  RunGood([f[q] EXCEPT !.pc = "late"], s)
  <2>1. RunGood(f[q], s) /\ f[q] \in Run
    BY <1>1 DEF RunsGood, RunGood
  <2> DEFINE y == f[q]
             z == [y EXCEPT !.pc = "late"]
  <2>2. /\ z \in Run /\ z.attempt = y.attempt /\ z.done = y.done /\ z.failed = y.failed
        /\ z.pc = "late"
    BY <2>1 DEF Run
  <2> HIDE DEF z
  <2>3. RunGood(z, s)
    BY <2>1, <2>2 DEF RunGood
  <2> QED BY <2>3 DEF z
<1>2. ASSUME NEW q \in Runs
      PROVE  /\ Late(f)[q] \in Run \union {None}
             /\ Late(f)[q] # None => RunGood(Late(f)[q], s)
  BY <1>1 DEF Late, RunGood, RunsGood
<1>3. Late(f) = [q \in Runs |-> Late(f)[q]]
  BY DEF Late
<1>4. Late(f) \in [Runs -> Run \union {None}]
  BY <1>2, <1>3
<1> QED BY <1>2, <1>4 DEF RunsGood

\* A run goes on or ends.
LEMMA RunsGo ==
  ASSUME RunsGood(run, saved), NEW r \in Runs, NEW x, NEW s, saved \subseteq s,
         x = None \/ RunGood(x, s)
  PROVE  /\ RunsGood([run EXCEPT ![r] = x], s)
         /\ RunsGood(Late([run EXCEPT ![r] = x]), s)
<1> DEFINE f == [run EXCEPT ![r] = x]
<1>1. x \in Run \union {None}
  BY DEF RunGood
<1>2. f \in [Runs -> Run \union {None}]
  BY <1>1 DEF RunsGood
<1>3. ASSUME NEW q \in Runs, f[q] # None PROVE RunGood(f[q], s)
  BY <1>1, <1>3, Grows DEF RunsGood
<1> HIDE DEF f
<1>4. RunsGood(f, s)
  BY <1>2, <1>3 DEF RunsGood
<1> QED BY <1>4, LateGood DEF f

\* A step that keeps its parts good keeps the invariant.
LEMMA Kept ==
  ASSUME Inv, UNCHANGED fixedVars, saved \subseteq saved', saved' \subseteq 1..Chunks,
         RowGood(row', saved'), RunsGood(run', saved'),
         silent' \in BOOLEAN, died' \in BOOLEAN, faults' \in Nat, sent' \in Nat,
         UNCHANGED <<boot, interrupted>>
  PROVE  Inv'
<1>1. boot = "mark" => RowGood(interrupted, saved')
  BY Grows DEF Inv, Rest
<1>2. Total' = Total
  BY DEF Total, fixedVars
<1> QED BY <1>1, <1>2 DEF Inv, Rest, RowGood, RunsGood, RunGood, fixedVars

\* A statement of one run that stores nothing new.
LEMMA RunMoves ==
  ASSUME Inv, NEW r \in Runs, NEW x, x = None \/ RunGood(x, saved),
         run' = [run EXCEPT ![r] = x] \/ run' = Late([run EXCEPT ![r] = x]),
         RowGood(row', saved), silent' \in BOOLEAN, Stay
  PROVE  Inv'
<1>1. RunsGood(run', saved)
  BY RunsGo DEF Inv
<1> QED BY <1>1, Kept DEF Stay, Inv, Rest

\* What a run that is under way knows.
LEMMA Knows ==
  ASSUME Inv, NEW r \in Runs, run[r] # None
  PROVE  RunGood(run[r], saved) /\ run[r] \in Run
  BY DEF Inv, RunsGood, RunGood

\* The row a run writes while it extracts, when n chunks are stored.
LEMMA ExtractingGood ==
  ASSUME Inv, NEW r \in Runs, run[r] # None, NEW n \in 0..Chunks, Through(n, saved),
         NEW found \in BOOLEAN
  PROVE  RowGood(Extracting(r, n, found), saved)
<1>1. RowGood(row, saved) /\ row \in Row
  BY DEF Inv, RowGood
<1>2. run[r].counted \in BOOLEAN
  BY Knows DEF Run
<1> DEFINE m == Extracting(r, n, found)
<1>3. m \in Row /\ m.status = row.status /\ m.last = n /\ m.stage = "extracting"
      /\ m.next = IF n < Total THEN n + 1 ELSE 0
  <2>1. n \in Index /\ (IF n < Total THEN n + 1 ELSE 0) \in Index
    BY TotalIsNat, ConstantsAssumption DEF Index
  <2>2. (run[r].counted \/ found) \in BOOLEAN
    OBVIOUS
  <2> DEFINE next == IF n < Total THEN n + 1 ELSE 0
             any == run[r].counted \/ found
  <2>3. m = [row EXCEPT !.last = n, !.next = next, !.resume = FALSE,
                        !.counted = run[r].counted, !.found = any, !.stage = "extracting"]
    BY DEF Extracting
  <2>4. n \in Index /\ next \in Index /\ any \in BOOLEAN
    BY <2>1, <2>2
  <2> HIDE DEF m, any, next
  <2>5. m \in Row /\ m.status = row.status /\ m.last = n /\ m.next = next /\ m.stage = "extracting"
    BY <1>1, <1>2, <2>3, <2>4 DEF Row
  <2> QED BY <2>5 DEF next
<1>4. m.next # 0 => Through(m.next - 1, saved)
  BY <1>3, TotalIsNat DEF Index
<1> QED BY <1>1, <1>3, <1>4 DEF RowGood

\* The row a run writes when all chunks are stored.
LEMMA SavingGood ==
  ASSUME Inv, NEW r \in Runs, run[r] # None, Through(Total, saved)
  PROVE  /\ RowGood(Saving(r), saved)
         /\ RowGood([Saving(r) EXCEPT !.status = "done", !.stage = "summary", !.found = FALSE],
                    saved)
<1>1. RowGood(row, saved) /\ row \in Row
  BY DEF Inv, RowGood
<1>2. run[r].counted \in BOOLEAN /\ run[r].done \in Index /\ Through(run[r].done, saved)
  BY Knows DEF Run, RunGood
<1> DEFINE m == Saving(r)
<1>3. m \in Row /\ m.next = 0 /\ Through(m.last, saved) /\ m.status = row.status
  <2>1. 0 \in Index /\ (IF pdf THEN Total ELSE run[r].done) \in Index
    BY <1>2, TotalIsNat, ConstantsAssumption DEF Index
  <2>2. m = [row EXCEPT !.stage = "saving", !.last = IF pdf THEN Total ELSE run[r].done,
                        !.next = 0, !.resume = FALSE, !.counted = run[r].counted,
                        !.found = run[r].counted]
    BY DEF Saving
  <2> QED BY <1>1, <1>2, <2>1, <2>2 DEF Row
<1> HIDE DEF m
<1>4. [m EXCEPT !.status = "done", !.stage = "summary", !.found = FALSE] \in Row
  BY <1>3 DEF Row
<1> QED BY <1>1, <1>3, <1>4 DEF m, RowGood, Row
-----------------------------------------------------------------------------
LEMMA TriggerInv ==
  ASSUME Inv, NEW r \in Runs, ReadTrigger(r) \/ ClaimTrigger(r) \/ LoseTrigger(r)
  PROVE  Inv'
<1>1. CASE ReadTrigger(r)
  <2>1. RunGood(NewRun, saved)
    BY ConstantsAssumption DEF RunGood, NewRun, Run, Index, Through
  <2>2. RunsGood(run', saved)
    BY <1>1, <2>1, RunsGo DEF ReadTrigger, Inv
  <2> QED BY <1>1, <2>2, Kept DEF ReadTrigger, fixedVars, Inv, Rest
<1>2. CASE ClaimTrigger(r)
  <2> DEFINE x == [run[r] EXCEPT !.pc = "fetch"]
  <2>1. RunGood(x, saved)
    <3>1. run[r] # None /\ RunGood(run[r], saved) /\ run[r] \in Run
      BY <1>2, Knows DEF ClaimTrigger, At
    <3>2. x \in Run /\ x.pc = "fetch" /\ x.attempt = run[r].attempt /\ x.done = run[r].done
          /\ x.failed = run[r].failed
      BY <3>1 DEF Run
    <3> QED BY <3>1, <3>2 DEF RunGood
  <2>2. RowGood(row', saved)
    BY <1>2 DEF ClaimTrigger, Write, Inv, RowGood, Row
  <2> QED BY <1>2, <2>1, <2>2, RunMoves DEF ClaimTrigger, Write, Goto
<1>3. CASE LoseTrigger(r)
  BY <1>3, RunMoves DEF LoseTrigger, Ended, Inv, Rest
<1> QED BY <1>1, <1>2, <1>3

LEMMA FetchInv ==
  ASSUME Inv, NEW r \in Runs, FetchFlyer(r)
  PROVE  Inv'
<1>1. run[r] # None /\ RunGood(run[r], saved) /\ run[r] \in Run
  BY Knows DEF FetchFlyer, At
<1>2. RowGood(row, saved) /\ row \in Row
  BY DEF Inv, RowGood
<1>3. StartChunk(row) \in 1..Total /\ Through(StartChunk(row) - 1, saved)
  <2>1. CASE Resumable(row)
    BY <1>2, <2>1 DEF StartChunk, Resumable, RowGood
  <2>2. CASE ~Resumable(row)
    BY <2>2, TotalIsNat DEF StartChunk, Through
  <2> QED BY <2>1, <2>2
<1> DEFINE x == [run[r] EXCEPT !.pc = "begin", !.chunk = StartChunk(row), !.done = row.last,
                               !.counted = row.counted \/ row.found]
<1>4. /\ x \in Run /\ x.pc = "begin" /\ x.chunk = StartChunk(row) /\ x.done = row.last
      /\ x.attempt = run[r].attempt /\ x.failed = run[r].failed
  <2>1. StartChunk(row) \in Index /\ row.last \in Index /\ row.counted \in BOOLEAN
        /\ row.found \in BOOLEAN
    BY <1>2, <1>3, TotalIsNat, ConstantsAssumption DEF Row, Index
  <2>2. (row.counted \/ row.found) \in BOOLEAN
    OBVIOUS
  <2> QED BY <1>1, <2>1, <2>2 DEF Run
<1>5. run' = [run EXCEPT ![r] = x] /\ UNCHANGED <<row, silent>> /\ Stay
  BY DEF FetchFlyer
<1> HIDE DEF x
<1>6. RunGood(x, saved)
  BY <1>1, <1>2, <1>3, <1>4 DEF RunGood, RowGood
<1> QED BY <1>2, <1>5, <1>6, RunMoves DEF Inv, Rest

LEMMA ReportInv ==
  ASSUME Inv, NEW r \in Runs, BeginExtracting(r) \/ ReportChunk(r)
  PROVE  Inv'
<1>1. /\ RunGood(run[r], saved) /\ run[r] \in Run /\ run[r] # None
      /\ run[r].pc \in {"begin", "report"}
  BY Knows DEF BeginExtracting, ReportChunk, At
<1>2. PICK pc \in {"report", "call"}, found \in BOOLEAN :
        /\ row' = Extracting(r, run[r].chunk - 1, found) /\ silent' = FALSE
        /\ run' = Late([run EXCEPT ![r].pc = pc, ![r].calls = 0]) /\ Stay
  BY <1>1 DEF BeginExtracting, ReportChunk, Write, Wrote, Run
<1> DEFINE x == [run[r] EXCEPT !.pc = pc, !.calls = 0]
<1>3. run[r].chunk - 1 \in 0..Chunks /\ Through(run[r].chunk - 1, saved)
  BY <1>1, TotalIsNat, ConstantsAssumption DEF RunGood
<1>4. RowGood(row', saved)
  BY <1>1, <1>2, <1>3, ExtractingGood
<1>5. RunGood(x, saved)
  <2>1. /\ x \in Run /\ x.pc = pc /\ x.attempt = run[r].attempt /\ x.done = run[r].done
        /\ x.failed = run[r].failed /\ x.chunk = run[r].chunk
    BY <1>1 DEF Run
  <2> HIDE DEF x
  <2> QED BY <1>1, <2>1 DEF RunGood
<1>6. [run EXCEPT ![r].pc = pc, ![r].calls = 0] = [run EXCEPT ![r] = x]
  BY <1>1 DEF Inv, RunsGood, Run
<1> QED BY <1>2, <1>4, <1>5, <1>6, RunMoves

\* Calls of the provider end a chunk, or call it again.
LEMMA CallInv ==
  ASSUME Inv, NEW r \in Runs, CallFails(r) \/ CallAnswers(r)
  PROVE  Inv'
<1>1. /\ RunGood(run[r], saved) /\ run[r] \in Run /\ run[r] # None /\ run[r].pc = "call"
  BY Knows DEF CallFails, CallAnswers, At
<1> DEFINE Calls(x) == /\ x \in Run /\ x.pc = "call" /\ x.chunk = run[r].chunk
                       /\ x.done = run[r].done /\ x.failed = run[r].failed
           Next1(x) == /\ x \in Run /\ x.chunk = run[r].chunk /\ x.done = run[r].done
                       /\ x.attempt < MaxRetries
                       /\ \/ x.pc = "call" /\ x.failed = run[r].failed
                          \/ x.pc = "persist" /\ x.failed = run[r].failed
                          \/ x.pc = "failed" /\ x.failed = x.chunk
<1>2. run[r].chunk \in 1..Total /\ run[r].chunk \in Index /\ MaxRetries \in Nat \ {0}
      /\ run[r].attempt \in 0..MaxRetries /\ run[r].attempt < MaxRetries
  BY <1>1, ConstantsAssumption DEF RunGood, Run
<1>3. ASSUME NEW x, Calls(x) PROVE Next1(EndOfChunk(x))
  <2>1. 0 \in 0..MaxRetries /\ 0 \in 0..Pages /\ x.chunk \in Index /\ 0 < MaxRetries
    BY <1>2, <1>3, ConstantsAssumption
  <2> DEFINE failed == [x EXCEPT !.pc = "failed", !.failed = x.chunk, !.attempt = 0, !.left = 0]
             ended == [x EXCEPT !.pc = "persist", !.attempt = 0, !.left = 0]
  <2>2. Next1(failed)
    <3>1. /\ failed \in Run /\ failed.chunk = x.chunk /\ failed.done = x.done
          /\ failed.attempt = 0 /\ failed.pc = "failed" /\ failed.failed = x.chunk
      BY <1>3, <2>1 DEF Run
    <3> HIDE DEF failed
    <3> QED BY <1>3, <2>1, <3>1
  <2>3. Next1(ended)
    <3>1. /\ ended \in Run /\ ended.chunk = x.chunk /\ ended.done = x.done
          /\ ended.attempt = 0 /\ ended.pc = "persist" /\ ended.failed = x.failed
      BY <1>3, <2>1 DEF Run
    <3> HIDE DEF ended
    <3> QED BY <1>3, <2>1, <3>1
  <2>4. EndOfChunk(x) = failed \/ EndOfChunk(x) = ended
    BY DEF EndOfChunk
  <2> HIDE DEF failed, ended
  <2> QED BY <2>2, <2>3, <2>4
<1>4. ASSUME NEW x, Calls(x) PROVE Next1(NextPage(x))
  <2>1. CASE x.left > 1
    <3>1. x.left - 1 \in 0..Pages
      BY <1>4, <2>1, ConstantsAssumption DEF Run
    <3> DEFINE y == [x EXCEPT !.left = @ - 1, !.attempt = 0]
    <3>2. NextPage(x) = y
      BY <2>1 DEF NextPage
    <3>3. 0 \in 0..MaxRetries /\ 0 < MaxRetries
      BY <1>2
    <3>4. /\ y \in Run /\ y.chunk = x.chunk /\ y.done = x.done /\ y.attempt = 0
          /\ y.pc = x.pc /\ y.failed = x.failed
      BY <1>4, <3>1, <3>3 DEF Run
    <3> HIDE DEF y
    <3> QED BY <1>4, <3>2, <3>3, <3>4
  <2>2. CASE ~(x.left > 1)
    BY <1>3, <1>4, <2>2 DEF NextPage
  <2> QED BY <2>1, <2>2
<1>5. ASSUME CallFails(r) PROVE \E x : Next1(x) /\ Provider(r, x)
  <2> DEFINE x == [run[r] EXCEPT !.errors = TRUE, !.attempt = @ + 1]
  <2>1. run[r].attempt + 1 \in 0..MaxRetries
    BY <1>2
  <2>2. Calls(x) /\ x.attempt = run[r].attempt + 1
    BY <1>1, <2>1 DEF Run
  <2>3. Provider(r, IF x.attempt < MaxRetries THEN x ELSE NextPage(x))
    BY <1>5 DEF CallFails
  <2> HIDE DEF x
  <2>4. CASE x.attempt < MaxRetries
    <3>1. Next1(x)
      BY <2>2, <2>4
    <3> QED BY <2>3, <2>4, <3>1
  <2>5. CASE ~(x.attempt < MaxRetries)
    <3>1. Next1(NextPage(x))
      BY <1>4, <2>2
    <3> QED BY <2>3, <2>5, <3>1
  <2> QED BY <2>4, <2>5
<1>6. ASSUME CallAnswers(r) PROVE \E x : Next1(x) /\ Provider(r, x)
  <2>1. CASE run[r].left > 0
    <3>1. Provider(r, NextPage(run[r])) /\ Calls(run[r])
      BY <1>1, <1>6, <2>1 DEF CallAnswers
    <3> QED BY <1>4, <3>1
  <2>2. CASE ~(run[r].left > 0)
    <3>1. PICK got \in BOOLEAN, sparse \in 0..Pages :
            LET x == [run[r] EXCEPT !.got = got, !.left = sparse, !.attempt = 0] IN
              Provider(r, IF sparse > 0 THEN x ELSE EndOfChunk(x))
      BY <1>6, <2>2 DEF CallAnswers
    <3> DEFINE x == [run[r] EXCEPT !.got = got, !.left = sparse, !.attempt = 0]
    <3>2. sparse \in 0..Pages
      BY ConstantsAssumption
    <3>3. Calls(x) /\ x.attempt = 0
      <4>1. 0 \in 0..MaxRetries /\ got \in BOOLEAN
        BY <1>2
      <4> QED BY <1>1, <3>2, <4>1 DEF Run
    <3>4. Provider(r, IF sparse > 0 THEN x ELSE EndOfChunk(x))
      BY <3>1
    <3> HIDE DEF x
    <3>5. Next1(x) /\ Next1(EndOfChunk(x))
      BY <1>2, <1>3, <3>3
    <3> QED BY <3>4, <3>5
  <2> QED BY <2>1, <2>2
<1>7. PICK x : Next1(x) /\ Provider(r, x)
  BY <1>5, <1>6
<1> DEFINE y == [x EXCEPT !.calls = @ + 1]
<1>8. /\ y \in Run /\ y.chunk = x.chunk /\ y.done = x.done /\ y.attempt = x.attempt
      /\ y.pc = x.pc /\ y.failed = x.failed
  BY <1>7 DEF Run
<1>9. run' = [run EXCEPT ![r] = y] /\ UNCHANGED <<row, silent>> /\ Stay
  BY <1>7 DEF Provider
<1> HIDE DEF y
<1>10. RunGood(y, saved)
  BY <1>1, <1>2, <1>7, <1>8 DEF RunGood
<1> QED BY <1>9, <1>10, RunMoves DEF Inv, Rest

\* The drafts of a chunk are stored before anything says so.
LEMMA PersistInv ==
  ASSUME Inv, NEW r \in Runs, PersistProducts(r)
  PROVE  Inv'
<1>1. RunGood(run[r], saved) /\ run[r] \in Run /\ run[r] # None /\ run[r].pc = "persist"
  BY Knows DEF PersistProducts, At
<1> DEFINE c == run[r].chunk
           s == saved \union {c}
<1>2. c \in 1..Total /\ Through(c - 1, saved) /\ Total \in 1..Chunks
  BY <1>1, TotalIsNat DEF RunGood
<1>3. saved \subseteq s /\ s \subseteq 1..Chunks /\ Through(c, s)
  <2>1. c \in 1..Chunks
    BY <1>2, ConstantsAssumption
  <2>2. saved \subseteq 1..Chunks
    BY DEF Inv
  <2>3. \A k \in 1..c : k \in 1..(c - 1) \/ k = c
    BY <2>1, ConstantsAssumption
  <2>4. 1..(c - 1) \subseteq saved
    BY <1>2 DEF Through
  <2> HIDE DEF c
  <2> QED BY <2>1, <2>2, <2>3, <2>4 DEF Through
<1>4. PICK valid \in BOOLEAN :
        run' = [run EXCEPT ![r] = [run[r] EXCEPT !.pc = IF pdf THEN "checkpoint" ELSE "saving",
                                                 !.counted = @ \/ valid,
                                                 !.raw = @ \/ run[r].got]]
  BY DEF PersistProducts
<1> DEFINE x == [run[r] EXCEPT !.pc = IF pdf THEN "checkpoint" ELSE "saving",
                               !.counted = @ \/ valid, !.raw = @ \/ run[r].got]
<1>5. run' = [run EXCEPT ![r] = x]
  BY <1>4
<1>6. /\ x \in Run /\ x.chunk = c /\ x.done = run[r].done /\ x.attempt = run[r].attempt
      /\ x.failed = run[r].failed /\ x.pc = IF pdf THEN "checkpoint" ELSE "saving"
  <2>1. (run[r].counted \/ valid) \in BOOLEAN /\ (run[r].raw \/ run[r].got) \in BOOLEAN
    OBVIOUS
  <2> QED BY <1>1, <2>1 DEF Run
<1>7. saved' = s /\ UNCHANGED <<fixedVars, row, silent, boot, interrupted, sent, faults, died>>
  BY DEF PersistProducts
<1> HIDE DEF x, s, c
<1>8. RunGood(x, s)
  <2>1. Through(run[r].done, s) /\ (run[r].failed # 0 => Through(run[r].failed - 1, s))
        /\ run[r].attempt < MaxRetries
    BY <1>1, <1>3, Grows DEF RunGood
  <2>2. ~pdf => Total = 1
    BY DEF Total
  <2>3. x.pc = "saving" => Through(Total, s)
    BY <1>2, <1>3, <1>6, <2>2
  <2> QED BY <1>2, <1>3, <1>6, <2>1, <2>3 DEF RunGood
<1>9. RunsGood(run', s)
  BY <1>3, <1>5, <1>8, RunsGo DEF Inv
<1>10. RowGood(row, s)
  BY <1>3, Grows DEF Inv
<1> QED BY <1>3, <1>7, <1>9, <1>10, Kept DEF Inv, Rest

LEMMA CheckpointInv ==
  ASSUME Inv, NEW r \in Runs, CheckpointPersistedChunk(r)
  PROVE  Inv'
<1>1. RunGood(run[r], saved) /\ run[r] \in Run /\ run[r] # None /\ run[r].pc = "checkpoint"
  BY Knows DEF CheckpointPersistedChunk, At
<1>2. /\ row' = Extracting(r, run[r].chunk, FALSE) /\ silent' = FALSE
      /\ run' = Late([run EXCEPT ![r].pc = "progress", ![r].calls = 0]) /\ Stay
  BY DEF CheckpointPersistedChunk, Write, Wrote
<1> DEFINE x == [run[r] EXCEPT !.pc = "progress", !.calls = 0]
<1>3. run[r].chunk \in 0..Chunks /\ Through(run[r].chunk, saved)
  BY <1>1, TotalIsNat, ConstantsAssumption DEF RunGood
<1>4. RowGood(row', saved)
  BY <1>1, <1>2, <1>3, ExtractingGood
<1>5. RunGood(x, saved)
  <2>1. /\ x \in Run /\ x.pc = "progress" /\ x.attempt = run[r].attempt /\ x.done = run[r].done
        /\ x.failed = run[r].failed /\ x.chunk = run[r].chunk
    BY <1>1 DEF Run
  <2> HIDE DEF x
  <2> QED BY <1>1, <2>1 DEF RunGood
<1>6. [run EXCEPT ![r].pc = "progress", ![r].calls = 0] = [run EXCEPT ![r] = x]
  BY <1>1 DEF Inv, RunsGood, Run
<1> QED BY <1>2, <1>4, <1>5, <1>6, RunMoves

LEMMA ProgressInv ==
  ASSUME Inv, NEW r \in Runs, ReportProgress(r)
  PROVE  Inv'
<1> DEFINE x == run[r]
           found == x.found \/ x.got
           next == [x EXCEPT !.found = found, !.got = FALSE, !.errors = FALSE, !.calls = 0,
                             !.done = x.chunk]
           more == [next EXCEPT !.pc = "report", !.chunk = @ + 1]
           over == [next EXCEPT !.pc = "saving"]
<1>1. RunGood(x, saved) /\ x \in Run /\ x # None /\ x.pc = "progress"
  BY Knows DEF ReportProgress, At
<1>2. /\ row' = Extracting(r, x.chunk, found) /\ silent' = FALSE /\ Stay
      /\ run' = Late([run EXCEPT ![r] = IF x.chunk < Total THEN more ELSE over])
  BY DEF ReportProgress, Write
<1>3. x.chunk \in 1..Total /\ Through(x.chunk, saved) /\ x.chunk \in 0..Chunks
      /\ Total \in 1..Chunks /\ x.chunk \in Index
  BY <1>1, TotalIsNat, ConstantsAssumption DEF RunGood, Index
<1>4. found \in BOOLEAN
  OBVIOUS
<1>5. RowGood(row', saved)
  BY <1>1, <1>2, <1>3, <1>4, ExtractingGood
<1>6. /\ next \in Run /\ next.done = x.chunk /\ next.chunk = x.chunk
      /\ next.attempt = x.attempt /\ next.failed = x.failed
  BY <1>1, <1>3, <1>4 DEF Run
<1> HIDE DEF next, found
<1>7. x.chunk < Total => RunGood(more, saved)
  <2> SUFFICES ASSUME x.chunk < Total PROVE RunGood(more, saved)
    OBVIOUS
  <2>1. next.chunk + 1 \in Index /\ next.chunk + 1 \in 1..Total
    BY <1>3, <1>6, ConstantsAssumption DEF Index
  <2>2. /\ more \in Run /\ more.pc = "report" /\ more.chunk = x.chunk + 1
        /\ more.done = x.chunk /\ more.attempt = x.attempt /\ more.failed = x.failed
    BY <1>6, <2>1 DEF Run
  <2> HIDE DEF more
  <2> QED BY <1>1, <1>3, <1>6, <2>1, <2>2 DEF RunGood
<1>8. ~(x.chunk < Total) => RunGood(over, saved)
  <2>1. /\ over \in Run /\ over.pc = "saving" /\ over.chunk = x.chunk /\ over.done = x.chunk
        /\ over.attempt = x.attempt /\ over.failed = x.failed
    BY <1>6 DEF Run
  <2> HIDE DEF over
  <2> QED BY <1>1, <1>3, <2>1 DEF RunGood
<1> HIDE DEF x, more, over
<1> QED BY <1>2, <1>5, <1>7, <1>8, RunMoves

LEMMA FinishInv ==
  ASSUME Inv, NEW r \in Runs, StartSaving(r) \/ VerifyProducts(r) \/ Finish(r)
  PROVE  Inv'
<1>1. /\ RunGood(run[r], saved) /\ run[r] \in Run /\ run[r] # None
      /\ run[r].pc \in {"saving", "verify", "finish"}
  BY Knows DEF StartSaving, VerifyProducts, Finish, At
<1>2. /\ RowGood(Saving(r), saved) /\ RowGood(row, saved) /\ silent \in BOOLEAN
      /\ RowGood([Saving(r) EXCEPT !.status = "done", !.stage = "summary", !.found = FALSE],
                 saved)
  BY <1>1, SavingGood DEF RunGood, Inv, Rest
<1>3. ASSUME NEW pc \in {"verify", "finish", "failed"}
      PROVE  /\ RunGood([run[r] EXCEPT !.pc = pc], saved)
             /\ RunGood([run[r] EXCEPT !.pc = pc, !.calls = 0], saved)
  <2> DEFINE x == [run[r] EXCEPT !.pc = pc]
             y == [run[r] EXCEPT !.pc = pc, !.calls = 0]
  <2>1. /\ x \in Run /\ x.pc = pc /\ x.attempt = run[r].attempt /\ x.done = run[r].done
        /\ x.failed = run[r].failed /\ x.chunk = run[r].chunk
    BY <1>1 DEF Run
  <2>2. /\ y \in Run /\ y.pc = pc /\ y.attempt = run[r].attempt /\ y.done = run[r].done
        /\ y.failed = run[r].failed /\ y.chunk = run[r].chunk
    BY <1>1 DEF Run
  <2> HIDE DEF x, y
  <2>3. RunGood(x, saved) /\ RunGood(y, saved)
    BY <1>1, <2>1, <2>2 DEF RunGood
  <2> QED BY <2>3 DEF x, y
<1>4. ASSUME NEW pc
      PROVE  /\ Goto(r, pc) = [run EXCEPT ![r] = [run[r] EXCEPT !.pc = pc]]
             /\ Wrote(r, pc) = [run EXCEPT ![r] = [run[r] EXCEPT !.pc = pc, !.calls = 0]]
  BY <1>1 DEF Inv, RunsGood, Run, Goto, Wrote
<1>5. CASE StartSaving(r)
  BY <1>2, <1>3, <1>4, <1>5, RunMoves DEF StartSaving, Write
<1>6. CASE VerifyProducts(r)
  <2>1. \/ row' = Saving(r) /\ silent' = FALSE /\ run' = Late(Wrote(r, "finish")) /\ Stay
        \/ row' = row /\ silent' = silent /\ run' = Goto(r, "failed") /\ Stay
    BY <1>6 DEF VerifyProducts, Write
  <2>2. CASE row' = Saving(r) /\ silent' = FALSE /\ run' = Late(Wrote(r, "finish")) /\ Stay
    BY <1>2, <1>3, <1>4, <2>2, RunMoves
  <2>3. CASE row' = row /\ silent' = silent /\ run' = Goto(r, "failed") /\ Stay
    BY <1>2, <1>3, <1>4, <2>3, RunMoves
  <2> QED BY <2>1, <2>2, <2>3
<1>7. CASE Finish(r)
  BY <1>2, <1>7, RunMoves DEF Finish, Write, Ended
<1> QED BY <1>5, <1>6, <1>7
-----------------------------------------------------------------------------
\* What the handler of errors writes names stored chunks only.
LEMMA ErrorGood ==
  ASSUME Inv, NEW failed \in Index, failed # 0 => Through(failed - 1, saved)
  PROVE  RowGood(ErrorMetadata(row, failed), saved)
<1>1. RowGood(row, saved) /\ row \in Row
  BY DEF Inv, RowGood
<1> DEFINE c == row.counted \/ row.found
           a == [row EXCEPT !.resume = TRUE, !.next = failed, !.counted = c]
           b == [row EXCEPT !.resume = TRUE, !.counted = c]
<1>2. c \in BOOLEAN
  OBVIOUS
<1>3. \/ ErrorMetadata(row, failed) = a /\ failed # 0
      \/ ErrorMetadata(row, failed) = b
      \/ ErrorMetadata(row, failed) = row
  BY DEF ErrorMetadata
<1> HIDE DEF c
<1>4. a \in Row /\ a.next = failed /\ a.last = row.last /\ a.status = row.status
      /\ a.stage = row.stage
  BY <1>1, <1>2 DEF Row
<1>5. b \in Row /\ b.next = row.next /\ b.last = row.last /\ b.status = row.status
      /\ b.stage = row.stage
  BY <1>1, <1>2 DEF Row
<1> HIDE DEF a, b
<1> QED BY <1>1, <1>3, <1>4, <1>5 DEF RowGood

LEMMA ErrorInv ==
  ASSUME Inv, NEW r \in Runs, ReadForError(r) \/ HandleError(r)
  PROVE  Inv'
<1>1. RunGood(run[r], saved) /\ run[r] \in Run /\ run[r] # None
  BY Knows DEF ReadForError, HandleError, At
<1>2. RowGood(row, saved) /\ row \in Row /\ silent \in BOOLEAN
  BY DEF Inv, RowGood, Rest
<1>3. CASE ReadForError(r)
  <2> DEFINE m == ErrorMetadata(row, run[r].failed)
             x == [run[r] EXCEPT !.pc = "fail", !.read = m]
  <2>1. RowGood(m, saved)
    <3>1. run[r].failed \in Index /\ (run[r].failed # 0 => Through(run[r].failed - 1, saved))
      BY <1>1 DEF RunGood, Run
    <3> QED BY <3>1, ErrorGood
  <2>2. run' = [run EXCEPT ![r] = x] /\ UNCHANGED <<row, silent>> /\ Stay
    BY <1>3 DEF ReadForError
  <2> HIDE DEF m
  <2>3. m \in Row
    BY <2>1 DEF RowGood
  <2>4. /\ x \in Run /\ x.pc = "fail" /\ x.attempt = run[r].attempt /\ x.done = run[r].done
        /\ x.failed = run[r].failed /\ x.read = m
    BY <1>1, <2>3 DEF Run
  <2> HIDE DEF x
  <2>5. RunGood(x, saved)
    BY <1>1, <2>1, <2>4 DEF RunGood
  <2> QED BY <1>2, <2>2, <2>5, RunMoves
<1>4. CASE HandleError(r)
  <2> DEFINE m == run[r].read
             done == [m EXCEPT !.status = "done", !.resume = FALSE]
             left == IF m.stage = "none" THEN row ELSE m
             failed == [left EXCEPT !.status = "error"]
  <2>1. RowGood(m, saved) /\ m \in Row
    BY <1>1, <1>4 DEF HandleError, At, RunGood, RowGood
  <2>2. /\ row' = IF ShouldFinalize(m) THEN done ELSE failed
        /\ silent' = FALSE /\ run' = Late([run EXCEPT ![r] = None]) /\ Stay
    BY <1>4 DEF HandleError, Write, Ended
  <2>3. RowGood(left, saved) /\ left \in Row
    BY <1>2, <2>1
  <2> HIDE DEF m, left
  <2>4. ASSUME ShouldFinalize(m) PROVE RowGood(done, saved)
    <3>1. /\ done \in Row /\ done.next = m.next /\ done.last = m.last /\ done.stage = m.stage
      BY <2>1 DEF Row
    <3>2. Through(Total, saved)
      <4>1. CASE pdf
        BY <2>1, <2>4, <4>1, TotalIsNat, ConstantsAssumption
           DEF ShouldFinalize, RowGood, Through, Row, Index
      <4>2. CASE ~pdf
        BY <2>1, <2>4, <4>2 DEF ShouldFinalize, RowGood
      <4> QED BY <4>1, <4>2
    <3> HIDE DEF done
    <3> QED BY <2>1, <3>1, <3>2 DEF RowGood
  <2>5. RowGood(failed, saved)
    <3>1. /\ failed \in Row /\ failed.next = left.next /\ failed.last = left.last
          /\ failed.stage = left.stage /\ failed.status = "error"
      BY <2>3 DEF Row
    <3> HIDE DEF failed
    <3> QED BY <2>3, <3>1 DEF RowGood
  <2> HIDE DEF done, failed
  <2> QED BY <2>2, <2>4, <2>5, RunMoves
<1> QED BY <1>3, <1>4

\* An exception, a run that stops, and a server that starts.
LEMMA FaultInv ==
  ASSUME Inv,
         \/ \E r \in Runs : Raise(r) \/ Vanish(r)
         \/ GoesSilent \/ Restart \/ NewServer \/ ReadInterrupted \/ MarkInterrupted
  PROVE  Inv'
<1> USE DEF fixedVars
<1>1. ASSUME NEW r \in Runs, Raise(r) PROVE Inv'
  <2> DEFINE x == [run[r] EXCEPT !.pc = "failed"]
  <2>1. RunGood(run[r], saved) /\ run[r] \in Run
    BY <1>1, Knows DEF Raise, Running
  <2>2. /\ x \in Run /\ x.pc = "failed" /\ x.attempt = run[r].attempt /\ x.done = run[r].done
        /\ x.failed = run[r].failed
    BY <2>1 DEF Run
  <2>3. run' = [run EXCEPT ![r] = x]
    BY <1>1 DEF Raise, Goto, Inv, RunsGood
  <2> HIDE DEF x
  <2>4. RunGood(x, saved)
    BY <2>1, <2>2 DEF RunGood
  <2>5. RunsGood(run', saved)
    BY <2>3, <2>4, RunsGo DEF Inv
  <2> QED BY <1>1, <2>5, Kept DEF Raise, Inv, Rest
<1>2. ASSUME NEW r \in Runs, Vanish(r) PROVE Inv'
  <2>1. RunsGood(run', saved)
    BY <1>2, RunsGo DEF Vanish, Ended, Inv
  <2> QED BY <1>2, <2>1, Kept DEF Vanish, Inv, Rest
<1>3. CASE GoesSilent
  BY <1>3, Kept DEF GoesSilent, Inv, Rest
<1>4. ASSUME Total' = Total, UNCHANGED <<fixedVars, saved>>, RowGood(row', saved),
             RunsGood(run', saved), silent' \in BOOLEAN, sent' \in Nat, faults' \in Nat,
             died' \in BOOLEAN, boot' \in {"up", "due", "mark"},
             interrupted' \in Row \union {None},
             boot' = "mark" => RowGood(interrupted', saved)
      PROVE  Inv'
  BY <1>4 DEF Inv, Rest, RowGood, RunsGood, RunGood
<1>5. Total' = Total
  BY DEF Total, Raise, Vanish, GoesSilent, Restart, NewServer, ReadInterrupted,
         MarkInterrupted
<1>6. CASE Restart
  <2>1. RunsGood(run', saved)
    BY <1>6 DEF Restart, RunsGood
  <2> QED BY <1>4, <1>5, <1>6, <2>1 DEF Restart, Inv, Rest
<1>7. CASE NewServer
  BY <1>4, <1>5, <1>7 DEF NewServer, Inv, Rest
<1>8. CASE ReadInterrupted
  <2>1. row \in Row
    BY DEF Inv, RowGood
  <2> QED BY <1>4, <1>5, <1>8, <2>1 DEF ReadInterrupted, Inv, Rest
<1>9. CASE MarkInterrupted
  <2> DEFINE m == interrupted
             w == [m EXCEPT !.status = "error", !.resume = IsResumable(m),
                            !.stage = IF @ = "none" THEN "marked" ELSE @]
  <2>1. RowGood(m, saved) /\ m \in Row
    BY <1>9 DEF MarkInterrupted, Inv, Rest, RowGood
  <2>2. IsResumable(m) \in BOOLEAN
    BY DEF IsResumable
  <2>3. /\ w \in Row /\ w.status = "error" /\ w.last = m.last /\ w.next = m.next
        /\ w.stage = "saving" => m.stage = "saving"
    BY <2>1, <2>2 DEF Row
  <2>4. row' = w /\ silent' = FALSE /\ run' = Late(run) /\ boot' = "up" /\ interrupted' = None
        /\ UNCHANGED <<fixedVars, saved, sent, faults, died>>
    BY <1>9 DEF MarkInterrupted, Write
  <2> HIDE DEF w
  <2>5. RowGood(w, saved)
    BY <2>1, <2>3 DEF RowGood
  <2>6. RunsGood(Late(run), saved)
    BY LateGood DEF Inv
  <2> QED BY <1>4, <1>5, <2>4, <2>5, <2>6 DEF Inv, Rest
<1> QED BY <1>1, <1>2, <1>3, <1>6, <1>7, <1>8, <1>9

LEMMA InvInit == Init => Inv
<1> SUFFICES ASSUME Init PROVE Inv
  OBVIOUS
<1>1. row \in Row /\ row.last = 0 /\ row.next = 0 /\ row.status = "pending" /\ row.stage = "none"
  BY ConstantsAssumption DEF Init, Row, Index
<1>2. RowGood(row, saved)
  BY <1>1 DEF RowGood, Through
<1>3. RunsGood(run, saved)
  BY DEF Init, RunsGood
<1> QED BY <1>2, <1>3, ConstantsAssumption DEF Init, Inv, Rest

LEMMA InvNext == Inv /\ [Next]_vars => Inv'
<1> SUFFICES ASSUME Inv, [Next]_vars PROVE Inv'
  OBVIOUS
<1>1. CASE UNCHANGED vars
  BY <1>1, Kept DEF vars, fixedVars, Inv, Rest
<1>2. ASSUME NEW r \in Runs, Step(r) PROVE Inv'
  BY <1>2, TriggerInv, FetchInv, ReportInv, CallInv, PersistInv, CheckpointInv, ProgressInv,
     FinishInv, ErrorInv DEF Step
<1>3. ASSUME NEW r \in Runs, ReadTrigger(r) PROVE Inv'
  BY <1>3, TriggerInv
<1> QED BY <1>1, <1>2, <1>3, FaultInv DEF Next, Recover

\* Type correctness: the row, its copies and the runs hold what their columns
\* and variables do.
THEOREM TypeCorrect == Spec => []TypeOK
<1>1. Spec => []Inv
  BY InvInit, InvNext, PTL DEF Spec
<1>2. Inv => TypeOK
  BY RowAssumption DEF Inv, Rest, RowGood, RunsGood, TypeOK
<1> QED BY <1>1, <1>2, PTL

\* However often runs fail, are resumed, overlap and overwrite each other, no
\* checkpoint names a chunk whose drafts were not stored, and a flyer is done
\* when those of all chunks were (ExtractionService.extract).
THEOREM ChunksAreStored == Spec => []NothingSkipped
<1>1. Spec => []Inv
  BY InvInit, InvNext, PTL DEF Spec
<1>2. Inv => NothingSkipped
  BY DEF Inv, RowGood, Through, NothingSkipped
<1> QED BY <1>1, <1>2, PTL
-----------------------------------------------------------------------------
\* Calls of the provider since the row was written: those of the chunk, then
\* those of the pages that were called again.
CallsOK(x) ==
  /\ x.calls <= StaleCalls
  /\ x.pc \notin {"call", "failed", "fail"} => x.attempt = 0 /\ x.left = 0
  /\ x.pc \in {"claim", "late", "fetch", "begin", "report"} => x.calls = 0
  /\ x.pc = "call" =>
       IF x.left = 0 THEN x.calls <= x.attempt
       ELSE x.calls <= (Pages + 1 - x.left) * MaxRetries + x.attempt
CallsInv == \A r \in Runs : run[r] # None => CallsOK(run[r])

\* Without overlapping servers nobody else runs, and whoever has read the row
\* to claim it has read it before it was claimed.
Alone ==
  ~rolling =>
    /\ boot # "up" => \A r \in Runs : ~Running(r)
    /\ \A r \in Runs : Running(r) =>
         /\ row.status = "processing" /\ ~silent
         /\ \A q \in Runs \ {r} : ~Running(q) /\ ~At(q, "claim")

\* A run goes on, or ends, and may write the row.
Continues(r) ==
  /\ Running(r)
  /\ \E x : /\ \/ x = None
               \/ /\ x \in Run /\ CallsOK(x) /\ x.pc \notin {"claim", "late"}
                  /\ row'.status = row.status
            /\ run' = [run EXCEPT ![r] = x] \/ run' = Late([run EXCEPT ![r] = x])
  /\ silent' = silent \/ silent' = FALSE
  /\ UNCHANGED <<rolling, boot>>

\* What happens to the others when r goes on.
LEMMA Others ==
  ASSUME Inv, NEW r \in Runs, NEW x, x = None \/ x \in Run,
         run' = [run EXCEPT ![r] = x] \/ run' = Late([run EXCEPT ![r] = x]),
         NEW q \in Runs, q # r
  PROVE  /\ \/ run'[q] = run[q]
            \/ /\ run[q] # None /\ run[q].pc = "claim"
               /\ run'[q] = [run[q] EXCEPT !.pc = "late"]
         /\ run'[q].pc = "claim" => run'[q] = run[q]
<1> DEFINE f == [run EXCEPT ![r] = x]
<1>1. f[q] = run[q]
  BY DEF Inv, RunsGood
<1>2. \/ run'[q] = run[q]
      \/ run[q] # None /\ run[q].pc = "claim" /\ run'[q] = [run[q] EXCEPT !.pc = "late"]
  BY <1>1 DEF Late
<1>3. ASSUME run[q] # None PROVE [run[q] EXCEPT !.pc = "late"].pc = "late"
  BY <1>3, Knows DEF Run
<1> QED BY <1>2, <1>3

LEMMA Goes ==
  ASSUME Inv, CallsInv, Alone, NEW r \in Runs, Continues(r)
  PROVE  CallsInv' /\ Alone'
<1>1. PICK x : /\ \/ x = None
                  \/ /\ x \in Run /\ CallsOK(x) /\ x.pc \notin {"claim", "late"}
                     /\ row'.status = row.status
               /\ run' = [run EXCEPT ![r] = x] \/ run' = Late([run EXCEPT ![r] = x])
  BY DEF Continues
<1>2. run'[r] = x
  BY <1>1 DEF Inv, RunsGood, Late
<1>3. ASSUME NEW q \in Runs \ {r}
      PROVE  /\ Running(q)' => Running(q)
             /\ At(q, "claim")' => At(q, "claim")
             /\ run'[q] # None => CallsOK(run'[q])
  <2>1. \/ run'[q] = run[q]
        \/ run[q] # None /\ run[q].pc = "claim" /\ run'[q] = [run[q] EXCEPT !.pc = "late"]
    BY <1>1, Others
  <2>2. CASE run'[q] = run[q]
    BY <2>2 DEF Running, At, CallsInv
  <2>3. CASE run[q] # None /\ run[q].pc = "claim" /\ run'[q] = [run[q] EXCEPT !.pc = "late"]
    <3>1. CallsOK(run[q]) /\ run[q] \in Run
      BY <2>3, Knows DEF CallsInv
    <3>2. /\ run'[q].pc = "late" /\ run'[q].calls = run[q].calls
          /\ run'[q].attempt = run[q].attempt /\ run'[q].left = run[q].left
      BY <2>3, <3>1 DEF Run
    <3> QED BY <2>3, <3>1, <3>2 DEF CallsOK, Running, At
  <2> QED BY <2>1, <2>2, <2>3
<1>4. CallsInv'
  <2>1. ASSUME NEW q \in Runs, run'[q] # None PROVE CallsOK(run'[q])
    BY <1>1, <1>2, <1>3, <2>1
  <2> QED BY <2>1 DEF CallsInv, CallsOK
<1>5. Alone'
  <2> SUFFICES ASSUME ~rolling PROVE
        /\ boot = "up"
        /\ \A q \in Runs : Running(q)' =>
             /\ row'.status = "processing" /\ ~silent'
             /\ \A t \in Runs \ {q} : ~Running(t)' /\ ~At(t, "claim")'
    BY DEF Alone, Continues
  <2>1. /\ boot = "up" /\ row.status = "processing" /\ ~silent /\ Running(r)
        /\ \A q \in Runs \ {r} : ~Running(q) /\ ~At(q, "claim")
    BY DEF Alone, Continues, Inv, Rest
  <2>2. \A q \in Runs \ {r} : ~Running(q)' /\ ~At(q, "claim")'
    BY <1>3, <2>1
  <2>3. Running(r)' => x # None
    BY <1>2 DEF Running
  <2> QED BY <1>1, <2>1, <2>2, <2>3 DEF Continues
<1> QED BY <1>4, <1>5

\* What a run writes leaves the status as it is, or ends it.
LEMMA StatusKept ==
  ASSUME Inv, NEW r \in Runs, NEW n, NEW found
  PROVE  Extracting(r, n, found).status = row.status /\ Saving(r).status = row.status
<1>1. row \in Row
  BY DEF Inv, RowGood
<1> QED BY <1>1 DEF Extracting, Saving, Row

\* What every request of a run knows of itself.
LEMMA CallsKnown ==
  ASSUME Inv, CallsInv, NEW r \in Runs, run[r] # None
  PROVE  /\ CallsOK(run[r]) /\ run[r] \in Run
         /\ run[r].calls \in Nat /\ StaleCalls \in Nat /\ 0 <= StaleCalls
  BY Knows, ConstantsAssumption DEF CallsInv, Run

LEMMA QuietSteps ==
  ASSUME Inv, CallsInv, NEW r \in Runs,
         FetchFlyer(r) \/ BeginExtracting(r) \/ ReportChunk(r) \/ CheckpointPersistedChunk(r)
           \/ StartSaving(r)
  PROVE  Continues(r)
<1> DEFINE y == run[r]
<1>1. y # None /\ y.pc \in {"fetch", "begin", "report", "checkpoint", "saving"} /\ Running(r)
  BY DEF FetchFlyer, BeginExtracting, ReportChunk, CheckpointPersistedChunk, StartSaving, At,
         Running
<1>2. /\ CallsOK(y) /\ y \in Run /\ y.calls \in Nat /\ StaleCalls \in Nat
      /\ RunGood(y, saved)
  BY <1>1, CallsKnown, Knows
<1>3. CASE FetchFlyer(r)
  <2> DEFINE x == [run[r] EXCEPT !.pc = "begin", !.chunk = StartChunk(row), !.done = row.last,
                                 !.counted = row.counted \/ row.found]
  <2>1. run' = [run EXCEPT ![r] = x] /\ UNCHANGED <<row, silent>> /\ Stay
    BY <1>3 DEF FetchFlyer
  <2>2. x \in Run
    <3>1. RowGood(row, saved) /\ row \in Row
      BY DEF Inv, RowGood
    <3>2. StartChunk(row) \in Index
      BY <3>1, TotalIsNat, ConstantsAssumption DEF StartChunk, Resumable, Index
    <3>3. row.last \in Index /\ (row.counted \/ row.found) \in BOOLEAN
      BY <3>1 DEF Row
    <3> QED BY <1>2, <3>2, <3>3 DEF Run
  <2>3. x.pc = "begin" /\ x.calls = y.calls /\ x.attempt = y.attempt /\ x.left = y.left
    BY <1>2 DEF Run
  <2>4. y.pc = "fetch"
    BY <1>3 DEF FetchFlyer, At
  <2> HIDE DEF x
  <2>5. CallsOK(x)
    BY <1>2, <2>3, <2>4 DEF CallsOK
  <2> QED BY <1>1, <2>1, <2>2, <2>3, <2>5 DEF Continues, Stay, fixedVars
<1>4. CASE ~FetchFlyer(r)
  <2>1. PICK pc \in {"report", "call", "progress", "verify"} :
          /\ run' = Late([run EXCEPT ![r].pc = pc, ![r].calls = 0]) /\ Stay
          /\ row'.status = row.status /\ silent' = FALSE
          /\ y.pc # "fetch"
    <3>1. \/ /\ y.pc = "begin"
             /\ Write(Extracting(r, run[r].chunk - 1, FALSE),
                      Wrote(r, IF pdf THEN "report" ELSE "call"))
          \/ /\ y.pc = "report"
             /\ Write(Extracting(r, run[r].chunk - 1, run[r].found), Wrote(r, "call"))
          \/ /\ y.pc = "checkpoint"
             /\ Write(Extracting(r, run[r].chunk, FALSE), Wrote(r, "progress"))
          \/ y.pc = "saving" /\ Write(Saving(r), Wrote(r, "verify"))
      BY <1>4 DEF BeginExtracting, ReportChunk, CheckpointPersistedChunk, StartSaving, At
    <3>2. Stay
      BY <1>4 DEF BeginExtracting, ReportChunk, CheckpointPersistedChunk, StartSaving
    <3>3. row'.status = row.status /\ silent' = FALSE /\ y.pc # "fetch"
      <4>1. /\ Extracting(r, run[r].chunk - 1, FALSE).status = row.status
            /\ Extracting(r, run[r].chunk - 1, run[r].found).status = row.status
            /\ Extracting(r, run[r].chunk, FALSE).status = row.status
            /\ Saving(r).status = row.status
        BY StatusKept
      <4> QED BY <3>1, <4>1 DEF Write
    <3>4. \E pc \in {"report", "call", "progress", "verify"} : run' = Late(Wrote(r, pc))
      <4>1. (IF pdf THEN "report" ELSE "call") \in {"report", "call"}
        OBVIOUS
      <4> QED BY <3>1, <4>1 DEF Write
    <3> QED BY <3>2, <3>3, <3>4 DEF Wrote
  <2> DEFINE x == [run[r] EXCEPT !.pc = pc, !.calls = 0]
  <2>2. [run EXCEPT ![r].pc = pc, ![r].calls = 0] = [run EXCEPT ![r] = x]
    BY <1>2 DEF Inv, RunsGood, Run
  <2>3. /\ x \in Run /\ x.pc = pc /\ x.calls = 0 /\ x.attempt = y.attempt /\ x.left = y.left
    BY <1>2 DEF Run
  <2>4. x.attempt = 0 /\ x.left = 0
    BY <1>1, <1>2, <2>3 DEF CallsOK
  <2> HIDE DEF x
  <2>5. CallsOK(x)
    BY <1>2, <2>3, <2>4 DEF CallsOK
  <2> QED BY <1>1, <2>1, <2>2, <2>3, <2>5 DEF Continues, Stay, fixedVars
<1> QED BY <1>3, <1>4

LEMMA StoringSteps ==
  ASSUME Inv, CallsInv, NEW r \in Runs, PersistProducts(r) \/ ReportProgress(r)
  PROVE  Continues(r)
<1> DEFINE y == run[r]
<1>1. y # None /\ y.pc \in {"persist", "progress"} /\ Running(r)
  BY DEF PersistProducts, ReportProgress, At, Running
<1>2. CallsOK(y) /\ y \in Run /\ y.calls \in Nat /\ StaleCalls \in Nat /\ RunGood(y, saved)
  BY <1>1, CallsKnown, Knows
<1>3. CASE PersistProducts(r)
  <2>1. PICK valid \in BOOLEAN :
          run' = [run EXCEPT ![r] = [run[r] EXCEPT !.pc = IF pdf THEN "checkpoint" ELSE "saving",
                                                   !.counted = @ \/ valid,
                                                   !.raw = @ \/ run[r].got]]
    BY <1>3 DEF PersistProducts
  <2> DEFINE x == [run[r] EXCEPT !.pc = IF pdf THEN "checkpoint" ELSE "saving",
                                 !.counted = @ \/ valid, !.raw = @ \/ run[r].got]
  <2>2. run' = [run EXCEPT ![r] = x]
    BY <2>1
  <2>3. (y.counted \/ valid) \in BOOLEAN /\ (y.raw \/ y.got) \in BOOLEAN
    OBVIOUS
  <2>4. /\ x \in Run /\ x.pc \in {"checkpoint", "saving"} /\ x.calls = y.calls
        /\ x.attempt = y.attempt /\ x.left = y.left
    BY <1>2, <2>3 DEF Run
  <2>5. UNCHANGED <<rolling, boot, row, silent>>
    BY <1>3 DEF PersistProducts, fixedVars
  <2> HIDE DEF x
  <2>6. CallsOK(x)
    BY <1>1, <1>2, <2>4 DEF CallsOK
  <2> QED BY <1>1, <2>2, <2>4, <2>5, <2>6 DEF Continues
<1>4. CASE ReportProgress(r)
  <2> DEFINE found == y.found \/ y.got
             next == [y EXCEPT !.found = found, !.got = FALSE, !.errors = FALSE, !.calls = 0,
                               !.done = y.chunk]
             more == [next EXCEPT !.pc = "report", !.chunk = @ + 1]
             over == [next EXCEPT !.pc = "saving"]
  <2>1. /\ row' = Extracting(r, y.chunk, found) /\ silent' = FALSE /\ Stay
        /\ run' = Late([run EXCEPT ![r] = IF y.chunk < Total THEN more ELSE over])
    BY <1>4 DEF ReportProgress, Write
  <2>2. y.chunk \in 1..Total /\ y.chunk \in Index /\ y.attempt = 0 /\ y.left = 0
    BY <1>1, <1>2, <1>4, TotalIsNat, ConstantsAssumption
       DEF RunGood, CallsOK, Index, ReportProgress, At
  <2>3. found \in BOOLEAN
    OBVIOUS
  <2>4. /\ next \in Run /\ next.calls = 0 /\ next.attempt = 0 /\ next.left = 0
        /\ next.chunk = y.chunk
    BY <1>2, <2>2, <2>3 DEF Run
  <2>5. row'.status = row.status
    BY <2>1, StatusKept
  <2> HIDE DEF next, found
  <2>6. over \in Run /\ over.pc = "saving" /\ CallsOK(over)
    <3>1. over \in Run /\ over.pc = "saving" /\ over.calls = 0 /\ over.attempt = 0 /\ over.left = 0
      BY <2>4 DEF Run
    <3> HIDE DEF over
    <3> QED BY <1>2, <3>1 DEF CallsOK
  <2>7. y.chunk < Total => more \in Run /\ more.pc = "report" /\ CallsOK(more)
    <3> SUFFICES ASSUME y.chunk < Total PROVE more \in Run /\ more.pc = "report" /\ CallsOK(more)
      OBVIOUS
    <3>1. next.chunk + 1 \in Index
      BY <2>2, <2>4, TotalIsNat, ConstantsAssumption DEF Index
    <3>2. more \in Run /\ more.pc = "report" /\ more.calls = 0 /\ more.attempt = 0 /\ more.left = 0
      BY <2>4, <3>1 DEF Run
    <3> HIDE DEF more
    <3> QED BY <1>2, <3>2 DEF CallsOK
  <2> HIDE DEF more, over
  <2> DEFINE x == IF y.chunk < Total THEN more ELSE over
  <2>8. x \in Run /\ CallsOK(x) /\ x.pc \notin {"claim", "late"}
    BY <2>6, <2>7
  <2> QED BY <1>1, <2>1, <2>5, <2>8 DEF Continues, Stay, fixedVars
<1> QED BY <1>3, <1>4

\* The calls of the chunk and of pages of it, when k pages are left.
Spent(k) == (Pages + 1 - k) * MaxRetries

LEMMA Budget ==
  /\ \A k \in 0..Pages : Spent(k) \in Nat /\ MaxRetries <= Spent(k) /\ Spent(k) <= StaleCalls
  /\ \A k \in 1..Pages : Spent(k) + MaxRetries = Spent(k - 1)
<1>1. Pages \in Nat \ {0} /\ MaxRetries \in Nat \ {0} /\ StaleCalls \in Nat
      /\ (Pages + 1) * MaxRetries <= StaleCalls
  BY ConstantsAssumption, WindowAssumption
<1>2. \A j \in Nat : j * MaxRetries \in Nat /\ (j + 1) * MaxRetries = j * MaxRetries + MaxRetries
  BY <1>1
<1>3. \A k \in 0..Pages : Spent(k) \in Nat /\ MaxRetries <= Spent(k)
  <2> SUFFICES ASSUME NEW k \in 0..Pages PROVE Spent(k) \in Nat /\ MaxRetries <= Spent(k)
    OBVIOUS
  <2>1. Pages - k \in Nat /\ Pages + 1 - k = (Pages - k) + 1
    BY <1>1
  <2>2. /\ (Pages - k) * MaxRetries \in Nat
        /\ ((Pages - k) + 1) * MaxRetries = (Pages - k) * MaxRetries + MaxRetries
    BY <1>2, <2>1
  <2> QED BY <1>1, <2>1, <2>2 DEF Spent
<1>4. \A k \in 1..Pages : Spent(k) + MaxRetries = Spent(k - 1)
  <2> SUFFICES ASSUME NEW k \in 1..Pages PROVE Spent(k) + MaxRetries = Spent(k - 1)
    OBVIOUS
  <2>1. Pages + 1 - k \in Nat /\ Pages + 1 - (k - 1) = (Pages + 1 - k) + 1
    BY <1>1
  <2> QED BY <1>2, <2>1 DEF Spent
<1>5. \A k \in 0..Pages : Spent(k) <= StaleCalls
  <2> SUFFICES ASSUME NEW k \in 0..Pages PROVE Spent(k) <= StaleCalls
    OBVIOUS
  <2>1. Pages + 1 - k \in Nat /\ k * MaxRetries \in Nat
    BY <1>1, <1>2
  <2>2. (Pages + 1) * MaxRetries = (Pages + 1 - k) * MaxRetries + k * MaxRetries
    BY <1>1, <2>1
  <2> QED BY <1>1, <1>2, <1>3, <2>1, <2>2 DEF Spent
<1> QED BY <1>3, <1>4, <1>5

LEMMA CallSteps ==
  ASSUME Inv, CallsInv, NEW r \in Runs, CallFails(r) \/ CallAnswers(r)
  PROVE  Continues(r)
<1> DEFINE y == run[r]
           Fine(x) == /\ x \in Run /\ x.calls = y.calls
                      /\ \/ /\ x.pc = "call"
                            /\ IF x.left = 0 THEN y.calls + 1 <= x.attempt
                               ELSE y.calls + 1 <= Spent(x.left) + x.attempt
                         \/ x.pc \in {"persist", "failed"} /\ x.attempt = 0 /\ x.left = 0
<1>1. /\ y # None /\ y.pc = "call" /\ Running(r) /\ CallsOK(y) /\ y \in Run
      /\ RunGood(y, saved) /\ y.chunk \in Index /\ y.calls \in Nat /\ y.attempt \in 0..MaxRetries
      /\ y.left \in 0..Pages /\ y.attempt < MaxRetries
  <2>1. y # None /\ y.pc = "call" /\ Running(r)
    BY DEF CallFails, CallAnswers, At, Running
  <2> QED BY <2>1, CallsKnown, Knows DEF RunGood, Run
<1>2. Pages \in Nat \ {0} /\ MaxRetries \in Nat \ {0} /\ StaleCalls \in Nat
  BY ConstantsAssumption
<1>3. IF y.left = 0 THEN y.calls <= y.attempt
      ELSE y.calls <= Spent(y.left) + y.attempt
  BY <1>1 DEF CallsOK, Spent
<1>4. y.calls + 1 <= StaleCalls
  <2>1. CASE y.left = 0
    BY <1>1, <1>2, <1>3, <2>1, Budget
  <2>2. CASE y.left # 0
    <3>1. y.left \in 1..Pages /\ y.left - 1 \in 0..Pages
      BY <1>1, <1>2, <2>2
    <3>2. Spent(y.left) + MaxRetries = Spent(y.left - 1) /\ Spent(y.left - 1) <= StaleCalls
          /\ Spent(y.left) \in Nat
      BY <1>1, <3>1, Budget
    <3> QED BY <1>1, <1>2, <1>3, <2>2, <3>2
  <2> QED BY <2>1, <2>2
<1>5. ASSUME NEW x \in Run, x.calls = y.calls PROVE Fine(EndOfChunk(x))
  <2>1. 0 \in 0..MaxRetries /\ 0 \in 0..Pages /\ x.chunk \in Index
    BY <1>2, <1>5 DEF Run
  <2> DEFINE failed == [x EXCEPT !.pc = "failed", !.failed = x.chunk, !.attempt = 0, !.left = 0]
             ended == [x EXCEPT !.pc = "persist", !.attempt = 0, !.left = 0]
  <2>2. /\ failed \in Run /\ failed.calls = x.calls /\ failed.attempt = 0 /\ failed.left = 0
        /\ failed.pc = "failed"
    BY <1>5, <2>1 DEF Run
  <2>3. /\ ended \in Run /\ ended.calls = x.calls /\ ended.attempt = 0 /\ ended.left = 0
        /\ ended.pc = "persist"
    BY <1>5, <2>1 DEF Run
  <2>4. EndOfChunk(x) = failed \/ EndOfChunk(x) = ended
    BY DEF EndOfChunk
  <2> HIDE DEF failed, ended
  <2> QED BY <1>5, <2>2, <2>3, <2>4
<1>6. ASSUME NEW x \in Run, x.calls = y.calls, x.left = y.left, x.pc = "call"
      PROVE  Fine(NextPage(x))
  <2>1. CASE x.left > 1
    <3> DEFINE z == [x EXCEPT !.left = @ - 1, !.attempt = 0]
    <3>1. y.left \in 1..Pages /\ y.left - 1 \in 0..Pages /\ y.left - 1 # 0
      BY <1>1, <1>2, <1>6, <2>1
    <3>2. /\ z \in Run /\ z.calls = y.calls /\ z.left = y.left - 1 /\ z.attempt = 0
          /\ z.pc = "call"
      <4>1. 0 \in 0..MaxRetries
        BY <1>2
      <4> QED BY <1>6, <3>1, <4>1 DEF Run
    <3>3. y.calls + 1 <= Spent(y.left - 1)
      <4>1. Spent(y.left) + MaxRetries = Spent(y.left - 1) /\ Spent(y.left) \in Nat
        BY <1>1, <3>1, Budget
      <4> QED BY <1>1, <1>2, <1>3, <3>1, <4>1
    <3>4. NextPage(x) = z
      BY <2>1 DEF NextPage
    <3>5. Spent(y.left - 1) \in Nat
      BY <3>1, Budget
    <3> HIDE DEF z
    <3>6. y.calls + 1 <= Spent(z.left) + z.attempt
      BY <3>2, <3>3, <3>5
    <3> QED BY <3>1, <3>2, <3>4, <3>6
  <2>2. CASE ~(x.left > 1)
    BY <1>5, <1>6, <2>2 DEF NextPage
  <2> QED BY <2>1, <2>2
<1>7. ASSUME CallFails(r) PROVE \E x : Fine(x) /\ Provider(r, x)
  <2> DEFINE x == [run[r] EXCEPT !.errors = TRUE, !.attempt = @ + 1]
  <2>1. y.attempt + 1 \in 0..MaxRetries
    BY <1>1, <1>2
  <2>2. /\ x \in Run /\ x.calls = y.calls /\ x.left = y.left /\ x.pc = "call"
        /\ x.attempt = y.attempt + 1
    BY <1>1, <2>1 DEF Run
  <2>3. Provider(r, IF x.attempt < MaxRetries THEN x ELSE NextPage(x))
    BY <1>7 DEF CallFails
  <2> HIDE DEF x
  <2>4. Fine(x)
    <3>1. Spent(y.left) \in Nat
      BY <1>1, Budget
    <3> QED BY <1>1, <1>3, <2>2, <3>1
  <2>5. Fine(NextPage(x))
    BY <1>6, <2>2
  <2> HIDE DEF Fine
  <2> QED BY <2>3, <2>4, <2>5
<1>8. ASSUME CallAnswers(r) PROVE \E x : Fine(x) /\ Provider(r, x)
  <2>1. CASE run[r].left > 0
    BY <1>1, <1>6, <1>8, <2>1 DEF CallAnswers
  <2>2. CASE ~(run[r].left > 0)
    <3>1. PICK got \in BOOLEAN, sparse \in 0..Pages :
            LET x == [run[r] EXCEPT !.got = got, !.left = sparse, !.attempt = 0] IN
              Provider(r, IF sparse > 0 THEN x ELSE EndOfChunk(x))
      BY <1>8, <2>2 DEF CallAnswers
    <3> DEFINE x == [run[r] EXCEPT !.got = got, !.left = sparse, !.attempt = 0]
    <3>2. sparse \in 0..Pages /\ 0 \in 0..MaxRetries
      BY <1>2
    <3>3. /\ x \in Run /\ x.calls = y.calls /\ x.left = sparse /\ x.pc = "call" /\ x.attempt = 0
      BY <1>1, <3>2 DEF Run
    <3>4. Provider(r, IF sparse > 0 THEN x ELSE EndOfChunk(x))
      BY <3>1
    <3> HIDE DEF x
    <3>5. sparse > 0 => Fine(x)
      <4>1. y.calls + 1 <= MaxRetries
        BY <1>1, <1>2, <1>3, <2>2
      <4>2. MaxRetries <= Spent(sparse) /\ Spent(sparse) \in Nat
        BY <3>2, Budget
      <4> QED BY <1>1, <1>2, <3>2, <3>3, <4>1, <4>2
    <3>6. Fine(EndOfChunk(x))
      BY <1>5, <3>3
    <3> HIDE DEF Fine
    <3> QED BY <3>4, <3>5, <3>6
  <2> QED BY <2>1, <2>2
<1>9. PICK x : Fine(x) /\ Provider(r, x)
  BY <1>7, <1>8
<1> DEFINE z == [x EXCEPT !.calls = @ + 1]
<1>10. /\ z \in Run /\ z.calls = y.calls + 1 /\ z.attempt = x.attempt /\ z.left = x.left
       /\ z.pc = x.pc
  BY <1>1, <1>9 DEF Run
<1>11. run' = [run EXCEPT ![r] = z] /\ UNCHANGED <<row, silent, rolling, boot>>
  BY <1>9 DEF Provider, Stay, fixedVars
<1> HIDE DEF z
<1>12. CallsOK(z) /\ z.pc \notin {"claim", "late"}
  BY <1>4, <1>9, <1>10 DEF CallsOK, Spent
<1> QED BY <1>1, <1>10, <1>11, <1>12 DEF Continues

LEMMA LastSteps ==
  ASSUME Inv, CallsInv, NEW r \in Runs,
         \/ VerifyProducts(r) \/ Finish(r) \/ ReadForError(r) \/ HandleError(r)
         \/ Raise(r) \/ Vanish(r)
  PROVE  Continues(r)
<1> DEFINE y == run[r]
<1>1. y # None /\ Running(r)
  BY DEF VerifyProducts, Finish, ReadForError, HandleError, Raise, Vanish, At, Running
<1>2. CallsOK(y) /\ y \in Run /\ y.calls \in Nat /\ StaleCalls \in Nat
  BY <1>1, CallsKnown
<1>3. CASE Finish(r) \/ HandleError(r) \/ Vanish(r)
  BY <1>1, <1>3 DEF Finish, HandleError, Vanish, Write, Ended, Continues, Stay, fixedVars
<1>4. CASE VerifyProducts(r) \/ Raise(r)
  <2> DEFINE failed == [run[r] EXCEPT !.pc = "failed"]
             verified == [run[r] EXCEPT !.pc = "finish", !.calls = 0]
  <2>1. /\ \/ run' = [run EXCEPT ![r] = failed] /\ UNCHANGED <<row, silent>>
           \/ /\ run' = Late([run EXCEPT ![r] = verified])
              /\ row' = Saving(r) /\ silent' = FALSE /\ y.pc = "verify"
        /\ UNCHANGED <<rolling, boot>>
    <3>1. Goto(r, "failed") = [run EXCEPT ![r] = failed]
      BY DEF Goto
    <3>2. Wrote(r, "finish") = [run EXCEPT ![r] = verified]
      BY <1>2 DEF Wrote, Inv, RunsGood, Run
    <3> QED BY <1>4, <3>1, <3>2 DEF VerifyProducts, Raise, Write, At, Stay, fixedVars
  <2>2. failed \in Run /\ failed.pc = "failed" /\ failed.calls = y.calls
    BY <1>2 DEF Run
  <2>3. /\ verified \in Run /\ verified.pc = "finish" /\ verified.calls = 0
        /\ verified.attempt = y.attempt /\ verified.left = y.left
    BY <1>2 DEF Run
  <2> HIDE DEF failed, verified
  <2>4. CallsOK(failed)
    BY <1>2, <2>2 DEF CallsOK
  <2>5. y.pc = "verify" => CallsOK(verified)
    BY <1>2, <2>3 DEF CallsOK
  <2>6. Saving(r).status = row.status
    BY StatusKept
  <2> QED BY <1>1, <2>1, <2>2, <2>3, <2>4, <2>5, <2>6 DEF Continues
<1>5. CASE ReadForError(r)
  <2> DEFINE m == ErrorMetadata(row, run[r].failed)
             x == [run[r] EXCEPT !.pc = "fail", !.read = m]
  <2>1. RowGood(m, saved)
    <3>1. RunGood(run[r], saved)
      BY <1>1, Knows
    <3>2. run[r].failed \in Index /\ (run[r].failed # 0 => Through(run[r].failed - 1, saved))
      BY <3>1 DEF RunGood, Run
    <3> QED BY <3>2, ErrorGood
  <2>2. run' = [run EXCEPT ![r] = x] /\ UNCHANGED <<row, silent>> /\ Stay
    BY <1>5 DEF ReadForError
  <2> HIDE DEF m
  <2>3. m \in Row
    BY <2>1 DEF RowGood
  <2>4. /\ x \in Run /\ x.pc = "fail" /\ x.calls = y.calls
    BY <1>2, <2>3 DEF Run
  <2> HIDE DEF x
  <2>5. CallsOK(x)
    BY <1>2, <2>4 DEF CallsOK
  <2> QED BY <1>1, <2>2, <2>4, <2>5 DEF Continues, Stay, fixedVars
<1> QED BY <1>3, <1>4, <1>5

\* A trigger begins a run when nobody else has one.
LEMMA Triggers ==
  ASSUME Inv, CallsInv, Alone, NEW r \in Runs, ReadTrigger(r) \/ ClaimTrigger(r) \/ LoseTrigger(r)
  PROVE  CallsInv' /\ Alone'
<1>1. UNCHANGED <<rolling, boot>>
  BY DEF ReadTrigger, ClaimTrigger, LoseTrigger, Stay, fixedVars
<1>2. CASE ReadTrigger(r)
  <2>1. run' = [run EXCEPT ![r] = NewRun] /\ UNCHANGED <<row, silent>>
    BY <1>2 DEF ReadTrigger
  <2>2. NewRun.pc = "claim" /\ CallsOK(NewRun)
    BY ConstantsAssumption DEF NewRun, CallsOK
  <2>3. ~rolling => \A q \in Runs : ~Running(q)
    BY <1>2 DEF ReadTrigger, CanResumeStale, Alone
  <2>4. \A q \in Runs \ {r} : run'[q] = run[q]
    BY <2>1 DEF Inv, RunsGood
  <2>5. run'[r] = NewRun
    BY <2>1 DEF Inv, RunsGood
  <2> HIDE DEF NewRun
  <2>6. CallsInv'
    BY <2>2, <2>4, <2>5 DEF CallsInv, CallsOK
  <2>7. ~rolling => \A q \in Runs : ~Running(q)'
    BY <2>2, <2>3, <2>4, <2>5 DEF Running
  <2> QED BY <1>1, <2>6, <2>7 DEF Alone
<1>3. CASE ClaimTrigger(r) \/ LoseTrigger(r)
  <2> DEFINE x == IF ClaimTrigger(r) THEN [run[r] EXCEPT !.pc = "fetch"] ELSE None
  <2>1. run[r] # None /\ run[r] \in Run /\ CallsOK(run[r]) /\ run[r].pc \in {"claim", "late"}
    BY <1>3, CallsKnown DEF ClaimTrigger, LoseTrigger, At
  <2>2. run' = [run EXCEPT ![r] = x] \/ run' = Late([run EXCEPT ![r] = x])
    BY <1>3 DEF ClaimTrigger, LoseTrigger, Write, Goto, Ended
  <2>3. x = None \/ (x \in Run /\ x.pc = "fetch" /\ CallsOK(x))
    <3> DEFINE z == [run[r] EXCEPT !.pc = "fetch"]
    <3>1. /\ z \in Run /\ z.pc = "fetch" /\ z.calls = run[r].calls
          /\ z.attempt = run[r].attempt /\ z.left = run[r].left
      BY <2>1 DEF Run
    <3> HIDE DEF z
    <3>2. CallsOK(z)
      BY <2>1, <3>1 DEF CallsOK
    <3> QED BY <3>1, <3>2 DEF z
  <2>4. ASSUME ClaimTrigger(r) PROVE /\ row'.status = "processing" /\ silent' = FALSE
                                     /\ run' = Late([run EXCEPT ![r] = x])
                                     /\ At(r, "claim") /\ Served
    BY <2>4 DEF ClaimTrigger, Write, Goto, Inv, RowGood, Row
  <2>5. ~ClaimTrigger(r) => UNCHANGED <<row, silent>> /\ x = None
    BY <1>3 DEF LoseTrigger
  <2> HIDE DEF x
  <2>6. run'[r] = x
    BY <2>2, <2>3 DEF Inv, RunsGood, Late
  <2>7. ASSUME NEW q \in Runs \ {r}
        PROVE  /\ Running(q)' => Running(q)
               /\ At(q, "claim")' => At(q, "claim")
               /\ run'[q] # None => CallsOK(run'[q])
    <3>1. \/ run'[q] = run[q]
          \/ run[q] # None /\ run[q].pc = "claim" /\ run'[q] = [run[q] EXCEPT !.pc = "late"]
      BY <2>2, <2>3, Others
    <3>2. CASE run'[q] = run[q]
      BY <3>2 DEF Running, At, CallsInv
    <3>3. CASE run[q] # None /\ run[q].pc = "claim" /\ run'[q] = [run[q] EXCEPT !.pc = "late"]
      <4>1. CallsOK(run[q]) /\ run[q] \in Run
        BY <3>3, Knows DEF CallsInv
      <4>2. /\ run'[q].pc = "late" /\ run'[q].calls = run[q].calls
            /\ run'[q].attempt = run[q].attempt /\ run'[q].left = run[q].left
        BY <3>3, <4>1 DEF Run
      <4> QED BY <3>3, <4>1, <4>2 DEF CallsOK, Running, At
    <3> QED BY <3>1, <3>2, <3>3
  <2>8. CallsInv'
    <3>1. ASSUME NEW q \in Runs, run'[q] # None PROVE CallsOK(run'[q])
      BY <2>3, <2>6, <2>7, <3>1
    <3> QED BY <3>1 DEF CallsInv, CallsOK
  <2>9. CASE ClaimTrigger(r)
    <3>1. ~rolling => boot = "up" /\ \A q \in Runs : ~Running(q)
      BY <2>4, <2>9 DEF Alone, Served, At, Running
    <3>2. \A q \in Runs \ {r} : ~At(q, "claim")'
      <4> SUFFICES ASSUME NEW q \in Runs \ {r} PROVE ~At(q, "claim")'
        OBVIOUS
      <4>1. [run EXCEPT ![r] = x][q] = run[q]
        BY DEF Inv, RunsGood
      <4>2. run'[q] = IF run[q] # None /\ run[q].pc = "claim"
                      THEN [run[q] EXCEPT !.pc = "late"] ELSE run[q]
        BY <2>4, <2>9, <4>1 DEF Late
      <4>3. run[q] # None => [run[q] EXCEPT !.pc = "late"].pc = "late"
        BY Knows DEF Run
      <4> QED BY <4>2, <4>3 DEF At
    <3> QED BY <1>1, <2>4, <2>7, <2>8, <2>9, <3>1, <3>2 DEF Alone
  <2>10. CASE ~ClaimTrigger(r)
    <3>1. ~Running(r)' /\ ~At(r, "claim")'
      BY <2>5, <2>6, <2>10 DEF Running, At
    <3>2. \A q \in Runs : /\ Running(q)' => Running(q)
                          /\ At(q, "claim")' => At(q, "claim")
      BY <2>7, <3>1
    <3>3. UNCHANGED <<rolling, boot, row, silent>>
      BY <1>1, <2>5, <2>10
    <3>4. Alone'
      BY <3>2, <3>3 DEF Alone
    <3> QED BY <2>8, <3>4
  <2> QED BY <2>9, <2>10
<1> QED BY <1>2, <1>3

\* What the world does leaves runs alone or stops them all.
LEMMA Worlds ==
  ASSUME Inv, CallsInv, Alone,
         GoesSilent \/ Restart \/ NewServer \/ ReadInterrupted \/ MarkInterrupted
           \/ UNCHANGED vars
  PROVE  CallsInv' /\ Alone'
<1>1. CASE GoesSilent
  <2>1. \A r \in Runs : ~Running(r)
    <3> SUFFICES ASSUME NEW r \in Runs, Running(r) PROVE FALSE
      OBVIOUS
    <3>1. run[r] # None /\ run[r].calls > StaleCalls
      BY <1>1 DEF GoesSilent, Running
    <3> QED BY <3>1, CallsKnown DEF CallsOK
  <2> QED BY <1>1, <2>1 DEF GoesSilent, fixedVars, CallsInv, CallsOK, Alone, Running, At
<1>2. CASE Restart
  BY <1>2 DEF Restart, fixedVars, CallsInv, Alone, Running
<1>3. CASE NewServer
  BY <1>3 DEF NewServer, fixedVars, CallsInv, CallsOK, Alone, Running, At
<1>4. CASE ReadInterrupted
  BY <1>4 DEF ReadInterrupted, fixedVars, CallsInv, CallsOK, Alone, Running, At
<1>5. CASE MarkInterrupted
  <2>1. ~rolling => \A r \in Runs : ~Running(r)
    BY <1>5 DEF MarkInterrupted, Alone
  <2>2. run' = Late(run) /\ UNCHANGED rolling
    BY <1>5 DEF MarkInterrupted, Write, fixedVars
  <2>3. ASSUME NEW q \in Runs
        PROVE  /\ Running(q)' => Running(q)
               /\ run'[q] # None => CallsOK(run'[q])
    <3>1. run'[q] = IF run[q] # None /\ run[q].pc = "claim"
                    THEN [run[q] EXCEPT !.pc = "late"] ELSE run[q]
      BY <2>2 DEF Late
    <3>2. CASE run[q] # None /\ run[q].pc = "claim"
      <4>1. CallsOK(run[q]) /\ run[q] \in Run
        BY <3>2, Knows DEF CallsInv
      <4>2. /\ run'[q].pc = "late" /\ run'[q].calls = run[q].calls
            /\ run'[q].attempt = run[q].attempt /\ run'[q].left = run[q].left
        BY <3>1, <3>2, <4>1 DEF Run
      <4> QED BY <3>2, <4>1, <4>2 DEF CallsOK, Running
    <3>3. CASE ~(run[q] # None /\ run[q].pc = "claim")
      BY <3>1, <3>3 DEF Running, CallsInv
    <3> QED BY <3>2, <3>3
  <2>4. CallsInv'
    BY <2>3 DEF CallsInv, CallsOK
  <2>5. ~rolling => \A q \in Runs : ~Running(q)'
    BY <2>1, <2>3
  <2> QED BY <2>2, <2>4, <2>5 DEF Alone
<1>6. CASE UNCHANGED vars
  BY <1>6 DEF vars, CallsInv, CallsOK, Alone, Running, At
<1> QED BY <1>1, <1>2, <1>3, <1>4, <1>5, <1>6

LEMMA AloneInit == Init => CallsInv /\ Alone
  BY DEF Init, CallsInv, Alone, Running

LEMMA AloneNext == Inv /\ CallsInv /\ Alone /\ [Next]_vars => CallsInv' /\ Alone'
<1> SUFFICES ASSUME Inv, CallsInv, Alone, [Next]_vars PROVE CallsInv' /\ Alone'
  OBVIOUS
<1>1. ASSUME NEW r \in Runs, Step(r) PROVE CallsInv' /\ Alone'
  BY <1>1, Triggers, QuietSteps, StoringSteps, CallSteps, LastSteps, Goes DEF Step
<1>2. ASSUME NEW r \in Runs, ReadTrigger(r) \/ Raise(r) \/ Vanish(r) PROVE CallsInv' /\ Alone'
  BY <1>2, Triggers, LastSteps, Goes
<1> QED BY <1>1, <1>2, Worlds DEF Next, Recover

\* docs/configuration.md:89, for any number of requests, chunks and pages: while
\* the calls for a chunk fit in the ninety minutes, servers that do not overlap
\* run one extraction of a flyer at a time (trigger_extraction).
THEOREM RunsExclude == Spec => []OneRun
<1>1. Spec => [](Inv /\ CallsInv /\ Alone)
  BY InvInit, InvNext, AloneInit, AloneNext, PTL DEF Spec
<1>2. Alone => OneRun
  <2> SUFFICES ASSUME Alone, ~rolling PROVE Cardinality({r \in Runs : Running(r)}) <= 1
    BY DEF OneRun
  <2> DEFINE S == {r \in Runs : Running(r)}
  <2>1. CASE S = {}
    BY <2>1, FS_EmptySet
  <2>2. ASSUME NEW r \in S PROVE Cardinality(S) <= 1
    <3>1. S = {r}
      BY <2>2 DEF Alone
    <3> HIDE DEF S
    <3> QED BY <3>1, FS_Singleton
  <2> QED BY <2>1, <2>2
<1> QED BY <1>1, <1>2, PTL
-----------------------------------------------------------------------------
\* Without overlapping servers a trigger that may still claim the flyer has not
\* seen it done, and recovery marks a flyer that is still in processing.
DoneInv ==
  ~rolling =>
    /\ boot = "mark" => row.status = "processing"
    /\ row.status = "done" => \A r \in Runs : ~At(r, "claim")

\* Every step of a run that holds the flyer goes on with it or ends.
LEMMA RunsContinue ==
  ASSUME Inv, CallsInv, NEW r \in Runs, Step(r) \/ Raise(r) \/ Vanish(r)
  PROVE  Continues(r) \/ ClaimTrigger(r) \/ LoseTrigger(r)
  BY QuietSteps, StoringSteps, CallSteps, LastSteps DEF Step

\* Whoever goes on with a flyer that is its own leaves nobody who may claim it.
LEMMA DoneGoes ==
  ASSUME Inv, Alone, ~rolling, NEW r \in Runs, Continues(r)
  PROVE  row.status = "processing" /\ DoneInv'
<1>1. /\ boot = "up" /\ row.status = "processing"
      /\ \A q \in Runs \ {r} : ~At(q, "claim")
  BY DEF Alone, Continues, Inv, Rest
<1>2. PICK x : /\ x = None \/ (x \in Run /\ x.pc # "claim")
               /\ run' = [run EXCEPT ![r] = x] \/ run' = Late([run EXCEPT ![r] = x])
  BY DEF Continues
<1>3. ~At(r, "claim")'
  <2>1. run'[r] = x
    BY <1>2 DEF Inv, RunsGood, Late
  <2> QED BY <1>2, <2>1 DEF At
<1>4. ASSUME NEW q \in Runs \ {r} PROVE ~At(q, "claim")'
  <2>1. run'[q].pc = "claim" => run'[q] = run[q]
    BY <1>2, Others
  <2> QED BY <1>1, <2>1 DEF At
<1>5. boot' = "up"
  BY <1>1 DEF Continues
<1> QED BY <1>1, <1>3, <1>4, <1>5 DEF DoneInv

\* A trigger reads a flyer that is not done, and claims it as it read it.
LEMMA DoneTriggers ==
  ASSUME Inv, DoneInv, ~rolling, NEW r \in Runs,
         ReadTrigger(r) \/ ClaimTrigger(r) \/ LoseTrigger(r)
  PROVE  DoneInv' /\ (row.status = "done" => UNCHANGED row)
<1>1. CASE ReadTrigger(r)
  <2>1. boot' = "up" /\ UNCHANGED row /\ row.status # "done"
    BY <1>1 DEF ReadTrigger, Served, CanResumeStale
  <2> QED BY <2>1 DEF DoneInv
<1>2. CASE ClaimTrigger(r)
  <2>1. boot' = "up" /\ row'.status = "processing" /\ row.status # "done"
    BY <1>2 DEF ClaimTrigger, Served, Write, Stay, Inv, RowGood, Row, DoneInv
  <2> QED BY <2>1 DEF DoneInv
<1>3. CASE LoseTrigger(r)
  <2>1. UNCHANGED <<boot, row>> /\ run' = [run EXCEPT ![r] = None]
    BY <1>3 DEF LoseTrigger, Stay, Ended
  <2>2. \A q \in Runs : At(q, "claim")' => At(q, "claim")
    BY <2>1 DEF At, Inv, RunsGood
  <2> QED BY <2>1, <2>2 DEF DoneInv
<1> QED BY <1>1, <1>2, <1>3

\* Nothing runs between the read of recovery and its mark.
LEMMA DoneWorlds ==
  ASSUME Inv, DoneInv, ~rolling,
         GoesSilent \/ Restart \/ NewServer \/ ReadInterrupted \/ MarkInterrupted
           \/ UNCHANGED vars
  PROVE  DoneInv' /\ (row.status = "done" => UNCHANGED row)
<1>1. CASE GoesSilent \/ UNCHANGED vars
  BY <1>1 DEF GoesSilent, vars, DoneInv, At
<1>2. CASE Restart
  BY <1>2 DEF Restart, DoneInv, At
<1>3. CASE NewServer
  BY <1>3 DEF NewServer
<1>4. CASE ReadInterrupted
  BY <1>4 DEF ReadInterrupted, DoneInv, At
<1>5. CASE MarkInterrupted
  <2>1. boot' = "up" /\ row.status = "processing"
    BY <1>5 DEF MarkInterrupted, DoneInv
  <2>2. row'.status = "error"
    <3>1. interrupted \in Row
      BY <1>5 DEF MarkInterrupted, Inv, Rest, RowGood
    <3> QED BY <1>5, <3>1 DEF MarkInterrupted, Write, Row
  <2> QED BY <2>1, <2>2 DEF DoneInv
<1> QED BY <1>1, <1>2, <1>3, <1>4, <1>5

LEMMA DoneNext ==
  ASSUME Inv, CallsInv, Alone, DoneInv, [Next]_vars
  PROVE  DoneInv' /\ (~rolling /\ row.status = "done" => row'.status = "done")
<1>1. CASE rolling
  <2>1. ASSUME NEW r \in Runs, Step(r) \/ ReadTrigger(r) \/ Raise(r) \/ Vanish(r)
        PROVE  UNCHANGED rolling
    BY <2>1, RunsContinue DEF Continues, ReadTrigger, ClaimTrigger, LoseTrigger, Stay, fixedVars
  <2>2. UNCHANGED rolling
    BY <2>1 DEF Next, Recover, GoesSilent, Restart, NewServer, ReadInterrupted,
                MarkInterrupted, fixedVars, vars
  <2> QED BY <1>1, <2>2 DEF DoneInv
<1>2. CASE ~rolling
  <2>1. ASSUME NEW r \in Runs, Step(r) \/ ReadTrigger(r) \/ Raise(r) \/ Vanish(r)
        PROVE  DoneInv' /\ (row.status = "done" => row'.status = "done")
    BY <1>2, <2>1, RunsContinue, DoneGoes, DoneTriggers
  <2> QED BY <1>2, <2>1, DoneWorlds DEF Next, Recover
<1> QED BY <1>1, <1>2

\* With one server, however many triggers, failures and restarts: no late handler
\* of errors, recovery or second run takes a flyer back that is done
\* (_handle_error, trigger_extraction, ExtractionStartupRecoveryService).
THEOREM DoneIsFinal == Spec => DoneStays
<1>1. Spec => [](Inv /\ CallsInv /\ Alone)
  BY InvInit, InvNext, AloneInit, AloneNext, PTL DEF Spec
<1>2. Init => DoneInv
  BY DEF Init, DoneInv
<1>3. /\ Inv /\ CallsInv /\ Alone /\ DoneInv /\ [Next]_vars => DoneInv'
      /\ Inv /\ CallsInv /\ Alone /\ DoneInv /\ [Next]_vars =>
           [~rolling /\ row.status = "done" => row'.status = "done"]_vars
  BY DoneNext
<1> QED BY <1>1, <1>2, <1>3, PTL DEF Spec, DoneStays
=============================================================================
