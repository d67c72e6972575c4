-------------------------- MODULE IngestRangeProofs --------------------------
(***************************************************************************)
(* Proofs about IngestRange for every number of workers, chain length,     *)
(* set of chains and number of faults, when START_HEIGHT is not used.      *)
(***************************************************************************)
EXTENDS IngestRange, FiniteSetTheorems, TLAPS

(***************************************************************************)
(* Typing of the records the actions update.                               *)
(***************************************************************************)

LEMMA LocalTyped ==
    ASSUME NEW p \in PCs, NEW h \in 0..MaxHeight
    PROVE  Local(p, h) \in WorkerType
BY ConstantsAssumption DEF ConstantsAssumption, Local, WorkerType, HashesOrNone

LEMMA IdleTyped == Idle \in WorkerType
BY ConstantsAssumption, LocalTyped DEF ConstantsAssumption, Idle, PCs

LEMMA RunTyped ==
    ASSUME NEW up \in BOOLEAN, NEW s \in 1..MaxHeight, NEW e \in 0..MaxHeight
    PROVE  Run(up, s, e) \in RunType
BY ConstantsAssumption DEF ConstantsAssumption, Run, RunType, Heights, HashesOrNone

LEMMA NoRunTyped == NoRun \in RunType
BY ConstantsAssumption DEF ConstantsAssumption, NoRun, Run, RunType, Heights, HashesOrNone

\* Replacing the record of one worker, or its program counter, keeps the type.
LEMMA WorkerReplaced ==
    ASSUME worker \in [Workers -> WorkerType], NEW w \in Workers, NEW r \in WorkerType
    PROVE  [worker EXCEPT ![w] = r] \in [Workers -> WorkerType]
OBVIOUS

LEMMA GotoTyped ==
    ASSUME worker \in [Workers -> WorkerType], NEW w \in Workers, NEW p \in PCs, Goto(w, p)
    PROVE  /\ worker' \in [Workers -> WorkerType]
           /\ worker' = [worker EXCEPT ![w] = [worker[w] EXCEPT !.pc = p]]
BY DEF Goto, WorkerType

\* Every step keeps the shape of the rows and locals; Record needs to know that
\* the height it records was claimed in the range.
LEMMA TypeStep ==
    ASSUME TypeOK, ClaimsInRange, [Next]_vars
    PROVE  TypeOK'
<1> USE DEF TypeOK
<1>1. CASE TipGrows
  BY <1>1, ConstantsAssumption DEF ConstantsAssumption, TipGrows, database
<1>2. CASE ChainReplaced
  BY <1>2 DEF ChainReplaced, database
<1>3. CASE StartRun
  <2>1. PICK s \in {cursor.height + 1} \union StartOverrides :
           /\ s <= tip
           /\ run' = Run(TRUE, s, tip)
    BY <1>3 DEF StartRun
  <2>2. s \in 1..MaxHeight
    BY <2>1, ConstantsAssumption DEF ConstantsAssumption, CursorType, Heights
  <2>3. run' \in RunType
    BY <2>1, <2>2, RunTyped
  <2>4. Local("loop", 0) \in WorkerType
    BY ConstantsAssumption, LocalTyped DEF ConstantsAssumption, PCs
  <2>5. QED BY <1>3, <2>3, <2>4 DEF StartRun, node, database
<1>4. CASE FinishRun
  BY <1>4, IdleTyped, NoRunTyped DEF FinishRun, node, database
<1>5. CASE Crash
  BY <1>5, IdleTyped, NoRunTyped, ConstantsAssumption
     DEF ConstantsAssumption, Crash, Fault, node, database
<1>6. ASSUME NEW w \in Workers, Work(w) PROVE TypeOK'
  <2> worker[w] \in WorkerType
    OBVIOUS
  <2>1. CASE Stop(w)
    BY <2>1, GotoTyped DEF Stop, PCs, node, database
  <2>2. CASE Claim(w)
    <3>1. run.next \in 1..MaxHeight
      BY <2>2, ConstantsAssumption DEF ConstantsAssumption, Claim, RunType
    <3>2. run' \in RunType
      BY <2>2, <3>1, ConstantsAssumption DEF ConstantsAssumption, Claim, RunType
    <3>3. Local("read", run.next) \in WorkerType
      BY <3>1, LocalTyped DEF PCs
    <3>4. worker' \in [Workers -> WorkerType]
      BY <2>2, <3>3 DEF Claim
    <3>5. QED BY <2>2, <3>2, <3>4 DEF Claim, node, database
  <2>3. CASE Read(w)
    <3>1. worker' \in [Workers -> WorkerType]
      BY <2>3 DEF Read, WorkerType, PCs, HashesOrNone
    <3>2. QED BY <2>3, <3>1 DEF Read, node, database
  <2>4. CASE Commit(w)
    <3>1. failureRows' \in [Heights -> 0..2]
      BY <2>4, ConstantsAssumption DEF ConstantsAssumption, Commit, InsertDecodeFailures
    <3>2. account' \in [first : 0..MaxHeight, last : 0..MaxHeight]
      BY <2>4 DEF Commit, UpsertAccount, WorkerType
    <3>3. blocks' \in [Heights -> HashesOrNone]
      BY <2>4 DEF Commit, WorkerType
    <3>4. worker' \in [Workers -> WorkerType]
      BY <2>4, GotoTyped DEF Commit, PCs
    <3>5. QED BY <2>4, <3>1, <3>2, <3>3, <3>4 DEF Commit, node
  <2>5. CASE Halt(w)
    <3>1. cursor' \in CursorType
      BY <2>5 DEF Halt, CursorType, Statuses
    <3>2. worker' \in [Workers -> WorkerType]
      BY <2>5, GotoTyped DEF Halt, PCs
    <3>3. QED BY <2>5, <3>1, <3>2 DEF Halt, node, database
  <2>6. CASE Record(w)
    <3> DEFINE h == worker[w].height
               ahead == run.completedAhead \union {h}
               hashes == [run.hashByHeight EXCEPT ![h] = worker[w].hash]
    <3>1. PICK to \in 0..MaxHeight :
             /\ AdvanceWatermark(ahead, run.lastContiguous, to)
             /\ run' = [run EXCEPT !.completedAhead = ahead \ ((run.lastContiguous + 1)..to),
                                   !.hashByHeight = hashes,
                                   !.lastContiguous = to]
             /\ worker' = [worker EXCEPT ![w] =
                   IF to = run.lastContiguous THEN Local("loop", 0)
                   ELSE [Local("stamp", h) EXCEPT !.mark = to, !.markHash = hashes[to]]]
      BY <2>6 DEF Record
    <3>2. h \in Heights
      BY <2>6 DEF Record, ClaimsInRange, RunType, Heights, WorkerType
    <3>3. hashes \in [Heights -> HashesOrNone]
      BY DEF RunType, WorkerType
    <3>4. run' \in RunType
      BY <3>1, <3>2, <3>3 DEF RunType
    <3>5. to # run.lastContiguous => to \in Heights
      BY <3>1 DEF AdvanceWatermark, RunType, Heights
    <3>6. worker' \in [Workers -> WorkerType]
      <4>1. CASE to = run.lastContiguous
        <5>1. Local("loop", 0) \in WorkerType
          BY ConstantsAssumption, LocalTyped DEF ConstantsAssumption, PCs
        <5>2. QED BY <3>1, <4>1, <5>1
      <4>2. CASE to # run.lastContiguous
        <5>1. Local("stamp", h) \in WorkerType
          BY <3>2, LocalTyped DEF PCs, Heights
        <5>2. hashes[to] \in HashesOrNone
          BY <3>3, <3>5, <4>2
        <5>3. [Local("stamp", h) EXCEPT !.mark = to, !.markHash = hashes[to]] \in WorkerType
          BY <5>1, <5>2 DEF WorkerType
        <5>4. QED BY <3>1, <4>2, <5>3
      <4>3. QED BY <4>1, <4>2
    <3>7. QED BY <2>6, <3>4, <3>6 DEF Record, node, database
  <2>7. CASE Stamp(w)
    <3>1. cursor' \in CursorType
      BY <2>7 DEF Stamp, CursorType, Statuses, WorkerType
    <3>2. worker' \in [Workers -> WorkerType]
      BY <2>7, GotoTyped DEF Stamp, PCs
    <3>3. QED BY <2>7, <3>1, <3>2 DEF Stamp, node, database
  <2>8. CASE Prune(w)
    <3>1. run' \in RunType
      BY <2>8 DEF Prune, RunType, HashesOrNone
    <3>2. Local("loop", 0) \in WorkerType
      BY ConstantsAssumption, LocalTyped DEF ConstantsAssumption, PCs
    <3>3. QED BY <2>8, <3>1, <3>2 DEF Prune, node, database
  <2>9. CASE Catch(w)
    <3>1. run' \in RunType
      BY <2>9 DEF Catch, RunType, WorkerType
    <3>2. worker' \in [Workers -> WorkerType]
      BY <2>9, GotoTyped DEF Catch, PCs
    <3>3. QED BY <2>9, <3>1, <3>2 DEF Catch, node, database
  <2>10. QED BY <1>6, <2>1, <2>2, <2>3, <2>4, <2>5, <2>6, <2>7, <2>8, <2>9 DEF Work
<1>7. ASSUME NEW w \in Workers, Fail(w) PROVE TypeOK'
  <2>1. faults' \in 0..MaxFaults
    BY <1>7, ConstantsAssumption
       DEF ConstantsAssumption, Fail, SourceFails, HaltFails, StampFails, Fault
  <2>2. worker' \in [Workers -> WorkerType]
    BY <1>7, GotoTyped DEF Fail, SourceFails, HaltFails, StampFails, PCs
  <2>3. QED BY <1>7, <2>1, <2>2 DEF Fail, SourceFails, HaltFails, StampFails, node, database
<1>8. CASE UNCHANGED vars
  BY <1>8 DEF vars
<1>9. QED
  BY <1>1, <1>2, <1>3, <1>4, <1>5, <1>6, <1>7, <1>8 DEF Next

(***************************************************************************)
(* What a worker's step does to the workers.                               *)
(***************************************************************************)

\* A step of one worker leaves the others where they are.
LEMMA OthersUnchanged ==
    ASSUME TypeOK, NEW w \in Workers, Work(w) \/ Fail(w)
    PROVE  \A v \in Workers \ {w} : worker'[v] = worker[v]
BY DEF TypeOK, Work, Fail, Stop, Claim, Read, Commit, Halt, Record, Stamp, Prune, Catch,
       SourceFails, HaltFails, StampFails, Goto

\* A step that only moves the program counter keeps the rest of the local state.
LEMMA GotoEffect ==
    ASSUME TypeOK, NEW w \in Workers, NEW p \in PCs, Goto(w, p)
    PROVE  /\ worker'[w].pc = p
           /\ worker'[w].height = worker[w].height
           /\ worker'[w].hash = worker[w].hash
           /\ worker'[w].mark = worker[w].mark
           /\ worker'[w].markHash = worker[w].markHash
BY DEF TypeOK, Goto, WorkerType

\* The watermark move of Record, with the worker's next state.
LEMMA RecordEffect ==
    ASSUME TypeOK, ClaimsInRange, NEW w \in Workers, Record(w)
    PROVE  \E to \in run.lastContiguous..MaxHeight :
              /\ (run.lastContiguous + 1)..to \subseteq run.completedAhead \union {worker[w].height}
              /\ to + 1 \notin run.completedAhead \union {worker[w].height}
              /\ run'.lastContiguous = to
              /\ run'.completedAhead = (run.completedAhead \union {worker[w].height})
                                          \ ((run.lastContiguous + 1)..to)
              /\ run'.hashByHeight = [run.hashByHeight EXCEPT ![worker[w].height] = worker[w].hash]
              /\ run'.up = run.up /\ run'.start = run.start /\ run'.end = run.end
              /\ run'.next = run.next /\ run'.failedHeight = run.failedHeight
              /\ to = run.lastContiguous => worker'[w].pc = "loop"
              /\ to # run.lastContiguous =>
                    /\ worker'[w].pc = "stamp"
                    /\ worker'[w].height = worker[w].height
                    /\ worker'[w].mark = to
                    /\ worker'[w].markHash = run'.hashByHeight[to]
<1> DEFINE h == worker[w].height
           ahead == run.completedAhead \union {h}
           hashes == [run.hashByHeight EXCEPT ![h] = worker[w].hash]
<1>1. PICK to \in 0..MaxHeight :
         /\ AdvanceWatermark(ahead, run.lastContiguous, to)
         /\ run' = [run EXCEPT !.completedAhead = ahead \ ((run.lastContiguous + 1)..to),
                               !.hashByHeight = hashes,
                               !.lastContiguous = to]
         /\ worker' = [worker EXCEPT ![w] =
               IF to = run.lastContiguous THEN Local("loop", 0)
               ELSE [Local("stamp", h) EXCEPT !.mark = to, !.markHash = hashes[to]]]
  BY DEF Record
<1>2. to \in run.lastContiguous..MaxHeight
  BY <1>1 DEF AdvanceWatermark, TypeOK, RunType
<1>3. /\ run'.lastContiguous = to
      /\ run'.completedAhead = ahead \ ((run.lastContiguous + 1)..to)
      /\ run'.hashByHeight = hashes
      /\ run'.up = run.up /\ run'.start = run.start /\ run'.end = run.end
      /\ run'.next = run.next /\ run'.failedHeight = run.failedHeight
  BY <1>1 DEF TypeOK, RunType
<1>4. to = run.lastContiguous => worker'[w].pc = "loop"
  BY <1>1 DEF TypeOK, Local
<1>5. to # run.lastContiguous =>
         /\ worker'[w].pc = "stamp" /\ worker'[w].height = h
         /\ worker'[w].mark = to /\ worker'[w].markHash = hashes[to]
  <2>1. ASSUME to # run.lastContiguous
        PROVE worker'[w] = [Local("stamp", h) EXCEPT !.mark = to, !.markHash = hashes[to]]
    BY <1>1, <2>1 DEF TypeOK
  <2>2. QED BY <2>1 DEF Local
<1>6. QED BY <1>1, <1>2, <1>3, <1>4, <1>5 DEF AdvanceWatermark

(***************************************************************************)
(* Preservation of the parts of the inductive invariant.                   *)
(***************************************************************************)

\* A run that ends, or dies, leaves no active worker.
LEMMA ClaimsInRangeStep ==
    ASSUME IInv, [Next]_vars
    PROVE  ClaimsInRange'
<1> TypeOK /\ ClaimsInRange
  BY DEF IInv
<1>1. CASE TipGrows \/ ChainReplaced \/ UNCHANGED vars
  BY <1>1 DEF ClaimsInRange, TipGrows, ChainReplaced, vars
<1>2. CASE StartRun
  BY <1>2, ConstantsAssumption
     DEF ConstantsAssumption, ClaimsInRange, StartRun, Run, Local, TypeOK, CursorType, Heights
<1>3. CASE FinishRun \/ Crash
  BY <1>3 DEF ClaimsInRange, FinishRun, Crash, NoRun, Run, Idle, Local
<1>4. ASSUME NEW w \in Workers, Work(w) \/ Fail(w) PROVE ClaimsInRange'
  <2> \A v \in Workers \ {w} : worker'[v] = worker[v]
    BY <1>4, OthersUnchanged
  <2>1. CASE Stop(w)
    BY <2>1, GotoEffect DEF Stop, ClaimsInRange, PCs
  <2>2. CASE Claim(w)
    <3>1. worker'[w] = Local("read", run.next) /\ run'.next = run.next + 1
          /\ run'.start = run.start /\ run'.up = run.up
      BY <2>2 DEF Claim, TypeOK, RunType
    <3>2. run.next \in run'.start..(run'.next - 1) /\ run'.up
      BY <3>1, <2>2 DEF ClaimsInRange, TypeOK, RunType, Claim
    <3>3. QED BY <3>1, <3>2 DEF ClaimsInRange, Local, TypeOK, RunType, WorkerType
  <2>3. CASE Read(w)
    <3>1. worker'[w].height = worker[w].height /\ worker[w].pc = "read"
      BY <2>3 DEF Read, TypeOK, WorkerType
    <3>2. QED BY <2>3, <3>1 DEF Read, ClaimsInRange
  <2>4. CASE Commit(w)
    BY <2>4, GotoEffect DEF Commit, ClaimsInRange, PCs
  <2>5. CASE Halt(w)
    BY <2>5, GotoEffect DEF Halt, ClaimsInRange, PCs
  <2>6. CASE Record(w)
    BY <2>6, RecordEffect DEF ClaimsInRange, Record
  <2>7. CASE Stamp(w)
    BY <2>7, GotoEffect DEF Stamp, ClaimsInRange, PCs
  <2>8. CASE Prune(w)
    BY <2>8 DEF Prune, ClaimsInRange, Local, TypeOK, RunType
  <2>9. CASE Catch(w)
    BY <2>9, GotoEffect DEF Catch, ClaimsInRange, PCs, TypeOK, RunType
  <2>10. CASE Fail(w)
    BY <2>10, GotoEffect DEF Fail, SourceFails, HaltFails, StampFails, ClaimsInRange, PCs
  <2>11. QED
    BY <1>4, <2>1, <2>2, <2>3, <2>4, <2>5, <2>6, <2>7, <2>8, <2>9, <2>10 DEF Work
<1>5. QED BY <1>1, <1>2, <1>3, <1>4 DEF Next

LEMMA ClaimedHeight ==
    ASSUME TypeOK, ClaimsInRange, NEW w \in Workers, worker[w].pc \notin {"loop", "done"}
    PROVE  worker[w].height \in Heights /\ worker[w].height < run.next
<1>1. worker[w].height \in run.start..(run.next - 1)
  BY DEF ClaimsInRange
<1>2. run.start \in 1..MaxHeight /\ run.next \in 1..(MaxHeight + 1)
  BY DEF TypeOK, RunType
<1>3. QED BY <1>1, <1>2, ConstantsAssumption DEF ConstantsAssumption, Heights

\* No step rewrites a stored block: only Commit writes, and FetchedHashes says
\* what it finds.
LEMMA BlocksKept ==
    ASSUME IInv, [Next]_vars
    PROVE  \A h \in Heights : Stored(h) => blocks'[h] = blocks[h]
<1> TypeOK /\ FetchedHashes
  BY DEF IInv
<1>1. CASE blocks' = blocks
  BY <1>1
<1>2. CASE \E w \in Workers : Commit(w)
  BY <1>2 DEF Commit, FetchedHashes, Stored, TypeOK
<1>3. QED
  BY <1>1, <1>2 DEF Next, Work, Fail, TipGrows, ChainReplaced, StartRun, FinishRun, Crash,
     Stop, Claim, Read, Halt, Record, Stamp, Prune, Catch, SourceFails, HaltFails,
     StampFails, vars, database

\* A claim is exclusive: claims are taken in order above everything completed,
\* and the watermark only moves over completed heights.
LEMMA ClaimsExclusiveStep ==
    ASSUME IInv, [Next]_vars
    PROVE  ClaimsExclusive'
<1> TypeOK /\ ClaimsInRange /\ ClaimsExclusive /\ WatermarkBacked
  BY DEF IInv
<1> USE DEF Ingesting
<1>1. CASE TipGrows \/ ChainReplaced \/ UNCHANGED vars
  BY <1>1 DEF ClaimsExclusive, TipGrows, ChainReplaced, vars
<1>2. CASE StartRun
  BY <1>2 DEF ClaimsExclusive, StartRun, Local
<1>3. CASE FinishRun \/ Crash
  BY <1>3 DEF ClaimsExclusive, FinishRun, Crash, Idle, Local
<1>4. ASSUME NEW w \in Workers, Work(w) \/ Fail(w) PROVE ClaimsExclusive'
  <2>1. \A v \in Workers \ {w} : worker'[v] = worker[v]
    BY <1>4, OthersUnchanged
  <2>2. CASE Claim(w)
    <3>1. worker'[w] = Local("read", run.next)
          /\ run'.completedAhead = run.completedAhead
          /\ run'.lastContiguous = run.lastContiguous
      BY <2>2 DEF Claim, TypeOK, RunType
    <3>2. run.next \notin run.completedAhead /\ run.next > run.lastContiguous
      BY DEF WatermarkBacked, TypeOK, RunType, Heights
    <3>3. \A v \in Workers \ {w} : worker[v].pc \in Ingesting => worker[v].height # run.next
      BY DEF ClaimsInRange, TypeOK, RunType, WorkerType
    <3>4. QED BY <2>1, <3>1, <3>2, <3>3 DEF ClaimsExclusive, Local
  <2>3. CASE Record(w)
    <3>1. PICK to \in run.lastContiguous..MaxHeight :
             /\ (run.lastContiguous + 1)..to \subseteq run.completedAhead \union {worker[w].height}
             /\ run'.lastContiguous = to
             /\ run'.completedAhead = (run.completedAhead \union {worker[w].height})
                                          \ ((run.lastContiguous + 1)..to)
             /\ worker'[w].pc \in {"loop", "stamp"}
      BY <2>3, RecordEffect
    <3>2. ASSUME NEW v \in Workers \ {w}, worker[v].pc \in Ingesting
          PROVE  /\ worker[v].height \notin run'.completedAhead
                 /\ worker[v].height > to
      <4>1. worker[v].height # worker[w].height
        BY <2>3, <3>2 DEF ClaimsExclusive, Record
      <4>2. worker[v].height \notin run.completedAhead /\ worker[v].height > run.lastContiguous
        BY <3>2 DEF ClaimsExclusive
      <4>3. QED BY <3>1, <4>1, <4>2 DEF TypeOK, RunType, WorkerType
    <3>3. QED BY <2>1, <3>1, <3>2 DEF ClaimsExclusive
  <2>4. CASE Read(w)
    <3>1. /\ worker'[w].height = worker[w].height /\ worker[w].pc = "read"
          /\ run' = run
      BY <2>4 DEF Read, TypeOK, WorkerType
    <3>2. QED BY <2>1, <3>1 DEF ClaimsExclusive
  <2>5. CASE Prune(w)
    <3>1. /\ worker'[w].pc = "loop"
          /\ run'.completedAhead = run.completedAhead
          /\ run'.lastContiguous = run.lastContiguous
      BY <2>5 DEF Prune, Local, TypeOK, RunType
    <3>2. QED BY <2>1, <3>1 DEF ClaimsExclusive
  <2>6. CASE Stop(w) \/ Commit(w) \/ Halt(w) \/ Stamp(w) \/ Catch(w) \/ Fail(w)
    <3>1. /\ run'.completedAhead = run.completedAhead
          /\ run'.lastContiguous = run.lastContiguous
      BY <2>6 DEF Stop, Commit, Halt, Stamp, Catch, Fail, SourceFails, HaltFails, StampFails,
                  TypeOK, RunType
    <3>2. worker'[w].height = worker[w].height
      BY <2>6, GotoEffect DEF PCs, Stop, Commit, Halt, Stamp, Catch, Fail, SourceFails,
                              HaltFails, StampFails
    <3>3. worker'[w].pc \in Ingesting => worker[w].pc \in Ingesting
      BY <2>6, GotoEffect DEF PCs, Stop, Commit, Halt, Stamp, Catch, Fail, SourceFails,
                              HaltFails, StampFails
    <3>4. QED BY <2>1, <3>1, <3>2, <3>3 DEF ClaimsExclusive
  <2>7. QED BY <1>4, <2>2, <2>3, <2>4, <2>5, <2>6 DEF Work
<1>5. QED BY <1>1, <1>2, <1>3, <1>4 DEF Next

\* The hash checked by Read is still the one to compare with when Commit runs,
\* because no other worker holds the height.
LEMMA FetchedHashesStep ==
    ASSUME IInv, [Next]_vars
    PROVE  FetchedHashes'
<1> TypeOK /\ ClaimsInRange /\ ClaimsExclusive /\ FetchedHashes
  BY DEF IInv
<1>1. CASE TipGrows \/ ChainReplaced \/ UNCHANGED vars
  BY <1>1 DEF FetchedHashes, TipGrows, ChainReplaced, vars, database
<1>2. CASE StartRun
  BY <1>2 DEF FetchedHashes, StartRun, Local
<1>3. CASE FinishRun \/ Crash
  BY <1>3 DEF FetchedHashes, FinishRun, Crash, Idle, Local
<1>4. ASSUME NEW w \in Workers, Work(w) \/ Fail(w) PROVE FetchedHashes'
  <2>1. \A v \in Workers \ {w} : worker'[v] = worker[v]
    BY <1>4, OthersUnchanged
  <2>2. CASE Read(w)
    <3>1. /\ worker'[w].height = worker[w].height /\ worker'[w].hash = chain
          /\ worker'[w].pc = IF blocks[worker[w].height] \in {None, chain}
                             THEN "commit" ELSE "haltMismatch"
          /\ blocks' = blocks
      BY <2>2 DEF Read, TypeOK, WorkerType, database
    <3>2. chain # None
      BY ConstantsAssumption DEF ConstantsAssumption, TypeOK
    <3>3. QED BY <2>1, <3>1, <3>2 DEF FetchedHashes
  <2>3. CASE Commit(w)
    <3>1. worker'[w].pc = "record" /\ worker'[w].height = worker[w].height
          /\ worker'[w].hash = worker[w].hash
      BY <2>3, GotoEffect DEF Commit, PCs
    <3>2. worker[w].height \in Heights
      BY <2>3, ClaimedHeight DEF Commit
    <3>3. blocks' = [blocks EXCEPT ![worker[w].height] = worker[w].hash]
      BY <2>3 DEF Commit
    <3>4. ASSUME NEW v \in Workers \ {w}, worker[v].pc \in {"commit", "record"}
          PROVE  blocks'[worker[v].height] = blocks[worker[v].height]
      <4>1. worker[v].height # worker[w].height
        BY <2>3, <3>4 DEF Commit, ClaimsExclusive, Ingesting
      <4>2. worker[v].height \in Heights
        BY <3>4, ClaimedHeight
      <4>3. QED BY <3>3, <4>1, <4>2 DEF TypeOK
    <3>5. worker[w].hash # None
      BY <2>3 DEF Commit, FetchedHashes
    <3>6. blocks'[worker[w].height] = worker[w].hash
      BY <3>2, <3>3 DEF TypeOK
    <3>7. QED BY <2>1, <3>1, <3>4, <3>5, <3>6 DEF FetchedHashes
  <2>4. CASE Claim(w) \/ Prune(w)
    BY <2>1, <2>4 DEF Claim, Prune, Local, FetchedHashes, database, TypeOK
  <2>5. CASE Record(w)
    <3>1. worker'[w].pc \in {"loop", "stamp"}
      BY <2>5, RecordEffect
    <3>2. QED BY <2>1, <2>5, <3>1 DEF Record, FetchedHashes, database
  <2>6. CASE Stop(w) \/ Halt(w) \/ Stamp(w) \/ Catch(w) \/ Fail(w)
    <3>1. worker'[w].pc \notin {"commit", "record"} /\ blocks' = blocks
      BY <2>6, GotoEffect DEF PCs, Stop, Halt, Stamp, Catch, Fail, SourceFails,
                              HaltFails, StampFails, database
    <3>2. QED BY <2>1, <3>1 DEF FetchedHashes
  <2>7. QED BY <1>4, <2>2, <2>3, <2>4, <2>5, <2>6 DEF Work
<1>5. QED BY <1>1, <1>2, <1>3, <1>4 DEF Next

\* The watermark, the heights ahead of it and the writes in flight stay backed
\* by stored rows.  A run starts at cursor + 1, so its watermark extends the
\* prefix the cursor already vouches for.
LEMMA WatermarkBackedStep ==
    ASSUME StartOverrides = {}, IInv, [Next]_vars
    PROVE  WatermarkBacked'
<1> TypeOK /\ ClaimsInRange /\ ClaimsExclusive /\ FetchedHashes /\ WatermarkBacked
    /\ WatermarkContiguous
  BY DEF IInv
<1>1. CASE TipGrows \/ ChainReplaced \/ UNCHANGED vars
  BY <1>1 DEF WatermarkBacked, TipGrows, ChainReplaced, vars, database, Stored
<1>2. CASE StartRun
  <2>1. /\ run' = Run(TRUE, cursor.height + 1, tip)
        /\ worker' = [w \in Workers |-> Local("loop", 0)]
        /\ blocks' = blocks
    BY <1>2 DEF StartRun, database
  <2>2. QED
    BY <2>1 DEF WatermarkBacked, WatermarkContiguous, Run, Local, Stored, TypeOK, CursorType
<1>3. CASE FinishRun \/ Crash
  BY <1>3 DEF WatermarkBacked, FinishRun, Crash, NoRun, Run, Idle, Local, database, Stored
<1>4. ASSUME NEW w \in Workers, Work(w) \/ Fail(w) PROVE WatermarkBacked'
  <2>1. \A v \in Workers \ {w} : worker'[v] = worker[v]
    BY <1>4, OthersUnchanged
  <2>2. CASE Record(w)
    <3>1. PICK to \in run.lastContiguous..MaxHeight :
             /\ (run.lastContiguous + 1)..to \subseteq run.completedAhead \union {worker[w].height}
             /\ to + 1 \notin run.completedAhead \union {worker[w].height}
             /\ run'.lastContiguous = to
             /\ run'.completedAhead = (run.completedAhead \union {worker[w].height})
                                          \ ((run.lastContiguous + 1)..to)
             /\ run'.hashByHeight = [run.hashByHeight EXCEPT ![worker[w].height] = worker[w].hash]
             /\ run'.next = run.next
             /\ to = run.lastContiguous => worker'[w].pc = "loop"
             /\ to # run.lastContiguous =>
                   /\ worker'[w].mark = to
                   /\ worker'[w].markHash = run'.hashByHeight[to]
      BY <2>2, RecordEffect
    <3>2. /\ worker[w].height \in Heights /\ worker[w].height < run.next
          /\ worker[w].height > run.lastContiguous
          /\ worker[w].height \notin run.completedAhead
          /\ Stored(worker[w].height) /\ worker[w].hash = blocks[worker[w].height]
      BY <2>2, ClaimedHeight DEF Record, ClaimsExclusive, Ingesting, FetchedHashes, Stored
    <3>3. blocks' = blocks
      BY <2>2 DEF Record, database
    <3>4. \A h \in run.completedAhead \union {worker[w].height} :
             /\ h \in Heights /\ run.lastContiguous < h /\ h < run.next
             /\ Stored(h) /\ run'.hashByHeight[h] = blocks[h]
      BY <3>1, <3>2 DEF WatermarkBacked, TypeOK, RunType
    <3>5. \A h \in 1..to : Stored(h)
      BY <3>1, <3>4 DEF WatermarkBacked, TypeOK, RunType
    <3>6. to < run.next
      <4>1. CASE to = run.lastContiguous
        BY <4>1 DEF WatermarkBacked
      <4>2. CASE to # run.lastContiguous
        BY <3>1, <3>4, <4>2 DEF TypeOK, RunType
      <4>3. QED BY <4>1, <4>2
    <3>7. \A h \in run'.completedAhead : to < h
      BY <3>1, <3>4 DEF TypeOK, RunType, Heights
    <3>8. \A v \in Workers : worker'[v].pc = "stamp" =>
             worker'[v].mark \in 1..to /\ worker'[v].markHash = blocks[worker'[v].mark]
      <4>1. ASSUME NEW v \in Workers \ {w}, worker[v].pc = "stamp"
            PROVE worker[v].mark \in 1..to /\ worker[v].markHash = blocks[worker[v].mark]
        BY <3>1, <4>1 DEF WatermarkBacked, TypeOK, RunType
      <4>2. ASSUME to # run.lastContiguous
            PROVE  to \in 1..to /\ run'.hashByHeight[to] = blocks[to]
        BY <3>1, <3>4, <4>2 DEF TypeOK, RunType
      <4>3. QED BY <2>1, <3>1, <4>1, <4>2
    <3>9. \A h \in run'.completedAhead :
             /\ h < run.next /\ Stored(h) /\ run'.hashByHeight[h] = blocks[h]
      BY <3>1, <3>4
    <3>10. QED BY <3>1, <3>3, <3>5, <3>6, <3>7, <3>8, <3>9 DEF WatermarkBacked, Stored
  <2>3. CASE Prune(w)
    <3>1. /\ run'.lastContiguous = run.lastContiguous /\ run'.next = run.next
          /\ run'.completedAhead = run.completedAhead
          /\ run'.hashByHeight = [h \in Heights |->
                IF h <= run.lastContiguous THEN None ELSE run.hashByHeight[h]]
          /\ worker'[w].pc = "loop" /\ blocks' = blocks
      BY <2>3 DEF Prune, Local, TypeOK, RunType, database
    <3>2. \A h \in run.completedAhead : run'.hashByHeight[h] = run.hashByHeight[h]
      BY <3>1 DEF WatermarkBacked, TypeOK, RunType, Heights
    <3>3. QED BY <2>1, <3>1, <3>2 DEF WatermarkBacked, Stored
  <2>4. CASE ~Record(w) /\ ~Prune(w)
    <3>1. /\ run'.lastContiguous = run.lastContiguous /\ run'.next >= run.next
          /\ run'.completedAhead = run.completedAhead
          /\ run'.hashByHeight = run.hashByHeight
      BY <1>4, <2>4 DEF Work, Fail, Stop, Claim, Read, Commit, Halt, Stamp, Catch, SourceFails,
                        HaltFails, StampFails, TypeOK, RunType
    <3>2. worker'[w].pc # "stamp"
      <4>1. CASE Claim(w)
        BY <4>1 DEF Claim, Local, TypeOK
      <4>2. CASE Read(w)
        BY <4>2 DEF Read, TypeOK, WorkerType
      <4>3. CASE Stop(w) \/ Commit(w) \/ Halt(w) \/ Stamp(w) \/ Catch(w) \/ Fail(w)
        BY <4>3, GotoEffect DEF PCs, Stop, Commit, Halt, Stamp, Catch, Fail, SourceFails,
                                HaltFails, StampFails
      <4>4. QED BY <1>4, <2>4, <4>1, <4>2, <4>3 DEF Work
    <3>3. \A h \in Heights : Stored(h) => blocks'[h] = blocks[h] /\ blocks'[h] # None
      BY BlocksKept DEF Stored
    <3>4. /\ run.lastContiguous \in 0..MaxHeight /\ run.completedAhead \subseteq Heights
          /\ run.next \in Int /\ run'.next \in Int
      <4>1. run'.next \in Int
        BY <1>4, <2>4 DEF Work, Fail, Stop, Claim, Read, Commit, Halt, Stamp, Catch, SourceFails,
                          HaltFails, StampFails, TypeOK, RunType
      <4>2. QED BY <4>1 DEF TypeOK, RunType
    <3>5. \A h \in 1..run.lastContiguous : blocks'[h] # None /\ blocks'[h] = blocks[h]
      BY <3>3, <3>4, ConstantsAssumption DEF ConstantsAssumption, WatermarkBacked, Heights
    <3>6. \A h \in run.completedAhead :
             /\ run.lastContiguous < h /\ h < run'.next
             /\ blocks'[h] # None /\ run.hashByHeight[h] = blocks'[h]
      BY <3>1, <3>3, <3>4 DEF WatermarkBacked, Heights
    <3>7. \A v \in Workers : worker'[v].pc = "stamp" =>
             /\ worker'[v].mark \in 1..run.lastContiguous
             /\ worker'[v].markHash = blocks'[worker'[v].mark]
      BY <2>1, <3>2, <3>5 DEF WatermarkBacked
    <3>8. QED BY <3>1, <3>4, <3>5, <3>6, <3>7 DEF WatermarkBacked, Stored
  <2>5. QED BY <2>2, <2>3, <2>4
<1>5. QED BY <1>1, <1>2, <1>3, <1>4 DEF Next

\* The cursor row only takes marks that were backed when they were sent, and a
\* backed mark stays backed.
LEMMA CursorStep ==
    ASSUME StartOverrides = {}, IInv, [Next]_vars
    PROVE  WatermarkContiguous' /\ CursorHashMatches'
<1> TypeOK /\ WatermarkBacked /\ WatermarkContiguous /\ CursorHashMatches
  BY DEF IInv
<1>1. \A h \in Heights : Stored(h) => blocks'[h] = blocks[h] /\ blocks'[h] # None
  BY BlocksKept DEF Stored
<1>2. CASE \E w \in Workers : Stamp(w)
  <2>1. PICK w \in Workers : Stamp(w)
    BY <1>2
  <2>2. /\ cursor' = [height |-> worker[w].mark, hash |-> worker[w].markHash, status |-> "idle"]
        /\ blocks' = blocks
        /\ worker[w].mark \in 1..run.lastContiguous
        /\ worker[w].markHash = blocks[worker[w].mark]
    BY <2>1 DEF Stamp, WatermarkBacked, database
  <2>3. \A h \in 1..worker[w].mark : Stored(h)
    BY <2>2 DEF WatermarkBacked, TypeOK, RunType
  <2>4. QED BY <2>2, <2>3 DEF WatermarkContiguous, CursorHashMatches, Stored
<1>3. CASE cursor'.height = cursor.height /\ cursor'.hash = cursor.hash
  <2>1. \A h \in 1..cursor.height : blocks'[h] # None /\ blocks'[h] = blocks[h]
    BY <1>1, ConstantsAssumption
       DEF ConstantsAssumption, WatermarkContiguous, TypeOK, CursorType, Heights
  <2>2. cursor.height > 0 => cursor.height \in 1..cursor.height
    BY DEF TypeOK, CursorType
  <2>3. QED BY <1>3, <2>1, <2>2 DEF WatermarkContiguous, CursorHashMatches, Stored
<1>4. QED
  <2>1. ASSUME NEW w \in Workers, Halt(w) PROVE cursor'.height = cursor.height /\ cursor'.hash = cursor.hash
    BY <2>1 DEF Halt, TypeOK, CursorType
  <2>2. QED
    BY <1>2, <1>3, <2>1 DEF Next, Work, Fail, TipGrows, ChainReplaced, StartRun, FinishRun, Crash,
       Stop, Claim, Read, Commit, Record, Prune, Catch, SourceFails, HaltFails, StampFails, vars

\* A claimed height is stored, or a failure at or below it is on record, or a
\* worker still holds it.
LEMMA ClaimsAccountedForStep ==
    ASSUME StartOverrides = {}, IInv, [Next]_vars
    PROVE  ClaimsAccountedFor'
<1> TypeOK /\ ClaimsInRange /\ FetchedHashes /\ WatermarkBacked /\ ClaimsAccountedFor
  BY DEF IInv
<1> USE DEF Ingesting
<1> DEFINE Held(h) == \E w \in Workers : /\ worker[w].pc \in Ingesting \union {"throw"}
                                         /\ worker[w].height = h
           Accounted(h) == \/ Stored(h)
                           \/ run.failedHeight # 0 /\ run.failedHeight <= h
                           \/ Held(h)
<1>1. CASE TipGrows \/ ChainReplaced \/ UNCHANGED vars
  BY <1>1 DEF ClaimsAccountedFor, TipGrows, ChainReplaced, vars, database, Stored
<1>2. CASE StartRun
  BY <1>2 DEF ClaimsAccountedFor, StartRun, Run, Local, TypeOK, CursorType
<1>3. CASE FinishRun \/ Crash
  BY <1>3 DEF ClaimsAccountedFor, FinishRun, Crash, NoRun, Run
<1>4. ASSUME NEW w \in Workers, Work(w) \/ Fail(w) PROVE ClaimsAccountedFor'
  <2>1. \A v \in Workers \ {w} : worker'[v] = worker[v]
    BY <1>4, OthersUnchanged
  <2>2. \A h \in Heights : Stored(h) => Stored(h)'
    BY BlocksKept DEF Stored
  <2>3. run.start..(run.next - 1) \subseteq Heights
    BY ConstantsAssumption DEF ConstantsAssumption, TypeOK, RunType, Heights
  <2>4. run.up => \A h \in run.start..(run.next - 1) : Accounted(h)
    BY DEF ClaimsAccountedFor
  <2>5. CASE Claim(w)
    <3>1. /\ worker'[w].pc = "read" /\ worker'[w].height = run.next
          /\ run'.next = run.next + 1 /\ run'.start = run.start /\ run'.up = run.up
          /\ run'.end = run.end /\ run'.failedHeight = run.failedHeight
          /\ blocks' = blocks
      BY <2>5 DEF Claim, Local, TypeOK, RunType, database
    <3>2. ASSUME NEW h \in run.start..(run.next - 1), Held(h) PROVE Held(h)'
      <4>1. PICK v \in Workers : worker[v].pc \in Ingesting \union {"throw"} /\ worker[v].height = h
        BY <3>2
      <4>2. v # w
        BY <2>5, <4>1 DEF Claim
      <4>3. QED BY <2>1, <4>1, <4>2
    <3>3. run.up => \A h \in run.start..run.next : Accounted(h)'
      <4>1. ASSUME run.up, NEW h \in run.start..(run.next - 1) PROVE Accounted(h)'
        BY <2>4, <3>1, <3>2, <4>1 DEF Stored
      <4>2. ASSUME NEW h \in Heights, h = run.next PROVE Accounted(h)'
        BY <3>1, <4>2
      <4> run.next \in Heights
        BY <2>5, ConstantsAssumption DEF ConstantsAssumption, Claim, TypeOK, RunType, Heights
      <4>3. QED BY <4>1, <4>2 DEF TypeOK, RunType
    <3>4. run.failedHeight < run.next /\ (run.failedHeight = 0 /\ run.next <= run.end)
      BY <2>5 DEF ClaimsAccountedFor, Claim
    <3>5. run.up => \A v \in Workers : worker'[v].pc # "done"
      BY <2>1, <3>1, <3>4 DEF ClaimsAccountedFor, TypeOK, RunType
    <3>6. QED BY <3>1, <3>3, <3>4, <3>5 DEF ClaimsAccountedFor, TypeOK, RunType
  <2>6. CASE Catch(w)
    <3>1. /\ run'.failedHeight = IF run.failedHeight = 0 \/ worker[w].height < run.failedHeight
                                 THEN worker[w].height ELSE run.failedHeight
          /\ run'.next = run.next /\ run'.start = run.start /\ run'.up = run.up
          /\ blocks' = blocks
      BY <2>6 DEF Catch, TypeOK, RunType, database
    <3>2. worker[w].height \in 1..MaxHeight /\ worker[w].height < run.next
      BY <2>6, ClaimedHeight DEF Catch, Heights
    <3>3. run'.failedHeight # 0 /\ run'.failedHeight < run'.next
          /\ run'.failedHeight <= worker[w].height
      BY <3>1, <3>2 DEF ClaimsAccountedFor, TypeOK, RunType
    <3>4. ASSUME NEW h \in run.start..(run.next - 1), Accounted(h) PROVE Accounted(h)'
      <4>1. CASE Stored(h)
        BY <3>1, <4>1 DEF Stored
      <4>2. CASE run.failedHeight # 0 /\ run.failedHeight <= h
        BY <3>1, <3>2, <4>2 DEF TypeOK, RunType
      <4>3. ASSUME NEW v \in Workers, worker[v].pc \in Ingesting \union {"throw"}, worker[v].height = h
            PROVE  Accounted(h)'
        BY <2>1, <3>3, <4>3
      <4>4. QED BY <3>4, <4>1, <4>2, <4>3
    <3>5. QED BY <2>4, <3>1, <3>3, <3>4 DEF ClaimsAccountedFor
  <2>7. CASE ~Claim(w) /\ ~Catch(w)
    <3>1. /\ run'.next = run.next /\ run'.start = run.start /\ run'.up = run.up
          /\ run'.end = run.end /\ run'.failedHeight = run.failedHeight
      <4>1. CASE Record(w)
        BY <4>1, RecordEffect
      <4>2. CASE Prune(w)
        BY <4>2 DEF Prune, TypeOK, RunType
      <4>3. CASE ~Record(w) /\ ~Prune(w)
        BY <1>4, <2>7, <4>3 DEF Work, Fail, Stop, Read, Commit, Halt, Stamp, SourceFails,
                                HaltFails, StampFails
      <4>4. QED BY <4>1, <4>2, <4>3
    <3>2. ASSUME NEW h \in run.start..(run.next - 1), Held(h)
          PROVE  Stored(h)' \/ Held(h)'
      <4>1. PICK v \in Workers : worker[v].pc \in Ingesting \union {"throw"} /\ worker[v].height = h
        BY <3>2
      <4>2. CASE v # w
        BY <2>1, <4>1, <4>2
      <4>3. CASE v = w /\ Record(w)
        <5>1. Stored(h)
          BY <4>1, <4>3 DEF Record, FetchedHashes, Stored
        <5>2. QED BY <2>2, <2>3, <5>1
      <4>4. CASE v = w /\ ~Record(w)
        <5>1. /\ worker'[w].height = worker[w].height
              /\ worker'[w].pc \in Ingesting \union {"throw"}
          <6>1. CASE Read(w)
            BY <6>1 DEF Read, TypeOK, WorkerType
          <6>2. CASE Commit(w) \/ Halt(w) \/ Stamp(w) \/ Fail(w)
            BY <4>1, <4>4, <6>2, GotoEffect
               DEF PCs, Commit, Halt, Stamp, Fail, SourceFails, HaltFails, StampFails
          <6>3. ~Stop(w) /\ ~Prune(w)
            BY <4>1, <4>4 DEF Stop, Prune
          <6>4. QED BY <1>4, <2>7, <4>4, <6>1, <6>2, <6>3 DEF Work
        <5>2. QED BY <4>1, <4>4, <5>1
      <4>5. QED BY <4>2, <4>3, <4>4
    <3>3. worker'[w].pc = "done" => run.failedHeight # 0 \/ run.end < run.next
      <4>1. CASE Stop(w)
        BY <4>1 DEF Stop, TypeOK, RunType
      <4>2. CASE Read(w)
        BY <4>2 DEF Read, TypeOK, WorkerType
      <4>3. CASE Record(w)
        BY <4>3, RecordEffect
      <4>4. CASE Prune(w)
        BY <4>4 DEF Prune, Local, TypeOK
      <4>5. CASE Commit(w) \/ Halt(w) \/ Stamp(w) \/ Fail(w)
        BY <4>5, GotoEffect DEF PCs, Commit, Halt, Stamp, Fail, SourceFails, HaltFails, StampFails
      <4>6. QED BY <1>4, <2>7, <4>1, <4>2, <4>3, <4>4, <4>5 DEF Work
    <3>4. QED BY <2>1, <2>2, <2>3, <2>4, <3>1, <3>2, <3>3 DEF ClaimsAccountedFor
  <2>8. QED BY <2>5, <2>6, <2>7
<1>5. QED BY <1>1, <1>2, <1>3, <1>4 DEF Next

(***************************************************************************)
(* The holes below a height in flight.                                     *)
(***************************************************************************)

\* Each height below the claims that has no block has a worker that stands for
\* it: it is still at it, or it failed there and claims no more in this run.
HolesHeld ==
    run.up => \A h \in 1..(run.next - 1) :
                 \/ Stored(h)
                 \/ \E w \in Workers : /\ worker[w].pc \in Ingesting \union {"throw", "done"}
                                       /\ worker[w].height = h

LEMMA HolesHeldStep ==
    ASSUME StartOverrides = {}, IInv, HolesHeld, [Next]_vars
    PROVE  HolesHeld'
<1> TypeOK /\ ClaimsInRange /\ FetchedHashes
  BY DEF IInv
<1> USE DEF Ingesting
<1> DEFINE Held(h) == \E w \in Workers : /\ worker[w].pc \in Ingesting \union {"throw", "done"}
                                         /\ worker[w].height = h
<1>1. CASE TipGrows \/ ChainReplaced \/ UNCHANGED vars
  BY <1>1 DEF HolesHeld, TipGrows, ChainReplaced, vars, database, Stored
<1>2. CASE StartRun
  <2>1. run'.next = cursor.height + 1 /\ blocks' = blocks
    BY <1>2 DEF StartRun, Run, database
  <2>2. \A h \in 1..cursor.height : Stored(h)
    BY DEF IInv, WatermarkContiguous
  <2>3. QED BY <2>1, <2>2 DEF HolesHeld, Stored, TypeOK, CursorType
<1>3. CASE FinishRun \/ Crash
  BY <1>3 DEF HolesHeld, FinishRun, Crash, NoRun, Run
<1>4. ASSUME NEW w \in Workers, Work(w) \/ Fail(w) PROVE HolesHeld'
  <2>1. \A v \in Workers \ {w} : worker'[v] = worker[v]
    BY <1>4, OthersUnchanged
  <2>2. \A h \in Heights : Stored(h) => Stored(h)'
    BY BlocksKept DEF Stored
  <2>3. 1..(run.next - 1) \subseteq Heights
    BY ConstantsAssumption DEF ConstantsAssumption, TypeOK, RunType, Heights
  <2>4. run.up => \A h \in 1..(run.next - 1) : Stored(h) \/ Held(h)
    BY DEF HolesHeld
  <2>5. CASE Claim(w)
    <3>1. /\ worker'[w].pc = "read" /\ worker'[w].height = run.next
          /\ run'.next = run.next + 1 /\ run'.up = run.up
      BY <2>5 DEF Claim, Local, TypeOK, RunType
    <3>2. ASSUME NEW h, Held(h) PROVE Held(h)'
      <4>1. PICK v \in Workers : worker[v].pc \in Ingesting \union {"throw", "done"} /\ worker[v].height = h
        BY <3>2
      <4>2. v # w
        BY <2>5, <4>1 DEF Claim
      <4>3. QED BY <2>1, <4>1, <4>2
    <3>3. ASSUME NEW h, h = run.next PROVE Held(h)'
      BY <3>1, <3>3
    <3>4. \A h \in 1..run.next : h \in 1..(run.next - 1) \/ h = run.next
      BY DEF TypeOK, RunType
    <3>5. run'.next - 1 = run.next
      BY <3>1 DEF TypeOK, RunType
    <3> HIDE DEF Held
    <3>6. run.up => \A h \in 1..run.next : Stored(h)' \/ Held(h)'
      BY <2>2, <2>3, <2>4, <3>2, <3>3, <3>4
    <3>7. QED BY <3>1, <3>5, <3>6 DEF HolesHeld, Held
  <2>6. CASE ~Claim(w)
    <3>1. run'.next = run.next /\ run'.up = run.up
      <4>1. CASE Record(w)
        BY <4>1, RecordEffect
      <4>2. CASE Prune(w) \/ Catch(w)
        BY <4>2 DEF Prune, Catch, TypeOK, RunType
      <4>3. CASE ~Record(w) /\ ~Prune(w) /\ ~Catch(w)
        BY <1>4, <2>6, <4>3 DEF Work, Fail, Stop, Read, Commit, Halt, Stamp, SourceFails,
                                HaltFails, StampFails
      <4>4. QED BY <4>1, <4>2, <4>3
    <3>2. ASSUME NEW h \in 1..(run.next - 1), Held(h)
          PROVE  Stored(h)' \/ Held(h)'
      <4>1. PICK v \in Workers : worker[v].pc \in Ingesting \union {"throw", "done"} /\ worker[v].height = h
        BY <3>2
      <4>2. CASE v # w
        BY <2>1, <4>1, <4>2
      <4>3. CASE v = w /\ Record(w)
        <5>1. Stored(h)
          BY <4>1, <4>3 DEF Record, FetchedHashes, Stored
        <5>2. QED BY <2>2, <2>3, <5>1
      <4>4. CASE v = w /\ ~Record(w)
        <5>1. /\ worker'[w].height = worker[w].height
              /\ worker'[w].pc \in Ingesting \union {"throw", "done"}
          <6>1. CASE Read(w)
            BY <6>1 DEF Read, TypeOK, WorkerType
          <6>2. CASE Commit(w) \/ Halt(w) \/ Catch(w) \/ Fail(w)
            BY <4>1, <4>4, <6>2, GotoEffect
               DEF PCs, Commit, Halt, Catch, Fail, SourceFails, HaltFails, StampFails
          <6>3. ~Stop(w) /\ ~Prune(w) /\ ~Stamp(w)
            BY <4>1, <4>4 DEF Stop, Prune, Stamp
          <6>4. QED BY <1>4, <2>6, <4>4, <6>1, <6>2, <6>3 DEF Work
        <5>2. QED BY <4>1, <4>4, <5>1
      <4>5. QED BY <4>2, <4>3, <4>4
    <3>3. QED BY <2>2, <2>3, <2>4, <3>1, <3>2 DEF HolesHeld
  <2>7. QED BY <2>5, <2>6
<1>5. QED BY <1>1, <1>2, <1>3, <1>4 DEF Next

\* Different holes have different workers, and none of them is the one that is
\* about to store a block above them.
LEMMA FewHoles ==
    ASSUME IInv, HolesHeld, NEW w \in Workers, Commit(w)
    PROVE  Cardinality(1..(worker[w].height - 1) \ StoredHeights) < Cardinality(Workers)
<1> DEFINE top == worker[w].height
           holes == 1..(top - 1) \ StoredHeights
           others == Workers \ {w}
           holder == [h \in holes |-> CHOOSE v \in Workers : worker[v].height = h]
<1>1. top \in Heights /\ top < run.next /\ run.up /\ run.next \in 1..(MaxHeight + 1)
  BY ClaimedHeight DEF Commit, IInv, ClaimsInRange, TypeOK, RunType
<1>2. ASSUME NEW h \in holes PROVE \E v \in Workers : worker[v].height = h
  <2>1. h \in 1..(run.next - 1) /\ h \in Heights
    BY <1>1, ConstantsAssumption DEF ConstantsAssumption, Heights
  <2>2. ~Stored(h)
    BY <2>1 DEF StoredHeights
  <2>3. QED BY <1>1, <2>1, <2>2 DEF HolesHeld
<1>3. \A h \in holes : holder[h] \in Workers /\ worker[holder[h]].height = h
  BY <1>2
<1>4. \A h \in holes : h \in Int /\ h < top
  BY <1>1 DEF Heights
<1>5. ASSUME NEW h \in holes PROVE holder[h] \in others
  <2> HIDE DEF holder, holes
  <2>1. holder[h] \in Workers /\ worker[holder[h]].height = h /\ h < top /\ h \in Int
    BY <1>3, <1>4
  <2>2. top \in Int
    BY <1>1 DEF Heights
  <2>3. holder[h] # w
    BY <2>1, <2>2
  <2>4. QED BY <2>1, <2>3
<1>6. IsFiniteSet(others) /\ Cardinality(others) = Cardinality(Workers) - 1 /\ Cardinality(Workers) \in Nat
  BY FS_RemoveElement, FS_CardinalityType, ConstantsAssumption DEF ConstantsAssumption
<1> HIDE DEF others
<1>7. holder \in Injection(holes, others)
  <2>1. holder \in [holes -> others]
    BY <1>5
  <2>2. \A a, b \in holes : holder[a] = holder[b] => a = b
    BY <1>3
  <2> HIDE DEF holder, holes
  <2>3. QED BY <2>1, <2>2 DEF Injection, IsInjective
<1> HIDE DEF holder, holes
<1>8. IsFiniteSet(holes) /\ Cardinality(holes) <= Cardinality(others)
  BY <1>6, <1>7, FS_Injection
<1>9. Cardinality(holes) \in Nat
  BY <1>8, FS_CardinalityType
<1>10. QED BY <1>6, <1>8, <1>9 DEF holes, top

(***************************************************************************)
(* The theorems.                                                           *)
(***************************************************************************)

LEMMA InitIInv == Init => IInv
<1> SUFFICES ASSUME Init PROVE IInv
  OBVIOUS
<1>1. TypeOK
  BY ConstantsAssumption, IdleTyped, NoRunTyped
     DEF ConstantsAssumption, Init, TypeOK, HashesOrNone, CursorType, Statuses, Heights
<1>2. ClaimsInRange /\ ClaimsExclusive /\ FetchedHashes /\ WatermarkBacked /\ ClaimsAccountedFor
  BY DEF Init, NoRun, Run, Idle, Local, Ingesting, ClaimsInRange, ClaimsExclusive, FetchedHashes,
         WatermarkBacked, ClaimsAccountedFor
<1>3. WatermarkContiguous /\ CursorHashMatches
  BY DEF Init, WatermarkContiguous, CursorHashMatches
<1>4. QED BY <1>1, <1>2, <1>3 DEF IInv

LEMMA StepIInv ==
    ASSUME StartOverrides = {}, IInv, [Next]_vars
    PROVE  IInv'
<1>1. TypeOK'
  BY TypeStep DEF IInv
<1>2. QED
  BY <1>1, ClaimsInRangeStep, ClaimsExclusiveStep, FetchedHashesStep, WatermarkBackedStep,
     CursorStep, ClaimsAccountedForStep DEF IInv

LEMMA Inductive ==
    ASSUME StartOverrides = {}
    PROVE  Spec => []IInv
<1>1. IInv /\ [Next]_vars => IInv'
  BY StepIInv
<1>2. QED BY InitIInv, <1>1, PTL DEF Spec

\* Type correctness: the shape of every row and local of the ingestion loop
\* (cursor.ts, ingest-range.ts) is kept by every step.
THEOREM TypeCorrect ==
    ASSUME StartOverrides = {}
    PROVE  Spec => []TypeOK
<1>1. IInv => TypeOK
  BY DEF IInv
<1>2. QED BY Inductive, <1>1, PTL

\* The IndexerCursor never claims a hole (ingest-range.ts: advanceWatermark and
\* the cursor write), whatever number of workers, errors and crashes.
THEOREM NeverPastAHole ==
    ASSUME StartOverrides = {}
    PROVE  Spec => []WatermarkContiguous
<1>1. IInv => WatermarkContiguous
  BY DEF IInv
<1>2. QED BY Inductive, <1>1, PTL

\* lastIndexedHash is the stored hash of block lastIndexedHeight (hashByHeight
\* and its pruning in ingest-range.ts).
THEOREM CursorHashCorrect ==
    ASSUME StartOverrides = {}
    PROVE  Spec => []CursorHashMatches
<1>1. IInv => CursorHashMatches
  BY DEF IInv
<1>2. QED BY Inductive, <1>1, PTL

\* A range that ends has stored every height below its reported failure (the
\* catch of worker() and the claim before the first await).
THEOREM RangeCovered ==
    ASSUME StartOverrides = {}
    PROVE  Spec => []RunCoversItsRange
<1>1. ASSUME IInv PROVE RunCoversItsRange
  <2> SUFFICES ASSUME RunOver, NEW h \in run.start..run.end
               PROVE  Stored(h) \/ (run.failedHeight # 0 /\ run.failedHeight <= h)
    BY DEF RunCoversItsRange
  <2>1. TypeOK /\ ClaimsAccountedFor
    BY <1>1 DEF IInv
  <2>2. PICK w \in Workers : TRUE
    BY ConstantsAssumption DEF ConstantsAssumption
  <2>3. run.failedHeight # 0 \/ run.end < run.next
    BY <2>1, <2>2 DEF ClaimsAccountedFor, RunOver
  <2>4. CASE h < run.next
    BY <2>1, <2>4 DEF ClaimsAccountedFor, RunOver, TypeOK, RunType, Ingesting
  <2>5. CASE h >= run.next
    BY <2>1, <2>3, <2>5 DEF ClaimsAccountedFor, TypeOK, RunType
  <2>6. QED BY <2>1, <2>4, <2>5 DEF TypeOK, RunType
<1>2. QED BY Inductive, <1>1, PTL

\* A stored block is never overwritten with another hash, although ingestHeight
\* looks the stored hash up before, and outside, the upsert transaction.
THEOREM BlocksNeverRewritten ==
    ASSUME StartOverrides = {}
    PROVE  Spec => NeverRewritten
<1>1. IInv /\ [Next]_vars => [\A h \in Heights : Stored(h) => blocks'[h] = blocks[h]]_vars
  BY BlocksKept
<1>2. QED BY Inductive, <1>1, PTL DEF Spec, NeverRewritten

\* Concurrent ingestion implements the contract readers rely on: heights are
\* stored and never unstored, and the cursor is only ever set to a mark whose
\* whole prefix is stored.
THEOREM Refinement ==
    ASSUME StartOverrides = {}
    PROVE  Spec => ImplementsWatermark
<1>1. Init => Watermark!Init
  BY DEF Init, Watermark!Init, StoredHeights, Stored
<1>2. ASSUME IInv, IInv', [Next]_vars
      PROVE  [Watermark!Next]_<<StoredHeights, cursor.height>>
  <2>1. TypeOK /\ ClaimsInRange
    BY <1>2 DEF IInv
  <2>2. CASE \E w \in Workers : Commit(w)
    <3>1. PICK w \in Workers : Commit(w)
      BY <2>2
    <3>2. worker[w].height \in Heights
      BY <2>1, <3>1, ClaimedHeight DEF Commit
    <3>3. blocks' = [blocks EXCEPT ![worker[w].height] = worker[w].hash] /\ worker[w].hash # None
      BY <1>2, <3>1 DEF Commit, IInv, FetchedHashes
    <3>4. StoredHeights' = StoredHeights \union {worker[w].height}
      BY <2>1, <3>2, <3>3 DEF StoredHeights, Stored, TypeOK
    <3>5. cursor' = cursor
      BY <3>1 DEF Commit
    <3>6. QED BY <3>2, <3>4, <3>5 DEF Watermark!Next, Watermark!Store, Heights
  <2>3. CASE \E w \in Workers : Stamp(w)
    <3>1. blocks' = blocks
      BY <2>3 DEF Stamp, database
    <3>2. StoredHeights' = StoredHeights
      BY <3>1 DEF StoredHeights, Stored
    <3>3. cursor'.height \in 0..MaxHeight /\ 1..cursor'.height \subseteq StoredHeights'
      BY <1>2, ConstantsAssumption DEF ConstantsAssumption, IInv, TypeOK, CursorType,
         WatermarkContiguous, StoredHeights, Heights
    <3>4. QED BY <3>2, <3>3 DEF Watermark!Next, Watermark!Mark
  <2>4. CASE blocks' = blocks /\ cursor'.height = cursor.height
    BY <2>4 DEF StoredHeights, Stored
  <2>5. ASSUME NEW w \in Workers, Halt(w) PROVE blocks' = blocks /\ cursor'.height = cursor.height
    BY <2>1, <2>5 DEF Halt, TypeOK, CursorType, database
  <2>6. QED
    BY <1>2, <2>2, <2>3, <2>4, <2>5 DEF Next, Work, Fail, TipGrows, ChainReplaced, StartRun,
       FinishRun, Crash, Stop, Claim, Read, Record, Prune, Catch, SourceFails, HaltFails,
       StampFails, vars, database
<1>3. QED BY Inductive, <1>1, <1>2, PTL DEF Spec, ImplementsWatermark, Watermark!Spec

\* BlockStore counts as this module does.
LEMMA SameCardinality == \A S : Blocks!Cardinality(S) = Cardinality(S)
BY DEF Blocks!Cardinality, Cardinality

\* Projections that read Block rows while heights are in flight (the highest row
\* is the end of their range) see them arrive as BlockStore says: below any row
\* fewer heights are missing than there are workers, whatever fails or crashes,
\* for a worker that fails claims no other height in the run.
THEOREM StoreRefinement ==
    ASSUME StartOverrides = {}
    PROVE  Spec => ImplementsBlockStore
<1>1. Init => Blocks!StoreInit /\ HolesHeld
  BY DEF Init, NoRun, Run, HolesHeld, Blocks!StoreInit, StoredHeights, Stored
<1>2. IInv /\ HolesHeld /\ [Next]_vars => HolesHeld'
  BY HolesHeldStep
<1>3. ASSUME IInv, HolesHeld, [Next]_vars
      PROVE  [Blocks!StoreNext]_StoredHeights
  <2>1. TypeOK /\ ClaimsInRange
    BY <1>3 DEF IInv
  <2>2. ASSUME NEW w \in Workers, Commit(w) PROVE [Blocks!StoreNext]_StoredHeights
    <3>1. worker[w].height \in Heights
      BY <2>1, <2>2, ClaimedHeight DEF Commit
    <3>2. blocks' = [blocks EXCEPT ![worker[w].height] = worker[w].hash] /\ worker[w].hash # None
      BY <1>3, <2>2 DEF Commit, IInv, FetchedHashes
    <3>3. StoredHeights' = StoredHeights \union {worker[w].height}
      BY <2>1, <3>1, <3>2 DEF StoredHeights, Stored, TypeOK
    <3>4. CASE worker[w].height \in StoredHeights
      BY <3>3, <3>4
    <3>5. CASE worker[w].height \notin StoredHeights
      <4>1. Cardinality(Blocks!HolesBelow(worker[w].height)) < Cardinality(Workers)
        BY <1>3, <2>2, FewHoles DEF Blocks!HolesBelow
      <4>2. Blocks!StoreBlock(worker[w].height)
        BY <3>3, <3>5, <4>1, SameCardinality DEF Blocks!StoreBlock
      <4>3. QED BY <3>1, <4>2 DEF Blocks!StoreNext, Blocks!Heights, Heights
    <3>6. QED BY <3>4, <3>5
  <2>3. CASE blocks' = blocks
    BY <2>3 DEF StoredHeights, Stored
  <2>4. QED
    BY <1>3, <2>2, <2>3 DEF Next, Work, Fail, TipGrows, ChainReplaced, StartRun, FinishRun, Crash,
       Stop, Claim, Read, Halt, Record, Stamp, Prune, Catch, SourceFails, HaltFails, StampFails,
       vars, database
<1>4. QED BY Inductive, <1>1, <1>2, <1>3, PTL DEF Spec, ImplementsBlockStore, Blocks!StoreSpec

=============================================================================
