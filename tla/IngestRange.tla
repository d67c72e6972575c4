----------------------------- MODULE IngestRange -----------------------------
(***************************************************************************)
(* Bounded-concurrency ingestion of chain heights into Postgres:           *)
(* apps/indexer/src/index.ts (one tick), ingest-range.ts (the worker pool  *)
(* and the contiguous watermark), ingest-height.ts (one height) and        *)
(* cursor.ts (the IndexerCursor row).                                      *)
(*                                                                         *)
(* Node runs one thread, so the code between two awaits is one action; a   *)
(* statement sent to Postgres takes effect in an action of its own, because*)
(* statements of different workers travel on different pooled connections  *)
(* and commit in any order.                                                *)
(***************************************************************************)
EXTENDS Integers, FiniteSets

CONSTANTS
    Workers,        \* the worker() promises of one ingestRange call
    MaxHeight,      \* bound: the highest height the chain reaches
    Chains,         \* chains the node may answer for under one chain id
    MaxFaults,      \* bound: injected errors and crashes in one behaviour
    StartOverrides, \* START_HEIGHT values an operator may set; {} = never
    Mentions,       \* heights whose block mentions one representative account
    Undecodable,    \* heights carrying one transaction that does not decode
    None            \* SQL NULL / JavaScript undefined

Heights == 1..MaxHeight
Statuses == {"idle", "halted_error", "halted_hash_mismatch"}

ASSUME ConstantsAssumption ==
    /\ Workers # {} /\ IsFiniteSet(Workers)
    /\ MaxHeight \in Nat \ {0}
    /\ MaxFaults \in Nat
    /\ Chains # {} /\ None \notin Chains
    /\ StartOverrides \subseteq Heights
    /\ Mentions \subseteq Heights
    /\ Undecodable \subseteq Heights

VARIABLES
    tip,         \* the node's latest block height
    chain,       \* the chain the node answers for; a block's hash is its chain
    blocks,      \* Block.hash by height; None where no Block row exists
    account,     \* the representative Account row: first- and lastSeenHeight
    failureRows, \* DecodeFailure rows by height
    cursor,      \* the IndexerCursor row
    run,         \* the variables of ingestRange shared by its workers
    worker,      \* the local state of each worker
    faults       \* injected errors and crashes so far

database == <<blocks, account, failureRows>>
node     == <<tip, chain>>
vars     == <<tip, chain, blocks, account, failureRows, cursor, run, worker, faults>>

PCs == {"loop", "read", "commit", "record", "stamp", "stamped",
        "haltError", "haltMismatch", "throw", "done"}

Stored(h) == blocks[h] # None

(***************************************************************************)
(* No tick is running.  lastContiguousHeight = null is written start - 1,  *)
(* and firstError = undefined is written failedHeight = 0: the code        *)
(* assigns both error variables together.                                  *)
(***************************************************************************)
Run(up, start, end) ==
    [up |-> up, start |-> start, end |-> end, next |-> start,
     lastContiguous |-> start - 1, completedAhead |-> {},
     hashByHeight |-> [h \in Heights |-> None], failedHeight |-> 0]

NoRun == Run(FALSE, 1, 0)

Local(pc, height) ==
    [pc |-> pc, height |-> height, hash |-> None, mark |-> 0, markHash |-> None]

Idle == Local("done", 0)

Init ==
    /\ tip = 0
    /\ chain \in Chains
    /\ blocks = [h \in Heights |-> None]
    /\ account = [first |-> 0, last |-> 0]   \* 0, 0: no row
    /\ failureRows = [h \in Heights |-> 0]
    /\ cursor = [height |-> 0, hash |-> None, status |-> "idle"]
    /\ run = NoRun
    /\ worker = [w \in Workers |-> Idle]
    /\ faults = 0

Goto(w, pc) == worker' = [worker EXCEPT ![w].pc = pc]

Fault == faults < MaxFaults /\ faults' = faults + 1

(***************************************************************************)
(* The chain: blocks are produced, and a devnet may be wiped and restarted *)
(* under the same chain id.                                                *)
(***************************************************************************)
TipGrows ==
    /\ tip < MaxHeight
    /\ tip' = tip + 1
    /\ UNCHANGED <<chain, database, cursor, run, worker, faults>>

ChainReplaced ==
    /\ chain' \in Chains \ {chain}
    /\ UNCHANGED <<tip, database, cursor, run, worker, faults>>

(***************************************************************************)
(* main(): the advisory lock admits one tick at a time; the range is       *)
(* cursor + 1 (or START_HEIGHT) to the node's tip.  The cursor's status is *)
(* not consulted.                                                          *)
(***************************************************************************)
\* Mutant: a tick refuses to resume from a halted cursor.
StartRunUnlessHalted ==
    /\ ~run.up /\ cursor.status = "idle"
    /\ cursor.height + 1 <= tip
    /\ run' = Run(TRUE, cursor.height + 1, tip)
    /\ worker' = [w \in Workers |-> Local("loop", 0)]
    /\ UNCHANGED <<node, database, cursor, faults>>

StartRun ==
    /\ ~run.up
    /\ \E s \in {cursor.height + 1} \union StartOverrides :
          /\ s <= tip
          /\ run' = Run(TRUE, s, tip)
    /\ worker' = [w \in Workers |-> Local("loop", 0)]
    /\ UNCHANGED <<node, database, cursor, faults>>

\* Promise.all resolved: the tick returns, or rethrows firstError.  The clamp
\* of lastContiguousHeight before the throw is not observed by main().
FinishRun ==
    /\ run.up /\ \A w \in Workers : worker[w].pc = "done"
    /\ run' = NoRun
    /\ worker' = [w \in Workers |-> Idle]
    /\ UNCHANGED <<node, database, cursor, faults>>

\* The process dies: Postgres keeps what committed, everything else is lost.
Crash ==
    /\ run.up
    /\ Fault
    /\ run' = NoRun
    /\ worker' = [w \in Workers |-> Idle]
    /\ UNCHANGED <<node, database, cursor>>

(***************************************************************************)
(* The head of a worker's loop: stop on an error or at the end of the      *)
(* range, else claim the next height before the first await.               *)
(***************************************************************************)
Stop(w) ==
    /\ worker[w].pc = "loop"
    /\ run.failedHeight # 0 \/ run.next > run.end
    /\ Goto(w, "done")
    /\ UNCHANGED <<node, database, cursor, run, faults>>

Claim(w) ==
    /\ worker[w].pc = "loop"
    /\ run.failedHeight = 0 /\ run.next <= run.end
    /\ worker' = [worker EXCEPT ![w] = Local("read", run.next)]
    /\ run' = [run EXCEPT !.next = run.next + 1]
    /\ UNCHANGED <<node, database, cursor, faults>>

(***************************************************************************)
(* ingestHeight: three chain reads and the Block lookup resolve together,  *)
(* the stored hash is compared with the fetched one, and the rows are      *)
(* upserted in one transaction.                                            *)
(***************************************************************************)
\* Mutant: the stored hash is not compared with the fetched one.
ReadUnchecked(w) ==
    /\ worker[w].pc = "read"
    /\ worker' = [worker EXCEPT ![w].hash = chain, ![w].pc = "commit"]
    /\ UNCHANGED <<node, database, cursor, run, faults>>

Read(w) ==
    LET h == worker[w].height IN
    /\ worker[w].pc = "read"
    /\ worker' = [worker EXCEPT ![w].hash = chain,
                                ![w].pc = IF blocks[h] \in {None, chain}
                                          THEN "commit" ELSE "haltMismatch"]
    /\ UNCHANGED <<node, database, cursor, run, faults>>

UpsertAccount(h) ==
    account' = IF h \notin Mentions THEN account
               ELSE IF account.first = 0 THEN [first |-> h, last |-> h]
               ELSE [account EXCEPT !.last = h]

\* failureRows is capped at 2: one row is the first ingest, two a duplicate.
InsertDecodeFailures(h) ==
    failureRows' = IF h \in Undecodable /\ failureRows[h] < 2
                   THEN [failureRows EXCEPT ![h] = @ + 1] ELSE failureRows

Commit(w) ==
    LET h == worker[w].height IN
    /\ worker[w].pc = "commit"
    /\ blocks' = [blocks EXCEPT ![h] = worker[w].hash]
    /\ UpsertAccount(h)
    /\ InsertDecodeFailures(h)
    /\ Goto(w, "record")
    /\ UNCHANGED <<node, cursor, run, faults>>

\* A read or the transaction rejects (transport error, timeout, deadlock).
SourceFails(w) ==
    /\ worker[w].pc \in {"read", "commit"}
    /\ Fault
    /\ Goto(w, "haltError")
    /\ UNCHANGED <<node, database, cursor, run>>

\* haltCursorError / haltCursorHashMismatch on an existing row: status only.
Halt(w) ==
    /\ worker[w].pc \in {"haltError", "haltMismatch"}
    /\ cursor' = [cursor EXCEPT !.status = IF worker[w].pc = "haltError"
                                           THEN "halted_error" ELSE "halted_hash_mismatch"]
    /\ Goto(w, "throw")
    /\ UNCHANGED <<node, database, run, faults>>

\* The halt write itself rejects: ingestHeight throws that error instead.
HaltFails(w) ==
    /\ worker[w].pc \in {"haltError", "haltMismatch"}
    /\ Fault
    /\ Goto(w, "throw")
    /\ UNCHANGED <<node, database, cursor, run>>

(***************************************************************************)
(* The worker resumes after its height landed: the watermark moves over    *)
(* the completed contiguous prefix, and if it moved the cursor write is    *)
(* sent with the watermark and hash of this moment.                        *)
(***************************************************************************)
\* Mutant: the watermark jumps to the highest completed height.
AdvanceToHighest(ahead, from, to) ==
    /\ to \in ahead \union {from}
    /\ \A h \in ahead \union {from} : h <= to

AdvanceWatermark(ahead, from, to) ==
    /\ from <= to
    /\ (from + 1)..to \subseteq ahead
    /\ to + 1 \notin ahead

\* Mutant: the cursor is sent the hash of the height that just landed.
RecordOwnHash(w) ==
    LET from  == run.lastContiguous
        ahead == run.completedAhead \union {worker[w].height}
    IN
    /\ worker[w].pc = "record"
    /\ \E to \in 0..MaxHeight :
          /\ AdvanceWatermark(ahead, from, to)
          /\ run' = [run EXCEPT !.completedAhead = ahead \ ((from + 1)..to),
                                !.hashByHeight[worker[w].height] = worker[w].hash,
                                !.lastContiguous = to]
          /\ worker' = [worker EXCEPT ![w] =
                 IF to = from THEN Local("loop", 0)
                 ELSE [Local("stamp", worker[w].height) EXCEPT !.mark = to,
                                                               !.markHash = worker[w].hash]]
    /\ UNCHANGED <<node, database, cursor, faults>>

Record(w) ==
    LET h      == worker[w].height
        from   == run.lastContiguous
        ahead  == run.completedAhead \union {h}
        hashes == [run.hashByHeight EXCEPT ![h] = worker[w].hash]
    IN
    /\ worker[w].pc = "record"
    /\ \E to \in 0..MaxHeight :
          /\ AdvanceWatermark(ahead, from, to)
          /\ run' = [run EXCEPT !.completedAhead = ahead \ ((from + 1)..to),
                                !.hashByHeight = hashes,
                                !.lastContiguous = to]
          /\ worker' = [worker EXCEPT ![w] =
                 IF to = from THEN Local("loop", 0)
                 ELSE [Local("stamp", h) EXCEPT !.mark = to, !.markHash = hashes[to]]]
    /\ UNCHANGED <<node, database, cursor, faults>>

\* Mutant: the cursor is stamped with the highest height claimed so far.
StampClaimed(w) ==
    /\ worker[w].pc = "stamp"
    /\ cursor' = [height |-> run.next - 1, hash |-> worker[w].markHash, status |-> "idle"]
    /\ Goto(w, "stamped")
    /\ UNCHANGED <<node, database, run, faults>>

\* updateCursorSuccess takes effect in Postgres.
Stamp(w) ==
    /\ worker[w].pc = "stamp"
    /\ cursor' = [height |-> worker[w].mark, hash |-> worker[w].markHash, status |-> "idle"]
    /\ Goto(w, "stamped")
    /\ UNCHANGED <<node, database, run, faults>>

StampFails(w) ==
    /\ worker[w].pc = "stamp"
    /\ Fault
    /\ Goto(w, "throw")
    /\ UNCHANGED <<node, database, cursor, run>>

\* The worker resumes after the cursor write and prunes hashByHeight up to
\* the watermark of this moment, which may have moved on.
Prune(w) ==
    /\ worker[w].pc = "stamped"
    /\ run' = [run EXCEPT !.hashByHeight =
                  [h \in Heights |-> IF h <= run.lastContiguous THEN None ELSE run.hashByHeight[h]]]
    /\ worker' = [worker EXCEPT ![w] = Local("loop", 0)]
    /\ UNCHANGED <<node, database, cursor, faults>>

\* catch: keep the lowest failing height; this worker returns.
\* Mutant: the last failure to arrive is reported.
CatchLast(w) ==
    /\ worker[w].pc = "throw"
    /\ run' = [run EXCEPT !.failedHeight = worker[w].height]
    /\ Goto(w, "done")
    /\ UNCHANGED <<node, database, cursor, faults>>

\* Mutant: the failure is logged and the worker goes on.
CatchAndGoOn(w) ==
    /\ worker[w].pc = "throw"
    /\ worker' = [worker EXCEPT ![w] = Local("loop", 0)]
    /\ UNCHANGED <<node, database, cursor, run, faults>>

Catch(w) ==
    LET h == worker[w].height IN
    /\ worker[w].pc = "throw"
    /\ run' = [run EXCEPT !.failedHeight =
                  IF run.failedHeight = 0 \/ h < run.failedHeight THEN h ELSE run.failedHeight]
    /\ Goto(w, "done")
    /\ UNCHANGED <<node, database, cursor, faults>>

Work(w) ==
    \/ Stop(w) \/ Claim(w) \/ Read(w) \/ Commit(w) \/ Halt(w)
    \/ Record(w) \/ Stamp(w) \/ Prune(w) \/ Catch(w)

Fail(w) == SourceFails(w) \/ HaltFails(w) \/ StampFails(w)

Next ==
    \/ TipGrows \/ ChainReplaced
    \/ StartRun \/ FinishRun \/ Crash
    \/ \E w \in Workers : Work(w) \/ Fail(w)

Spec == Init /\ [][Next]_vars

\* The tick loop re-runs the indexer for ever, every await settles, and the
\* chain keeps producing blocks up to the bound.
Fairness ==
    /\ WF_vars(TipGrows)
    /\ WF_vars(StartRun)
    /\ WF_vars(FinishRun)
    /\ \A w \in Workers : WF_vars(Work(w))

FairSpec == Spec /\ Fairness

-----------------------------------------------------------------------------

HashesOrNone == Chains \union {None}

CursorType == [height : 0..MaxHeight, hash : HashesOrNone, status : Statuses]

RunType ==
    [up : BOOLEAN, start : 1..MaxHeight, end : 0..MaxHeight, next : 1..(MaxHeight + 1),
     lastContiguous : 0..MaxHeight, completedAhead : SUBSET Heights,
     hashByHeight : [Heights -> HashesOrNone], failedHeight : 0..MaxHeight]

WorkerType ==
    [pc : PCs, height : 0..MaxHeight, hash : HashesOrNone,
     mark : 0..MaxHeight, markHash : HashesOrNone]

TypeOK ==
    /\ tip \in 0..MaxHeight
    /\ chain \in Chains
    /\ blocks \in [Heights -> HashesOrNone]
    /\ account \in [first : 0..MaxHeight, last : 0..MaxHeight]
    /\ failureRows \in [Heights -> 0..2]
    /\ cursor \in CursorType
    /\ run \in RunType
    /\ worker \in [Workers -> WorkerType]
    /\ faults \in 0..MaxFaults

(***************************************************************************)
(* The inductive invariant behind the safety properties.                   *)
(***************************************************************************)

\* Every worker past its claim holds a height the running range has claimed,
\* and a worker is only active while a run is.
ClaimsInRange ==
    /\ run.start <= run.next
    /\ \A w \in Workers :
          /\ worker[w].pc # "done" => run.up
          /\ worker[w].pc \notin {"loop", "done"} =>
                worker[w].height \in run.start..(run.next - 1)

\* Heights still being ingested: claimed by one worker, and neither counted by
\* the watermark nor waiting for it.
Ingesting == {"read", "commit", "record", "haltError", "haltMismatch"}

ClaimsExclusive ==
    \A w \in Workers : worker[w].pc \in Ingesting =>
        /\ worker[w].height \notin run.completedAhead
        /\ worker[w].height > run.lastContiguous
        /\ \A v \in Workers \ {w} :
              worker[v].pc \in Ingesting => worker[v].height # worker[w].height

\* The hash a worker is about to commit, or has committed, is the stored one.
FetchedHashes ==
    \A w \in Workers :
        /\ worker[w].pc = "commit" =>
              /\ worker[w].hash # None
              /\ blocks[worker[w].height] \in {None, worker[w].hash}
        /\ worker[w].pc = "record" =>
              /\ worker[w].hash # None
              /\ blocks[worker[w].height] = worker[w].hash

\* The watermark and the heights waiting ahead of it are stored, their hashes
\* are at hand, and a cursor write in flight carries a mark of this watermark.
WatermarkBacked ==
    /\ run.lastContiguous < run.next
    /\ \A h \in 1..run.lastContiguous : Stored(h)
    /\ \A h \in run.completedAhead :
          /\ run.lastContiguous < h /\ h < run.next
          /\ Stored(h) /\ run.hashByHeight[h] = blocks[h]
    /\ \A w \in Workers : worker[w].pc = "stamp" =>
          /\ worker[w].mark \in 1..run.lastContiguous
          /\ worker[w].markHash = blocks[worker[w].mark]

\* Each claimed height is stored, at or above the failure, or in some worker's
\* hands; a worker leaves only when there is nothing to claim or a failure.
ClaimsAccountedFor ==
    /\ run.up => \A h \in run.start..(run.next - 1) :
          \/ Stored(h)
          \/ run.failedHeight # 0 /\ run.failedHeight <= h
          \/ \E w \in Workers : /\ worker[w].pc \in Ingesting \union {"throw"}
                                /\ worker[w].height = h
    /\ run.failedHeight < run.next
    /\ run.up => \A w \in Workers : worker[w].pc = "done" =>
                    run.failedHeight # 0 \/ run.end < run.next

\* Every height at or below IndexerCursor.lastIndexedHeight has its Block row,
\* whatever the order in which heights land, cursor writes commit and runs
\* crash (ingest-range.ts: the watermark never advances past a hole).
WatermarkContiguous == \A h \in 1..cursor.height : Stored(h)

\* lastIndexedHash is the hash stored for the block lastIndexedHeight names,
\* although it is looked up in a map that other workers prune while cursor
\* writes are in flight, and the node may change chain in between.
CursorHashMatches == cursor.height > 0 => cursor.hash = blocks[cursor.height]

RunOver == run.up /\ \A w \in Workers : worker[w].pc = "done"

\* When the workers have returned, every height of the range is stored, or
\* every height of the range below the reported failure: claims are made in
\* order and each claimed height was waited for, so no height falls between
\* two workers and the lowest failure is the boundary.
RunCoversItsRange ==
    RunOver => \A h \in run.start..run.end :
                  Stored(h) \/ (run.failedHeight # 0 /\ run.failedHeight <= h)

IInv ==
    /\ TypeOK
    /\ ClaimsInRange /\ ClaimsExclusive /\ FetchedHashes
    /\ WatermarkBacked /\ ClaimsAccountedFor
    /\ WatermarkContiguous /\ CursorHashMatches

\* A stored block is never overwritten by one with another hash, although the
\* check (findUnique) and the upsert are separate statements and the node may
\* change chain between them.
NeverRewritten ==
    [][\A h \in Heights : Stored(h) => blocks'[h] = blocks[h]]_vars

\* Ingestion implements the contract of ContiguousWatermark: whatever a reader
\* of the cursor sees is a mark whose whole prefix was stored when it was set.
StoredHeights == {h \in Heights : Stored(h)}
Watermark == INSTANCE ContiguousWatermark WITH stored <- StoredHeights, mark <- cursor.height
ImplementsWatermark == Watermark!Spec

\* Block rows arrive as BlockStore says: whatever fails, crashes or is retried,
\* fewer heights are missing below a stored one than there are workers.
Blocks == INSTANCE BlockStore WITH stored <- StoredHeights, Window <- Cardinality(Workers)
ImplementsBlockStore == Blocks!StoreSpec

\* Once errors and crashes stop, and the node answers for the chain of every
\* block stored above the cursor, the cursor reaches the tip and stays there,
\* idle: a cursor moved back by writes that commit out of order, or a halted
\* one, is repaired by the following ticks.
NodeAgrees == \A h \in Heights : h > cursor.height => blocks[h] \in {None, chain}

EventuallyCaughtUp ==
    <>[]NodeAgrees => <>[](cursor.height = MaxHeight /\ cursor.status = "idle")

-----------------------------------------------------------------------------
(* What comments, docs and tests say, and the code does not do. *)

\* "failed source call sets halted_error": a run that ends because a height
\* could not be ingested leaves a halted cursor.
FailedRunIsHalted ==
    (RunOver /\ run.failedHeight # 0 /\ ~Stored(run.failedHeight)) => cursor.status # "idle"

\* "per-height ingestion is idempotent": ingesting a height again adds no row.
ReingestAddsNoRow == \A h \in Heights : failureRows[h] <= 1

\* Account pages show "First seen" and "Last seen": every stored block that
\* mentions the account lies between the two.
AccountSpansItsBlocks ==
    \A h \in Mentions : Stored(h) => account.first <= h /\ h <= account.last
=============================================================================
