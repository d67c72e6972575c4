------------------------- MODULE ProjectionPipeline -------------------------
(***************************************************************************)
(* The projections that turn Block rows into signing evidence, run by      *)
(* scripts/devnet/run-indexer-tick.sh beside a running ingestion: one      *)
(* process per projection (apps/indexer/src/projections/*-cli.ts), resumed *)
(* from its ProjectionCursor (projections/cursor.ts), capped at the        *)
(* progress of the projections it reads, one transaction per height.       *)
(*                                                                         *)
(* What a projection writes at a height is abstracted to whether its       *)
(* sources were complete when it read them.                                *)
(***************************************************************************)
EXTENDS BlockStore

CONSTANTS
    Projections, \* the projections of the instance, with all they read
    EventsAtOne, \* whether block 1 carries an event of a slot
    MaxFaults,   \* bound: failed and killed runs in one behaviour
    MaxResets,   \* bound: RESET_PROJECTION=true runs in one behaviour
    LoneResets,  \* whether the reset CLIs run only while no projection does
    None

VARIABLES
    cursor, \* ProjectionCursor rows; a missing row reads as height 0
    rows,   \* what each projection has written for each height
    run,    \* the CLI process that holds the projection lock
    faults, \* failed and killed runs so far
    resets  \* resets so far

vars == <<stored, cursor, rows, run, faults, resets>>

\* The projections that project every height of the range, one by one ...
Walks == {"lifecycle", "key_rotation", "temporal_map"}

\* ... and those that first list the heights that have input rows, project
\* these, and then move the cursor to the end of the range.
Lists == {"block_signatures", "evidence", "liveness", "proposer"}

\* The projections that read Block, Transaction and Event rows themselves.
BlockReaders == {"lifecycle", "key_rotation", "block_signatures", "proposer"}

ASSUME PipelineAssumption ==
    /\ Projections \subseteq Walks \union Lists
    /\ "temporal_map" \in Projections => {"lifecycle", "key_rotation"} \subseteq Projections
    /\ Projections \intersect {"evidence", "liveness", "proposer"} # {} =>
          "temporal_map" \in Projections
    /\ "evidence" \in Projections => "block_signatures" \in Projections
    /\ "liveness" \in Projections => "evidence" \in Projections
    /\ EventsAtOne \in BOOLEAN /\ LoneResets \in BOOLEAN
    /\ MaxFaults \in Nat /\ MaxResets \in Nat
    /\ None \notin Walks \union Lists

Cursor(height, status) == [height |-> height, status |-> status]

Run(p, todo, end, seeding) ==
    [proj |-> p, todo |-> todo, end |-> end, seeding |-> seeding]

NoRun == Run(None, {}, 0, FALSE)

Init ==
    /\ StoreInit
    /\ cursor = [p \in Projections |-> Cursor(0, "idle")]
    /\ rows = [p \in Projections |-> [h \in Heights |-> "none"]]
    /\ run = NoRun
    /\ faults = 0
    /\ resets = 0

\* Ingestion holds a lock of its own and runs at any time.
Ingest == StoreNext /\ UNCHANGED <<cursor, rows, run, faults, resets>>

\* Heights at which p left rows.  Block 1 carries no last commit, so it has no
\* signatures; every later block has some.
WithRows(p) ==
    {h \in Heights : rows[p][h] # "none" /\ (p = "block_signatures" => h > 1)}

IsHighest(m, S) == m \in S \union {0} /\ \A h \in S : h <= m

IsLowest(m, S) == m \in S /\ \A n \in S : m <= n

\* A range ends at the highest height of the rows it is read from, and never
\* past the cursors of the projections that cap it (issues #56 and #59).
RangeEnd(input, caps, end) ==
    \E top \in 0..MaxHeight :
        /\ IsHighest(top, input)
        /\ IsLowest(end, {top} \union {cursor[u].height : u \in caps})

Todo(p, input, start, end) ==
    IF p \in Lists THEN input \intersect (start..end) ELSE start..end

\* A run starts behind the cursor and stops at the cap; the range of the
\* temporal map at height 1 begins with the genesis baseline.
Start(p, input, caps) ==
    /\ run = NoRun
    /\ \E end \in 0..MaxHeight :
          LET start == cursor[p].height + 1
          IN  /\ RangeEnd(input, caps, end)
              /\ start <= end
              /\ run' = Run(p, Todo(p, input, start, end), end, p = "temporal_map" /\ start = 1)
    /\ UNCHANGED <<stored, cursor, rows, faults, resets>>

\* Rows and cursor are deleted in one transaction.
Delete(p) ==
    /\ resets < MaxResets /\ resets' = resets + 1
    /\ rows' = [rows EXCEPT ![p] = [h \in Heights |-> "none"]]
    /\ cursor' = [cursor EXCEPT ![p] = Cursor(0, "idle")]

\* RESET_PROJECTION=true: the run that follows holds the lock already.  The
\* temporal map is seeded even when it has no height to project.
Reset(p, input, caps) ==
    /\ run = NoRun
    /\ Delete(p)
    /\ \E end \in 0..MaxHeight :
          /\ RangeEnd(input, caps, end)
          /\ run' = IF 1 <= end \/ p = "temporal_map"
                    THEN Run(p, Todo(p, input, 1, end), end, p = "temporal_map")
                    ELSE NoRun
    /\ UNCHANGED <<stored, faults>>

\* The reset CLIs of these projections take no lock, as those of structural and
\* mining do: nothing but who runs them keeps them from a running projection.
ResetCli(p) ==
    /\ p \in Projections
    /\ LoneResets => run = NoRun
    /\ Delete(p)
    /\ UNCHANGED <<stored, run, faults>>

(***************************************************************************)
(* The command line programs: what each is read from and capped at.        *)
(***************************************************************************)
Main(p, input, caps) ==
    /\ p \in Projections
    /\ Start(p, input, caps) \/ Reset(p, input, caps)

LifecycleCli == Main("lifecycle", stored, {})

KeyRotationCli == Main("key_rotation", stored, {})

\* Mutant: the temporal map waits for the wrong projection.
TemporalMapCliWrongUpstream == Main("temporal_map", stored, {"lifecycle", "proposer"})

\* Mutant: the cap of issue #56 is missing.
TemporalMapCliUncapped == Main("temporal_map", stored, {})

TemporalMapCli == Main("temporal_map", stored, {"lifecycle", "key_rotation"})

BlockSignaturesCli == Main("block_signatures", stored, {})

EvidenceCli == Main("evidence", WithRows("block_signatures"), {"temporal_map"})

LivenessCli == Main("liveness", WithRows("evidence"), {"temporal_map"})

ProposerCli == Main("proposer", stored, {"temporal_map"})

ResetBlockSignaturesCli == ResetCli("block_signatures")

ResetEvidenceCli == ResetCli("evidence")

ResetLivenessCli == ResetCli("liveness")

ResetProposerCli == ResetCli("proposer")

\* The genesis baseline and a cursor at height 1, in one transaction; height 1
\* itself is projected afterwards.
SeedGenesis ==
    /\ run.seeding
    /\ cursor' = [cursor EXCEPT !["temporal_map"] = Cursor(1, "idle")]
    /\ run' = [run EXCEPT !.seeding = FALSE]
    /\ UNCHANGED <<stored, rows, faults, resets>>

\* Whether block h holds anything p would write.
Carries(p, h) ==
    CASE p \in {"evidence", "liveness"} -> h > 1
      [] p = "temporal_map"             -> h > 1 \/ EventsAtOne
      [] OTHER                          -> TRUE

Complete(p, h) == Carries(p, h) => rows[p][h] = "complete"

\* Attribution at h looks up a consensus window, which any earlier event may
\* have opened or closed.
WindowsComplete(h) == \A g \in 1..h : Complete("temporal_map", g)

SourcesComplete(p, h) ==
    CASE p = "temporal_map" -> Complete("lifecycle", h) /\ Complete("key_rotation", h)
      [] p = "evidence"     -> Complete("block_signatures", h) /\ WindowsComplete(h)
      [] p = "liveness"     -> Complete("evidence", h) /\ WindowsComplete(h)
      [] p = "proposer"     -> h \in stored /\ WindowsComplete(h)
      [] OTHER              -> h \in stored

\* A height without a Block row projects to nothing.
Derived(p, h) ==
    IF SourcesComplete(p, h) THEN "complete"
    ELSE IF p \in BlockReaders /\ h \notin stored THEN "none" ELSE "partial"

\* project...Height: one transaction derives the rows of the next height and
\* moves the cursor to it.
ProjectHeight ==
    \E h \in run.todo :
        /\ ~run.seeding
        /\ \A g \in run.todo : h <= g
        /\ rows' = [rows EXCEPT ![run.proj][h] = Derived(run.proj, h)]
        /\ cursor' = [cursor EXCEPT ![run.proj] = Cursor(h, "idle")]
        /\ run' = [run EXCEPT !.todo = @ \ {h}]
        /\ UNCHANGED <<stored, faults, resets>>

\* The range is done; Lists then move the cursor over the heights without rows.
Finish ==
    /\ run # NoRun /\ ~run.seeding /\ run.todo = {}
    /\ cursor' = IF run.proj \in Lists
                 THEN [cursor EXCEPT ![run.proj] = Cursor(run.end, "idle")]
                 ELSE cursor
    /\ run' = NoRun
    /\ UNCHANGED <<stored, rows, faults, resets>>

Fault == faults < MaxFaults /\ faults' = faults + 1

\* A height (or the genesis document) cannot be projected: its transaction is
\* rolled back, haltProjectionCursorError marks the cursor, the process exits.
RunFails ==
    /\ run.seeding \/ run.todo # {}
    /\ Fault
    /\ cursor' = [cursor EXCEPT ![run.proj].status = "halted_error"]
    /\ run' = NoRun
    /\ UNCHANGED <<stored, rows, resets>>

\* The process is killed; its advisory lock goes with its connection.
Crash ==
    /\ run # NoRun
    /\ Fault
    /\ run' = NoRun
    /\ UNCHANGED <<stored, cursor, rows, resets>>

Next ==
    \/ Ingest
    \/ LifecycleCli \/ KeyRotationCli \/ TemporalMapCli
    \/ BlockSignaturesCli \/ EvidenceCli \/ LivenessCli \/ ProposerCli
    \/ ResetBlockSignaturesCli \/ ResetEvidenceCli \/ ResetLivenessCli \/ ResetProposerCli
    \/ SeedGenesis
    \/ ProjectHeight
    \/ Finish
    \/ RunFails
    \/ Crash

Spec == Init /\ [][Next]_vars

\* Both loops of run-indexer-tick.sh run forever and the project loop starts
\* every projection in each pass, so one that has work is started again and
\* again although others run in between; only MaxResets of these starts reset.
Fairness ==
    /\ WF_vars(Ingest)
    /\ SF_vars(LifecycleCli) /\ SF_vars(KeyRotationCli) /\ SF_vars(TemporalMapCli)
    /\ SF_vars(BlockSignaturesCli) /\ SF_vars(EvidenceCli) /\ SF_vars(LivenessCli)
    /\ SF_vars(ProposerCli)
    /\ WF_vars(SeedGenesis) /\ WF_vars(ProjectHeight) /\ WF_vars(Finish)

FairSpec == Spec /\ Fairness

-----------------------------------------------------------------------------
CursorType == [height : 0..MaxHeight, status : {"idle", "halted_error"}]

Derivations == {"none", "partial", "complete"}

RunType == [proj : Projections \union {None}, todo : SUBSET Heights,
            end : 0..MaxHeight, seeding : BOOLEAN]

TypeOK ==
    /\ stored \subseteq Heights
    /\ cursor \in [Projections -> CursorType]
    /\ rows \in [Projections -> [Heights -> Derivations]]
    /\ run \in RunType
    /\ faults \in 0..MaxFaults
    /\ resets \in 0..MaxResets

\* No projection leaves a silent gap: every height at or below a projection's
\* cursor was derived from complete sources, whatever runs failed, were killed
\* or were reset, and in whatever order the projections ran (cursor.ts: "outrun
\* the upstream -> ... advance the cursor past it -> a permanent, silent gap").
NoSilentGap ==
    \A p \in Projections : \A h \in 1..cursor[p].height : Complete(p, h)

\* No rows lie ahead of their cursor and none was derived from incomplete
\* sources, so resuming behind the cursor repeats no height that succeeded and
\* the highest row of a source is progress the reader may rely on.
RowsWithinCursor ==
    \A p \in Projections : \A h \in Heights :
        rows[p][h] # "none" => h <= cursor[p].height /\ rows[p][h] = "complete"

\* The parts that make the two inductive when ingestion leaves no hole
\* (Window = 1): a run holds exactly what is missing up to its end, and what
\* each of these heights needs is there.
StoredContiguous == \A h \in stored : 1..h \subseteq stored

RunAccountsForRange ==
    run # NoRun =>
        /\ run.proj \in Projections
        /\ \A h \in run.todo :
              /\ h \in 1..run.end /\ cursor[run.proj].height <= h
              /\ SourcesComplete(run.proj, h)
        /\ \A h \in 1..run.end : h \in run.todo \/ Complete(run.proj, h)
        /\ run.proj \in Lists => cursor[run.proj].height <= run.end
        /\ run.seeding => run.proj = "temporal_map" /\ cursor[run.proj].height = 0

IInv == TypeOK /\ StoredContiguous /\ RunAccountsForRange /\ NoSilentGap /\ RowsWithinCursor

\* When ingestion catches up and runs stop failing, every projection ends at
\* the tip and idle: the caps delay a projection but never strand it.
EventuallyProjected ==
    <>[](\A p \in Projections : cursor[p] = Cursor(MaxHeight, "idle"))

\* What the docs say of any moment between two runs.
NoGapBetweenRuns == run = NoRun => NoSilentGap
=============================================================================
