-------------------------- MODULE ProjectionProofs --------------------------
(***************************************************************************)
(* The projections.  Of the pipeline, for every chain length, every number *)
(* of failures, kills and resets, and every set of projections closed      *)
(* under its caps: no projection passes a height before its sources are    *)
(* complete, when ingestion leaves no hole (INGEST_CONCURRENCY = 1), block *)
(* 1 carries no event of a slot, and the reset CLIs, which take no lock,   *)
(* run only while no projection does.  Of the temporal map, for any slots, *)
(* keys, delay of rotations, events that cannot be read, re-runs and       *)
(* resets: it names the validators of every height it has settled, and no  *)
(* two windows of one slot or key overlap.                                 *)
(***************************************************************************)
EXTENDS ProjectionPipeline, TemporalMap, FiniteSetTheorems, NaturalsInduction,
        WellFoundedInduction, TLAPS

\* What the theorems assume of the deployment.
NoHoles == Window = 1 /\ ~EventsAtOne /\ LoneResets

(***************************************************************************)
(* The command line programs as tables: what p is read from, and the       *)
(* projections whose cursors it is capped at.                              *)
(***************************************************************************)
CursorCaps(p) ==
    CASE p = "temporal_map" -> {"lifecycle", "key_rotation"}
      [] p \in {"evidence", "liveness", "proposer"} -> {"temporal_map"}
      [] OTHER -> {}

Input(p) ==
    CASE p = "evidence" -> WithRows("block_signatures")
      [] p = "liveness" -> WithRows("evidence")
      [] OTHER          -> stored

Starts(p) == Start(p, Input(p), CursorCaps(p))

Resets(p) == Reset(p, Input(p), CursorCaps(p))

Ends(p, end) == RangeEnd(Input(p), CursorCaps(p), end)

Todos(p, start, end) == Todo(p, Input(p), start, end)

LEMMA CapsClosed ==
    ASSUME NEW p \in Projections
    PROVE  CursorCaps(p) \subseteq Projections
BY PipelineAssumption DEF PipelineAssumption, CursorCaps

\* Every program runs or resets the projection its table entry describes.
LEMMA Programs ==
    ASSUME Next
    PROVE  \/ Ingest
           \/ \E p \in Projections : Starts(p) \/ Resets(p) \/ ResetCli(p)
           \/ SeedGenesis \/ ProjectHeight \/ Finish \/ RunFails \/ Crash
<1> DEFINE Table(p) == p \in Projections /\ (Starts(p) \/ Resets(p))
<1>1. LifecycleCli => Table("lifecycle")
  BY DEF LifecycleCli, Main, Starts, Resets, Input, CursorCaps
<1>2. KeyRotationCli => Table("key_rotation")
  BY DEF KeyRotationCli, Main, Starts, Resets, Input, CursorCaps
<1>3. TemporalMapCli => Table("temporal_map")
  BY DEF TemporalMapCli, Main, Starts, Resets, Input, CursorCaps
<1>4. BlockSignaturesCli => Table("block_signatures")
  BY DEF BlockSignaturesCli, Main, Starts, Resets, Input, CursorCaps
<1>5. EvidenceCli => Table("evidence")
  BY DEF EvidenceCli, Main, Starts, Resets, Input, CursorCaps
<1>6. LivenessCli => Table("liveness")
  BY DEF LivenessCli, Main, Starts, Resets, Input, CursorCaps
<1>7. ProposerCli => Table("proposer")
  BY DEF ProposerCli, Main, Starts, Resets, Input, CursorCaps
<1>8. ResetBlockSignaturesCli \/ ResetEvidenceCli \/ ResetLivenessCli \/ ResetProposerCli
      => \E p \in Projections : ResetCli(p)
  BY DEF ResetBlockSignaturesCli, ResetEvidenceCli, ResetLivenessCli, ResetProposerCli, ResetCli
<1> QED
  BY <1>1, <1>2, <1>3, <1>4, <1>5, <1>6, <1>7, <1>8 DEF Next

(***************************************************************************)
(* Typing.                                                                 *)
(***************************************************************************)

LEMMA CursorTyped ==
    ASSUME NEW h \in 0..MaxHeight
    PROVE  /\ Cursor(h, "idle") \in CursorType
           /\ Cursor(h, "idle").height = h
BY DEF Cursor, CursorType

LEMMA RunTyped ==
    ASSUME NEW p \in Projections \union {None}, NEW t \in SUBSET Heights,
           NEW e \in 0..MaxHeight, NEW b \in BOOLEAN
    PROVE  /\ Run(p, t, e, b) \in RunType
           /\ Run(p, t, e, b).proj = p
           /\ Run(p, t, e, b).todo = t
           /\ Run(p, t, e, b).end = e
           /\ Run(p, t, e, b).seeding = b
BY DEF Run, RunType

LEMMA NoRunTyped ==
    /\ NoRun \in RunType
    /\ NoRun.todo = {}
    /\ NoRun.seeding = FALSE
BY BlockStoreAssumption DEF BlockStoreAssumption, NoRun, Run, RunType

LEMMA TodoTyped ==
    ASSUME TypeOK, NEW p \in Projections, NEW start \in Nat \ {0}, NEW end \in 0..MaxHeight
    PROVE  Todos(p, start, end) \in SUBSET Heights
<1>1. start..end \subseteq Heights
  BY BlockStoreAssumption DEF BlockStoreAssumption, Heights
<1> QED
  BY <1>1 DEF Todos, Todo

LEMMA DerivedTyped ==
    ASSUME NEW p, NEW h
    PROVE  Derived(p, h) \in Derivations
BY DEF Derived, Derivations

\* A run that has work left is a run.
LEMMA Working ==
    ASSUME TypeOK, RunAccountsForRange, run.seeding \/ run.todo # {}
    PROVE  run # NoRun /\ run.proj \in Projections
BY NoRunTyped DEF RunAccountsForRange, TypeOK, RunType

\* Every step keeps the shape of the rows and of the run.
LEMMA TypeStep ==
    ASSUME TypeOK, RunAccountsForRange, [Next]_vars
    PROVE  TypeOK'
<1> USE DEF TypeOK
<1>1. CASE Ingest
  BY <1>1 DEF Ingest, StoreNext, StoreBlock
<1>2. ASSUME NEW p \in Projections, Starts(p) PROVE TypeOK'
  <2>1. PICK end \in 0..MaxHeight :
           run' = Run(p, Todos(p, cursor[p].height + 1, end), end,
                      p = "temporal_map" /\ cursor[p].height + 1 = 1)
    BY <1>2 DEF Starts, Start, Ends, Todos
  <2>2. cursor[p].height + 1 \in Nat \ {0}
    BY BlockStoreAssumption DEF BlockStoreAssumption, CursorType
  <2>3. Todos(p, cursor[p].height + 1, end) \in SUBSET Heights
    BY <2>2, TodoTyped
  <2>4. run' \in RunType
    BY <2>1, <2>3, RunTyped DEF Run, RunType
  <2> QED
    BY <1>2, <2>4 DEF Starts, Start
<1>3. ASSUME NEW p \in Projections, Resets(p) PROVE TypeOK'
  <2>1. PICK end \in 0..MaxHeight :
           run' = IF 1 <= end \/ p = "temporal_map"
                  THEN Run(p, Todos(p, 1, end), end, p = "temporal_map") ELSE NoRun
    BY <1>3 DEF Resets, Reset, Delete, Ends, Todos
  <2>2. /\ Todos(p, 1, end) \in SUBSET Heights
        /\ (p = "temporal_map") \in BOOLEAN
    BY TodoTyped
  <2>7. Run(p, Todos(p, 1, end), end, p = "temporal_map") \in RunType
    BY <2>2 DEF Run, RunType
  <2>6. run' \in RunType
    BY <2>1, <2>7, NoRunTyped
  <2>3. cursor' \in [Projections -> CursorType]
    BY <1>3, CursorTyped, BlockStoreAssumption DEF BlockStoreAssumption, Resets, Reset, Delete
  <2>4. rows' \in [Projections -> [Heights -> Derivations]]
    BY <1>3 DEF Resets, Reset, Delete, Derivations
  <2>5. resets' \in 0..MaxResets
    BY <1>3, PipelineAssumption DEF PipelineAssumption, Resets, Reset, Delete
  <2> QED
    BY <1>3, <2>3, <2>4, <2>5, <2>6 DEF Resets, Reset, Delete
<1>4. CASE SeedGenesis
  <2>0. Cursor(1, "idle") \in CursorType
    BY CursorTyped, BlockStoreAssumption DEF BlockStoreAssumption
  <2>1. cursor' \in [Projections -> CursorType]
    BY <1>4, <2>0 DEF SeedGenesis
  <2>2. run' \in RunType
    BY <1>4 DEF SeedGenesis, RunType
  <2> QED
    BY <1>4, <2>1, <2>2 DEF SeedGenesis
<1>5. CASE ProjectHeight
  <2>1. PICK h \in run.todo :
           /\ rows' = [rows EXCEPT ![run.proj][h] = Derived(run.proj, h)]
           /\ cursor' = [cursor EXCEPT ![run.proj] = Cursor(h, "idle")]
           /\ run' = [run EXCEPT !.todo = @ \ {h}]
           /\ UNCHANGED <<stored, faults, resets>>
    BY <1>5 DEF ProjectHeight
  <2>2. h \in Heights /\ h \in 0..MaxHeight
    BY BlockStoreAssumption DEF BlockStoreAssumption, RunType, Heights
  <2>3. cursor' \in [Projections -> CursorType]
    BY <2>1, <2>2, CursorTyped
  <2>4. rows' \in [Projections -> [Heights -> Derivations]]
    BY <2>1, <2>2, DerivedTyped
  <2>5. run' \in RunType
    BY <2>1 DEF RunType
  <2> QED
    BY <2>1, <2>3, <2>4, <2>5
<1>6. CASE Finish
  <2>1. cursor' \in [Projections -> CursorType]
    BY <1>6, CursorTyped DEF Finish, RunType
  <2> QED
    BY <1>6, <2>1, NoRunTyped DEF Finish
<1>7. CASE RunFails
  <2>1. cursor' \in [Projections -> CursorType]
    BY <1>7 DEF RunFails, CursorType
  <2>2. faults' \in 0..MaxFaults
    BY <1>7, PipelineAssumption DEF PipelineAssumption, RunFails, Fault
  <2> QED
    BY <1>7, <2>1, <2>2, NoRunTyped DEF RunFails
<1>8. CASE Crash
  <2>1. faults' \in 0..MaxFaults
    BY <1>8, PipelineAssumption DEF PipelineAssumption, Crash, Fault
  <2> QED
    BY <1>8, <2>1, NoRunTyped DEF Crash
<1>9. CASE UNCHANGED vars
  BY <1>9 DEF vars
<1>10. ASSUME NEW p \in Projections, ResetCli(p) PROVE TypeOK'
  <2>1. cursor' \in [Projections -> CursorType]
    BY <1>10, CursorTyped, BlockStoreAssumption DEF BlockStoreAssumption, ResetCli, Delete
  <2>2. rows' \in [Projections -> [Heights -> Derivations]]
    BY <1>10 DEF ResetCli, Delete, Derivations
  <2>3. resets' \in 0..MaxResets
    BY <1>10, PipelineAssumption DEF PipelineAssumption, ResetCli, Delete
  <2> QED
    BY <1>10, <2>1, <2>2, <2>3 DEF ResetCli
<1> QED
  BY <1>1, <1>2, <1>3, <1>4, <1>5, <1>6, <1>7, <1>8, <1>9, <1>10, Programs

(***************************************************************************)
(* What a range relies on.                                                 *)
(***************************************************************************)

LEMMA CompleteStable ==
    ASSUME NEW q, NEW g, rows'[q] = rows[q], Complete(q, g)
    PROVE  Complete(q, g)'
BY DEF Complete

LEMMA WindowsStable ==
    ASSUME NEW h, rows'["temporal_map"] = rows["temporal_map"], WindowsComplete(h)
    PROVE  WindowsComplete(h)'
BY CompleteStable DEF WindowsComplete

\* While only p writes and blocks are only added, the sources of p stay complete.
LEMMA SourcesStable ==
    ASSUME NEW p \in Projections, NEW h, stored \subseteq stored',
           \A q \in Projections : q # p => rows'[q] = rows[q],
           SourcesComplete(p, h)
    PROVE  SourcesComplete(p, h)'
<1> USE PipelineAssumption, CapsClosed DEF PipelineAssumption, Walks, Lists
<1>1. CASE p = "temporal_map"
  BY <1>1, CompleteStable DEF SourcesComplete, CursorCaps
<1>2. CASE p = "evidence"
  BY <1>2, CompleteStable, WindowsStable DEF SourcesComplete, CursorCaps
<1>3. CASE p = "liveness"
  BY <1>3, CompleteStable, WindowsStable DEF SourcesComplete, CursorCaps
<1>4. CASE p = "proposer"
  BY <1>4, WindowsStable DEF SourcesComplete, CursorCaps
<1>5. CASE p \in {"lifecycle", "key_rotation", "block_signatures"}
  BY <1>5 DEF SourcesComplete
<1> QED
  BY <1>1, <1>2, <1>3, <1>4, <1>5

\* No height of a range lies above its input or above a cursor that caps it.
LEMMA WithinCaps ==
    ASSUME TypeOK, NEW p \in Projections, NEW end \in 0..MaxHeight, Ends(p, end),
           NEW h \in 1..end
    PROVE  /\ \A u \in CursorCaps(p) : h \in 1..cursor[u].height
           /\ \E top \in Input(p) : h \in 1..top
<1>1. PICK top \in 0..MaxHeight :
         /\ IsHighest(top, Input(p))
         /\ IsLowest(end, {top} \union {cursor[u].height : u \in CursorCaps(p)})
  BY DEF Ends, RangeEnd
<1>2. end <= top /\ \A u \in CursorCaps(p) : end <= cursor[u].height
  BY <1>1 DEF IsLowest
<1>3. \A u \in CursorCaps(p) : cursor[u].height \in Nat
  BY CapsClosed, PipelineAssumption, BlockStoreAssumption
  DEF PipelineAssumption, BlockStoreAssumption, TypeOK, CursorType
<1>4. top \in Input(p)
  BY <1>1, <1>2, BlockStoreAssumption DEF BlockStoreAssumption, IsHighest
<1> QED
  BY <1>2, <1>3, <1>4, BlockStoreAssumption DEF BlockStoreAssumption

LEMMA WindowsBelowCursor ==
    ASSUME TypeOK, NoSilentGap, "temporal_map" \in Projections,
           NEW h \in 1..cursor["temporal_map"].height
    PROVE  WindowsComplete(h)
BY BlockStoreAssumption DEF BlockStoreAssumption, WindowsComplete, NoSilentGap, TypeOK, CursorType

\* Every height a range projects finds its sources complete.
LEMMA SourcesReady ==
    ASSUME IInv, NEW p \in Projections, NEW end \in 0..MaxHeight, Ends(p, end),
           NEW h \in 1..end, p \in Lists => h \in Input(p)
    PROVE  SourcesComplete(p, h)
<1> USE PipelineAssumption DEF PipelineAssumption, Walks, Lists, IInv
<1>0. h \in Heights
  BY BlockStoreAssumption DEF BlockStoreAssumption, Heights
<1>1. \A u \in CursorCaps(p) : h \in 1..cursor[u].height
  BY WithinCaps
<1>2. \A u \in CursorCaps(p) : u \in Projections /\ Complete(u, h)
  BY <1>1, CapsClosed DEF NoSilentGap
<1>3. CASE p = "temporal_map"
  BY <1>3, <1>2 DEF SourcesComplete, CursorCaps
<1>4. CASE p \in {"evidence", "liveness", "proposer"}
  <2>1. WindowsComplete(h)
    BY <1>4, <1>1, <1>2, WindowsBelowCursor DEF CursorCaps
  <2>2. CASE p = "evidence"
    BY <2>2, <2>1, <1>0 DEF SourcesComplete, Input, WithRows, RowsWithinCursor, Complete
  <2>3. CASE p = "liveness"
    BY <2>3, <2>1, <1>0 DEF SourcesComplete, Input, WithRows, RowsWithinCursor, Complete
  <2>4. CASE p = "proposer"
    BY <2>4, <2>1 DEF SourcesComplete, Input
  <2> QED
    BY <1>4, <2>2, <2>3, <2>4
<1>5. CASE p \in {"lifecycle", "key_rotation", "block_signatures"}
  <2>1. Input(p) = stored
    BY <1>5 DEF Input
  <2>2. h \in stored
    BY <2>1, WithinCaps DEF StoredContiguous
  <2> QED
    BY <1>5, <2>2 DEF SourcesComplete
<1> QED
  BY <1>3, <1>4, <1>5

\* A height of the range that is not listed carries nothing.
LEMMA NotListed ==
    ASSUME IInv, NEW p \in Projections, p \in Lists, NEW end \in 0..MaxHeight,
           Ends(p, end), NEW h \in 1..end, h \notin Input(p)
    PROVE  ~Carries(p, h)
<1> USE PipelineAssumption DEF PipelineAssumption, Walks, Lists, IInv
<1>0. h \in Heights
  BY BlockStoreAssumption DEF BlockStoreAssumption, Heights
<1>1. PICK top \in Input(p) : h \in 1..top
  BY WithinCaps
<1>2. CASE p \in {"block_signatures", "proposer"}
  BY <1>2, <1>1 DEF Input, StoredContiguous
<1>3. ASSUME NEW q \in {"block_signatures", "evidence"}, q \in Projections,
             Input(p) = WithRows(q)
      PROVE  ~(h > 1)
  <2>1. top \in Heights /\ rows[q][top] # "none"
    BY <1>1, <1>3 DEF WithRows
  <2>2. top <= cursor[q].height
    BY <1>3, <2>1 DEF RowsWithinCursor
  <2>3. h \in 1..cursor[q].height
    BY <1>1, <1>3, <2>1, <2>2, BlockStoreAssumption
    DEF BlockStoreAssumption, TypeOK, CursorType, Heights
  <2>4. Complete(q, h)
    BY <1>3, <2>3 DEF NoSilentGap
  <2> QED
    BY <1>0, <1>3, <2>4 DEF Complete, Carries, WithRows
<1>4. CASE p \in {"evidence", "liveness"}
  BY <1>4, <1>3 DEF Input, Carries
<1> QED
  BY <1>2, <1>4

(***************************************************************************)
(* The steps, action by action.                                            *)
(***************************************************************************)

\* Ingestion with one worker stores the next height.
LEMMA IngestStep ==
    ASSUME IInv, NoHoles, Ingest, TypeOK'
    PROVE  IInv'
<1>1. PICK h \in Heights : StoreBlock(h)
  BY DEF Ingest, StoreNext
<1>2. 1..(h - 1) \subseteq stored
  <2>1. IsFiniteSet(HolesBelow(h))
    BY <1>1, FS_Interval, FS_Subset DEF HolesBelow, Heights
  <2>2. Cardinality(HolesBelow(h)) = 0
    BY <1>1, <2>1, FS_CardinalityType DEF StoreBlock, NoHoles
  <2>3. HolesBelow(h) = {}
    BY <2>1, <2>2, FS_EmptySet
  <2> QED
    BY <2>3 DEF HolesBelow
<1>3. StoredContiguous'
  BY <1>1, <1>2, BlockStoreAssumption
  DEF BlockStoreAssumption, IInv, StoredContiguous, StoreBlock, Heights
<1>4. UNCHANGED <<cursor, rows, run>> /\ stored \subseteq stored'
  BY <1>1 DEF Ingest, StoreBlock
<1>5. RunAccountsForRange'
  <2> SUFFICES ASSUME run' # NoRun PROVE RunAccountsForRange'
    BY DEF RunAccountsForRange
  <2>1. run # NoRun /\ run.proj \in Projections
    BY <1>4 DEF IInv, RunAccountsForRange, NoRun, Run
  <2>2. \A h2 \in run.todo : SourcesComplete(run.proj, h2)'
    BY <1>4, <2>1, SourcesStable DEF IInv, RunAccountsForRange
  <2>3. \A h2 \in 1..run.end : h2 \in run.todo \/ Complete(run.proj, h2)'
    BY <1>4, <2>1, CompleteStable DEF IInv, RunAccountsForRange
  <2> QED
    BY <1>4, <2>1, <2>2, <2>3 DEF IInv, RunAccountsForRange
<1>6. NoSilentGap' /\ RowsWithinCursor'
  BY <1>4, CompleteStable DEF IInv, NoSilentGap, RowsWithinCursor
<1> QED
  BY <1>3, <1>5, <1>6 DEF IInv

\* A run that starts holds what is missing up to its end.
LEMMA StartStep ==
    ASSUME IInv, NEW p \in Projections, Starts(p), TypeOK'
    PROVE  IInv'
<1> DEFINE start == cursor[p].height + 1
<1>1. PICK end \in 0..MaxHeight :
         /\ Ends(p, end)
         /\ start <= end
         /\ run' = Run(p, Todos(p, start, end), end, p = "temporal_map" /\ start = 1)
  BY DEF Starts, Start, Ends, Todos
<1>2. UNCHANGED <<stored, cursor, rows>>
  BY DEF Starts, Start
<1>3. cursor[p].height \in 0..MaxHeight
  BY DEF IInv, TypeOK, CursorType
<1>4. ASSUME NEW h \in Todos(p, start, end)
      PROVE  h \in 1..end /\ cursor[p].height <= h /\ SourcesComplete(p, h)
  <2>1. h \in start..end /\ (p \in Lists => h \in Input(p))
    BY <1>4 DEF Todos, Todo
  <2>2. h \in 1..end /\ cursor[p].height <= h
    BY <2>1, <1>1, <1>3, BlockStoreAssumption DEF BlockStoreAssumption
  <2> QED
    BY <1>1, <2>1, <2>2, SourcesReady
<1>5. ASSUME NEW h \in 1..end, h \notin Todos(p, start, end)
      PROVE  Complete(p, h)
  <2>1. CASE h \in 1..cursor[p].height
    BY <2>1 DEF IInv, NoSilentGap
  <2>2. CASE h \in start..end
    BY <2>2, <1>1, <1>5, NotListed DEF Todos, Todo, Complete
  <2> QED
    BY <1>3, <2>1, <2>2, BlockStoreAssumption DEF BlockStoreAssumption
<1>6. /\ run'.proj = p /\ run'.end = end /\ run'.todo = Todos(p, start, end)
      /\ run'.seeding => p = "temporal_map" /\ start = 1
  BY <1>1 DEF Run
<1>7. cursor[p].height <= end /\ (start = 1 => cursor[p].height = 0)
  BY <1>1, <1>3, BlockStoreAssumption DEF BlockStoreAssumption
<1>8. RunAccountsForRange'
  <2>1. \A h \in run'.todo : SourcesComplete(p, h)'
    BY <1>2, <1>4, <1>6, SourcesStable
  <2>2. \A h \in 1..run'.end : h \in run'.todo \/ Complete(p, h)'
    BY <1>2, <1>5, <1>6, CompleteStable
  <2> QED
    BY <1>2, <1>4, <1>6, <1>7, <2>1, <2>2 DEF RunAccountsForRange
<1>9. StoredContiguous' /\ NoSilentGap' /\ RowsWithinCursor'
  BY <1>2, CompleteStable DEF IInv, StoredContiguous, NoSilentGap, RowsWithinCursor
<1> QED
  BY <1>8, <1>9 DEF IInv

\* After a reset the run holds every height up to its end, or lists all that
\* have input.
LEMMA ResetStep ==
    ASSUME IInv, NoHoles, NEW p \in Projections, Resets(p), TypeOK'
    PROVE  IInv'
<1>1. PICK end \in 0..MaxHeight :
         /\ Ends(p, end)
         /\ run' = IF 1 <= end \/ p = "temporal_map"
                   THEN Run(p, Todos(p, 1, end), end, p = "temporal_map") ELSE NoRun
  BY DEF Resets, Reset, Delete, Ends, Todos
<1>2. /\ cursor' = [cursor EXCEPT ![p] = Cursor(0, "idle")]
      /\ rows' = [rows EXCEPT ![p] = [h \in Heights |-> "none"]]
      /\ UNCHANGED stored
  BY DEF Resets, Reset, Delete
<1>3. /\ cursor'[p].height = 0
      /\ \A h \in Heights : rows'[p][h] = "none"
      /\ \A q \in Projections : q # p => cursor'[q] = cursor[q] /\ rows'[q] = rows[q]
  BY <1>2, CursorTyped, BlockStoreAssumption DEF BlockStoreAssumption, IInv, TypeOK
<1>4. ASSUME NEW h \in Todos(p, 1, end)
      PROVE  h \in 1..end /\ SourcesComplete(p, h)'
  <2>1. h \in 1..end /\ (p \in Lists => h \in Input(p))
    BY <1>4 DEF Todos, Todo
  <2>2. SourcesComplete(p, h)
    BY <1>1, <2>1, SourcesReady
  <2> QED
    BY <1>2, <1>3, <2>1, <2>2, SourcesStable
<1>5. ASSUME NEW h \in 1..end, h \notin Todos(p, 1, end)
      PROVE  Complete(p, h)'
  <2>1. p \in Lists /\ h \notin Input(p)
    BY <1>5 DEF Todos, Todo
  <2>2. ~Carries(p, h)
    BY <1>1, <2>1, NotListed
  <2> QED
    BY <2>2 DEF Complete
<1>6. ASSUME run' = NoRun PROVE RunAccountsForRange'
  BY <1>6 DEF RunAccountsForRange, NoRun, Run
<1>7. ASSUME run' = Run(p, Todos(p, 1, end), end, p = "temporal_map")
      PROVE  RunAccountsForRange'
  <2>1. /\ run'.proj = p /\ run'.end = end /\ run'.todo = Todos(p, 1, end)
        /\ run'.seeding => p = "temporal_map"
    BY <1>7 DEF Run
  <2>2. \A h \in run'.todo : h \in 1..end /\ cursor'[p].height <= h /\ SourcesComplete(p, h)'
    BY <1>3, <1>4, <2>1, BlockStoreAssumption DEF BlockStoreAssumption
  <2>3. \A h \in 1..run'.end : h \in run'.todo \/ Complete(p, h)'
    BY <1>5, <2>1
  <2>4. cursor'[p].height <= end
    BY <1>3, BlockStoreAssumption DEF BlockStoreAssumption
  <2>5. run'.seeding => run'.proj = "temporal_map" /\ cursor'[run'.proj].height = 0
    BY <1>3, <2>1
  <2>6. \A h \in run'.todo : /\ h \in 1..run'.end /\ cursor'[run'.proj].height <= h
                             /\ SourcesComplete(run.proj, h)'
    BY <2>1, <2>2
  <2>7. \A h \in 1..run'.end : h \in run'.todo \/ Complete(run.proj, h)'
    BY <2>1, <2>3
  <2> QED
    BY <2>1, <2>4, <2>5, <2>6, <2>7 DEF RunAccountsForRange
<1>8. NoSilentGap'
  <2> SUFFICES ASSUME NEW q \in Projections, NEW h \in 1..cursor'[q].height
               PROVE  Complete(q, h)'
    BY DEF NoSilentGap
  <2>1. q # p
    BY <1>3
  <2> QED
    BY <1>3, <2>1, CompleteStable DEF IInv, NoSilentGap
<1>9. RowsWithinCursor'
  <2> SUFFICES ASSUME NEW q \in Projections, NEW h \in Heights, rows'[q][h] # "none"
               PROVE  h <= cursor'[q].height /\ rows'[q][h] = "complete"
    BY DEF RowsWithinCursor
  <2>1. q # p
    BY <1>3
  <2> QED
    BY <1>3, <2>1 DEF IInv, RowsWithinCursor
<1> QED
  BY <1>1, <1>2, <1>6, <1>7, <1>8, <1>9 DEF IInv, StoredContiguous

\* A reset while nothing runs leaves no cursor to account for.
LEMMA ResetCliStep ==
    ASSUME IInv, NoHoles, NEW p \in Projections, ResetCli(p), TypeOK'
    PROVE  IInv'
<1>2. /\ cursor' = [cursor EXCEPT ![p] = Cursor(0, "idle")]
      /\ rows' = [rows EXCEPT ![p] = [h \in Heights |-> "none"]]
      /\ run' = NoRun
      /\ UNCHANGED stored
  BY DEF NoHoles, ResetCli, Delete
<1>3. /\ cursor'[p].height = 0
      /\ \A h \in Heights : rows'[p][h] = "none"
      /\ \A q \in Projections : q # p => cursor'[q] = cursor[q] /\ rows'[q] = rows[q]
  BY <1>2, CursorTyped, BlockStoreAssumption DEF BlockStoreAssumption, IInv, TypeOK
<1>7. RunAccountsForRange'
  BY <1>2 DEF RunAccountsForRange, NoRun, Run
<1>8. NoSilentGap'
  <2> SUFFICES ASSUME NEW q \in Projections, NEW h \in 1..cursor'[q].height
               PROVE  Complete(q, h)'
    BY DEF NoSilentGap
  <2>1. q # p
    BY <1>3
  <2> QED
    BY <1>3, <2>1, CompleteStable DEF IInv, NoSilentGap
<1>9. RowsWithinCursor'
  <2> SUFFICES ASSUME NEW q \in Projections, NEW h \in Heights, rows'[q][h] # "none"
               PROVE  h <= cursor'[q].height /\ rows'[q][h] = "complete"
    BY DEF RowsWithinCursor
  <2>1. q # p
    BY <1>3
  <2> QED
    BY <1>3, <2>1 DEF IInv, RowsWithinCursor
<1> QED
  BY <1>2, <1>7, <1>8, <1>9 DEF IInv, StoredContiguous

\* The seed moves the cursor to height 1, which carries nothing.
LEMMA SeedStep ==
    ASSUME IInv, NoHoles, SeedGenesis, TypeOK'
    PROVE  IInv'
<1>0. run # NoRun
  BY NoRunTyped DEF SeedGenesis
<1>1. /\ run # NoRun /\ run.proj = "temporal_map" /\ "temporal_map" \in Projections
      /\ cursor["temporal_map"].height = 0
  BY <1>0 DEF IInv, SeedGenesis, RunAccountsForRange
<1>2. /\ cursor' = [cursor EXCEPT !["temporal_map"] = Cursor(1, "idle")]
      /\ run' = [run EXCEPT !.seeding = FALSE]
      /\ UNCHANGED <<stored, rows>>
  BY DEF SeedGenesis
<1>3. /\ cursor'["temporal_map"].height = 1
      /\ \A q \in Projections : q # "temporal_map" => cursor'[q] = cursor[q]
  BY <1>1, <1>2, CursorTyped, BlockStoreAssumption DEF BlockStoreAssumption, IInv, TypeOK
<1>4. /\ run'.proj = "temporal_map" /\ run'.todo = run.todo /\ run'.end = run.end
      /\ ~run'.seeding
  BY <1>1, <1>2 DEF IInv, TypeOK, RunType
<1>5. ~Carries("temporal_map", 1)
  BY DEF Carries, NoHoles
<1>6. RunAccountsForRange'
  <2>1. \A h \in run.todo : h \in 1..run.end /\ SourcesComplete("temporal_map", h)'
    BY <1>1, <1>2, SourcesStable DEF IInv, RunAccountsForRange
  <2>2. \A h \in 1..run.end : h \in run.todo \/ Complete("temporal_map", h)'
    BY <1>1, <1>2, CompleteStable DEF IInv, RunAccountsForRange
  <2>3. "temporal_map" \notin Lists
    BY DEF Lists
  <2> QED
    BY <1>1, <1>3, <1>4, <2>1, <2>2, <2>3 DEF RunAccountsForRange, IInv, TypeOK, RunType
<1>7. NoSilentGap'
  <2> SUFFICES ASSUME NEW q \in Projections, NEW h \in 1..cursor'[q].height
               PROVE  Complete(q, h)'
    BY DEF NoSilentGap
  <2>1. CASE q = "temporal_map"
    BY <1>3, <1>5, <2>1 DEF Complete
  <2>2. CASE q # "temporal_map"
    BY <1>2, <1>3, <2>2, CompleteStable DEF IInv, NoSilentGap
  <2> QED
    BY <2>1, <2>2
<1>8. RowsWithinCursor'
  <2> SUFFICES ASSUME NEW q \in Projections, NEW h \in Heights, rows[q][h] # "none"
               PROVE  h <= cursor'[q].height /\ rows[q][h] = "complete"
    BY <1>2 DEF RowsWithinCursor
  <2>1. h <= cursor[q].height /\ rows[q][h] = "complete"
    BY DEF IInv, RowsWithinCursor
  <2>2. CASE q = "temporal_map"
    BY <1>1, <1>3, <2>1, <2>2, BlockStoreAssumption DEF BlockStoreAssumption, Heights
  <2> QED
    BY <1>3, <2>1, <2>2
<1> QED
  BY <1>2, <1>6, <1>7, <1>8 DEF IInv, StoredContiguous

\* The lowest missing height is derived from complete sources, and nothing is
\* missing below it.
LEMMA ProjectHeightStep ==
    ASSUME IInv, ProjectHeight, TypeOK'
    PROVE  IInv'
<1>0. PICK p \in Projections : p = run.proj /\ run # NoRun
  BY Working DEF IInv, ProjectHeight
<1>1. PICK h \in run.todo :
         /\ ~run.seeding
         /\ \A g \in run.todo : h <= g
         /\ rows' = [rows EXCEPT ![p][h] = Derived(p, h)]
         /\ cursor' = [cursor EXCEPT ![p] = Cursor(h, "idle")]
         /\ run' = [run EXCEPT !.todo = @ \ {h}]
         /\ UNCHANGED <<stored, faults, resets>>
  BY <1>0 DEF ProjectHeight
<1>2. run # NoRun /\ run.proj = p
  BY <1>0
<1>3. /\ h \in Heights /\ h \in 1..run.end /\ cursor[p].height <= h /\ SourcesComplete(p, h)
      /\ h \in 0..MaxHeight /\ run.end \in 0..MaxHeight /\ run.todo \subseteq Heights
  BY <1>2, BlockStoreAssumption
  DEF BlockStoreAssumption, Heights, IInv, TypeOK, RunType, RunAccountsForRange
<1>4. Derived(p, h) = "complete"
  BY <1>3 DEF Derived
<1>5. /\ cursor'[p].height = h
      /\ rows'[p][h] = "complete"
      /\ \A g \in Heights : g # h => rows'[p][g] = rows[p][g]
      /\ \A q \in Projections : q # p => cursor'[q] = cursor[q] /\ rows'[q] = rows[q]
  BY <1>1, <1>2, <1>3, <1>4, CursorTyped DEF IInv, TypeOK
<1>6. ASSUME NEW g \in Heights, Complete(p, g) PROVE Complete(p, g)'
  <2>1. CASE g = h
    BY <1>5, <2>1 DEF Complete
  <2>2. CASE g # h
    BY <1>5, <1>6, <2>2 DEF Complete
  <2> QED
    BY <2>1, <2>2
<1>7. /\ run'.proj = p /\ run'.end = run.end /\ run'.todo = run.todo \ {h}
      /\ ~run'.seeding
  BY <1>1, <1>2 DEF IInv, TypeOK, RunType
<1>8. \A g \in 1..run.end : g \in Heights /\ (g \in run.todo \/ Complete(p, g))
  BY <1>2, <1>3, BlockStoreAssumption
  DEF BlockStoreAssumption, Heights, IInv, RunAccountsForRange
<1>9. RunAccountsForRange'
  <2>1. \A g \in run'.todo : g \in 1..run.end /\ h <= g /\ SourcesComplete(p, g)'
    BY <1>1, <1>2, <1>5, <1>7, SourcesStable DEF IInv, RunAccountsForRange
  <2>2. \A g \in 1..run.end : g \in run'.todo \/ Complete(p, g)'
    BY <1>5, <1>6, <1>7, <1>8 DEF Complete
  <2>3. h <= run.end
    BY <1>3
  <2> QED
    BY <1>2, <1>5, <1>7, <2>1, <2>2, <2>3 DEF RunAccountsForRange
<1>10. NoSilentGap'
  <2> SUFFICES ASSUME NEW q \in Projections, NEW g \in 1..cursor'[q].height
               PROVE  Complete(q, g)'
    BY DEF NoSilentGap
  <2>1. CASE q # p
    BY <1>5, <2>1, CompleteStable DEF IInv, NoSilentGap
  <2>2. CASE q = p /\ g = h
    BY <1>5, <2>2 DEF Complete
  <2>3. CASE q = p /\ g # h
    <3>1. g \in 1..run.end /\ g < h
      BY <1>3, <1>5, <2>3, BlockStoreAssumption DEF BlockStoreAssumption
    <3>2. g \notin run.todo
      BY <1>1, <1>3, <3>1, BlockStoreAssumption DEF BlockStoreAssumption, Heights
    <3> QED
      BY <1>6, <1>8, <2>3, <3>1, <3>2
  <2> QED
    BY <2>1, <2>2, <2>3
<1>11. RowsWithinCursor'
  <2> SUFFICES ASSUME NEW q \in Projections, NEW g \in Heights, rows'[q][g] # "none"
               PROVE  g <= cursor'[q].height /\ rows'[q][g] = "complete"
    BY DEF RowsWithinCursor
  <2>1. CASE q # p
    BY <1>5, <2>1 DEF IInv, RowsWithinCursor
  <2>2. CASE q = p /\ g = h
    BY <1>3, <1>5, <2>2, BlockStoreAssumption DEF BlockStoreAssumption
  <2>3. CASE q = p /\ g # h
    <3>1. g <= cursor[p].height /\ rows'[p][g] = "complete"
      BY <1>2, <1>5, <2>3 DEF IInv, RowsWithinCursor
    <3>2. cursor[p].height \in Nat
      BY <1>2, BlockStoreAssumption DEF BlockStoreAssumption, IInv, TypeOK, CursorType
    <3> QED
      BY <1>3, <1>5, <2>3, <3>1, <3>2, BlockStoreAssumption DEF BlockStoreAssumption, Heights
  <2> QED
    BY <2>1, <2>2, <2>3
<1> QED
  BY <1>1, <1>9, <1>10, <1>11 DEF IInv, StoredContiguous

\* A list that is done moves its cursor over heights that carry nothing.
LEMMA FinishStep ==
    ASSUME IInv, Finish, TypeOK'
    PROVE  IInv'
<1>0. PICK p \in Projections : p = run.proj
  BY DEF Finish, IInv, RunAccountsForRange
<1>1. /\ run # NoRun /\ p = run.proj /\ run.todo = {} /\ run' = NoRun
      /\ cursor' = IF p \in Lists THEN [cursor EXCEPT ![p] = Cursor(run.end, "idle")] ELSE cursor
      /\ UNCHANGED <<stored, rows>>
  BY <1>0 DEF Finish
<1>2. /\ \A g \in 1..run.end : Complete(p, g)
      /\ p \in Lists => cursor[p].height <= run.end
  BY <1>1 DEF IInv, RunAccountsForRange
<1>3. /\ \A q \in Projections : q # p => cursor'[q] = cursor[q]
      /\ cursor'[p] = cursor[p] \/ (p \in Lists /\ cursor'[p].height = run.end)
  BY <1>1, CursorTyped DEF IInv, TypeOK, RunType
<1>4. RunAccountsForRange'
  BY <1>1 DEF RunAccountsForRange, NoRun, Run
<1>5. NoSilentGap'
  <2> SUFFICES ASSUME NEW q \in Projections, NEW g \in 1..cursor'[q].height
               PROVE  Complete(q, g)'
    BY DEF NoSilentGap
  <2>1. Complete(q, g)
    BY <1>2, <1>3 DEF IInv, NoSilentGap
  <2> QED
    BY <1>1, <2>1, CompleteStable
<1>6. RowsWithinCursor'
  <2> SUFFICES ASSUME NEW q \in Projections, NEW g \in Heights, rows[q][g] # "none"
               PROVE  g <= cursor'[q].height /\ rows[q][g] = "complete"
    BY <1>1 DEF RowsWithinCursor
  <2>1. g <= cursor[q].height /\ rows[q][g] = "complete"
    BY DEF IInv, RowsWithinCursor
  <2>2. cursor[q].height <= cursor'[q].height
    BY <1>2, <1>3, BlockStoreAssumption DEF BlockStoreAssumption, IInv, TypeOK, CursorType
  <2>3. cursor[q].height \in Nat /\ cursor'[q].height \in Nat
    BY BlockStoreAssumption DEF BlockStoreAssumption, IInv, TypeOK, CursorType
  <2> QED
    BY <2>1, <2>2, <2>3, BlockStoreAssumption DEF BlockStoreAssumption, Heights
<1> QED
  BY <1>1, <1>4, <1>5, <1>6 DEF IInv, StoredContiguous

\* A failed or killed run leaves rows and heights of cursors as they are.
LEMMA FaultStep ==
    ASSUME IInv, RunFails \/ Crash, TypeOK'
    PROVE  IInv'
<1>1. /\ run' = NoRun /\ UNCHANGED <<stored, rows>>
      /\ \A q \in Projections : cursor'[q].height = cursor[q].height
  BY DEF RunFails, Crash, IInv, TypeOK, CursorType
<1>2. RunAccountsForRange'
  BY <1>1 DEF RunAccountsForRange, NoRun, Run
<1>3. NoSilentGap' /\ RowsWithinCursor'
  BY <1>1, CompleteStable DEF IInv, NoSilentGap, RowsWithinCursor
<1> QED
  BY <1>1, <1>2, <1>3 DEF IInv, StoredContiguous

LEMMA StutterStep ==
    ASSUME IInv, UNCHANGED vars, TypeOK'
    PROVE  IInv'
<1>1. UNCHANGED <<stored, cursor, rows, run>>
  BY DEF vars
<1>2. RunAccountsForRange'
  <2> SUFFICES ASSUME run # NoRun PROVE RunAccountsForRange'
    BY <1>1 DEF RunAccountsForRange, NoRun, Run
  <2>1. run.proj \in Projections
    BY DEF IInv, RunAccountsForRange
  <2>2. \A h \in run.todo : SourcesComplete(run.proj, h)'
    BY <1>1, <2>1, SourcesStable DEF IInv, RunAccountsForRange
  <2> QED
    BY <1>1, <2>1, <2>2, CompleteStable DEF IInv, RunAccountsForRange
<1> QED
  BY <1>1, <1>2, CompleteStable DEF IInv, StoredContiguous, NoSilentGap, RowsWithinCursor

(***************************************************************************)
(* The theorems.                                                           *)
(***************************************************************************)

LEMMA InitInv == Init => IInv
<1> SUFFICES ASSUME Init PROVE IInv
  OBVIOUS
<1>1. TypeOK
  BY NoRunTyped, CursorTyped, PipelineAssumption, BlockStoreAssumption
  DEF PipelineAssumption, BlockStoreAssumption, Init, StoreInit, TypeOK, Derivations
<1>2. NoSilentGap /\ RowsWithinCursor
  BY CursorTyped, BlockStoreAssumption
  DEF BlockStoreAssumption, Init, NoSilentGap, RowsWithinCursor
<1> QED
  BY <1>1, <1>2 DEF Init, StoreInit, IInv, StoredContiguous, RunAccountsForRange

LEMMA StepInv == ASSUME NoHoles PROVE IInv /\ [Next]_vars => IInv'
<1> SUFFICES ASSUME IInv, [Next]_vars PROVE IInv'
  OBVIOUS
<1>1. TypeOK'
  BY TypeStep DEF IInv
<1> QED
  BY <1>1, Programs, IngestStep, StartStep, ResetStep, ResetCliStep, SeedStep,
     ProjectHeightStep, FinishStep, FaultStep, StutterStep

\* The inductive invariant holds in every reachable state.
THEOREM Invariant == ASSUME NoHoles PROVE Spec => []IInv
<1>1. Init => IInv
  BY InitInv
<1>2. IInv /\ [Next]_vars => IInv'
  BY StepInv
<1> QED
  BY <1>1, <1>2, PTL DEF Spec

\* Cursors, rows and the run keep their types (projections/cursor.ts rows).
THEOREM PipelineTypeCorrect == ASSUME NoHoles PROVE Spec => []TypeOK
<1>1. IInv => TypeOK
  BY DEF IInv
<1> QED
  BY <1>1, Invariant, PTL

\* No projection ever leaves a silent gap below its cursor: the caps of issues
\* #56 and #59 suffice, for any order of runs, failures, kills and resets.
THEOREM GapFree == ASSUME NoHoles PROVE Spec => []NoSilentGap
<1>1. IInv => NoSilentGap
  BY DEF IInv
<1> QED
  BY <1>1, Invariant, PTL

\* Rows never lie ahead of their cursor nor derive from incomplete sources.
THEOREM RowsBacked == ASSUME NoHoles PROVE Spec => []RowsWithinCursor
<1>1. IInv => RowsWithinCursor
  BY DEF IInv
<1> QED
  BY <1>1, Invariant, PTL

(***************************************************************************)
(* The temporal map.  Its invariant has three parts.  Of the chain: what   *)
(* the events of a block make of each slot's key, and that nothing         *)
(* disturbs a slot between the request of a rotation and the rotation.  Of *)
(* the rotation rows: which events a row was made of, and that whether an  *)
(* application finds its row depends on the chain alone, whatever was      *)
(* projected again or reset.  Of the map: what it says of the heights it   *)
(* has settled and of those after, where a rotation still to come may have *)
(* been mapped early.                                                      *)
(***************************************************************************)
(***************************************************************************)
(* The chain                                                               *)
(***************************************************************************)
EventTypes == {"activated", "deactivated", "requested", "rotated_in_tx", "rotated", "cancelled"}

Lost == {"nothing", "message", "slot", "address", "old", "new"}

ChainEvent == [type : EventTypes, slot : Slots, old : Keys, new : Keys, due : Nat, lost : Lost]

SlotKey == Keys \union {NoKey}

SlotState == [active : BOOLEAN, key : Keys, next : SlotKey, due : Nat]

ChainTyped ==
    /\ slot \in [Slots -> SlotState]
    /\ block \in Seq(ChainEvent) /\ log \in Seq(Seq(ChainEvent))
    /\ members \in Seq([Slots -> SlotKey]) /\ Len(members) = Len(log) + 2
    /\ nameless \subseteq GenesisActive

\* When a rotation is due.
Timely(e, h) ==
    /\ e.type = "requested" => e.due = h + RotationDelay
    /\ e.type \in {"rotated", "rotated_in_tx"} => e.due = h
    /\ e.type = "rotated_in_tx" => e.slot \in RotateInactive

EventsTimely ==
    /\ \A h \in DOMAIN log : \A i \in DOMAIN log[h] : Timely(log[h][i], h)
    /\ \A i \in DOMAIN block : Timely(block[i], Now) /\ block[i].type # "rotated"

Activity == {"activated", "deactivated"}

\* After a height and up to another a slot is neither activated nor
\* deactivated, and no rotation of it is applied from that height on.
Calm(blocks, s, first, last) ==
    \A h \in DOMAIN blocks : \A i \in DOMAIN blocks[h] :
        first <= h /\ h <= last /\ blocks[h][i].slot = s
        => (blocks[h][i].type \in Activity => h = first) /\ blocks[h][i].type # "rotated"

CalmAt(blocks, h, i) ==
    /\ Calm(blocks, blocks[h][i].slot, h - RotationDelay, h - 1)
    /\ \A j \in DOMAIN blocks[h] :
          blocks[h][j].slot = blocks[h][i].slot
          => blocks[h][j].type \notin Activity /\ (blocks[h][j].type = "rotated" => j = i)

RotationsCalm ==
    \A h \in DOMAIN log : \A i \in DOMAIN log[h] : log[h][i].type = "rotated" => CalmAt(log, h, i)

\* A rotation that is pending.
PendingCalm ==
    \A s \in Slots : slot[s].next # NoKey =>
        /\ slot[s].active
        /\ slot[s].due - RotationDelay <= Now /\ Now <= slot[s].due
        /\ Calm(log, s, slot[s].due - RotationDelay, Len(log))
        /\ slot[s].due - RotationDelay < Now =>
              \A i \in DOMAIN block : block[i].slot = s => block[i].type \notin Activity

\* What an event makes of the key a slot validates with.
Turns(key, e, s, next) ==
    IF e.slot # s THEN next = key
    ELSE CASE e.type = "activated"   -> key = NoKey /\ next = e.new
           [] e.type = "deactivated" -> next = NoKey
           [] e.type = "rotated"     -> next = e.new
           [] OTHER                  -> next = key

\* The keys of a slot through the events of a block.
Keyed(events, s, first, last) ==
    \E keys \in [0..Len(events) -> SlotKey] :
        /\ keys[0] = first /\ keys[Len(events)] = last
        /\ \A i \in 1..Len(events) : Turns(keys[i - 1], events[i], s, keys[i])

MembersFollow ==
    \A s \in Slots :
        /\ \A h \in DOMAIN log : Keyed(log[h], s, members[h + 1][s], members[h + 2][s])
        /\ Keyed(block, s, members[Len(log) + 2][s], ValidatorSet(slot)[s])

MembersAtGenesis ==
    \A s \in Slots : members[1][s] = members[2][s]
                     /\ members[1][s] = IF s \in GenesisActive THEN GenesisKey[s] ELSE NoKey

ChainInv ==
    ChainTyped /\ EventsTimely /\ RotationsCalm /\ PendingCalm /\ MembersFollow /\ MembersAtGenesis

(***************************************************************************)
(* The rotation rows                                                       *)
(***************************************************************************)
EventRow == [id : Nat \X Nat, type : EventTypes, slot : Slots, old : Keys, new : Keys, due : Nat,
             lost : Lost]

Recorded == UNION {Range(EventsAt(h)) : h \in DOMAIN log}

\* The requests whose rows an application may be about.
Requests(e) ==
    {q \in Recorded : /\ q.type = "requested" /\ HasPayload(q)
                      /\ q.slot = e.slot /\ NewKey(q) = NewKey(e) /\ q.due = e.due}

Ambiguous(e) == \E p, q \in Requests(e) : p # q

Statuses == {"requested", "applied", "immediate_applied", "cancelled"}

RowType == [status : Statuses, slot : Slots, old : SlotKey, new : SlotKey, due : Nat,
            request : Nat \X Nat, applied : Nat \X Nat, cancelled : Nat \X Nat]

IsApplied(r) == r.status \in {"applied", "immediate_applied"}

\* The rows of two requests that cannot be told apart are never marked.
RequestOf(r, q) ==
    /\ q.id = r.request /\ q.type = "requested" /\ HasPayload(q)
    /\ r.slot = q.slot /\ r.new = NewKey(q) /\ r.due = q.due
    /\ Ambiguous(q) => r.status = "requested"

ApplicationOf(r, e) ==
    /\ e.id = r.applied /\ e.type \in {"rotated", "rotated_in_tx"}
    /\ r.slot = e.slot /\ r.new = NewKey(e) /\ r.due = e.due
    /\ e.type = "rotated" => Readable(e) /\ ~Ambiguous(e)

RowMade(r) ==
    /\ r \in RowType
    /\ r.request # NoEvent => \E q \in Recorded : RequestOf(r, q)
    /\ r.applied # NoEvent => IsApplied(r) /\ \E e \in Recorded : ApplicationOf(r, e)
    /\ r.cancelled # NoEvent => r.status = "cancelled"
    /\ r.status = "requested" => r.request # NoEvent
    /\ IsApplied(r) => r.applied # NoEvent

RequestsUnique(made) ==
    \A i, j \in DOMAIN made : made[i].request = made[j].request /\ i # j => made[i].request = NoEvent

\* Every request of the height that can be read has its row.
Whole(made, h) ==
    \A q \in Range(EventsAt(h)) :
        q.type = "requested" /\ HasPayload(q) => \E i \in DOMAIN made : made[i].request = q.id

\* Rows of requests of some heights, those of others being complete.
RowsMade(made, some, whole) ==
    /\ made \in Seq(RowType)
    /\ \A i \in DOMAIN made : RowMade(made[i])
    /\ RequestsUnique(made)
    /\ \A i \in DOMAIN made : made[i].request # NoEvent => made[i].request[1] \in some
    /\ \A h \in whole : Whole(made, h)

\* An application has its row, or a failure that excuses its slot.
Settles(b, e) ==
    \/ ~Readable(e) /\ Drift(e, "unreadable") \in b.fails
    \/ Readable(e) /\ Ambiguous(e) /\ Drift(e, "ambiguous") \in b.fails
    \/ Readable(e) /\ ~Ambiguous(e) /\ \E i \in DOMAIN b.rows : b.rows[i].applied = e.id

SettledAt(b, h) == \A e \in Range(EventsAt(h)) : e.type = "rotated" => Settles(b, e)

RotationsInv ==
    /\ rotated \in 0..Len(log)
    /\ \E whole \in SUBSET (1..Len(log)) :
          1..rotated \subseteq whole /\ RowsMade(rotations, whole, whole)
    /\ \A h \in 1..rotated : SettledAt(Book(rotations, drift), h)

(***************************************************************************)
(* The map                                                                 *)
(***************************************************************************)
WindowType == [slot : Slots, key : Keys, from : Nat \ {0}, to : Nat]

Of(W, s) == {w \in W : w.slot = s}

\* A window that says nothing of a height, nor of one after.
Over(w, h) == w.to # NoEnd /\ w.to <= h

\* From a height on a slot validates with the key, for all that is known.
Plain(W, key, h) ==
    /\ \A w \in W : Over(w, h) \/ (w.to = NoEnd /\ w.key = key /\ w.from <= h)
    /\ key # NoKey => \E w \in W : w.to = NoEnd

\* As before, up to the height where an application to come takes effect.
Early(W, key, h, e) ==
    /\ h < e.due + 2 /\ e.due - RotationDelay + 2 <= h
    /\ \A w \in W : \/ Over(w, h)
                    \/ w.to = e.due + 2 /\ w.key = key /\ w.from <= h
                    \/ w.to = NoEnd /\ w.key = NewKey(e) /\ w.from = e.due + 2
    /\ key # NoKey => \E w \in W : w.to = e.due + 2 /\ w.key = key /\ w.from <= h

Coming(s) == {e \in Recorded : e.type = "rotated" /\ e.slot = s}

Holds(W, s, h) ==
    \/ Plain(Of(W, s), members[h][s], h)
    \/ \E e \in Coming(s) : Early(Of(W, s), members[h][s], h, e)

\* Slots whose windows may be wrong for good.
Failing ==
    {s \in Slots : \/ \E h \in 0..mapped : Failure(h, s) \in failures
                   \/ \E e \in Coming(s) : e.due <= mapped /\ (~Readable(e) \/ Ambiguous(e))}

SlotMapped(s) ==
    /\ \A h \in Settled : KeysAt(windows, s, h) = {members[h][s]} \ {NoKey}
    /\ Holds(windows, s, mapped + 2)

MapInv ==
    /\ windows \subseteq WindowType /\ mapped \in 0..Len(log)
    /\ \A s \in Slots \ (RotateInactive \union Failing) : SlotMapped(s)

TemporalInv == ChainInv /\ RotationsInv /\ MapInv

-----------------------------------------------------------------------------
(***************************************************************************)
(* Counting, orders and sequences                                          *)
(***************************************************************************)
LEMMA CountingUp ==
    ASSUME NEW N \in Nat, NEW Shown, 0 \in Shown, \A n \in 0..(N - 1) : n \in Shown => n + 1 \in Shown
    PROVE  0..N \subseteq Shown
<1> DEFINE Bad == (0..N) \ Shown
           less == {p \in Nat \X Nat : p[1] < p[2]}
<1>1. IsWellFoundedOn(less, Nat)
  BY NatLessThanWellFounded DEF OpToRel
<1>2. SUFFICES ASSUME Bad # {} PROVE FALSE OBVIOUS
<1>3. PICK m \in Bad : \A k \in Bad : <<k, m>> \notin less
  <2>1. Bad \subseteq Nat OBVIOUS
  <2>. HIDE DEF Bad, less
  <2>. QED BY <1>1, <1>2, <2>1, WFMin
<1>4. m \in 0..N /\ m - 1 \in 0..(N - 1) BY <1>3
<1>5. m - 1 \in Shown
  <2>1. m - 1 < m /\ m - 1 \in Nat /\ m \in Nat /\ m - 1 \in 0..N BY <1>4
  <2>2. <<m - 1, m>> \in less BY <2>1
  <2>. QED BY <1>3, <2>1, <2>2
<1>6. m - 1 + 1 = m BY <1>4
<1>. QED BY <1>3, <1>4, <1>5, <1>6

\* A finite set has an order.
LEMMA OrderExists ==
    ASSUME NEW S, IsFiniteSet(S)
    PROVE  /\ AnOrder(S) \in [1..Cardinality(S) -> S] /\ Cardinality(S) \in Nat
           /\ \A x \in S : \E i \in 1..Cardinality(S) : AnOrder(S)[i] = x
           /\ \A i, j \in 1..Cardinality(S) : AnOrder(S)[i] = AnOrder(S)[j] => i = j
<1>1. PICK n \in Nat : ExistsBijection(1..n, S) BY FS_NatBijection
<1>2. Cardinality(S) = n BY <1>1, FS_CountingElements
<1>3. \E order : order \in Orders(S) BY <1>1, <1>2 DEF ExistsBijection, Orders
<1>4. AnOrder(S) \in Orders(S) BY <1>3 DEF AnOrder
<1>. HIDE DEF AnOrder
<1>5. AnOrder(S) \in Bijection(1..n, S) BY <1>2, <1>4 DEF Orders
<1>. QED BY <1>2, <1>5 DEF Bijection, Injection, Surjection, IsInjective

\* An order, as one in which messages come.
LEMMA OrderOf ==
    ASSUME NEW S, NEW f \in Orders(S), IsFiniteSet(S)
    PROVE  /\ Cardinality(S) \in Nat /\ f \in Seq(S) /\ Len(f) = Cardinality(S)
           /\ DOMAIN f = 1..Len(f)
           /\ \A x \in S : \E i \in 1..Len(f) : f[i] = x
<1>1. Cardinality(S) \in Nat BY FS_CardinalityType
<1>2. f \in [1..Cardinality(S) -> S] /\ \A x \in S : \E i \in 1..Cardinality(S) : f[i] = x
  BY DEF Orders, Bijection, Injection, Surjection
<1>3. f \in Seq(S) /\ Len(f) = Cardinality(S) BY <1>1, <1>2
<1>. QED BY <1>1, <1>2, <1>3

\* Two elements make more than one.
LEMMA TwoAreMore ==
    ASSUME NEW S, IsFiniteSet(S), NEW x \in S, NEW y \in S, x # y
    PROVE  Cardinality(S) > 1
<1>1. Cardinality({x, y}) = 2
  <2>1. Cardinality({x}) = 1 /\ IsFiniteSet({x}) BY FS_Singleton
  <2>2. Cardinality({x} \union {y}) = Cardinality({x}) + 1 BY <2>1, FS_AddElement
  <2>3. {x} \union {y} = {x, y} OBVIOUS
  <2>. QED BY <2>1, <2>2, <2>3
<1>2. {x, y} \subseteq S OBVIOUS
<1>3. Cardinality({x, y}) <= Cardinality(S) BY <1>2, FS_Subset
<1>4. Cardinality(S) \in Nat BY FS_CardinalityType
<1>. QED BY <1>1, <1>3, <1>4

LEMMA OneAtMost ==
    ASSUME NEW S, IsFiniteSet(S), ~(Cardinality(S) > 1), NEW x \in S
    PROVE  S = {x}
<1>1. \A y \in S : y = x BY TwoAreMore
<1>. QED BY <1>1

\* The elements of two sequences, one after the other.
LEMMA Concat ==
    ASSUME NEW E, NEW f \in Seq(E), NEW g \in Seq(E)
    PROVE  /\ f \o g \in Seq(E) /\ Len(f \o g) = Len(f) + Len(g) /\ Len(f) \in Nat /\ Len(g) \in Nat
           /\ DOMAIN f = 1..Len(f) /\ DOMAIN g = 1..Len(g) /\ DOMAIN (f \o g) = 1..(Len(f) + Len(g))
           /\ \A i \in 1..Len(f) : (f \o g)[i] = f[i]
           /\ \A i \in 1..Len(g) : (f \o g)[Len(f) + i] = g[i]
           /\ \A i \in DOMAIN (f \o g) :
                 \/ i \in DOMAIN f /\ (f \o g)[i] = f[i]
                 \/ i - Len(f) \in DOMAIN g /\ (f \o g)[i] = g[i - Len(f)]
OBVIOUS

(***************************************************************************)
(* What events make of a slot's key.                                       *)
(***************************************************************************)
LEMMA KeyedBoth ==
    ASSUME NEW E, NEW f \in Seq(E), NEW g \in Seq(E), NEW s, NEW first, NEW between, NEW last,
           Keyed(f, s, first, between), Keyed(g, s, between, last)
    PROVE  Keyed(f \o g, s, first, last)
<1>1. PICK p \in [0..Len(f) -> SlotKey] :
         /\ p[0] = first /\ p[Len(f)] = between
         /\ \A i \in 1..Len(f) : Turns(p[i - 1], f[i], s, p[i])
  BY DEF Keyed
<1>2. PICK q \in [0..Len(g) -> SlotKey] :
         /\ q[0] = between /\ q[Len(g)] = last
         /\ \A i \in 1..Len(g) : Turns(q[i - 1], g[i], s, q[i])
  BY DEF Keyed
<1>3. Len(f) \in Nat /\ Len(g) \in Nat /\ Len(f \o g) = Len(f) + Len(g) BY Concat
<1> DEFINE m == Len(f)
           n == Len(g)
           keys == [i \in 0..(m + n) |-> IF i <= m THEN p[i] ELSE q[i - m]]
<1>4. keys \in [0..(m + n) -> SlotKey]
  <2>1. ASSUME NEW i \in 0..(m + n), ~(i <= m) PROVE i - m \in 0..n BY <1>3, <2>1
  <2>2. ASSUME NEW i \in 0..(m + n), i <= m PROVE i \in 0..m BY <1>3, <2>2
  <2>. HIDE DEF m, n
  <2>. QED BY <2>1, <2>2 DEF m, n
<1>5. keys[0] = first BY <1>1, <1>3
<1>6. keys[m + n] = last
  <2>1. CASE n = 0 BY <1>1, <1>2, <1>3, <2>1
  <2>2. CASE n # 0 BY <1>2, <1>3, <2>2
  <2>. QED BY <2>1, <2>2
<1>7. ASSUME NEW i \in 1..(m + n) PROVE Turns(keys[i - 1], (f \o g)[i], s, keys[i])
  <2>1. CASE i <= m
    <3>1. i \in 1..m /\ i - 1 <= m /\ i \in 0..(m + n) /\ i - 1 \in 0..(m + n) BY <1>3, <2>1
    <3>2. keys[i - 1] = p[i - 1] /\ keys[i] = p[i] BY <2>1, <3>1
    <3>3. (f \o g)[i] = f[i] BY <3>1, Concat
    <3>. HIDE DEF keys
    <3>. QED BY <1>1, <3>1, <3>2, <3>3
  <2>2. CASE ~(i <= m)
    <3>1. i - m \in 1..n /\ i \in 0..(m + n) /\ i - 1 \in 0..(m + n) /\ i - 1 - m = i - m - 1
      BY <1>3, <2>2
    <3>2. keys[i] = q[i - m] BY <2>2, <3>1
    <3>3. keys[i - 1] = q[i - m - 1]
      <4>1. CASE i - 1 <= m
        <5>1. i - 1 = m /\ i - m - 1 = 0 BY <1>3, <2>2, <4>1
        <5>2. keys[i - 1] = p[m] BY <3>1, <5>1
        <5>. QED BY <1>1, <1>2, <5>1, <5>2
      <4>2. CASE ~(i - 1 <= m) BY <3>1, <4>2
      <4>. QED BY <4>1, <4>2
    <3>4. (f \o g)[i] = g[i - m]
      <4>1. (f \o g)[m + (i - m)] = g[i - m] BY <3>1, Concat
      <4>2. m + (i - m) = i BY <1>3
      <4>. QED BY <4>1, <4>2
    <3>. HIDE DEF keys
    <3>. QED BY <1>2, <3>1, <3>2, <3>3, <3>4
  <2>. QED BY <2>1, <2>2
<1>8. \E k \in [0..Len(f \o g) -> SlotKey] :
         /\ k[0] = first /\ k[Len(f \o g)] = last
         /\ \A i \in 1..Len(f \o g) : Turns(k[i - 1], (f \o g)[i], s, k[i])
  <2>. HIDE DEF keys
  <2>. QED BY <1>3, <1>4, <1>5, <1>6, <1>7
<1>. QED BY <1>8 DEF Keyed

LEMMA KeyedSame ==
    ASSUME NEW E, NEW f \in Seq(E), NEW s, NEW key \in SlotKey,
           \A i \in 1..Len(f) : Turns(key, f[i], s, key)
    PROVE  Keyed(f, s, key, key)
<1> DEFINE keys == [i \in 0..Len(f) |-> key]
<1>1. Len(f) \in Nat OBVIOUS
<1>2. keys \in [0..Len(f) -> SlotKey] /\ \A i \in 0..Len(f) : keys[i] = key OBVIOUS
<1>3. \A i \in 1..Len(f) : keys[i - 1] = key /\ keys[i] = key BY <1>1
<1>4. keys[0] = key /\ keys[Len(f)] = key BY <1>1
<1>. HIDE DEF keys
<1>. QED BY <1>2, <1>3, <1>4 DEF Keyed

LEMMA KeyedOne ==
    ASSUME NEW e, NEW s, NEW key \in SlotKey, NEW next \in SlotKey, Turns(key, e, s, next)
    PROVE  Keyed(<<e>>, s, key, next)
<1> DEFINE keys == [i \in 0..1 |-> IF i = 0 THEN key ELSE next]
<1>1. Len(<<e>>) = 1 /\ <<e>>[1] = e OBVIOUS
<1>2. keys \in [0..1 -> SlotKey] /\ keys[0] = key /\ keys[1] = next OBVIOUS
<1>. HIDE DEF keys
<1>3. \A i \in 1..1 : i = 1 /\ i - 1 = 0 OBVIOUS
<1>4. \A i \in 1..1 : Turns(keys[i - 1], <<e>>[i], s, keys[i]) BY <1>1, <1>2, <1>3
<1>. QED BY <1>1, <1>2, <1>4 DEF Keyed

\* An application turns the key where it stands.
LEMMA KeyedOnce ==
    ASSUME NEW E, NEW f \in Seq(E), NEW s, NEW key \in SlotKey, NEW next \in SlotKey,
           NEW at \in 1..Len(f), Turns(key, f[at], s, next),
           \A i \in 1..Len(f) : i # at => f[i].slot # s
    PROVE  Keyed(f, s, key, next)
<1> DEFINE keys == [i \in 0..Len(f) |-> IF i < at THEN key ELSE next]
<1>1. Len(f) \in Nat /\ at \in Nat /\ 0 < at /\ at <= Len(f) OBVIOUS
<1>2. keys \in [0..Len(f) -> SlotKey] /\ keys[0] = key /\ keys[Len(f)] = next BY <1>1
<1>3. ASSUME NEW i \in 1..Len(f) PROVE Turns(keys[i - 1], f[i], s, keys[i])
  <2>0. i \in 0..Len(f) /\ i - 1 \in 0..Len(f) BY <1>1
  <2>1. CASE i = at
    <3>1. keys[i - 1] = key /\ keys[i] = next BY <1>1, <2>0, <2>1
    <3>. HIDE DEF keys
    <3>. QED BY <2>1, <3>1
  <2>2. CASE i # at
    <3>1. keys[i] = keys[i - 1] BY <1>1, <2>0, <2>2
    <3>. HIDE DEF keys
    <3>. QED BY <2>2, <3>1 DEF Turns
  <2>. QED BY <2>1, <2>2
<1>. HIDE DEF keys
<1>. QED BY <1>2, <1>3 DEF Keyed

\* What cannot be read of events changes nothing of them.
LEMMA KeyedReadings ==
    ASSUME NEW f, NEW g, NEW s, NEW first, NEW last, Len(g) = Len(f),
           \A i \in 1..Len(f) : g[i].type = f[i].type /\ g[i].slot = f[i].slot /\ g[i].new = f[i].new,
           Keyed(f, s, first, last)
    PROVE  Keyed(g, s, first, last)
<1>1. PICK keys \in [0..Len(f) -> SlotKey] :
         /\ keys[0] = first /\ keys[Len(f)] = last
         /\ \A i \in 1..Len(f) : Turns(keys[i - 1], f[i], s, keys[i])
  BY DEF Keyed
<1>2. ASSUME NEW i \in 1..Len(f) PROVE Turns(keys[i - 1], g[i], s, keys[i])
  BY <1>1 DEF Turns
<1>. QED BY <1>1, <1>2 DEF Keyed

-----------------------------------------------------------------------------
(***************************************************************************)
(* The chain's invariant                                                   *)
(***************************************************************************)
LEMMA ChainBegins ==
    ASSUME ChainInit
    PROVE  ChainInv
<1>. USE ChainAssumption DEF ChainInit
<1> DEFINE genesis == ValidatorSet(slot)
<1>1. slot \in [Slots -> SlotState] BY DEF SlotState, SlotKey
<1>2. genesis \in [Slots -> SlotKey] BY <1>1 DEF ValidatorSet, SlotState, SlotKey
<1>. HIDE DEF genesis
<1>3. members = <<genesis, genesis>> BY DEF genesis
<1>4. Len(log) = 0 /\ Len(members) = 2 /\ members[1] = genesis /\ members[2] = genesis
      /\ members \in Seq([Slots -> SlotKey])
  BY <1>2, <1>3
<1>5. ChainTyped BY <1>1, <1>4 DEF ChainTyped
<1>6. DOMAIN log = {} /\ DOMAIN block = {} OBVIOUS
<1>7. EventsTimely /\ RotationsCalm BY <1>6 DEF EventsTimely, RotationsCalm
<1>8. PendingCalm BY DEF PendingCalm
<1>9. MembersFollow
  <2>1. ASSUME NEW s \in Slots PROVE Keyed(block, s, genesis[s], genesis[s])
    <3>1. genesis[s] \in SlotKey /\ block \in Seq(ChainEvent) /\ Len(block) = 0 BY <1>2
    <3>2. \A i \in 1..Len(block) : Turns(genesis[s], block[i], s, genesis[s]) BY <3>1
    <3>. QED BY ONLY <3>1, <3>2, KeyedSame
  <2>. QED BY <1>4, <1>6, <2>1 DEF MembersFollow, genesis
<1>10. MembersAtGenesis
  BY <1>4 DEF MembersAtGenesis, genesis, ValidatorSet
<1>. QED BY <1>5, <1>7, <1>8, <1>9, <1>10 DEF ChainInv

\* A transaction whose events are of one slot.
LEMMA Transacted ==
    ASSUME ChainInv, NEW s \in Slots, NEW state \in SlotState, NEW events \in Seq(ChainEvent),
           slot' = [slot EXCEPT ![s] = state], Emit(events),
           \A i \in DOMAIN events : /\ events[i].slot = s /\ events[i].type # "rotated"
                                    /\ Timely(events[i], Now),
           Keyed(events, s, ValidatorSet(slot)[s], ValidatorSet(slot')[s]),
           state.next # NoKey => /\ state.active /\ state.due = Now + RotationDelay
    PROVE  ChainInv'
<1>1. ChainTyped BY DEF ChainInv
<1>2. block' = block \o events /\ UNCHANGED <<log, members, nameless>> /\ Now' = Now
  BY DEF Emit, Now
<1>3. slot' \in [Slots -> SlotState] /\ slot'[s] = state /\ \A t \in Slots : t # s => slot'[t] = slot[t]
  BY <1>1 DEF ChainTyped
<1>4. block \in Seq(ChainEvent) /\ block' \in Seq(ChainEvent) BY <1>1, <1>2, Concat DEF ChainTyped
<1>5. ChainTyped' BY <1>1, <1>2, <1>3, <1>4 DEF ChainTyped
<1>6. \A i \in DOMAIN block' : \/ i \in DOMAIN block /\ block'[i] = block[i]
                               \/ i - Len(block) \in DOMAIN events /\ block'[i] = events[i - Len(block)]
  BY <1>2, <1>4, Concat
<1>7. EventsTimely'
  <2>1. ASSUME NEW h \in DOMAIN log', NEW i \in DOMAIN log'[h] PROVE Timely(log'[h][i], h)
    BY <1>2 DEF ChainInv, EventsTimely
  <2>2. ASSUME NEW i \in DOMAIN block' PROVE Timely(block'[i], Now') /\ block'[i].type # "rotated"
    BY <1>2, <1>6 DEF ChainInv, EventsTimely
  <2>. QED BY <2>1, <2>2 DEF EventsTimely, Timely
<1>8. RotationsCalm' BY <1>2 DEF ChainInv, RotationsCalm, CalmAt, Calm
<1>9. PendingCalm'
  <2> SUFFICES ASSUME NEW t \in Slots, slot'[t].next # NoKey
               PROVE  /\ slot'[t].active
                      /\ slot'[t].due - RotationDelay <= Now /\ Now <= slot'[t].due
                      /\ Calm(log, t, slot'[t].due - RotationDelay, Len(log))
                      /\ slot'[t].due - RotationDelay < Now =>
                            \A i \in DOMAIN block' : block'[i].slot = t => block'[i].type \notin Activity
    BY <1>2 DEF PendingCalm, Calm
  <2>0. Now = Len(log) + 1 /\ Len(log) \in Nat /\ DOMAIN log = 1..Len(log) BY <1>1 DEF Now, ChainTyped
  <2>1. CASE t = s
    <3>1. slot'[t] = state /\ state.due = Now + RotationDelay /\ state.active BY <1>3, <2>1
    <3>2. state.due - RotationDelay = Now /\ Now <= state.due BY <3>1, <2>0, ChainAssumption
    <3>3. Calm(log, t, Now, Len(log)) BY <2>0 DEF Calm
    <3>. QED BY <3>1, <3>2, <3>3, <2>0
  <2>2. CASE t # s
    <3>1. slot'[t] = slot[t] BY <1>3, <2>2
    <3>2. \A i \in DOMAIN block' : block'[i].slot = t => i \in DOMAIN block /\ block'[i] = block[i]
      BY <1>6, <2>2
    <3>. QED BY <3>1, <3>2 DEF ChainInv, PendingCalm
  <2>. QED BY <2>1, <2>2
<1>10. MembersFollow'
  <2> SUFFICES ASSUME NEW t \in Slots
               PROVE  /\ \A h \in DOMAIN log : Keyed(log[h], t, members[h + 1][t], members[h + 2][t])
                      /\ Keyed(block', t, members[Len(log) + 2][t], ValidatorSet(slot')[t])
    <3>1. log' = log /\ members' = members BY <1>2
    <3>. QED BY <3>1 DEF MembersFollow
  <2>1. \A h \in DOMAIN log : Keyed(log[h], t, members[h + 1][t], members[h + 2][t])
    BY DEF ChainInv, MembersFollow
  <2>2. Keyed(block, t, members[Len(log) + 2][t], ValidatorSet(slot)[t])
    BY DEF ChainInv, MembersFollow
  <2>3. Keyed(events, t, ValidatorSet(slot)[t], ValidatorSet(slot')[t])
    <3>1. CASE t = s BY <3>1
    <3>2. CASE t # s
      <4>1. ValidatorSet(slot')[t] = ValidatorSet(slot)[t] /\ ValidatorSet(slot)[t] \in SlotKey
        BY <1>1, <1>3, <3>2 DEF ValidatorSet, ChainTyped, SlotState, SlotKey
      <4>2. \A i \in 1..Len(events) : Turns(ValidatorSet(slot)[t], events[i], t, ValidatorSet(slot)[t])
        BY <3>2 DEF Turns
      <4>. HIDE DEF ValidatorSet
      <4>. QED BY <4>1, <4>2, KeyedSame
    <3>. QED BY <3>1, <3>2
  <2>. QED BY <1>2, <1>4, <2>1, <2>2, <2>3, KeyedBoth
<1>11. MembersAtGenesis' BY <1>2 DEF ChainInv, MembersAtGenesis
<1>. QED BY <1>5, <1>7, <1>8, <1>9, <1>10, <1>11 DEF ChainInv

LEMMA EventTyped ==
    ASSUME NEW type \in EventTypes, NEW s \in Slots, NEW old \in Keys, NEW new \in Keys, NEW due \in Nat
    PROVE  /\ Event(type, s, old, new, due) \in ChainEvent
           /\ Event(type, s, old, new, due).type = type /\ Event(type, s, old, new, due).slot = s
           /\ Event(type, s, old, new, due).new = new /\ Event(type, s, old, new, due).due = due
BY DEF Event, ChainEvent, Lost

LEMMA ActivateKeeps ==
    ASSUME ChainInv, NEW s \in Slots, Activate(s)
    PROVE  ChainInv'
<1> DEFINE e == Event("activated", s, slot[s].key, slot[s].key, Now)
           state == [slot[s] EXCEPT !.active = TRUE]
<1>1. slot[s] \in SlotState /\ Now \in Nat BY DEF ChainInv, ChainTyped, Now
<1>2. e \in ChainEvent /\ e.type = "activated" /\ e.slot = s /\ e.new = slot[s].key
  BY <1>1, EventTyped DEF SlotState, EventTypes
<1>3. state \in SlotState /\ state.active /\ state.key = slot[s].key /\ state.next = slot[s].next
  BY <1>1 DEF SlotState
<1>4. slot' = [slot EXCEPT ![s] = state] /\ Emit(<<e>>) /\ ~slot[s].active BY DEF Activate
<1>. HIDE DEF e, state
<1>5. slot[s].next = NoKey BY <1>4 DEF ChainInv, PendingCalm
<1>6. ValidatorSet(slot)[s] = NoKey /\ ValidatorSet(slot')[s] = slot[s].key
  BY <1>3, <1>4 DEF ValidatorSet, ChainInv, ChainTyped
<1>7. Turns(NoKey, e, s, slot[s].key) BY <1>2 DEF Turns
<1>8. NoKey \in SlotKey /\ slot[s].key \in SlotKey BY <1>1 DEF SlotKey, SlotState
<1>9. Keyed(<<e>>, s, ValidatorSet(slot)[s], ValidatorSet(slot')[s]) BY <1>6, <1>7, <1>8, KeyedOne
<1>10. <<e>> \in Seq(ChainEvent) /\ \A i \in DOMAIN <<e>> : <<e>>[i] = e BY <1>2
<1>11. Timely(e, Now) BY <1>2 DEF Timely
<1>. QED BY <1>2, <1>3, <1>4, <1>5, <1>9, <1>10, <1>11, Transacted

LEMMA RequestKeeps ==
    ASSUME ChainInv, NEW s \in Slots, NEW k \in Keys, RequestRotation(s, k)
    PROVE  ChainInv'
<1> DEFINE e == Event("requested", s, slot[s].key, k, Now + RotationDelay)
           state == [slot[s] EXCEPT !.next = k, !.due = Now + RotationDelay]
<1>1. slot[s] \in SlotState /\ Now \in Nat /\ Now + RotationDelay \in Nat
  BY ChainAssumption DEF ChainInv, ChainTyped, Now
<1>2. e \in ChainEvent /\ e.type = "requested" /\ e.slot = s /\ e.due = Now + RotationDelay
  BY <1>1, EventTyped DEF SlotState, EventTypes
<1>3. state \in SlotState /\ state.active = slot[s].active /\ state.key = slot[s].key
      /\ state.due = Now + RotationDelay
  BY <1>1 DEF SlotState, SlotKey
<1>4. slot' = [slot EXCEPT ![s] = state] /\ Emit(<<e>>) /\ slot[s].active
  BY DEF RequestRotation, ChainInv, ChainTyped, SlotState
<1>. HIDE DEF e, state
<1>6. ValidatorSet(slot)[s] = slot[s].key /\ ValidatorSet(slot')[s] = slot[s].key
  BY <1>3, <1>4 DEF ValidatorSet, ChainInv, ChainTyped
<1>7. Turns(slot[s].key, e, s, slot[s].key) BY <1>2 DEF Turns
<1>8. slot[s].key \in SlotKey BY <1>1 DEF SlotKey, SlotState
<1>9. Keyed(<<e>>, s, ValidatorSet(slot)[s], ValidatorSet(slot')[s]) BY <1>6, <1>7, <1>8, KeyedOne
<1>10. <<e>> \in Seq(ChainEvent) /\ \A i \in DOMAIN <<e>> : <<e>>[i] = e BY <1>2
<1>11. Timely(e, Now) BY <1>2 DEF Timely
<1>. QED BY <1>2, <1>3, <1>4, <1>9, <1>10, <1>11, Transacted

LEMMA RotateNowKeeps ==
    ASSUME ChainInv, NEW s \in Slots, NEW k \in Keys, RotateNow(s, k)
    PROVE  ChainInv'
<1> DEFINE e == Event("rotated_in_tx", s, slot[s].key, k, Now)
           state == [slot[s] EXCEPT !.key = k]
<1>1. slot[s] \in SlotState /\ Now \in Nat BY DEF ChainInv, ChainTyped, Now
<1>2. e \in ChainEvent /\ e.type = "rotated_in_tx" /\ e.slot = s /\ e.due = Now
  BY <1>1, EventTyped DEF SlotState, EventTypes
<1>3. state \in SlotState /\ state.active = slot[s].active /\ state.next = slot[s].next
  BY <1>1 DEF SlotState
<1>4. slot' = [slot EXCEPT ![s] = state] /\ Emit(<<e>>) /\ ~slot[s].active /\ s \in RotateInactive
  BY DEF RotateNow
<1>. HIDE DEF e, state
<1>5. slot[s].next = NoKey BY <1>4 DEF ChainInv, PendingCalm
<1>6. ValidatorSet(slot)[s] = NoKey /\ ValidatorSet(slot')[s] = NoKey
  BY <1>3, <1>4 DEF ValidatorSet, ChainInv, ChainTyped
<1>7. Turns(NoKey, e, s, NoKey) BY <1>2 DEF Turns
<1>8. NoKey \in SlotKey BY DEF SlotKey
<1>9. Keyed(<<e>>, s, ValidatorSet(slot)[s], ValidatorSet(slot')[s]) BY <1>6, <1>7, <1>8, KeyedOne
<1>10. <<e>> \in Seq(ChainEvent) /\ \A i \in DOMAIN <<e>> : <<e>>[i] = e BY <1>2
<1>11. Timely(e, Now) BY <1>2, <1>4 DEF Timely
<1>. QED BY <1>2, <1>3, <1>4, <1>5, <1>9, <1>10, <1>11, Transacted

LEMMA DeactivateKeeps ==
    ASSUME ChainInv, NEW s \in Slots, Deactivate(s)
    PROVE  ChainInv'
<1> DEFINE e == Event("deactivated", s, slot[s].key, slot[s].key, Now)
           c == Cancelled(s)
           state == [slot[s] EXCEPT !.active = FALSE, !.next = NoKey, !.due = 0]
           events == IF slot[s].next = NoKey THEN <<e>> ELSE <<c>> \o <<e>>
<1>1. slot[s] \in SlotState /\ Now \in Nat BY DEF ChainInv, ChainTyped, Now
<1>2. e \in ChainEvent /\ e.type = "deactivated" /\ e.slot = s
  BY <1>1, EventTyped DEF SlotState, EventTypes
<1>3. slot[s].next # NoKey => c \in ChainEvent /\ c.type = "cancelled" /\ c.slot = s
  BY <1>1, EventTyped DEF SlotState, EventTypes, Cancelled, SlotKey
<1>4. state \in SlotState /\ state.active = FALSE /\ state.next = NoKey
  BY <1>1 DEF SlotState, SlotKey
<1>5. slot' = [slot EXCEPT ![s] = state] /\ Emit(events) /\ slot[s].active
  BY DEF Deactivate, ChainInv, ChainTyped, SlotState
<1>. HIDE DEF e, c, state
<1>6. ValidatorSet(slot)[s] = slot[s].key /\ ValidatorSet(slot')[s] = NoKey
  BY <1>4, <1>5 DEF ValidatorSet, ChainInv, ChainTyped
<1>7. NoKey \in SlotKey /\ slot[s].key \in SlotKey BY <1>1 DEF SlotKey, SlotState
<1>8. Keyed(<<e>>, s, slot[s].key, NoKey)
  <2>1. Turns(slot[s].key, e, s, NoKey) BY <1>2 DEF Turns
  <2>. QED BY <1>7, <2>1, KeyedOne
<1>9. <<e>> \in Seq(ChainEvent) /\ \A i \in DOMAIN <<e>> : <<e>>[i] = e BY <1>2
<1>10. Timely(e, Now) BY <1>2 DEF Timely
<1>11. /\ events \in Seq(ChainEvent) /\ Keyed(events, s, slot[s].key, NoKey)
       /\ \A i \in DOMAIN events : /\ events[i].slot = s /\ events[i].type # "rotated"
                                   /\ Timely(events[i], Now)
  <2>1. CASE slot[s].next = NoKey BY <1>2, <1>8, <1>9, <1>10, <2>1
  <2>2. CASE slot[s].next # NoKey
    <3>1. <<c>> \in Seq(ChainEvent) /\ \A i \in DOMAIN <<c>> : <<c>>[i] = c BY <1>3, <2>2
    <3>2. Turns(slot[s].key, c, s, slot[s].key) BY <1>3, <2>2 DEF Turns
    <3>3. Keyed(<<c>>, s, slot[s].key, slot[s].key) BY <1>7, <3>2, KeyedOne
    <3>4. events = <<c>> \o <<e>> BY <2>2
    <3>5. Keyed(events, s, slot[s].key, NoKey) BY <1>8, <1>9, <3>1, <3>3, <3>4, KeyedBoth
    <3>6. events \in Seq(ChainEvent) /\ \A i \in DOMAIN events : events[i] \in {c, e}
      <4>1. \A i \in DOMAIN events : \/ i \in DOMAIN <<c>> /\ events[i] = <<c>>[i]
                                     \/ i - Len(<<c>>) \in DOMAIN <<e>> /\ events[i] = <<e>>[i - Len(<<c>>)]
        BY <1>9, <3>1, <3>4, Concat
      <4>2. events \in Seq(ChainEvent) BY <1>9, <3>1, <3>4, Concat
      <4>. HIDE DEF events
      <4>. QED BY <1>9, <3>1, <4>1, <4>2
    <3>7. Timely(c, Now) BY <1>3, <2>2 DEF Timely
    <3>. HIDE DEF events
    <3>. QED BY <1>2, <1>3, <1>10, <2>2, <3>5, <3>6, <3>7
  <2>. QED BY <2>1, <2>2
<1>. HIDE DEF events
<1>12. Keyed(events, s, ValidatorSet(slot)[s], ValidatorSet(slot')[s]) BY <1>6, <1>11
<1>. QED BY <1>4, <1>5, <1>11, <1>12, Transacted

\* What a reader may find of a block's events.
LEMMA ReadingsKeep ==
    ASSUME NEW events \in Seq(ChainEvent), NEW seen \in Readings(events)
    PROVE  /\ seen \in Seq(ChainEvent) /\ Len(seen) = Len(events) /\ DOMAIN seen = 1..Len(events)
           /\ \A i \in 1..Len(events) :
                 /\ seen[i].type = events[i].type /\ seen[i].slot = events[i].slot
                 /\ seen[i].new = events[i].new /\ seen[i].due = events[i].due
<1>1. CASE seen = events BY <1>1
<1>2. CASE seen # events
  <2>0. PICK i \in DOMAIN events : \E l \in Losable(events[i]) : seen = [events EXCEPT ![i].lost = l]
    BY <1>2 DEF Readings
  <2>1. PICK l \in Losable(events[i]) : seen = [events EXCEPT ![i].lost = l] BY <2>0
  <2>2. l \in Lost BY <2>1 DEF Losable, Lost
  <2>3. events[i] \in ChainEvent /\ DOMAIN events = 1..Len(events) BY <2>1
  <2> DEFINE e == [events[i] EXCEPT !.lost = l]
  <2>4. /\ e \in ChainEvent /\ e.type = events[i].type /\ e.slot = events[i].slot
        /\ e.new = events[i].new /\ e.due = events[i].due
    BY <2>2, <2>3 DEF ChainEvent
  <2>5. seen = [events EXCEPT ![i] = e] BY <2>1
  <2>. HIDE DEF e
  <2>. QED BY <2>3, <2>4, <2>5
<1>. QED BY <1>1, <1>2

LEMMA EndBlockKeeps ==
    ASSUME ChainInv, EndBlock
    PROVE  ChainInv'
<1>1. /\ members' = Append(members, ValidatorSet(slot')) /\ block' = <<>> /\ UNCHANGED nameless
  BY DEF EndBlock
<1>2. /\ slot \in [Slots -> SlotState] /\ block \in Seq(ChainEvent) /\ log \in Seq(Seq(ChainEvent))
      /\ members \in Seq([Slots -> SlotKey]) /\ Len(members) = Len(log) + 2
      /\ nameless \subseteq GenesisActive
  BY DEF ChainInv, ChainTyped
<1>3. Now = Len(log) + 1 /\ Len(log) \in Nat /\ DOMAIN log = 1..Len(log) /\ RotationDelay \in Nat \ {0}
  BY <1>2, ChainAssumption DEF Now
<1> DEFINE dueSlots == {s \in Slots : slot[s].next # NoKey /\ slot[s].due <= Now}
<1>4. \A s \in dueSlots : /\ slot[s].active /\ slot[s].due = Now /\ slot[s] \in SlotState
                          /\ slot[s].next \in Keys /\ s \in Slots
  <2>1. ASSUME NEW s \in dueSlots PROVE slot[s].active /\ slot[s].due = Now
    <3>1. slot[s].active /\ Now <= slot[s].due /\ slot[s].due <= Now BY DEF ChainInv, PendingCalm
    <3>2. slot[s].due \in Nat BY <1>2 DEF SlotState
    <3>. QED BY <1>3, <3>1, <3>2
  <2>. QED BY <1>2, <2>1 DEF SlotState, SlotKey
<1>5. IsFiniteSet(dueSlots) BY ChainAssumption, FS_Subset
<1>. HIDE DEF dueSlots
<1> DEFINE Outcome(stale, s) == IF s \in stale THEN Cancelled(s)
                                ELSE Event("rotated", s, slot[s].key, slot[s].next, slot[s].due)
           order == AnOrder(dueSlots)
           After(stale, s) == [slot[s] EXCEPT !.key = IF s \in stale THEN @ ELSE slot[s].next,
                                              !.next = NoKey, !.due = 0]
<1>6. PICK stale \in SUBSET dueSlots :
         /\ slot' = [s \in Slots |-> IF s \in dueSlots THEN After(stale, s) ELSE slot[s]]
         /\ \E seen \in Readings(block \o [i \in DOMAIN order |-> Outcome(stale, order[i])]) :
               log' = Append(log, seen)
  BY DEF EndBlock, dueSlots
<1> DEFINE ending == [i \in DOMAIN order |-> Outcome(stale, order[i])]
<1>7. PICK seen \in Readings(block \o ending) : log' = Append(log, seen) BY <1>6
<1> DEFINE n == Cardinality(dueSlots)
<1>8. /\ order \in [1..n -> dueSlots] /\ n \in Nat
      /\ \A s \in dueSlots : \E i \in 1..n : order[i] = s
      /\ \A i, j \in 1..n : order[i] = order[j] => i = j
  BY <1>5, OrderExists
<1>. HIDE DEF order, n
<1>9. ASSUME NEW s \in dueSlots
      PROVE  /\ Outcome(stale, s) \in ChainEvent /\ Outcome(stale, s).slot = s
             /\ Outcome(stale, s).type = IF s \in stale THEN "cancelled" ELSE "rotated"
             /\ Outcome(stale, s).new = slot[s].next /\ Outcome(stale, s).due = Now
  BY <1>3, <1>4, EventTyped DEF Cancelled, EventTypes, SlotState
<1>10. ASSUME NEW s \in dueSlots
       PROVE  /\ After(stale, s) \in SlotState /\ After(stale, s).active /\ After(stale, s).next = NoKey
              /\ After(stale, s).key = IF s \in stale THEN slot[s].key ELSE slot[s].next
  BY <1>4 DEF SlotState, SlotKey
<1>. HIDE DEF Outcome, After
<1>11. /\ ending \in Seq(ChainEvent) /\ Len(ending) = n /\ DOMAIN ending = 1..n
       /\ \A i \in 1..n : /\ order[i] \in dueSlots /\ ending[i].slot = order[i]
                          /\ ending[i].type = IF order[i] \in stale THEN "cancelled" ELSE "rotated"
                          /\ ending[i].new = slot[order[i]].next /\ ending[i].due = Now
  <2>1. \A i \in 1..n : order[i] \in dueSlots /\ ending[i] = Outcome(stale, order[i]) BY <1>8
  <2>2. ending \in [1..n -> ChainEvent] BY <1>8, <1>9
  <2>3. ending \in Seq(ChainEvent) /\ Len(ending) = n /\ DOMAIN ending = 1..n BY <1>8, <2>2
  <2>. HIDE DEF ending
  <2>. QED BY <1>9, <2>1, <2>3
<1>. HIDE DEF ending
<1> DEFINE b == Len(block)
<1>12. /\ b \in Nat /\ DOMAIN block = 1..b
       /\ seen \in Seq(ChainEvent) /\ Len(seen) = b + n /\ DOMAIN seen = 1..(b + n)
       /\ \A i \in 1..(b + n) :
             \/ /\ i \in 1..b /\ seen[i].type = block[i].type /\ seen[i].slot = block[i].slot
                /\ seen[i].due = block[i].due
             \/ /\ i - b \in 1..n /\ seen[i].type = ending[i - b].type
                /\ seen[i].slot = ending[i - b].slot /\ seen[i].due = ending[i - b].due
       /\ Len(block \o ending) = b + n /\ block \o ending \in Seq(ChainEvent)
  <2>1. /\ block \o ending \in Seq(ChainEvent) /\ Len(block \o ending) = b + n /\ b \in Nat
        /\ DOMAIN block = 1..b /\ DOMAIN (block \o ending) = 1..(b + n)
        /\ \A i \in DOMAIN (block \o ending) :
                 \/ i \in DOMAIN block /\ (block \o ending)[i] = block[i]
                 \/ i - b \in DOMAIN ending /\ (block \o ending)[i] = ending[i - b]
    <3>1. block \in Seq(ChainEvent) /\ ending \in Seq(ChainEvent) BY <1>2, <1>11
    <3>2. /\ block \o ending \in Seq(ChainEvent) /\ Len(block \o ending) = Len(block) + Len(ending)
          /\ Len(block) \in Nat /\ DOMAIN block = 1..Len(block)
          /\ DOMAIN (block \o ending) = 1..(Len(block) + Len(ending))
          /\ \A i \in DOMAIN (block \o ending) :
                 \/ i \in DOMAIN block /\ (block \o ending)[i] = block[i]
                 \/ i - Len(block) \in DOMAIN ending /\ (block \o ending)[i] = ending[i - Len(block)]
      BY ONLY <3>1, Concat
    <3>3. Len(ending) = n BY <1>11
    <3>. QED BY <3>2, <3>3
  <2>2. /\ seen \in Seq(ChainEvent) /\ Len(seen) = b + n /\ DOMAIN seen = 1..(b + n)
        /\ \A i \in 1..(b + n) :
                 /\ seen[i].type = (block \o ending)[i].type /\ seen[i].slot = (block \o ending)[i].slot
                 /\ seen[i].due = (block \o ending)[i].due
    BY <2>1, ReadingsKeep
  <2>. QED BY <1>11, <2>1, <2>2
<1>13. ASSUME NEW s \in Slots, NEW first, NEW last, Keyed(block \o ending, s, first, last)
       PROVE  Keyed(seen, s, first, last)
  <2>1. /\ block \o ending \in Seq(ChainEvent) /\ Len(seen) = Len(block \o ending) BY <1>12
  <2>2. \A i \in 1..Len(block \o ending) : /\ seen[i].type = (block \o ending)[i].type
                                           /\ seen[i].slot = (block \o ending)[i].slot
                                           /\ seen[i].new = (block \o ending)[i].new
    BY <2>1, ReadingsKeep
  <2>. QED BY ONLY <1>13, <2>1, <2>2, KeyedReadings
<1>. HIDE DEF b
<1>14. /\ Len(log') = Now /\ DOMAIN log' = 1..Now /\ log'[Now] = seen /\ log' \in Seq(Seq(ChainEvent))
       /\ \A h \in 1..Len(log) : log'[h] = log[h]
  BY <1>2, <1>3, <1>7, <1>12
<1>15. /\ slot' \in [Slots -> SlotState]
       /\ \A s \in dueSlots : slot'[s] = After(stale, s)
       /\ \A s \in Slots \ dueSlots : slot'[s] = slot[s]
  BY <1>2, <1>4, <1>6, <1>10
<1> DEFINE next == ValidatorSet(slot')
<1>16. next \in [Slots -> SlotKey] BY <1>15 DEF ValidatorSet, SlotState, SlotKey
<1>17. /\ members' \in Seq([Slots -> SlotKey]) /\ Len(members') = Now + 2
       /\ members'[Now + 2] = next /\ \A h \in 1..(Now + 1) : members'[h] = members[h]
  <2>. HIDE DEF next
  <2>1. members' = Append(members, next) BY <1>1 DEF next
  <2>. QED BY <1>2, <1>3, <1>16, <2>1
<1>18. ChainTyped'
  <2>1. block' \in Seq(ChainEvent) BY <1>1
  <2>. HIDE DEF next
  <2>. QED BY <1>1, <1>2, <1>14, <1>15, <1>17, <2>1 DEF ChainTyped
<1>19. ASSUME NEW i \in DOMAIN seen
       PROVE  /\ Timely(seen[i], Now)
              /\ seen[i].type = "rotated" => i - b \in 1..n
  <2>1. CASE i \in 1..b /\ seen[i].type = block[i].type /\ seen[i].slot = block[i].slot
             /\ seen[i].due = block[i].due
    <3>1. Timely(block[i], Now) /\ block[i].type # "rotated" BY <1>12, <2>1 DEF ChainInv, EventsTimely
    <3>. QED BY <2>1, <3>1 DEF Timely
  <2>2. CASE i - b \in 1..n /\ seen[i].type = ending[i - b].type
             /\ seen[i].slot = ending[i - b].slot /\ seen[i].due = ending[i - b].due
    <3>1. seen[i].type \in {"cancelled", "rotated"} /\ seen[i].due = Now BY <1>11, <2>2
    <3>. QED BY <2>2, <3>1 DEF Timely
  <2>. QED BY <1>12, <2>1, <2>2
<1>20. EventsTimely'
  <2>1. ASSUME NEW h \in DOMAIN log', NEW i \in DOMAIN log'[h] PROVE Timely(log'[h][i], h)
    <3>1. CASE h = Now BY <1>14, <1>19, <3>1
    <3>2. CASE h # Now
      <4>1. h \in DOMAIN log /\ log'[h] = log[h] BY <1>3, <1>14, <3>2
      <4>. QED BY <4>1 DEF ChainInv, EventsTimely
    <3>. QED BY <3>1, <3>2
  <2>2. DOMAIN block' = {} BY <1>1
  <2>. QED BY <2>1, <2>2 DEF EventsTimely, Timely
<1>21. ASSUME NEW s, NEW first \in Int, NEW last \in Int, last < Now
       PROVE  Calm(log', s, first, last) <=> Calm(log, s, first, last)
  <2>1. \A h \in DOMAIN log : h \in DOMAIN log' /\ log'[h] = log[h] BY <1>3, <1>14
  <2>2. \A h \in DOMAIN log' : h <= last => h \in DOMAIN log /\ log'[h] = log[h]
    BY <1>3, <1>14, <1>21
  <2>. QED BY <2>1, <2>2 DEF Calm
<1>22. RotationsCalm'
  <2> SUFFICES ASSUME NEW h \in DOMAIN log', NEW i \in DOMAIN log'[h], log'[h][i].type = "rotated"
               PROVE  /\ Calm(log', log'[h][i].slot, h - RotationDelay, h - 1)
                      /\ \A j \in DOMAIN log'[h] :
                            log'[h][j].slot = log'[h][i].slot
                            => log'[h][j].type \notin Activity /\ (log'[h][j].type = "rotated" => j = i)
    BY DEF RotationsCalm, CalmAt, Calm
  <2>0. h \in 1..Now BY <1>14
  <2>1. CASE h # Now
    <3>1. h \in DOMAIN log /\ log'[h] = log[h] BY <1>3, <1>14, <2>1
    <3>2. CalmAt(log, h, i) BY <3>1 DEF ChainInv, RotationsCalm
    <3>3. h - 1 < Now /\ h - 1 \in Int /\ h - RotationDelay \in Int BY <1>3, <2>0
    <3>. QED BY <1>21, <3>1, <3>2, <3>3 DEF CalmAt
  <2>2. CASE h = Now
    <3>1. log'[h] = seen /\ DOMAIN seen = 1..(b + n) BY <1>12, <1>14, <2>2
    <3>2. i - b \in 1..n /\ b \in Nat /\ n \in Nat BY <1>8, <1>12, <1>19, <3>1
    <3> DEFINE s == seen[i].slot
    <3>3. s \in dueSlots /\ s = order[i - b]
      <4>1. ~(i \in 1..b) BY <3>2
      <4>. QED BY <1>11, <1>12, <3>1, <4>1
    <3>4. /\ slot[s].next # NoKey /\ Calm(log, s, Now - RotationDelay, Len(log))
          /\ \A j \in DOMAIN block : block[j].slot = s => block[j].type \notin Activity
      <4>1. slot[s].next # NoKey /\ slot[s].due = Now /\ s \in Slots BY <1>4, <3>3, ChainAssumption
      <4>2. Now - RotationDelay < Now BY <1>3
      <4>. HIDE DEF s
      <4>. QED BY <4>1, <4>2 DEF ChainInv, PendingCalm
    <3>5. Calm(log', s, Now - RotationDelay, Now - 1)
      <4>1. Len(log) = Now - 1 /\ Now - 1 < Now /\ Now - 1 \in Int /\ Now - RotationDelay \in Int BY <1>3
      <4>. QED BY <1>21, <3>4, <4>1
    <3>6. ASSUME NEW j \in DOMAIN seen, seen[j].slot = s
          PROVE  seen[j].type \notin Activity /\ (seen[j].type = "rotated" => j = i)
      <4>1. CASE j \in 1..b /\ seen[j].type = block[j].type /\ seen[j].slot = block[j].slot
        <5>1. seen[j].type \notin Activity BY <1>12, <3>4, <3>6, <4>1
        <5>2. seen[j].type # "rotated" BY <1>12, <4>1 DEF ChainInv, EventsTimely
        <5>. QED BY <5>1, <5>2
      <4>2. CASE j - b \in 1..n /\ seen[j].type = ending[j - b].type /\ seen[j].slot = ending[j - b].slot
        <5>1. order[j - b] = order[i - b] BY <1>11, <3>3, <3>6, <4>2
        <5>2. j - b = i - b BY <1>8, <3>2, <4>2, <5>1
        <5>3. j = i BY <3>1, <3>2, <5>2
        <5>4. seen[j].type \in {"cancelled", "rotated"} BY <1>11, <4>2
        <5>. QED BY <5>3, <5>4 DEF Activity
      <4>. QED BY <1>12, <4>1, <4>2
    <3>. QED BY <2>2, <3>1, <3>5, <3>6
  <2>. QED BY <2>1, <2>2
<1>23. PendingCalm'
  <2> SUFFICES ASSUME NEW t \in Slots, slot'[t].next # NoKey
               PROVE  /\ slot'[t].active
                      /\ slot'[t].due - RotationDelay <= Now + 1 /\ Now + 1 <= slot'[t].due
                      /\ Calm(log', t, slot'[t].due - RotationDelay, Now)
    <3>1. Now' = Now + 1 /\ Len(log') = Now /\ DOMAIN block' = {} BY <1>1, <1>14 DEF Now
    <3>. QED BY <3>1 DEF PendingCalm, Calm
  <2>1. t \notin dueSlots BY <1>10, <1>15
  <2>2. slot'[t] = slot[t] /\ slot[t].next # NoKey BY <1>15, <2>1
  <2> DEFINE first == slot[t].due - RotationDelay
  <2>3. slot[t].due \in Nat /\ first \in Int BY <1>2, <1>3 DEF SlotState
  <2>4. ~(slot[t].due <= Now) BY <2>1, <2>2 DEF dueSlots
  <2>5. /\ slot[t].active /\ first <= Now /\ Calm(log, t, first, Len(log))
        /\ first < Now => \A i \in DOMAIN block : block[i].slot = t => block[i].type \notin Activity
    BY <2>2 DEF ChainInv, PendingCalm
  <2>. HIDE DEF first
  <2>6. ASSUME NEW h \in DOMAIN log', NEW i \in DOMAIN log'[h], first <= h, h <= Now, log'[h][i].slot = t
        PROVE  (log'[h][i].type \in Activity => h = first) /\ log'[h][i].type # "rotated"
    <3>1. CASE h # Now
      <4>1. h \in DOMAIN log /\ log'[h] = log[h] /\ h <= Len(log) BY <1>3, <1>14, <3>1
      <4>. QED BY <2>5, <2>6, <4>1 DEF Calm
    <3>2. CASE h = Now
      <4>1. log'[h] = seen /\ i \in DOMAIN seen BY <1>14, <3>2, <2>6
      <4>2. i \in 1..b /\ seen[i].type = block[i].type /\ seen[i].slot = block[i].slot
        <5>1. ~(i - b \in 1..n /\ seen[i].slot = ending[i - b].slot) BY <1>11, <2>1, <2>6, <4>1
        <5>. QED BY <1>12, <4>1, <5>1
      <4>3. seen[i].type # "rotated" BY <1>12, <4>2 DEF ChainInv, EventsTimely
      <4>4. first < Now => seen[i].type \notin Activity BY <1>12, <2>5, <2>6, <4>1, <4>2
      <4>. QED BY <1>3, <2>3, <2>6, <3>2, <4>1, <4>3, <4>4
    <3>. QED BY <3>1, <3>2
  <2>7. Calm(log', t, first, Now) BY <1>3, <2>3, <2>6 DEF Calm
  <2>8. first <= Now + 1 /\ Now + 1 <= slot[t].due BY <1>3, <2>3, <2>4, <2>5
  <2>. QED BY <2>2, <2>5, <2>7, <2>8 DEF first
<1>24. MembersFollow'
  <2> SUFFICES ASSUME NEW t \in Slots
               PROVE  /\ \A h \in DOMAIN log' : Keyed(log'[h], t, members'[h + 1][t], members'[h + 2][t])
                      /\ Keyed(block', t, members'[Len(log') + 2][t], next[t])
    BY DEF MembersFollow
  <2> DEFINE was == ValidatorSet(slot)[t]
  <2>1. Keyed(block, t, members[Now + 1][t], was)
    BY <1>3 DEF ChainInv, MembersFollow
  <2>2. was \in SlotKey /\ next[t] \in SlotKey BY <1>2, <1>16 DEF ValidatorSet, SlotState, SlotKey
  <2>3. Keyed(ending, t, was, next[t])
    <3>1. CASE t \in dueSlots /\ t \notin stale
      <4>1. PICK at \in 1..n : order[at] = t BY <1>8, <3>1
      <4>2. next[t] = slot[t].next BY <1>10, <1>15, <3>1 DEF ValidatorSet
      <4>3. ending[at].type = "rotated" /\ ending[at].slot = t /\ ending[at].new = slot[t].next
        BY <1>11, <3>1, <4>1
      <4>4. Turns(was, ending[at], t, next[t]) BY <4>2, <4>3 DEF Turns
      <4>5. \A i \in 1..n : i # at => ending[i].slot # t BY <1>8, <1>11, <4>1
      <4>. HIDE DEF was, next
      <4>. QED BY <1>11, <2>2, <4>1, <4>4, <4>5, KeyedOnce
    <3>2. CASE ~(t \in dueSlots /\ t \notin stale)
      <4>1. next[t] = was BY <1>4, <1>10, <1>15, <3>2 DEF ValidatorSet
      <4>2. \A i \in 1..n : ending[i].slot = t => ending[i].type = "cancelled" BY <1>11, <3>2
      <4>3. \A i \in 1..n : Turns(was, ending[i], t, was) BY <4>2 DEF Turns
      <4>. HIDE DEF was, next
      <4>. QED BY <1>11, <2>2, <4>1, <4>3, KeyedSame
    <3>. QED BY <3>1, <3>2
  <2>. HIDE DEF was, next
  <2>4. Keyed(seen, t, members[Now + 1][t], next[t]) BY <1>2, <1>11, <1>13, <2>1, <2>3, KeyedBoth
  <2>5. ASSUME NEW h \in DOMAIN log' PROVE Keyed(log'[h], t, members'[h + 1][t], members'[h + 2][t])
    <3>1. CASE h = Now
      <4>1. members'[Now + 1] = members[Now + 1] /\ members'[Now + 2] = next /\ log'[Now] = seen
        <5>1. Now + 1 \in 1..(Now + 1) BY <1>3
        <5>. QED BY <1>14, <1>17, <5>1
      <4>. QED BY <2>4, <3>1, <4>1
    <3>2. CASE h # Now
      <4>1. h \in DOMAIN log /\ log'[h] = log[h] BY <1>3, <1>14, <3>2
      <4>2. members'[h + 1] = members[h + 1] /\ members'[h + 2] = members[h + 2]
        BY <1>3, <1>17, <4>1
      <4>3. Keyed(log[h], t, members[h + 1][t], members[h + 2][t]) BY <4>1 DEF ChainInv, MembersFollow
      <4>. QED BY <4>1, <4>2, <4>3
    <3>. QED BY <3>1, <3>2
  <2>6. Keyed(block', t, next[t], next[t])
    <3>1. block' \in Seq(ChainEvent) /\ Len(block') = 0 BY <1>1
    <3>2. \A i \in 1..Len(block') : Turns(next[t], block'[i], t, next[t]) BY <3>1
    <3>. QED BY ONLY <2>2, <3>1, <3>2, KeyedSame
  <2>7. members'[Len(log') + 2] = next BY <1>14, <1>17
  <2>. QED BY <2>5, <2>6, <2>7
<1>25. MembersAtGenesis'
  <2>1. members'[1] = members[1] /\ members'[2] = members[2] BY <1>3, <1>17
  <2>. QED BY <2>1 DEF ChainInv, MembersAtGenesis
<1>. QED BY <1>18, <1>20, <1>22, <1>23, <1>24, <1>25 DEF ChainInv

LEMMA ChainKeeps ==
    ASSUME ChainInv, ChainNext
    PROVE  ChainInv'
BY ActivateKeeps, DeactivateKeeps, RequestKeeps, RotateNowKeeps, EndBlockKeeps DEF ChainNext

-----------------------------------------------------------------------------
(***************************************************************************)
(* The events of the blocks                                                *)
(***************************************************************************)
LEMMA EventsOf ==
    ASSUME ChainInv, NEW h \in DOMAIN log
    PROVE  /\ EventsAt(h) \in Seq(EventRow) /\ Len(EventsAt(h)) = Len(log[h])
           /\ DOMAIN EventsAt(h) = 1..Len(log[h]) /\ DOMAIN log[h] = 1..Len(log[h])
           /\ log[h] \in Seq(ChainEvent) /\ Len(log[h]) \in Nat /\ h \in Nat \ {0}
           /\ \A i \in 1..Len(log[h]) :
                 /\ EventsAt(h)[i] \in EventRow
                 /\ EventsAt(h)[i].id = <<h, i>> /\ EventsAt(h)[i].type = log[h][i].type
                 /\ EventsAt(h)[i].slot = log[h][i].slot /\ EventsAt(h)[i].new = log[h][i].new
                 /\ EventsAt(h)[i].due = log[h][i].due /\ EventsAt(h)[i].lost = log[h][i].lost
                 /\ EventsAt(h)[i] \in Range(EventsAt(h)) /\ EventsAt(h)[i] \in Recorded
<1>1. log \in Seq(Seq(ChainEvent)) BY DEF ChainInv, ChainTyped
<1>2. log[h] \in Seq(ChainEvent) /\ h \in Nat \ {0} BY <1>1
<1>3. DOMAIN log[h] = 1..Len(log[h]) /\ Len(log[h]) \in Nat BY <1>2
<1>4. ASSUME NEW i \in 1..Len(log[h])
      PROVE  /\ EventsAt(h)[i] \in EventRow
             /\ EventsAt(h)[i].id = <<h, i>> /\ EventsAt(h)[i].type = log[h][i].type
             /\ EventsAt(h)[i].slot = log[h][i].slot /\ EventsAt(h)[i].new = log[h][i].new
             /\ EventsAt(h)[i].due = log[h][i].due /\ EventsAt(h)[i].lost = log[h][i].lost
  <2>1. log[h][i] \in ChainEvent /\ i \in Nat BY <1>2
  <2>. QED BY <1>2, <1>3, <2>1 DEF EventsAt, EventRow, ChainEvent
<1>5. DOMAIN EventsAt(h) = 1..Len(log[h]) BY <1>3 DEF EventsAt
<1>6. EventsAt(h) = [i \in 1..Len(log[h]) |-> EventsAt(h)[i]] BY <1>3 DEF EventsAt
<1>7. EventsAt(h) \in Seq(EventRow) /\ Len(EventsAt(h)) = Len(log[h]) BY <1>3, <1>4, <1>5, <1>6
<1>8. \A i \in 1..Len(log[h]) : EventsAt(h)[i] \in Range(EventsAt(h)) BY <1>5 DEF Range
<1>9. \A i \in 1..Len(log[h]) : EventsAt(h)[i] \in Recorded BY <1>8 DEF Recorded
<1>. QED BY <1>2, <1>3, <1>4, <1>5, <1>7, <1>8, <1>9

LEMMA OfRecorded ==
    ASSUME ChainInv, NEW e \in Recorded
    PROVE  /\ e \in EventRow /\ e.id[1] \in DOMAIN log /\ e.id # NoEvent
           /\ e.id[2] \in DOMAIN log[e.id[1]] /\ e.id = <<e.id[1], e.id[2]>>
           /\ e = EventsAt(e.id[1])[e.id[2]] /\ e \in Range(EventsAt(e.id[1]))
           /\ Timely(e, e.id[1]) /\ e.id[1] \in Nat \ {0}
           /\ e.type = log[e.id[1]][e.id[2]].type /\ e.slot = log[e.id[1]][e.id[2]].slot
           /\ e.new = log[e.id[1]][e.id[2]].new /\ e.lost = log[e.id[1]][e.id[2]].lost
<1>1. PICK h \in DOMAIN log : e \in Range(EventsAt(h)) BY DEF Recorded
<1>2. PICK i \in DOMAIN EventsAt(h) : e = EventsAt(h)[i] BY <1>1 DEF Range
<1>3. i \in 1..Len(log[h]) /\ i \in DOMAIN log[h] BY <1>2, EventsOf
<1>4. e \in EventRow /\ e.id = <<h, i>> /\ e.type = log[h][i].type /\ e.slot = log[h][i].slot
      /\ e.due = log[h][i].due /\ e.new = log[h][i].new /\ e.lost = log[h][i].lost
  BY <1>2, <1>3, EventsOf
<1>5. h \in Nat \ {0} BY EventsOf
<1>6. Timely(log[h][i], h) BY <1>3 DEF ChainInv, EventsTimely
<1>7. Timely(e, h) BY <1>4, <1>6 DEF Timely
<1>8. e.id # NoEvent BY <1>4, <1>5 DEF NoEvent
<1>9. e.id[1] = h /\ e.id[2] = i BY <1>4
<1>. QED BY <1>1, <1>2, <1>3, <1>4, <1>5, <1>7, <1>8, <1>9

LEMMA SameEvent ==
    ASSUME ChainInv, NEW e \in Recorded, NEW f \in Recorded, e.id = f.id
    PROVE  e = f
BY OfRecorded

\* The events of a height are those recorded with it.
LEMMA EventsOfHeight ==
    ASSUME ChainInv, NEW h \in DOMAIN log, NEW e \in Range(EventsAt(h))
    PROVE  e \in Recorded /\ e.id[1] = h /\ e \in EventRow
<1>1. e \in Recorded BY DEF Recorded
<1>2. PICK i \in DOMAIN EventsAt(h) : e = EventsAt(h)[i] BY DEF Range
<1>3. e.id = <<h, i>> BY <1>2, EventsOf
<1>. QED BY <1>1, <1>3, OfRecorded

LEMMA KeysRead ==
    ASSUME NEW e \in EventRow
    PROVE  OldKey(e) \in SlotKey /\ NewKey(e) \in SlotKey /\ e.due \in Nat /\ e.slot \in Slots
           /\ e.id \in Nat \X Nat
BY DEF EventRow, OldKey, NewKey, SlotKey

\* Requests that are due together are of one block, and whether they can be
\* told apart is the same for each of them.
LEMMA RequestsTogether ==
    ASSUME ChainInv, NEW e, e.due \in Nat, NEW q \in Requests(e)
    PROVE  /\ q \in Recorded /\ q.id[1] = e.due - RotationDelay /\ Requests(q) = Requests(e)
           /\ Ambiguous(q) <=> Ambiguous(e)
<1>1. q \in Recorded /\ q.type = "requested" /\ q.slot = e.slot /\ NewKey(q) = NewKey(e)
      /\ q.due = e.due
  BY DEF Requests
<1>2. q.due = q.id[1] + RotationDelay /\ q.id[1] \in Nat BY <1>1, OfRecorded DEF Timely
<1>3. Requests(q) = Requests(e) BY <1>1 DEF Requests
<1>4. q.id[1] = e.due - RotationDelay BY <1>1, <1>2, ChainAssumption
<1>. QED BY <1>1, <1>3, <1>4 DEF Ambiguous

(***************************************************************************)
(* One row                                                                 *)
(***************************************************************************)
\* The address of the old key is of no account.
LEMMA RowMadeSame ==
    ASSUME NEW r, NEW n \in RowType, RowMade(r),
           n.status = r.status, n.slot = r.slot, n.new = r.new, n.due = r.due,
           n.request = r.request, n.applied = r.applied, n.cancelled = r.cancelled
    PROVE  RowMade(n)
<1>1. \A q : RequestOf(r, q) => RequestOf(n, q) BY DEF RequestOf
<1>2. \A e : ApplicationOf(r, e) => ApplicationOf(n, e) BY DEF ApplicationOf
<1>. QED BY <1>1, <1>2 DEF RowMade, IsApplied

LEMMA SaidRow ==
    ASSUME NEW r \in RowType, NEW e \in EventRow
    PROVE  /\ Said(r, e) \in RowType /\ Said(r, e).new = NewKey(e) /\ Said(r, e).due = e.due
           /\ Said(r, e).status = r.status /\ Said(r, e).slot = r.slot
           /\ Said(r, e).request = r.request /\ Said(r, e).applied = r.applied
           /\ Said(r, e).cancelled = r.cancelled
BY KeysRead DEF Said, RowType

LEMMA RowOfRequest ==
    ASSUME ChainInv, NEW r, RowMade(r), NEW q \in Recorded, r.request = q.id
    PROVE  RequestOf(r, q)
<1>1. r.request # NoEvent BY OfRecorded
<1>2. PICK p \in Recorded : RequestOf(r, p) BY <1>1 DEF RowMade
<1>3. p = q BY <1>2, SameEvent DEF RequestOf
<1>. QED BY <1>2, <1>3

LEMMA RowOfApplication ==
    ASSUME ChainInv, NEW r, RowMade(r), NEW e \in Recorded, r.applied = e.id
    PROVE  ApplicationOf(r, e) /\ IsApplied(r)
<1>1. r.applied # NoEvent BY OfRecorded
<1>2. PICK p \in Recorded : ApplicationOf(r, p) BY <1>1 DEF RowMade
<1>3. p = e BY <1>2, SameEvent DEF ApplicationOf
<1>. QED BY <1>1, <1>2, <1>3 DEF RowMade

LEMMA RequestSaid ==
    ASSUME ChainInv, NEW r, RowMade(r), NEW q \in Recorded, r.request = q.id
    PROVE  RowMade(Said(r, q))
<1>1. RequestOf(r, q) BY RowOfRequest
<1>2. r \in RowType /\ q \in EventRow BY OfRecorded DEF RowMade
<1>. QED BY <1>1, <1>2, SaidRow, RowMadeSame DEF RequestOf


\* A row that is marked as applied: it was made of a request that can be told
\* apart, or of none.
LEMMA MarkedRow ==
    ASSUME ChainInv, NEW r, RowMade(r), NEW e \in Recorded, NEW status \in {"applied", "immediate_applied"},
           e.type \in {"rotated", "rotated_in_tx"}, e.type = "rotated" => Readable(e) /\ ~Ambiguous(e),
           r.cancelled = NoEvent,
           r.request # NoEvent => \E q \in Recorded : RequestOf(r, q) /\ ~Ambiguous(q),
           r.slot = e.slot, r.new = NewKey(e), r.due = e.due,
           NEW n \in RowType,
           n.status = status, n.slot = r.slot, n.new = NewKey(e), n.due = e.due, n.request = r.request,
           n.applied = e.id, n.cancelled = r.cancelled
    PROVE  RowMade(n)
<1>1. n.request # NoEvent => \E q \in Recorded : RequestOf(n, q) BY DEF RequestOf
<1>2. ApplicationOf(n, e) BY DEF ApplicationOf
<1>3. e.id # NoEvent BY OfRecorded
<1>. QED BY <1>1, <1>2, <1>3 DEF RowMade, IsApplied

(***************************************************************************)
(* The rows                                                                *)
(***************************************************************************)
\* No row is taken away, nor what it was made of.
Kept(b, c) ==
    /\ b.fails \subseteq c.fails
    /\ \A i \in DOMAIN b.rows :
          /\ i \in DOMAIN c.rows /\ c.rows[i].request = b.rows[i].request
          /\ b.rows[i].applied # NoEvent => c.rows[i].applied = b.rows[i].applied

LEMMA KeptSame == ASSUME NEW b PROVE Kept(b, b)
BY DEF Kept

LEMMA KeptBoth ==
    ASSUME NEW b, NEW c, NEW d, Kept(b, c), Kept(c, d)
    PROVE  Kept(b, d)
BY DEF Kept

LEMMA RowsLength ==
    ASSUME NEW made, NEW some, NEW whole, RowsMade(made, some, whole)
    PROVE  /\ made \in Seq(RowType) /\ Len(made) \in Nat /\ DOMAIN made = 1..Len(made)
           /\ \A i \in DOMAIN made : made[i] \in RowType /\ RowMade(made[i])
BY DEF RowsMade

LEMMA RowsInserted ==
    ASSUME NEW b, NEW some, NEW whole, RowsMade(b.rows, some, whole), NEW r, RowMade(r),
           r.request # NoEvent =>
              r.request[1] \in some /\ \A i \in DOMAIN b.rows : b.rows[i].request # r.request
    PROVE  LET c == Insert(b, r)
           IN  /\ RowsMade(c.rows, some, whole) /\ Kept(b, c)
               /\ Len(b.rows) + 1 \in DOMAIN c.rows /\ c.rows[Len(b.rows) + 1] = r
<1> DEFINE c == Insert(b, r)
           n == Len(b.rows)
<1>1. /\ b.rows \in Seq(RowType) /\ n \in Nat /\ DOMAIN b.rows = 1..n /\ r \in RowType
      /\ \A i \in DOMAIN b.rows : RowMade(b.rows[i])
  BY RowsLength DEF RowMade
<1>2. c.rows = Append(b.rows, r) /\ c.fails = b.fails BY DEF Insert, Book
<1>. HIDE DEF c
<1>3. /\ c.rows \in Seq(RowType) /\ DOMAIN c.rows = 1..(n + 1) /\ c.rows[n + 1] = r
      /\ \A i \in 1..n : c.rows[i] = b.rows[i]
  BY <1>1, <1>2
<1>. HIDE DEF n
<1>4. \A i \in DOMAIN c.rows : i # n + 1 => i \in DOMAIN b.rows /\ c.rows[i] = b.rows[i]
  <2>1. \A i \in 1..(n + 1) : i # n + 1 => i \in 1..n BY <1>1
  <2>. QED BY <1>1, <1>3, <2>1
<1>5. \A i \in DOMAIN c.rows : RowMade(c.rows[i]) BY <1>1, <1>3, <1>4
<1>6. RequestsUnique(c.rows)
  <2>1. ASSUME NEW i \in DOMAIN c.rows, NEW j \in DOMAIN c.rows, c.rows[i].request = c.rows[j].request,
               i # j
        PROVE  c.rows[i].request = NoEvent
    <3>1. CASE i = n + 1 /\ j # n + 1 BY <1>3, <1>4, <2>1, <3>1
    <3>2. CASE j = n + 1 /\ i # n + 1 BY <1>3, <1>4, <2>1, <3>2
    <3>3. CASE i # n + 1 /\ j # n + 1 BY <1>4, <2>1, <3>3 DEF RowsMade, RequestsUnique
    <3>. QED BY <2>1, <3>1, <3>2, <3>3
  <2>. QED BY <2>1 DEF RequestsUnique
<1>7. \A i \in DOMAIN c.rows : c.rows[i].request # NoEvent => c.rows[i].request[1] \in some
  BY <1>3, <1>4 DEF RowsMade
<1>8. \A h \in whole : Whole(c.rows, h)
  <2>1. \A i \in DOMAIN b.rows : i \in DOMAIN c.rows /\ c.rows[i] = b.rows[i] BY <1>1, <1>3
  <2>. QED BY <2>1 DEF RowsMade, Whole
<1>9. Kept(b, c) BY <1>1, <1>2, <1>3 DEF Kept
<1>10. RowsMade(c.rows, some, whole) BY <1>3, <1>5, <1>6, <1>7, <1>8 DEF RowsMade
<1>11. n + 1 \in DOMAIN c.rows BY <1>1, <1>3
<1>. QED BY <1>3, <1>9, <1>10, <1>11 DEF c, n

\* Rows become others of the same requests.
LEMMA RowsChanged ==
    ASSUME NEW b, NEW c, NEW some, NEW whole, RowsMade(b.rows, some, whole), c.fails = b.fails,
           DOMAIN c.rows = DOMAIN b.rows, c.rows = [i \in DOMAIN b.rows |-> c.rows[i]],
           \A i \in DOMAIN b.rows :
              /\ RowMade(c.rows[i]) /\ c.rows[i].request = b.rows[i].request
              /\ b.rows[i].applied # NoEvent => c.rows[i].applied = b.rows[i].applied
    PROVE  RowsMade(c.rows, some, whole) /\ Kept(b, c)
<1>1. Len(b.rows) \in Nat /\ DOMAIN b.rows = 1..Len(b.rows) BY RowsLength
<1>2. \A i \in DOMAIN b.rows : c.rows[i] \in RowType BY DEF RowMade
<1>3. c.rows \in Seq(RowType) BY <1>1, <1>2
<1>4. RequestsUnique(c.rows) BY DEF RowsMade, RequestsUnique
<1>5. \A h \in whole : Whole(c.rows, h) BY DEF RowsMade, Whole
<1>. QED BY <1>3, <1>4, <1>5 DEF RowsMade, Kept

\* A request makes a row, or finds the one it made.
LEMMA Requested ==
    ASSUME ChainInv, NEW b, NEW some, NEW whole, RowsMade(b.rows, some, whole),
           NEW q \in Recorded, q.type = "requested", HasPayload(q), q.id[1] \in some
    PROVE  LET c == UpsertRequested(b, q)
           IN  /\ RowsMade(c.rows, some, whole) /\ Kept(b, c)
               /\ \E i \in DOMAIN c.rows : c.rows[i].request = q.id
<1> DEFINE mine == {i \in DOMAIN b.rows : b.rows[i].request = q.id}
           c == UpsertRequested(b, q)
<1>1. q \in EventRow /\ q.id # NoEvent BY OfRecorded
<1>2. CASE mine = {}
  <2> DEFINE r == Row("requested", q, q.id, NoEvent, NoEvent)
  <2>1. /\ r.status = "requested" /\ r.slot = q.slot /\ r.old = OldKey(q) /\ r.new = NewKey(q)
        /\ r.due = q.due /\ r.request = q.id /\ r.applied = NoEvent /\ r.cancelled = NoEvent
    BY DEF Row
  <2>2. r \in RowType BY <1>1, KeysRead DEF Row, RowType, Statuses, NoEvent
  <2>3. RequestOf(r, q) BY <2>1 DEF RequestOf
  <2>. HIDE DEF r
  <2>4. RowMade(r) BY <1>1, <2>1, <2>2, <2>3 DEF RowMade, IsApplied
  <2>5. c = Insert(b, r) BY <1>2 DEF UpsertRequested, r
  <2>. HIDE DEF c
  <2>6. \A i \in DOMAIN b.rows : b.rows[i].request # r.request BY <1>2, <2>1
  <2>7. /\ RowsMade(c.rows, some, whole) /\ Kept(b, c)
        /\ Len(b.rows) + 1 \in DOMAIN c.rows /\ c.rows[Len(b.rows) + 1] = r
    <3>1. r.request # NoEvent =>
              r.request[1] \in some /\ \A i \in DOMAIN b.rows : b.rows[i].request # r.request
      BY <2>1, <2>6
    <3>2. /\ RowsMade(Insert(b, r).rows, some, whole) /\ Kept(b, Insert(b, r))
          /\ Len(b.rows) + 1 \in DOMAIN Insert(b, r).rows /\ Insert(b, r).rows[Len(b.rows) + 1] = r
      BY ONLY RowsMade(b.rows, some, whole), <2>4, <3>1, RowsInserted
    <3>. QED BY <2>5, <3>2
  <2>8. \E i \in DOMAIN c.rows : c.rows[i].request = q.id BY <2>1, <2>7
  <2>. QED BY <2>7, <2>8 DEF c
<1>3. CASE mine # {}
  <2>1. c = Rewrite(b, mine, LAMBDA r : Said(r, q)) BY <1>3 DEF UpsertRequested
  <2>2. /\ c.fails = b.fails /\ DOMAIN c.rows = DOMAIN b.rows /\ c.rows = [i \in DOMAIN b.rows |-> c.rows[i]]
        /\ \A i \in DOMAIN b.rows : c.rows[i] = IF i \in mine THEN Said(b.rows[i], q) ELSE b.rows[i]
    BY <2>1 DEF Rewrite, Book
  <2>. HIDE DEF c
  <2>3. ASSUME NEW i \in DOMAIN b.rows
        PROVE  /\ RowMade(c.rows[i]) /\ c.rows[i].request = b.rows[i].request
               /\ c.rows[i].applied = b.rows[i].applied
    <3>1. RowMade(b.rows[i]) /\ b.rows[i] \in RowType BY RowsLength
    <3>2. CASE i \in mine
      <4>1. b.rows[i].request = q.id BY <3>2
      <4>2. RowMade(Said(b.rows[i], q)) BY <3>1, <4>1, RequestSaid
      <4>3. c.rows[i] = Said(b.rows[i], q) BY <2>2, <3>2
      <4>4. /\ Said(b.rows[i], q).request = b.rows[i].request
            /\ Said(b.rows[i], q).applied = b.rows[i].applied
        BY <1>1, <3>1, SaidRow
      <4>. QED BY <4>2, <4>3, <4>4
    <3>3. CASE i \notin mine BY <2>2, <3>1, <3>3
    <3>. QED BY <3>2, <3>3
  <2>4. RowsMade(c.rows, some, whole) /\ Kept(b, c) BY <2>2, <2>3, RowsChanged
  <2>5. \E i \in DOMAIN c.rows : c.rows[i].request = q.id BY <1>3, <2>2, <2>3
  <2>. QED BY <2>4, <2>5 DEF c
<1>. QED BY <1>2, <1>3

LEMMA Immediate ==
    ASSUME ChainInv, NEW b, NEW some, NEW whole, RowsMade(b.rows, some, whole),
           NEW e \in Recorded, e.type = "rotated_in_tx"
    PROVE  LET c == UpsertImmediate(b, e)
           IN  RowsMade(c.rows, some, whole) /\ Kept(b, c)
<1> DEFINE mine == {i \in DOMAIN b.rows : b.rows[i].applied = e.id}
           c == UpsertImmediate(b, e)
<1>1. e \in EventRow /\ e.id # NoEvent BY OfRecorded
<1>2. CASE mine = {}
  <2> DEFINE r == Row("immediate_applied", e, NoEvent, e.id, NoEvent)
  <2>1. /\ r.status = "immediate_applied" /\ r.slot = e.slot /\ r.old = OldKey(e) /\ r.new = NewKey(e)
        /\ r.due = e.due /\ r.request = NoEvent /\ r.applied = e.id /\ r.cancelled = NoEvent
    BY DEF Row
  <2>2. r \in RowType BY <1>1, KeysRead DEF Row, RowType, Statuses, NoEvent
  <2>3. ApplicationOf(r, e) BY <2>1 DEF ApplicationOf
  <2>. HIDE DEF r
  <2>4. RowMade(r) BY <1>1, <2>1, <2>2, <2>3 DEF RowMade, IsApplied
  <2>5. c = Insert(b, r) BY <1>2 DEF UpsertImmediate, r
  <2>. HIDE DEF c
  <2>6. RowsMade(Insert(b, r).rows, some, whole) /\ Kept(b, Insert(b, r))
    <3>1. r.request # NoEvent =>
              r.request[1] \in some /\ \A i \in DOMAIN b.rows : b.rows[i].request # r.request
      BY <2>1
    <3>. QED BY ONLY RowsMade(b.rows, some, whole), <2>4, <3>1, RowsInserted
  <2>. QED BY <2>5, <2>6 DEF c
<1>3. CASE mine # {}
  <2>1. c = Rewrite(b, mine, LAMBDA r : [Said(r, e) EXCEPT !.status = "immediate_applied"])
    BY <1>3 DEF UpsertImmediate
  <2>2. /\ c.fails = b.fails /\ DOMAIN c.rows = DOMAIN b.rows /\ c.rows = [i \in DOMAIN b.rows |-> c.rows[i]]
        /\ \A i \in DOMAIN b.rows :
              c.rows[i] = IF i \in mine THEN [Said(b.rows[i], e) EXCEPT !.status = "immediate_applied"]
                          ELSE b.rows[i]
    BY <2>1 DEF Rewrite, Book
  <2>. HIDE DEF c
  <2>3. ASSUME NEW i \in DOMAIN b.rows
        PROVE  /\ RowMade(c.rows[i]) /\ c.rows[i].request = b.rows[i].request
               /\ c.rows[i].applied = b.rows[i].applied
    <3>1. RowMade(b.rows[i]) /\ b.rows[i] \in RowType BY RowsLength
    <3>2. CASE i \in mine
      <4> DEFINE r == b.rows[i]
                 n == [Said(r, e) EXCEPT !.status = "immediate_applied"]
      <4>1. r.applied = e.id BY <3>2
      <4>2. ApplicationOf(r, e) /\ IsApplied(r) BY <3>1, <4>1, RowOfApplication
      <4>3. /\ Said(r, e) \in RowType /\ Said(r, e).new = NewKey(e) /\ Said(r, e).due = e.due
            /\ Said(r, e).slot = r.slot /\ Said(r, e).request = r.request
            /\ Said(r, e).applied = r.applied /\ Said(r, e).cancelled = r.cancelled
        BY <1>1, <3>1, SaidRow
      <4>4. /\ n \in RowType /\ n.status = "immediate_applied" /\ n.new = NewKey(e) /\ n.due = e.due
            /\ n.slot = r.slot /\ n.request = r.request /\ n.applied = e.id /\ n.cancelled = r.cancelled
        BY <4>1, <4>3 DEF RowType, Statuses
      <4>5. r.cancelled = NoEvent BY <3>1, <4>2 DEF RowMade, IsApplied
      <4>6. r.request # NoEvent => \E q \in Recorded : RequestOf(r, q) /\ ~Ambiguous(q)
        BY <3>1, <4>2 DEF RowMade, IsApplied, RequestOf
      <4>7. n = c.rows[i] BY <2>2, <3>2
      <4>8. r.slot = e.slot /\ r.new = NewKey(e) /\ r.due = e.due BY <4>2 DEF ApplicationOf
      <4>. HIDE DEF n, r
      <4>9. RowMade(n) BY <3>1, <4>4, <4>5, <4>6, <4>8, MarkedRow DEF r
      <4>. QED BY <4>1, <4>4, <4>7, <4>9 DEF r
    <3>3. CASE i \notin mine BY <2>2, <3>1, <3>3
    <3>. QED BY <3>2, <3>3
  <2>4. RowsMade(c.rows, some, whole) /\ Kept(b, c) BY <2>2, <2>3, RowsChanged
  <2>. QED BY <2>4 DEF c
<1>. QED BY <1>2, <1>3

LEMMA RowRequested ==
    ASSUME NEW r, RowMade(r), r.status = "requested"
    PROVE  /\ r.request # NoEvent /\ r.applied = NoEvent /\ r.cancelled = NoEvent
           /\ \E q \in Recorded : RequestOf(r, q)
BY DEF RowMade, IsApplied

\* The rows of a request that cannot be told apart are never alone.
LEMMA HasRow ==
    ASSUME ChainInv, NEW made, NEW some, NEW whole, RowsMade(made, some, whole),
           NEW e, e.due \in Nat, NEW q \in Requests(e), q.id[1] \in whole, Ambiguous(e)
    PROVE  \E j \in DOMAIN made :
              /\ made[j].request = q.id /\ made[j].status = "requested"
              /\ made[j].slot = e.slot /\ made[j].new = NewKey(e) /\ made[j].due = e.due
<1>1. q \in Recorded /\ Ambiguous(q) BY RequestsTogether
<1>2. q.type = "requested" /\ HasPayload(q) /\ q.slot = e.slot /\ NewKey(q) = NewKey(e) /\ q.due = e.due
  BY DEF Requests
<1>3. q \in Range(EventsAt(q.id[1])) BY <1>1, OfRecorded
<1>4. PICK j \in DOMAIN made : made[j].request = q.id BY <1>2, <1>3 DEF RowsMade, Whole
<1>5. RequestOf(made[j], q) BY <1>1, <1>4, RowsLength, RowOfRequest
<1>. QED BY <1>1, <1>2, <1>4, <1>5 DEF RequestOf

LEMMA Sibling ==
    ASSUME ChainInv, NEW made, NEW some, RowsMade(made, some, some), NEW i \in DOMAIN made,
           NEW q \in Recorded, RequestOf(made[i], q), Ambiguous(q)
    PROVE  \E j \in DOMAIN made :
              /\ j # i /\ made[j].status = "requested" /\ made[j].slot = made[i].slot
              /\ made[j].new = made[i].new /\ made[j].due = made[i].due
<1>1. q \in EventRow /\ q.due \in Nat /\ q.id # NoEvent BY OfRecorded, KeysRead
<1>2. q \in Requests(q) BY DEF RequestOf, Requests
<1>3. PICK p \in Requests(q) : p # q BY DEF Ambiguous
<1>4. p \in Recorded /\ p.id[1] = q.id[1] BY <1>1, <1>2, <1>3, RequestsTogether
<1>5. q.id[1] \in some
  <2>1. made[i].request = q.id /\ made[i].request # NoEvent BY <1>1 DEF RequestOf
  <2>. QED BY <2>1 DEF RowsMade
<1>6. PICK j \in DOMAIN made :
              /\ made[j].request = p.id /\ made[j].status = "requested"
              /\ made[j].slot = q.slot /\ made[j].new = NewKey(q) /\ made[j].due = q.due
  BY <1>1, <1>3, <1>4, <1>5, HasRow
<1>7. p.id # q.id BY <1>3, <1>4, SameEvent
<1>. QED BY <1>6, <1>7 DEF RequestOf

LEMMA TwoRows ==
    ASSUME ChainInv, NEW made, NEW some, RowsMade(made, some, some), NEW e \in Recorded,
           Ambiguous(e), e.due - RotationDelay \in some
    PROVE  \E i, j \in DOMAIN made :
              /\ i # j
              /\ \A l \in {i, j} : /\ made[l].status = "requested" /\ made[l].slot = e.slot
                                   /\ made[l].new = NewKey(e) /\ made[l].due = e.due
<1>1. e.due \in Nat BY OfRecorded, KeysRead
<1>2. PICK p, q \in Requests(e) : p # q BY DEF Ambiguous
<1>3. /\ p \in Recorded /\ p.id[1] = e.due - RotationDelay
      /\ q \in Recorded /\ q.id[1] = e.due - RotationDelay
  BY <1>1, RequestsTogether
<1>4. p.id # q.id BY <1>2, <1>3, SameEvent
<1>5. PICK i \in DOMAIN made :
              /\ made[i].request = p.id /\ made[i].status = "requested"
              /\ made[i].slot = e.slot /\ made[i].new = NewKey(e) /\ made[i].due = e.due
  BY <1>1, <1>3, HasRow
<1>6. PICK j \in DOMAIN made :
              /\ made[j].request = q.id /\ made[j].status = "requested"
              /\ made[j].slot = e.slot /\ made[j].new = NewKey(e) /\ made[j].due = e.due
  BY <1>1, <1>3, HasRow
<1>7. i # j BY <1>4, <1>5, <1>6
<1>. QED BY <1>5, <1>6, <1>7

\* Places are finite.
LEMMA PlacesFinite ==
    ASSUME NEW made, NEW some, NEW whole, RowsMade(made, some, whole), NEW places \in SUBSET (DOMAIN made)
    PROVE  IsFiniteSet(places) /\ Cardinality(places) \in Nat
<1>1. IsFiniteSet(1..Len(made)) BY RowsLength, FS_Interval
<1>2. IsFiniteSet(places) BY <1>1, RowsLength, FS_Subset
<1>. QED BY <1>2, FS_CardinalityType

LEMMA Reported1 ==
    ASSUME NEW b, NEW e, NEW kind
    PROVE  /\ Report(b, e, kind).rows = b.rows /\ Kept(b, Report(b, e, kind))
           /\ Drift(e, kind) \in Report(b, e, kind).fails
BY DEF Report, Book, Kept

\* A row that an event may be about can be told from others when it is the only one.
LEMMA OnlyMatch ==
    ASSUME ChainInv, NEW b, NEW some, RowsMade(b.rows, some, some), NEW e \in Recorded,
           NEW i \in DOMAIN b.rows, Matching(b, e) = {i}
    PROVE  \E q \in Recorded : RequestOf(b.rows[i], q) /\ ~Ambiguous(q)
<1>1. /\ b.rows[i].status = "requested" /\ b.rows[i].slot = e.slot /\ b.rows[i].new = NewKey(e)
      /\ e.type # "cancelled" => b.rows[i].due = e.due
  <2>1. i \in Matching(b, e) OBVIOUS
  <2>. QED BY <2>1 DEF Matching
<1>2. PICK q \in Recorded : RequestOf(b.rows[i], q) BY <1>1, RowsLength, RowRequested
<1>3. ASSUME Ambiguous(q) PROVE FALSE
  <2>1. PICK j \in DOMAIN b.rows :
              /\ j # i /\ b.rows[j].status = "requested" /\ b.rows[j].slot = b.rows[i].slot
              /\ b.rows[j].new = b.rows[i].new /\ b.rows[j].due = b.rows[i].due
    BY <1>2, <1>3, Sibling
  <2>2. j \in Matching(b, e) BY <1>1, <2>1 DEF Matching
  <2>. QED BY <2>1, <2>2
<1>. QED BY <1>2, <1>3

\* An application finds its row exactly when it can be told apart, and nothing
\* that was projected before or is projected again changes that.
LEMMA Applied ==
    ASSUME ChainInv, NEW b, NEW some, RowsMade(b.rows, some, some), NEW e \in Recorded,
           e.type \in {"rotated", "rotated_in_tx"},
           e.type = "rotated" /\ Ambiguous(e) => e.due - RotationDelay \in some
    PROVE  LET c == ProjectApplied(b, e)
           IN  /\ RowsMade(c.rows, some, some) /\ Kept(b, c)
               /\ e.type = "rotated" => Settles(c, e)
<1> DEFINE c == ProjectApplied(b, e)
           mine == {i \in DOMAIN b.rows : b.rows[i].applied = e.id}
           hits == About(b, e, "applied")
<1>1. e \in EventRow /\ e.id # NoEvent BY OfRecorded
<1>2. mine # {} => hits = mine BY DEF About
<1>3. mine = {} => hits = Matching(b, e) BY DEF About
<1>4. hits \in SUBSET (DOMAIN b.rows) BY <1>2, <1>3 DEF Matching
<1>5. IsFiniteSet(hits) /\ Cardinality(hits) \in Nat BY <1>4, PlacesFinite
<1>. HIDE DEF mine, hits
<1>6. CASE ~Readable(e)
  <2>1. c = Report(b, e, "unreadable") BY <1>6 DEF ProjectApplied
  <2>. HIDE DEF c
  <2>. QED BY <1>6, <2>1, Reported1 DEF Settles, c
<1>7. CASE Readable(e) /\ hits = {}
  <2>1. c = Report(Insert(b, Row("applied", e, NoEvent, e.id, NoEvent)), e, "missing_request")
    BY <1>7 DEF ProjectApplied, hits
  <2> DEFINE r == Row("applied", e, NoEvent, e.id, NoEvent)
             d == Insert(b, r)
  <2>2. /\ r.status = "applied" /\ r.slot = e.slot /\ r.old = OldKey(e) /\ r.new = NewKey(e)
        /\ r.due = e.due /\ r.request = NoEvent /\ r.applied = e.id /\ r.cancelled = NoEvent
    BY DEF Row
  <2>3. r \in RowType BY <1>1, KeysRead DEF Row, RowType, Statuses, NoEvent
  <2>4. e.type = "rotated" => ~Ambiguous(e)
    <3>1. mine = {} /\ Matching(b, e) = {} BY <1>2, <1>3, <1>7
    <3>. QED BY <3>1, TwoRows DEF Matching
  <2>5. ApplicationOf(r, e) BY <1>7, <2>2, <2>4 DEF ApplicationOf
  <2>. HIDE DEF r
  <2>6. RowMade(r) BY <1>1, <2>2, <2>3, <2>5 DEF RowMade, IsApplied
  <2>7. /\ RowsMade(d.rows, some, some) /\ Kept(b, d)
        /\ Len(b.rows) + 1 \in DOMAIN d.rows /\ d.rows[Len(b.rows) + 1] = r
    <3>1. r.request # NoEvent =>
              r.request[1] \in some /\ \A i \in DOMAIN b.rows : b.rows[i].request # r.request
      BY <2>2
    <3>. QED BY ONLY RowsMade(b.rows, some, some), <2>6, <3>1, RowsInserted
  <2>. HIDE DEF d, c
  <2>8. c.rows = d.rows /\ Kept(d, c) BY <2>1, Reported1 DEF d, r
  <2>9. Kept(b, c) BY <2>7, <2>8, KeptBoth
  <2>10. e.type = "rotated" => Settles(c, e) BY <1>7, <2>2, <2>4, <2>7, <2>8 DEF Settles
  <2>. QED BY <2>7, <2>8, <2>9, <2>10 DEF c
<1>8. CASE Readable(e) /\ hits # {} /\ Cardinality(hits) > 1
  <2>1. c = Report(b, e, "ambiguous") BY <1>8 DEF ProjectApplied, hits
  <2>. HIDE DEF c
  <2>2. e.type = "rotated" => Settles(c, e)
    <3>1. CASE Ambiguous(e) BY <1>8, <2>1, <3>1, Reported1 DEF Settles
    <3>2. CASE ~Ambiguous(e) /\ mine # {}
      <4>1. \E i \in DOMAIN b.rows : b.rows[i].applied = e.id BY <3>2 DEF mine
      <4>2. c.rows = b.rows BY <2>1, Reported1
      <4>. QED BY <1>8, <3>2, <4>1, <4>2 DEF Settles
    <3>3. CASE ~Ambiguous(e) /\ mine = {} /\ e.type = "rotated"
      <4>1. hits = Matching(b, e) BY <1>3, <3>3
      <4>2. ~(Cardinality({}) > 1) BY FS_EmptySet
      <4>3. PICK i \in hits : TRUE BY <1>8
      <4>4. hits # {i}
        <5>1. Cardinality({i}) = 1 BY FS_Singleton
        <5>. QED BY <1>8, <5>1
      <4>5. PICK j \in hits : j # i BY <4>3, <4>4
      <4>6. \A l \in {i, j} : /\ l \in DOMAIN b.rows /\ b.rows[l].status = "requested"
                              /\ b.rows[l].slot = e.slot /\ b.rows[l].new = NewKey(e)
                              /\ b.rows[l].due = e.due
        BY <3>3, <4>1, <4>3, <4>5 DEF Matching
      <4>7. ASSUME NEW l \in {i, j}
            PROVE  \E q \in Recorded : q.id = b.rows[l].request /\ q \in Requests(e)
                                       /\ b.rows[l].request # NoEvent
        <5>1. RowMade(b.rows[l]) /\ b.rows[l].status = "requested" BY <4>6, RowsLength
        <5>2. PICK q \in Recorded : RequestOf(b.rows[l], q) BY <5>1, RowRequested
        <5>3. q \in Requests(e) BY <4>6, <5>2 DEF RequestOf, Requests
        <5>. QED BY <5>1, <5>2, <5>3, RowRequested DEF RequestOf
      <4>8. PICK p \in Requests(e) : p.id = b.rows[i].request /\ p.id # NoEvent BY <4>7
      <4>9. PICK q \in Requests(e) : q.id = b.rows[j].request BY <4>7
      <4>10. p # q BY <4>5, <4>6, <4>8, <4>9 DEF RowsMade, RequestsUnique
      <4>. QED BY <3>3, <4>10 DEF Ambiguous
    <3>. QED BY <3>1, <3>2, <3>3
  <2>. QED BY <2>1, <2>2, Reported1 DEF c
<1>9. CASE Readable(e) /\ hits # {} /\ ~(Cardinality(hits) > 1)
  <2>1. PICK i \in hits : TRUE BY <1>9
  <2>2. hits = {i} BY <1>5, <1>9, <2>1, OneAtMost
  <2>3. c = Rewrite(b, {i}, LAMBDA r : AsApplied(r, e))
    BY <1>9, <2>2 DEF ProjectApplied, MarkApplied, hits
  <2>4. /\ c.fails = b.fails /\ DOMAIN c.rows = DOMAIN b.rows /\ c.rows = [j \in DOMAIN b.rows |-> c.rows[j]]
        /\ \A j \in DOMAIN b.rows :
              c.rows[j] = IF j \in {i} THEN AsApplied(b.rows[j], e)
                          ELSE b.rows[j]
    BY <2>3 DEF Rewrite, Book
  <2>. HIDE DEF c
  <2> DEFINE r == b.rows[i]
             n == AsApplied(r, e)
  <2>5. i \in DOMAIN b.rows /\ RowMade(r) /\ r \in RowType BY <1>4, <2>1, RowsLength
  <2>6. /\ r.slot = e.slot /\ r.new = NewKey(e) /\ r.due = e.due /\ r.cancelled = NoEvent
        /\ r.applied \in {NoEvent, e.id}
        /\ r.request # NoEvent => \E q \in Recorded : RequestOf(r, q) /\ ~Ambiguous(q)
        /\ e.type = "rotated" => ~Ambiguous(e)
    <3>1. CASE mine # {}
      <4>1. r.applied = e.id BY <1>2, <2>1, <3>1 DEF mine
      <4>2. ApplicationOf(r, e) /\ IsApplied(r) BY <2>5, <4>1, RowOfApplication
      <4>3. r.cancelled = NoEvent BY <2>5, <4>2 DEF RowMade, IsApplied
      <4>4. r.request # NoEvent => \E q \in Recorded : RequestOf(r, q) /\ ~Ambiguous(q)
        BY <2>5, <4>2 DEF RowMade, IsApplied, RequestOf
      <4>. QED BY <4>1, <4>2, <4>3, <4>4 DEF ApplicationOf
    <3>2. CASE mine = {}
      <4>1. Matching(b, e) = {i} BY <1>3, <2>2, <3>2
      <4>2. /\ r.status = "requested" /\ r.slot = e.slot /\ r.new = NewKey(e) /\ r.due = e.due
        <5>1. i \in Matching(b, e) BY <4>1
        <5>. QED BY <5>1 DEF Matching
      <4>3. r.applied = NoEvent /\ r.cancelled = NoEvent BY <2>5, <4>2, RowRequested
      <4>4. \E q \in Recorded : RequestOf(r, q) /\ ~Ambiguous(q) BY <2>5, <4>1, OnlyMatch
      <4>5. e.type = "rotated" => ~Ambiguous(e)
        <5>1. PICK q \in Recorded : RequestOf(r, q) /\ ~Ambiguous(q) BY <4>4
        <5>2. q \in Requests(e) BY <4>2, <5>1 DEF RequestOf, Requests
        <5>3. e.due \in Nat BY <1>1, KeysRead
        <5>. QED BY <5>1, <5>2, <5>3, RequestsTogether
      <4>. QED BY <4>2, <4>3, <4>4, <4>5
    <3>. QED BY <3>1, <3>2
  <2>7. /\ Said(r, e) \in RowType /\ Said(r, e).new = NewKey(e) /\ Said(r, e).due = e.due
        /\ Said(r, e).slot = r.slot /\ Said(r, e).request = r.request
        /\ Said(r, e).cancelled = r.cancelled
    BY <1>1, <2>5, SaidRow
  <2>8. /\ n \in RowType /\ n.status = "applied" /\ n.new = NewKey(e) /\ n.due = e.due
        /\ n.slot = r.slot /\ n.request = r.request /\ n.applied = e.id /\ n.cancelled = r.cancelled
    <3>1. e.id \in Nat \X Nat BY <1>1, KeysRead
    <3>. QED BY <2>7, <3>1 DEF AsApplied, RowType, Statuses
  <2>9. c.rows[i] = n BY <2>4, <2>5
  <2>. HIDE DEF n
  <2>10. RowMade(n)
    <3>1. e.type = "rotated" => Readable(e) /\ ~Ambiguous(e) BY <1>9, <2>6
    <3>. HIDE DEF r
    <3>. QED BY <2>5, <2>6, <2>8, <3>1, MarkedRow
  <2>11. ASSUME NEW j \in DOMAIN b.rows
         PROVE  /\ RowMade(c.rows[j]) /\ c.rows[j].request = b.rows[j].request
                /\ b.rows[j].applied # NoEvent => c.rows[j].applied = b.rows[j].applied
    <3>1. CASE j = i BY <2>6, <2>8, <2>9, <2>10, <3>1
    <3>2. CASE j # i
      <4>1. c.rows[j] = b.rows[j] BY <2>4, <3>2
      <4>. QED BY <4>1, RowsLength
    <3>. QED BY <3>1, <3>2
  <2>12. RowsMade(c.rows, some, some) /\ Kept(b, c) BY <2>4, <2>11, RowsChanged
  <2>13. e.type = "rotated" => Settles(c, e) BY <1>9, <2>4, <2>5, <2>6, <2>8, <2>9 DEF Settles
  <2>. QED BY <2>12, <2>13 DEF c
<1>. QED BY <1>6, <1>7, <1>8, <1>9

LEMMA CancelledRow ==
    ASSUME ChainInv, NEW b, NEW some, RowsMade(b.rows, some, some), NEW e \in Recorded
    PROVE  LET c == ProjectCancelled(b, e)
           IN  RowsMade(c.rows, some, some) /\ Kept(b, c)
<1> DEFINE c == ProjectCancelled(b, e)
           mine == {i \in DOMAIN b.rows : b.rows[i].cancelled = e.id}
           hits == About(b, e, "cancelled")
<1>1. e \in EventRow /\ e.id # NoEvent BY OfRecorded
<1>2. mine # {} => hits = mine BY DEF About
<1>3. mine = {} => hits = Matching(b, e) BY DEF About
<1>4. hits \in SUBSET (DOMAIN b.rows) BY <1>2, <1>3 DEF Matching
<1>5. IsFiniteSet(hits) /\ Cardinality(hits) \in Nat BY <1>4, PlacesFinite
<1>. HIDE DEF mine, hits
<1>6. CASE ~Readable(e) BY <1>6, Reported1 DEF ProjectCancelled
<1>7. CASE Readable(e) /\ hits = {}
  <2> DEFINE r == Row("cancelled", e, NoEvent, NoEvent, e.id)
             d == Insert(b, r)
  <2>1. c = Report(d, e, "missing_request") BY <1>7 DEF ProjectCancelled, hits
  <2>2. /\ r.status = "cancelled" /\ r.request = NoEvent /\ r.applied = NoEvent /\ r.cancelled = e.id
    BY DEF Row
  <2>3. r \in RowType BY <1>1, KeysRead DEF Row, RowType, Statuses, NoEvent
  <2>. HIDE DEF r
  <2>4. RowMade(r) BY <2>2, <2>3 DEF RowMade, IsApplied
  <2>5. RowsMade(d.rows, some, some) /\ Kept(b, d)
    <3>1. r.request # NoEvent =>
              r.request[1] \in some /\ \A i \in DOMAIN b.rows : b.rows[i].request # r.request
      BY <2>2
    <3>. QED BY ONLY RowsMade(b.rows, some, some), <2>4, <3>1, RowsInserted
  <2>. HIDE DEF d, c
  <2>6. c.rows = d.rows /\ Kept(d, c) BY <2>1, Reported1
  <2>7. Kept(b, c) BY <2>5, <2>6, KeptBoth
  <2>. QED BY <2>5, <2>6, <2>7 DEF c
<1>8. CASE Readable(e) /\ hits # {} /\ Cardinality(hits) > 1
  BY <1>8, Reported1 DEF ProjectCancelled, hits
<1>9. CASE Readable(e) /\ hits # {} /\ ~(Cardinality(hits) > 1)
  <2>1. PICK i \in hits : TRUE BY <1>9
  <2>2. hits = {i} BY <1>5, <1>9, <2>1, OneAtMost
  <2>3. c = Rewrite(b, {i}, LAMBDA r : AsCancelled(r, e))
    BY <1>9, <2>2 DEF ProjectCancelled, MarkCancelled, hits
  <2>4. /\ c.fails = b.fails /\ DOMAIN c.rows = DOMAIN b.rows /\ c.rows = [j \in DOMAIN b.rows |-> c.rows[j]]
        /\ \A j \in DOMAIN b.rows :
              c.rows[j] = IF j \in {i} THEN AsCancelled(b.rows[j], e)
                          ELSE b.rows[j]
    BY <2>3 DEF Rewrite, Book
  <2>. HIDE DEF c
  <2> DEFINE r == b.rows[i]
             n == AsCancelled(r, e)
  <2>5. i \in DOMAIN b.rows /\ RowMade(r) /\ r \in RowType BY <1>4, <2>1, RowsLength
  <2>6. /\ r.applied = NoEvent
        /\ r.request # NoEvent => \E q \in Recorded : RequestOf(r, q) /\ ~Ambiguous(q)
    <3>1. CASE mine # {}
      <4>1. r.cancelled = e.id BY <1>2, <2>1, <3>1 DEF mine
      <4>2. r.status = "cancelled" BY <1>1, <2>5, <4>1 DEF RowMade
      <4>. QED BY <2>5, <4>2 DEF RowMade, IsApplied, RequestOf
    <3>2. CASE mine = {}
      <4>1. Matching(b, e) = {i} BY <1>3, <2>2, <3>2
      <4>2. r.status = "requested"
        <5>1. i \in Matching(b, e) BY <4>1
        <5>. QED BY <5>1 DEF Matching
      <4>3. r.applied = NoEvent BY <2>5, <4>2, RowRequested
      <4>4. \E q \in Recorded : RequestOf(r, q) /\ ~Ambiguous(q) BY <2>5, <4>1, OnlyMatch
      <4>. QED BY <4>3, <4>4
    <3>. QED BY <3>1, <3>2
  <2>7. /\ n \in RowType /\ n.status = "cancelled" /\ n.slot = r.slot /\ n.new = r.new /\ n.due = r.due
        /\ n.request = r.request /\ n.applied = r.applied /\ n.cancelled = e.id
    <3>1. e.id \in Nat \X Nat BY <1>1, KeysRead
    <3>. QED BY <2>5, <3>1 DEF AsCancelled, RowType, Statuses
  <2>8. c.rows[i] = n BY <2>4, <2>5
  <2>. HIDE DEF n
  <2>9. RowMade(n)
    <3>1. n.request # NoEvent => \E q \in Recorded : RequestOf(n, q) BY <2>6, <2>7 DEF RequestOf
    <3>. QED BY <2>6, <2>7, <3>1 DEF RowMade, IsApplied
  <2>10. ASSUME NEW j \in DOMAIN b.rows
         PROVE  /\ RowMade(c.rows[j]) /\ c.rows[j].request = b.rows[j].request
                /\ b.rows[j].applied # NoEvent => c.rows[j].applied = b.rows[j].applied
    <3>1. CASE j = i BY <2>6, <2>7, <2>8, <2>9, <3>1
    <3>2. CASE j # i
      <4>1. c.rows[j] = b.rows[j] BY <2>4, <3>2
      <4>. QED BY <4>1, RowsLength
    <3>. QED BY <3>1, <3>2
  <2>11. RowsMade(c.rows, some, some) /\ Kept(b, c) BY <2>4, <2>10, RowsChanged
  <2>. QED BY <2>11 DEF c
<1>. QED BY <1>6, <1>7, <1>8, <1>9


-----------------------------------------------------------------------------
(***************************************************************************)
(* A height of rotations                                                   *)
(***************************************************************************)
\* The books of a pass follow one from the other.
LEMMA PassingFollows ==
    ASSUME NEW pass, NEW b, NEW events, Len(events) \in Nat
    PROVE  /\ Passing(pass, b, events)[0] = b
           /\ \A n \in 1..Len(events) : Passing(pass, b, events)[n] =
                 IF Takes(pass, events[n])
                 THEN Project(pass, Passing(pass, b, events)[n - 1], events[n])
                 ELSE Passing(pass, b, events)[n - 1]
<1> DEFINE N == Len(events)
           Body(g, n) ==
                 IF n = 0 THEN b
                 ELSE IF Takes(pass, events[n])
                 THEN Project(pass, g[n - 1], events[n])
                 ELSE g[n - 1]
           Shown == {n \in 0..N : \E g : g = [i \in 0..n |-> Body(g, i)]}
<1>1. N \in Nat OBVIOUS
<1>. HIDE DEF N
<1>2. 0 \in Shown
  <2> DEFINE g == [i \in 0..0 |-> b]
  <2>1. g = [i \in 0..0 |-> Body(g, i)] OBVIOUS
  <2>2. \E x : x = [i \in 0..0 |-> Body(x, i)] BY <2>1
  <2>. HIDE DEF Body
  <2>. QED BY <1>1, <2>2
<1>3. ASSUME NEW n \in 0..(N - 1), n \in Shown PROVE n + 1 \in Shown
  <2>1. PICK g : g = [i \in 0..n |-> Body(g, i)] BY <1>3
  <2> DEFINE next == [i \in 0..(n + 1) |-> Body(g, i)]
  <2>2. ASSUME NEW i \in 0..(n + 1), i # 0 PROVE next[i - 1] = g[i - 1]
    <3>1. i - 1 \in 0..n /\ i - 1 \in 0..(n + 1) BY <2>2
    <3>. HIDE DEF Body
    <3>. QED BY <2>1, <3>1
  <2>. HIDE DEF next
  <2>3. \A i \in 0..(n + 1) : Body(next, i) = Body(g, i) BY <2>2
  <2>4. next = [i \in 0..(n + 1) |-> Body(next, i)]
    <3>1. next = [i \in 0..(n + 1) |-> Body(g, i)] BY DEF next
    <3>. HIDE DEF Body
    <3>. QED BY <2>3, <3>1
  <2>5. \E x : x = [i \in 0..(n + 1) |-> Body(x, i)] BY <2>4
  <2>6. n + 1 \in 0..N BY <1>1, <1>3
  <2>. HIDE DEF Body
  <2>. QED BY <2>5, <2>6
<1>4. N \in Shown
  <2>. HIDE DEF Shown
  <2>1. 0..N \subseteq Shown BY <1>1, <1>2, <1>3, CountingUp
  <2>. QED BY <1>1, <2>1
<1>5. \E g : g = [i \in 0..N |-> Body(g, i)] BY <1>4
<1> DEFINE f == Passing(pass, b, events)
<1>6. f = CHOOSE g : g = [i \in 0..N |-> Body(g, i)] BY DEF Passing, N
<1>7. f = [i \in 0..N |-> Body(f, i)]
  <2>. HIDE DEF Body, f
  <2>. QED BY <1>5, <1>6
<1>. HIDE DEF f
<1>8. \A i \in 0..N : f[i] = Body(f, i)
  <2>. HIDE DEF Body
  <2>. QED BY <1>7
<1>9. f[0] = b BY <1>1, <1>8
<1>10. ASSUME NEW n \in 1..N PROVE f[n] =
      IF Takes(pass, events[n])
      THEN Project(pass, f[n - 1], events[n])
      ELSE f[n - 1]
  BY <1>1, <1>8
<1>. QED BY <1>9, <1>10 DEF f, N

LEMMA SettlesKept ==
    ASSUME ChainInv, NEW b, NEW c, Kept(b, c), NEW e \in Recorded, Settles(b, e)
    PROVE  Settles(c, e)
<1>1. e.id # NoEvent BY OfRecorded
<1>2. \A i \in DOMAIN b.rows : b.rows[i].applied = e.id => i \in DOMAIN c.rows /\ c.rows[i].applied = e.id
  BY <1>1 DEF Kept
<1>. QED BY <1>2 DEF Kept, Settles

HasRequest(b, e) == \E i \in DOMAIN b.rows : b.rows[i].request = e.id

\* What a pass leaves of an event it is about.
Left(pass, b, e) ==
    /\ pass = "messages" /\ e.type = "requested" /\ Consumed(e) => HasRequest(b, e)
    /\ pass = "requests" /\ e.type = "requested" /\ HasPayload(e) /\ ~Consumed(e) => HasRequest(b, e)
    /\ pass = "applied" /\ e.type = "rotated" => Settles(b, e)

LEMMA LeftKept ==
    ASSUME ChainInv, NEW b, NEW c, Kept(b, c), NEW e \in Recorded, NEW pass, Left(pass, b, e)
    PROVE  Left(pass, c, e)
<1>1. HasRequest(b, e) => HasRequest(c, e) BY DEF Kept, HasRequest
<1>2. Settles(b, e) => Settles(c, e) BY SettlesKept
<1>. QED BY <1>1, <1>2 DEF Left

Passes == {"messages", "requests", "applied", "cancelled"}

\* When a pass comes to the applications every request so far has its row.
Comes(pass, h, some, whole) ==
    /\ h \in some
    /\ pass \in {"applied", "cancelled"} => some = whole /\ 1..h \subseteq some

LEMMA RequestFirst ==
    ASSUME ChainInv, NEW e \in Recorded, e.type = "rotated", Ambiguous(e), NEW some, 1..e.id[1] \subseteq some
    PROVE  e.due - RotationDelay \in some
<1>1. e.due \in Nat /\ e.due = e.id[1] BY OfRecorded, KeysRead DEF Timely
<1>2. PICK q \in Requests(e) : TRUE BY DEF Ambiguous
<1>3. q \in Recorded /\ q.id[1] = e.due - RotationDelay BY <1>1, RequestsTogether
<1>4. q.id[1] \in Nat \ {0} BY <1>3, OfRecorded
<1>5. q.id[1] \in 1..e.id[1] BY <1>1, <1>3, <1>4, ChainAssumption
<1>. QED BY <1>3, <1>5

LEMMA ProjectKeeps ==
    ASSUME ChainInv, NEW b, NEW some, NEW whole, RowsMade(b.rows, some, whole), NEW pass \in Passes,
           NEW e \in Recorded, Comes(pass, e.id[1], some, whole), Takes(pass, e)
    PROVE  LET c == Project(pass, b, e)
           IN  RowsMade(c.rows, some, whole) /\ Kept(b, c) /\ Left(pass, c, e)
<1>1. CASE pass = "messages"
  <2> DEFINE c == ProjectRotationMessage(b, e)
  <2>1. Project(pass, b, e) = c BY <1>1 DEF Project
  <2>2. e.type \in {"requested", "rotated_in_tx"} BY <1>1 DEF Takes, Messages
  <2>3. CASE ~Consumed(e)
    <3>1. \E kind : c = Report(b, e, kind) BY <2>3 DEF Consumed, ProjectRotationMessage
    <3>. HIDE DEF c
    <3>. QED BY <1>1, <2>1, <2>3, <3>1, Reported1 DEF Left
  <2>4. CASE Consumed(e) /\ e.type = "requested"
    <3>1. c = UpsertRequested(b, e) /\ HasPayload(e) BY <2>4 DEF Consumed, ProjectRotationMessage
    <3>2. e.id[1] \in some BY DEF Comes
    <3>. HIDE DEF c
    <3>3. RowsMade(c.rows, some, whole) /\ Kept(b, c) /\ HasRequest(c, e)
      BY <2>4, <3>1, <3>2, Requested DEF HasRequest
    <3>. QED BY <1>1, <2>1, <3>3 DEF Left
  <2>5. CASE Consumed(e) /\ e.type = "rotated_in_tx"
    <3>1. c = UpsertImmediate(b, e) BY <2>5 DEF Consumed, ProjectRotationMessage
    <3>. HIDE DEF c
    <3>2. RowsMade(c.rows, some, whole) /\ Kept(b, c) BY <2>5, <3>1, Immediate
    <3>. QED BY <1>1, <2>1, <2>5, <3>2 DEF Left
  <2>. QED BY <2>2, <2>3, <2>4, <2>5
<1>2. CASE pass = "requests"
  <2> DEFINE c == ProjectOrphanRequest(b, e)
  <2>1. Project(pass, b, e) = c BY <1>2 DEF Project
  <2>2. e.type = "requested" BY <1>2 DEF Takes
  <2>3. CASE ~HasPayload(e)
    <3>1. c = Report(b, e, "unreadable") BY <2>3 DEF ProjectOrphanRequest
    <3>. HIDE DEF c
    <3>. QED BY <1>2, <2>1, <2>3, <3>1, Reported1 DEF Left
  <2>4. CASE HasPayload(e)
    <3> DEFINE d == UpsertRequested(b, e)
    <3>1. c = Report(d, e, "missing_message") BY <2>4 DEF ProjectOrphanRequest
    <3>2. e.id[1] \in some BY DEF Comes
    <3>3. RowsMade(d.rows, some, whole) /\ Kept(b, d) /\ HasRequest(d, e)
      BY <2>2, <2>4, <3>2, Requested DEF HasRequest
    <3>. HIDE DEF c, d
    <3>4. c.rows = d.rows /\ Kept(d, c) BY <3>1, Reported1
    <3>5. RowsMade(c.rows, some, whole) /\ HasRequest(c, e) BY <3>3, <3>4 DEF HasRequest
    <3>6. Kept(b, c) BY <3>3, <3>4, KeptBoth
    <3>. QED BY <1>2, <2>1, <3>5, <3>6 DEF Left
  <2>. QED BY <2>3, <2>4
<1>3. CASE pass = "applied"
  <2> DEFINE c == ProjectApplied(b, e)
  <2>1. Project(pass, b, e) = c BY <1>3 DEF Project
  <2>2. e.type \in {"rotated", "rotated_in_tx"} BY <1>3 DEF Takes
  <2>3. some = whole /\ 1..e.id[1] \subseteq some BY <1>3 DEF Comes
  <2>4. e.type = "rotated" /\ Ambiguous(e) => e.due - RotationDelay \in some BY <2>3, RequestFirst
  <2>5. RowsMade(c.rows, some, some) /\ Kept(b, c) /\ (e.type = "rotated" => Settles(c, e))
    BY <2>2, <2>3, <2>4, Applied
  <2>. HIDE DEF c
  <2>. QED BY <1>3, <2>1, <2>3, <2>5 DEF Left
<1>4. CASE pass = "cancelled"
  <2> DEFINE c == ProjectCancelled(b, e)
  <2>1. Project(pass, b, e) = c BY <1>4 DEF Project
  <2>2. some = whole BY <1>4 DEF Comes
  <2>3. RowsMade(c.rows, some, some) /\ Kept(b, c) BY <2>2, CancelledRow
  <2>. HIDE DEF c
  <2>. QED BY <1>4, <2>1, <2>2, <2>3 DEF Left
<1>. QED BY <1>1, <1>2, <1>3, <1>4 DEF Passes

LEMMA PassKeeps ==
    ASSUME ChainInv, NEW b, NEW some, NEW whole, RowsMade(b.rows, some, whole), NEW pass \in Passes,
           NEW h, Comes(pass, h, some, whole), NEW events, Len(events) \in Nat,
           \A i \in 1..Len(events) : events[i] \in Recorded /\ events[i].id[1] = h
    PROVE  LET c == Pass(pass, b, events)
           IN  /\ RowsMade(c.rows, some, whole) /\ Kept(b, c)
               /\ \A i \in 1..Len(events) : Takes(pass, events[i]) => Left(pass, c, events[i])
<1> DEFINE N == Len(events)
           book == Passing(pass, b, events)
           Good(n) == /\ RowsMade(book[n].rows, some, whole) /\ Kept(b, book[n])
                      /\ \A i \in 1..n : Takes(pass, events[i]) => Left(pass, book[n], events[i])
           Shown == {n \in 0..N : Good(n)}
<1>1. /\ book[0] = b
      /\ \A n \in 1..N : book[n] = IF Takes(pass, events[n]) THEN Project(pass, book[n - 1], events[n])
                                   ELSE book[n - 1]
  BY PassingFollows
<1>2. N \in Nat /\ \A i \in 1..N : events[i] \in Recorded /\ events[i].id[1] = h OBVIOUS
<1>3. Pass(pass, b, events) = book[N] BY DEF Pass
<1>. HIDE DEF N, book
<1>4. Good(0) BY <1>1, KeptSame
<1>5. ASSUME NEW n \in 0..(N - 1), Good(n) PROVE Good(n + 1)
  <2> DEFINE e == events[n + 1]
             c == book[n]
             d == book[n + 1]
  <2>1. n + 1 \in 1..N /\ n + 1 - 1 = n /\ \A i \in 1..(n + 1) : i = n + 1 \/ i \in 1..n BY <1>2
  <2>2. e \in Recorded /\ e.id[1] = h BY <1>2, <2>1
  <2>3. d = IF Takes(pass, e) THEN Project(pass, c, e) ELSE c BY <1>1, <2>1
  <2>4. /\ RowsMade(c.rows, some, whole) /\ Kept(b, c)
        /\ \A i \in 1..n : Takes(pass, events[i]) => Left(pass, c, events[i])
    BY <1>5
  <2>. HIDE DEF e, c, d
  <2>5. RowsMade(d.rows, some, whole) /\ Kept(c, d) /\ (Takes(pass, e) => Left(pass, d, e))
    <3>1. CASE Takes(pass, e) BY <2>2, <2>3, <2>4, <3>1, ProjectKeeps
    <3>2. CASE ~Takes(pass, e) BY <2>3, <2>4, <3>2, KeptSame
    <3>. QED BY <3>1, <3>2
  <2>6. Kept(b, d) BY <2>4, <2>5, KeptBoth
  <2>7. ASSUME NEW i \in 1..(n + 1), Takes(pass, events[i]) PROVE Left(pass, d, events[i])
    <3>1. CASE i = n + 1 BY <2>5, <2>7, <3>1 DEF e
    <3>2. CASE i \in 1..n
      <4>1. i \in 1..N BY <1>2, <2>1, <3>2
      <4>2. events[i] \in Recorded /\ Left(pass, c, events[i]) BY <1>2, <2>4, <2>7, <3>2, <4>1
      <4>. QED BY <2>5, <4>2, LeftKept
    <3>. QED BY <2>1, <3>1, <3>2
  <2>. QED BY <2>5, <2>6, <2>7 DEF d
<1>6. N \in Shown
  <2>1. 0 \in Shown BY <1>2, <1>4
  <2>2. \A n \in 0..(N - 1) : n \in Shown => n + 1 \in Shown
    <3>1. \A n \in 0..(N - 1) : n + 1 \in 0..N BY <1>2
    <3>. HIDE DEF Good
    <3>. QED BY <1>5, <3>1
  <2>. HIDE DEF Shown
  <2>3. 0..N \subseteq Shown BY <1>2, <2>1, <2>2, CountingUp
  <2>. QED BY <1>2, <2>3
<1>7. Good(N) BY <1>6
<1>. QED BY <1>3, <1>7 DEF N

\* The messages of a height are its messages, in whatever order they come.
LEMMA MessagesKnown ==
    ASSUME ChainInv, NEW h \in DOMAIN log, NEW messages \in MessagesAt(h)
    PROVE  /\ Len(messages) \in Nat
           /\ \A i \in 1..Len(messages) : messages[i] \in Recorded /\ messages[i].id[1] = h
                                          /\ messages[i].type \in Messages
           /\ \A e \in Range(EventsAt(h)) :
                 e.type \in Messages => \E i \in 1..Len(messages) : messages[i] = e
<1> DEFINE events == EventsAt(h)
           S == {e \in Range(events) : e.type \in Messages}
<1>1. events \in Seq(EventRow) /\ Len(events) \in Nat /\ DOMAIN events = 1..Len(events) BY EventsOf
<1>. HIDE DEF events
<1>2. IsFiniteSet(DOMAIN events) BY <1>1, FS_Interval
<1>3. events \in Surjection(DOMAIN events, Range(events)) BY <1>1 DEF Surjection, Range
<1>4. IsFiniteSet(S)
  <2>1. IsFiniteSet(Range(events)) BY <1>2, <1>3, FS_Surjection
  <2>. QED BY <2>1, FS_Subset
<1>5. messages \in Orders(S) BY DEF MessagesAt, events
<1>. HIDE DEF S
<1>6. /\ Cardinality(S) \in Nat /\ messages \in Seq(S) /\ Len(messages) = Cardinality(S)
      /\ \A x \in S : \E i \in 1..Len(messages) : messages[i] = x
  BY <1>4, <1>5, OrderOf
<1>7. \A i \in 1..Len(messages) : messages[i] \in S BY <1>6
<1>8. \A e \in S : e \in Recorded /\ e.id[1] = h BY EventsOfHeight DEF S, events
<1>. QED BY <1>6, <1>7, <1>8 DEF S, events

LEMMA RowsMadeMore ==
    ASSUME NEW made, NEW some, NEW whole, RowsMade(made, some, whole), NEW more, some \subseteq more
    PROVE  RowsMade(made, more, whole)
BY DEF RowsMade

\* To project a height makes it complete, and leaves what is settled of others.
LEMMA HeightKeeps ==
    ASSUME ChainInv, NEW h \in DOMAIN log, NEW messages \in MessagesAt(h), NEW b, NEW whole,
           RowsMade(b.rows, whole, whole), 1..(h - 1) \subseteq whole
    PROVE  LET c == ProjectRotationHeight(b, h, messages, EventsAt(h))
               some == whole \union {h}
           IN  /\ RowsMade(c.rows, some, some) /\ SettledAt(c, h)
               /\ \A g \in DOMAIN log : g # h /\ SettledAt(b, g) => SettledAt(c, g)
<1> DEFINE events == EventsAt(h)
           some == whole \union {h}
           cleared == Book(b.rows, {f \in b.fails : f.height # h})
           confirmed == Pass("messages", cleared, messages)
           requested == Pass("requests", confirmed, events)
           applied == Pass("applied", requested, events)
           c == Pass("cancelled", applied, events)
<1>1. ProjectRotationHeight(b, h, messages, events) = c BY DEF ProjectRotationHeight
<1>2. /\ Len(events) \in Nat /\ DOMAIN events = 1..Len(events) /\ h \in Nat \ {0}
      /\ \A i \in 1..Len(events) : events[i] \in Recorded /\ events[i].id[1] = h
  <2>1. Len(events) \in Nat /\ DOMAIN events = 1..Len(events) /\ h \in Nat \ {0} BY EventsOf
  <2>2. \A i \in 1..Len(events) : events[i] \in Range(events) BY EventsOf
  <2>3. \A i \in 1..Len(events) : events[i] \in Recorded /\ events[i].id[1] = h BY <2>2, EventsOfHeight
  <2>. QED BY <2>1, <2>3
<1>3. /\ Len(messages) \in Nat
      /\ \A i \in 1..Len(messages) : messages[i] \in Recorded /\ messages[i].id[1] = h
                                     /\ messages[i].type \in Messages
      /\ \A e \in Range(events) : e.type \in Messages => \E i \in 1..Len(messages) : messages[i] = e
  BY MessagesKnown
<1>4. \A e \in Range(events) : \E i \in 1..Len(events) : e = events[i] BY <1>2 DEF Range
<1>5. cleared.rows = b.rows /\ cleared.fails = {f \in b.fails : f.height # h} BY DEF Book
<1>6. RowsMade(cleared.rows, some, whole) BY <1>5, RowsMadeMore
<1>7. \A pass \in {"messages", "requests"} : Comes(pass, h, some, whole) BY DEF Comes
<1>8. \A pass \in Passes : Comes(pass, h, some, some)
  <2>1. 1..h \subseteq some
    <3>1. \A g \in 1..h : g \in 1..(h - 1) \/ g = h BY <1>2
    <3>. QED BY <3>1
  <2>. QED BY <2>1 DEF Comes
<1>. HIDE DEF events, cleared, some
<1>9. /\ RowsMade(confirmed.rows, some, whole) /\ Kept(cleared, confirmed)
      /\ \A i \in 1..Len(messages) :
            Takes("messages", messages[i]) => Left("messages", confirmed, messages[i])
  <2>1. "messages" \in Passes /\ Comes("messages", h, some, whole) BY <1>7 DEF Passes
  <2>2. \A i \in 1..Len(messages) : messages[i] \in Recorded /\ messages[i].id[1] = h BY <1>3
  <2>3. Len(messages) \in Nat BY <1>3
  <2>. QED BY <1>6, <2>1, <2>2, <2>3, PassKeeps
<1>. HIDE DEF confirmed
<1>10. /\ RowsMade(requested.rows, some, whole) /\ Kept(confirmed, requested)
       /\ \A i \in 1..Len(events) : Takes("requests", events[i]) => Left("requests", requested, events[i])
  <2>1. "requests" \in Passes /\ Comes("requests", h, some, whole) BY <1>7 DEF Passes
  <2>. QED BY <1>2, <1>9, <2>1, PassKeeps
<1>. HIDE DEF requested
<1>11. Whole(requested.rows, h)
  <2>1. ASSUME NEW q \in Range(events), q.type = "requested", HasPayload(q) PROVE HasRequest(requested, q)
    <3>1. PICK i \in 1..Len(events) : q = events[i] BY <1>4
    <3>2. q \in Recorded BY <1>2, <3>1
    <3>3. CASE Consumed(q)
      <4>1. PICK j \in 1..Len(messages) : messages[j] = q BY <1>3, <2>1 DEF Messages
      <4>2. Takes("messages", q) BY <2>1 DEF Takes, Messages
      <4>3. Left("messages", confirmed, q) BY <1>9, <4>1, <4>2
      <4>4. Left("messages", requested, q) BY <1>10, <3>2, <4>3, LeftKept
      <4>. QED BY <2>1, <3>3, <4>4 DEF Left
    <3>4. CASE ~Consumed(q)
      <4>1. Takes("requests", q) BY <2>1, <3>4 DEF Takes
      <4>2. Left("requests", requested, q) BY <1>10, <3>1, <4>1
      <4>. QED BY <2>1, <3>4, <4>2 DEF Left
    <3>. QED BY <3>3, <3>4
  <2>. QED BY <2>1 DEF Whole, HasRequest, events
<1>12. RowsMade(requested.rows, some, some)
  <2>1. \A g \in some : g \in whole \/ g = h BY DEF some
  <2>. QED BY <1>10, <1>11, <2>1 DEF RowsMade
<1>13. /\ RowsMade(applied.rows, some, some) /\ Kept(requested, applied)
       /\ \A i \in 1..Len(events) : Takes("applied", events[i]) => Left("applied", applied, events[i])
  <2>1. "applied" \in Passes /\ Comes("applied", h, some, some) BY <1>8 DEF Passes
  <2>. QED BY <1>2, <1>12, <2>1, PassKeeps
<1>. HIDE DEF applied
<1>14. RowsMade(c.rows, some, some) /\ Kept(applied, c)
  <2>1. "cancelled" \in Passes /\ Comes("cancelled", h, some, some) BY <1>8 DEF Passes
  <2>. QED BY <1>2, <1>13, <2>1, PassKeeps
<1>. HIDE DEF c
<1>15. SettledAt(c, h)
  <2>1. ASSUME NEW e \in Range(events), e.type = "rotated" PROVE Settles(c, e)
    <3>1. PICK i \in 1..Len(events) : e = events[i] BY <1>4
    <3>2. e \in Recorded BY <1>2, <3>1
    <3>3. Takes("applied", e) BY <2>1 DEF Takes
    <3>4. Settles(applied, e) BY <1>13, <2>1, <3>1, <3>3 DEF Left
    <3>. QED BY <1>14, <3>2, <3>4, SettlesKept
  <2>. QED BY <2>1 DEF SettledAt, events
<1>16. ASSUME NEW g \in DOMAIN log, g # h, SettledAt(b, g) PROVE SettledAt(c, g)
  <2>1. Kept(cleared, c) BY <1>9, <1>10, <1>13, <1>14, KeptBoth
  <2>2. ASSUME NEW e \in Range(EventsAt(g)), e.type = "rotated" PROVE Settles(c, e)
    <3>1. e \in Recorded /\ e.id[1] = g BY EventsOfHeight
    <3>2. Settles(b, e) BY <1>16, <2>2 DEF SettledAt
    <3>3. \A kind : Drift(e, kind) \in b.fails => Drift(e, kind) \in cleared.fails
      <4>1. \A kind : Drift(e, kind).height = g BY <3>1 DEF Drift
      <4>. QED BY <1>5, <1>16, <4>1
    <3>4. Settles(cleared, e) BY <1>5, <3>2, <3>3 DEF Settles
    <3>. QED BY <2>1, <3>1, <3>4, SettlesKept
  <2>. QED BY <2>2 DEF SettledAt
<1>. QED BY <1>1, <1>14, <1>15, <1>16 DEF events, some

(***************************************************************************)
(* The chain makes blocks                                                  *)
(***************************************************************************)
Grows == \/ log' = log
         \/ /\ DOMAIN log \subseteq DOMAIN log' /\ \A h \in DOMAIN log : log'[h] = log[h]
            /\ Len(log) <= Len(log')

LEMMA Growing ==
    ASSUME ChainInv, ChainNext
    PROVE  Grows
<1>1. log \in Seq(Seq(ChainEvent)) BY DEF ChainInv, ChainTyped
<1>2. CASE EndBlock
  <2>1. PICK seen : log' = Append(log, seen) BY <1>2 DEF EndBlock
  <2>2. Len(log') = Len(log) + 1 /\ Len(log) \in Nat BY <1>1, <2>1
  <2>3. \A h \in 1..Len(log) : log'[h] = log[h] BY <1>1, <2>1
  <2>4. DOMAIN log = 1..Len(log) /\ DOMAIN log' = 1..(Len(log) + 1) BY <1>1, <2>1
  <2>. QED BY <2>2, <2>3, <2>4 DEF Grows
<1>3. CASE ~EndBlock
  BY <1>3 DEF ChainNext, Activate, Deactivate, RequestRotation, RotateNow, Emit, Grows
<1>. QED BY <1>2, <1>3

LEMMA Recording ==
    ASSUME ChainInv, Grows
    PROVE  /\ \A h \in DOMAIN log : h \in DOMAIN log' /\ EventsAt(h)' = EventsAt(h)
           /\ \A e \in Recorded : e \in Recorded'
           /\ \A e \in Recorded' : e.id[1] \in DOMAIN log => e \in Recorded
<1>1. log \in Seq(Seq(ChainEvent)) BY DEF ChainInv, ChainTyped
<1>2. \A h \in DOMAIN log : h \in DOMAIN log' /\ log'[h] = log[h] BY DEF Grows
<1>3. \A h \in DOMAIN log : EventsAt(h)' = EventsAt(h) BY <1>2 DEF EventsAt
<1>4. \A e \in Recorded : e \in Recorded' BY <1>2, <1>3 DEF Recorded
<1>5. ASSUME NEW e \in Recorded', e.id[1] \in DOMAIN log PROVE e \in Recorded
  <2>1. PICK h \in DOMAIN log' : e \in Range(EventsAt(h)') BY DEF Recorded
  <2>2. PICK i : e = EventsAt(h)'[i] /\ i \in DOMAIN log'[h] BY <2>1 DEF Range, EventsAt
  <2>3. e.id = <<h, i>> BY <2>2 DEF EventsAt
  <2>4. h \in DOMAIN log BY <1>5, <2>3
  <2>5. e \in Range(EventsAt(h)) BY <1>3, <2>1, <2>4
  <2>. QED BY <2>4, <2>5 DEF Recorded
<1>. QED BY <1>2, <1>3, <1>4, <1>5

\* What an application or a request may be confused with is of its own time.
LEMMA SameRequests ==
    ASSUME ChainInv, ChainInv', Grows, NEW e \in Recorded, e.type \in {"requested", "rotated"}
    PROVE  Requests(e)' = Requests(e) /\ (Ambiguous(e)' <=> Ambiguous(e))
<1>1. log \in Seq(Seq(ChainEvent)) /\ DOMAIN log = 1..Len(log) /\ Len(log) \in Nat
  BY DEF ChainInv, ChainTyped
<1>2. /\ e.id[1] \in 1..Len(log) /\ e.due \in Nat
      /\ e.type = "requested" => e.due = e.id[1] + RotationDelay
      /\ e.type = "rotated" => e.due = e.id[1]
  BY <1>1, OfRecorded, KeysRead DEF Timely
<1>3. ASSUME NEW q \in Recorded', q.type = "requested", q.due = e.due PROVE q \in Recorded
  <2>1. q.id[1] \in Nat \ {0} /\ q.due = q.id[1] + RotationDelay
    <3>1. PICK h \in DOMAIN log' : q \in Range(EventsAt(h)') BY DEF Recorded
    <3>2. PICK i : q = EventsAt(h)'[i] /\ i \in DOMAIN log'[h] BY <3>1 DEF Range, EventsAt
    <3>3. q.id = <<h, i>> /\ q.type = log'[h][i].type /\ q.due = log'[h][i].due BY <3>2 DEF EventsAt
    <3>4. Timely(log'[h][i], h) BY <3>1, <3>2 DEF ChainInv, EventsTimely, Timely
    <3>5. log' \in Seq(Seq(ChainEvent)) BY DEF ChainInv, ChainTyped
    <3>6. h \in Nat \ {0} BY <3>1, <3>5
    <3>. QED BY <1>3, <3>3, <3>4, <3>6 DEF Timely
  <2>2. q.id[1] \in 1..Len(log) BY <1>2, <1>3, <2>1, <1>1, ChainAssumption
  <2>. QED BY <1>1, <2>2, Recording
<1>4. Requests(e)' = Requests(e) BY <1>3, Recording DEF Requests
<1>. QED BY <1>4 DEF Ambiguous

LEMMA RowStays ==
    ASSUME ChainInv, ChainInv', Grows, NEW r, RowMade(r)
    PROVE  RowMade(r)'
<1>1. ASSUME NEW q \in Recorded, RequestOf(r, q) PROVE RequestOf(r, q)'
  BY <1>1, SameRequests DEF RequestOf
<1>2. ASSUME NEW e \in Recorded, ApplicationOf(r, e) PROVE ApplicationOf(r, e)'
  BY <1>2, SameRequests DEF ApplicationOf
<1>3. \A e \in Recorded : e \in Recorded' BY Recording
<1>. QED BY <1>1, <1>2, <1>3 DEF RowMade

LEMMA RowsStay ==
    ASSUME ChainInv, ChainInv', Grows, NEW made, NEW some, NEW whole, whole \subseteq DOMAIN log,
           RowsMade(made, some, whole)
    PROVE  RowsMade(made, some, whole)'
<1>1. \A i \in DOMAIN made : RowMade(made[i])' BY RowStays DEF RowsMade
<1>2. \A h \in whole : Whole(made, h)' BY Recording DEF RowsMade, Whole
<1>. QED BY <1>1, <1>2 DEF RowsMade

LEMMA SettledStays ==
    ASSUME ChainInv, ChainInv', Grows, NEW b, NEW h \in DOMAIN log, SettledAt(b, h)
    PROVE  SettledAt(b, h)'
<1>1. EventsAt(h)' = EventsAt(h) BY Recording
<1>2. ASSUME NEW e \in Range(EventsAt(h)), e.type = "rotated", Settles(b, e) PROVE Settles(b, e)'
  <2>1. e \in Recorded BY EventsOfHeight
  <2>. QED BY <1>2, <2>1, SameRequests DEF Settles
<1>. QED BY <1>1, <1>2 DEF SettledAt

(***************************************************************************)
(* The invariant of the rotation rows                                      *)
(***************************************************************************)
LEMMA NoRows ==
    ASSUME NEW made, made = <<>>
    PROVE  RowsMade(made, {}, {})
BY DEF RowsMade, RequestsUnique

LEMMA RotationsBegin ==
    ASSUME MapInit
    PROVE  RotationsInv
<1>1. rotations = <<>> /\ rotated = 0 /\ log = <<>> BY DEF MapInit, ChainInit
<1>2. Len(log) = 0 /\ 1..0 = {} BY <1>1
<1>3. RowsMade(rotations, {}, {}) BY <1>1, NoRows
<1>. QED BY <1>1, <1>2, <1>3 DEF RotationsInv

LEMMA RotationsStay ==
    ASSUME ChainInv, ChainInv', Grows, RotationsInv, UNCHANGED rotationVars
    PROVE  RotationsInv'
<1>1. rotations' = rotations /\ drift' = drift /\ rotated' = rotated BY DEF rotationVars
<1>2. DOMAIN log = 1..Len(log) /\ Len(log) \in Nat /\ Len(log) <= Len(log') /\ Len(log') \in Nat
  BY DEF ChainInv, ChainTyped, Grows
<1>3. PICK whole \in SUBSET (1..Len(log)) : 1..rotated \subseteq whole /\ RowsMade(rotations, whole, whole)
  BY DEF RotationsInv
<1>4. \A made : RowsMade(made, whole, whole) => RowsMade(made, whole, whole)'
  BY <1>2, <1>3, RowsStay
<1>5. RowsMade(rotations, whole, whole)' BY <1>1, <1>3, <1>4
<1>6. rotated \in 0..Len(log) /\ \A h \in 1..rotated : SettledAt(Book(rotations, drift), h)
  BY DEF RotationsInv
<1>7. ASSUME NEW h \in 1..rotated PROVE SettledAt(Book(rotations, drift), h)'
  <2>1. h \in DOMAIN log BY <1>2, <1>6
  <2>2. \A b : SettledAt(b, h) => SettledAt(b, h)' BY <2>1, SettledStays
  <2>3. Book(rotations, drift)' = Book(rotations, drift) BY <1>1 DEF Book
  <2>. QED BY <1>6, <1>7, <2>2, <2>3
<1>8. whole \in SUBSET (1..Len(log')) /\ rotated' \in 0..Len(log') BY <1>1, <1>2, <1>6
<1>. QED BY <1>1, <1>3, <1>5, <1>7, <1>8 DEF RotationsInv

LEMMA ProjectRotationsKeeps ==
    ASSUME ChainInv, ChainInv', RotationsInv, ProjectRotations
    PROVE  RotationsInv'
<1>0. PICK h \in 1..Len(log) : \E messages \in MessagesAt(h) :
         /\ h = rotated + 1 \/ h <= rotated
         /\ rotations' = ProjectRotationHeight(Book(rotations, drift), h, messages, EventsAt(h)).rows
         /\ drift' = ProjectRotationHeight(Book(rotations, drift), h, messages, EventsAt(h)).fails
         /\ rotated' = h
  BY DEF ProjectRotations
<1>1. PICK messages \in MessagesAt(h) :
         /\ h = rotated + 1 \/ h <= rotated
         /\ rotations' = ProjectRotationHeight(Book(rotations, drift), h, messages, EventsAt(h)).rows
         /\ drift' = ProjectRotationHeight(Book(rotations, drift), h, messages, EventsAt(h)).fails
         /\ rotated' = h
  BY <1>0
<1>2. DOMAIN log = 1..Len(log) /\ Len(log) \in Nat /\ log' = log /\ Grows
  BY DEF ChainInv, ChainTyped, ProjectRotations, chainVars, Grows
<1>3. PICK whole \in SUBSET (1..Len(log)) : 1..rotated \subseteq whole /\ RowsMade(rotations, whole, whole)
  BY DEF RotationsInv
<1>4. rotated \in 0..Len(log) /\ \A g \in 1..rotated : SettledAt(Book(rotations, drift), g)
  BY DEF RotationsInv
<1> DEFINE b == Book(rotations, drift)
           c == ProjectRotationHeight(b, h, messages, EventsAt(h))
           some == whole \union {h}
<1>5. b.rows = rotations /\ h \in DOMAIN log /\ 1..(h - 1) \subseteq whole
  <2>1. \A g \in 1..(h - 1) : g \in 1..rotated BY <1>1, <1>4
  <2>. QED BY <1>2, <1>3, <2>1 DEF Book
<1>6. /\ RowsMade(c.rows, some, some) /\ SettledAt(c, h)
      /\ \A g \in DOMAIN log : g # h /\ SettledAt(b, g) => SettledAt(c, g)
  <2>1. RowsMade(b.rows, whole, whole) BY <1>3, <1>5
  <2>. HIDE DEF b
  <2>. QED BY <1>5, <2>1, HeightKeeps
<1>7. rotations' = c.rows /\ drift' = c.fails BY <1>1
<1>8. \A g \in 1..h : SettledAt(c, g)
  <2>1. \A g \in 1..h : g = h \/ (g \in 1..rotated /\ g \in DOMAIN log) BY <1>1, <1>2, <1>4
  <2>. QED BY <1>4, <1>6, <2>1 DEF b
<1>9. some \in SUBSET (1..Len(log')) /\ 1..h \subseteq some /\ some \subseteq DOMAIN log
  <2>1. \A g \in 1..h : g = h \/ g \in 1..(h - 1) OBVIOUS
  <2>. QED BY <1>2, <1>5, <2>1
<1>. HIDE DEF b, c, some
<1>10. RowsMade(rotations, some, some)'
  <2>1. \A made : RowsMade(made, some, some) => RowsMade(made, some, some)' BY <1>2, <1>9, RowsStay
  <2>. QED BY <1>6, <1>7, <2>1
<1>11. ASSUME NEW g \in 1..h PROVE SettledAt(Book(rotations, drift), g)'
  <2>1. g \in DOMAIN log BY <1>2
  <2>2. \A x : SettledAt(x, g) => SettledAt(x, g)' BY <1>2, <2>1, SettledStays
  <2>3. SettledAt(Book(rotations', drift'), g)
    <3>1. Book(rotations', drift').rows = c.rows /\ Book(rotations', drift').fails = c.fails
      BY <1>7 DEF Book
    <3>. QED BY <1>8, <3>1 DEF SettledAt, Settles
  <2>4. Book(rotations, drift)' = Book(rotations', drift') BY DEF Book
  <2>. QED BY <2>2, <2>3, <2>4
<1>12. rotated' = h /\ h \in 0..Len(log') BY <1>1, <1>2
<1>. QED BY <1>9, <1>10, <1>11, <1>12 DEF RotationsInv

LEMMA ResetRotationsKeeps ==
    ASSUME ChainInv, RotationsInv, ResetRotations
    PROVE  RotationsInv'
<1>1. rotations' = <<>> /\ rotated' = 0 /\ log' = log BY DEF ResetRotations, chainVars
<1>2. RowsMade(rotations, {}, {})'
  <2>1. \A i \in DOMAIN <<>> : FALSE OBVIOUS
  <2>. QED BY <1>1 DEF RowsMade, RequestsUnique
<1>3. Len(log) \in Nat BY DEF ChainInv, ChainTyped
<1>. QED BY <1>1, <1>2, <1>3 DEF RotationsInv

\* The rows under every step.
LEMMA RotationsKeep ==
    ASSUME ChainInv, ChainInv', RotationsInv, [MapNext]_temporalVars
    PROVE  RotationsInv'
<1>1. CASE ProjectRotations BY <1>1, ProjectRotationsKeeps
<1>2. CASE ResetRotations BY <1>2, ResetRotationsKeeps
<1>3. CASE Chain BY <1>3, Growing, RotationsStay DEF Chain
<1>4. CASE MapHeight BY <1>4, RotationsStay DEF MapHeight, Grows, chainVars
<1>5. CASE ResetMap BY <1>5, RotationsStay DEF ResetMap, Grows, chainVars
<1>6. CASE UNCHANGED temporalVars BY <1>6, RotationsStay DEF temporalVars, Grows, chainVars
<1>. QED BY <1>1, <1>2, <1>3, <1>4, <1>5, <1>6 DEF MapNext

-----------------------------------------------------------------------------
(***************************************************************************)
(* Windows that end and windows that begin                                 *)
(***************************************************************************)
\* A window after those of a set were ended.
End(w, closing, to) ==
    IF w \in closing /\ w.from < to THEN KeyWindow(w.slot, w.key, w.from, to) ELSE w

LEMMA Ended ==
    ASSUME NEW w \in WindowType, NEW closing, NEW to \in Nat \ {0}
    PROVE  LET v == End(w, closing, to)
           IN  /\ v \in WindowType /\ v.slot = w.slot /\ v.key = w.key /\ v.from = w.from
               /\ v.to = IF w \in closing /\ w.from < to THEN to ELSE w.to
               /\ ~(w \in closing /\ w.from < to) => v = w
BY DEF End, KeyWindow, WindowType

LEMMA Closed ==
    ASSUME NEW W, NEW closing, NEW to
    PROVE  Close(W, closing, to) = {End(w, closing, to) : w \in W}
BY DEF Close, End

LEMMA CloseNone ==
    ASSUME NEW W, NEW to
    PROVE  Close(W, {}, to) = W
BY DEF Close

LEMMA CloseTyped ==
    ASSUME NEW W \in SUBSET WindowType, NEW closing, NEW to \in Nat \ {0}
    PROVE  Close(W, closing, to) \in SUBSET WindowType
<1>1. \A w \in W : End(w, closing, to) \in WindowType BY Ended
<1>. QED BY <1>1, Closed

\* The keys of a slot at the heights before one are the same.
Past(V, W, s, h) == \A y \in 1..(h - 1) : KeysAt(W, s, y) = KeysAt(V, s, y)

LEMMA PastSame ==
    ASSUME NEW V, NEW W, NEW s, NEW h, Of(W, s) = Of(V, s)
    PROVE  Past(V, W, s, h)
<1>1. ASSUME NEW y PROVE KeysAt(W, s, y) = KeysAt(V, s, y)
  <2>1. \A w : w \in W /\ w.slot = s <=> w \in V /\ w.slot = s BY DEF Of
  <2>. QED BY <2>1 DEF KeysAt
<1>. QED BY <1>1 DEF Past

LEMMA PastBoth ==
    ASSUME NEW U, NEW V, NEW W, NEW s, NEW h, Past(U, V, s, h), Past(V, W, s, h)
    PROVE  Past(U, W, s, h)
BY DEF Past

LEMMA ClosePast ==
    ASSUME NEW W \in SUBSET WindowType, NEW closing, NEW to \in Nat \ {0}, NEW h \in Nat, h <= to,
           \A w \in closing : w.to = NoEnd, NEW s
    PROVE  Past(W, Close(W, closing, to), s, h)
<1> DEFINE V == Close(W, closing, to)
<1>1. V = {End(w, closing, to) : w \in W} BY Closed
<1>. HIDE DEF V
<1>2. ASSUME NEW y \in 1..(h - 1), NEW w \in W
      PROVE  Covers(End(w, closing, to), y) <=> Covers(w, y)
  <2>1. w \in WindowType /\ y < to /\ y \in Nat OBVIOUS
  <2>2. /\ End(w, closing, to).from = w.from
        /\ End(w, closing, to).to = IF w \in closing /\ w.from < to THEN to ELSE w.to
    BY <2>1, Ended
  <2>. QED BY <2>1, <2>2 DEF Covers, NoEnd, WindowType
<1>3. \A w \in W : End(w, closing, to).slot = w.slot /\ End(w, closing, to).key = w.key BY Ended
<1>4. ASSUME NEW y \in 1..(h - 1) PROVE KeysAt(V, s, y) = KeysAt(W, s, y)
  <2>1. ASSUME NEW k PROVE k \in KeysAt(V, s, y) <=> k \in KeysAt(W, s, y)
    <3>1. k \in KeysAt(V, s, y) <=> \E v \in V : v.slot = s /\ Covers(v, y) /\ k = v.key BY DEF KeysAt
    <3>2. k \in KeysAt(W, s, y) <=> \E w \in W : w.slot = s /\ Covers(w, y) /\ k = w.key BY DEF KeysAt
    <3>. QED BY <1>1, <1>2, <1>3, <3>1, <3>2
  <2>. QED BY <2>1 DEF KeysAt
<1>. QED BY <1>4 DEF Past, V

LEMMA CloseOther ==
    ASSUME NEW W \in SUBSET WindowType, NEW t, NEW closing, \A w \in closing : w.slot # t,
           NEW to \in Nat \ {0}
    PROVE  Of(Close(W, closing, to), t) = Of(W, t)
<1>1. \A w \in W : End(w, closing, to).slot = w.slot BY Ended
<1>2. \A w \in W : w.slot = t => End(w, closing, to) = w BY DEF End
<1>. QED BY <1>1, <1>2, Closed DEF Of

\* What ends at a height does not cover it.
LEMMA CloseCovers ==
    ASSUME NEW W \in SUBSET WindowType, NEW closing, NEW to \in Nat \ {0}, NEW s, NEW k,
           HasWindow(Close(W, closing, to), s, k, to)
    PROVE  HasWindow(W, s, k, to)
<1>1. PICK v \in Close(W, closing, to) : v.slot = s /\ v.key = k /\ Covers(v, to) BY DEF HasWindow
<1>2. PICK w \in W : v = End(w, closing, to) BY <1>1, Closed
<1>3. v.slot = w.slot /\ v.key = w.key /\ v.from = w.from
      /\ v.to = (IF w \in closing /\ w.from < to THEN to ELSE w.to)
  BY <1>2, Ended
<1>4. Covers(w, to) BY <1>1, <1>3 DEF Covers, NoEnd
<1>. QED BY <1>1, <1>3, <1>4 DEF HasWindow

LEMMA Begun ==
    ASSUME NEW s \in Slots, NEW k \in Keys, NEW from \in Nat \ {0}
    PROVE  LET w == KeyWindow(s, k, from, NoEnd)
           IN  w \in WindowType /\ w.slot = s /\ w.key = k /\ w.from = from /\ w.to = NoEnd
BY DEF KeyWindow, WindowType, NoEnd

LEMMA OpenTyped ==
    ASSUME NEW W \in SUBSET WindowType, NEW s \in Slots, NEW k \in Keys, NEW from \in Nat \ {0}
    PROVE  Open(W, s, k, from) \in SUBSET WindowType
BY CloseTyped, Begun DEF Open, Opened

LEMMA OpenPast ==
    ASSUME NEW W \in SUBSET WindowType, NEW s \in Slots, NEW k \in Keys, NEW from \in Nat \ {0},
           NEW h \in Nat, h <= from, NEW t
    PROVE  Past(W, Open(W, s, k, from), t, h)
<1> DEFINE V == Close(W, OpenOf(W, s), from)
           new == KeyWindow(s, k, from, NoEnd)
<1>1. Past(W, V, t, h) BY ClosePast DEF OpenOf
<1>2. CASE HasWindow(W, s, k, from) BY <1>2 DEF Open, Past
<1>3. CASE ~HasWindow(W, s, k, from)
  <2>1. Open(W, s, k, from) = V \union Opened(W, s, k, from) BY <1>3 DEF Open
  <2>2. Opened(W, s, k, from) \subseteq {new} BY DEF Opened
  <2>3. new.from = from BY Begun
  <2>. HIDE DEF V, new
  <2>4. \A y \in 1..(h - 1) : ~Covers(new, y) BY <2>3 DEF Covers
  <2>5. \A y \in 1..(h - 1) : KeysAt(Open(W, s, k, from), t, y) = KeysAt(V, t, y)
    BY <2>1, <2>2, <2>4 DEF KeysAt
  <2>. QED BY <1>1, <2>5 DEF Past
<1>. QED BY <1>2, <1>3

LEMMA OpenOther ==
    ASSUME NEW W \in SUBSET WindowType, NEW s \in Slots, NEW k \in Keys, NEW from \in Nat \ {0},
           NEW t, t # s
    PROVE  Of(Open(W, s, k, from), t) = Of(W, t)
<1>1. Of(Close(W, OpenOf(W, s), from), t) = Of(W, t)
  <2> DEFINE open == OpenOf(W, s)
  <2>1. \A w \in open : w.slot # t BY DEF OpenOf
  <2>. HIDE DEF open
  <2>2. Of(Close(W, open, from), t) = Of(W, t) BY <2>1, CloseOther
  <2>. QED BY <2>2 DEF open
<1>2. KeyWindow(s, k, from, NoEnd).slot = s BY Begun
<1>. QED BY <1>1, <1>2 DEF Open, Opened, Of

(***************************************************************************)
(* What the handlers leave alone                                           *)
(***************************************************************************)
\* The windows of a slot up to a height, and the failures, are still there.
Follows(m, n, s, h) ==
    /\ n.windows \in SUBSET WindowType /\ m.failures \subseteq n.failures
    /\ Past(m.windows, n.windows, s, h)

LEMMA FollowsSame ==
    ASSUME NEW m, m.windows \in SUBSET WindowType, NEW s, NEW h
    PROVE  Follows(m, m, s, h)
BY PastSame DEF Follows

LEMMA FollowsBoth ==
    ASSUME NEW l, NEW m, NEW n, NEW s, NEW h, Follows(l, m, s, h), Follows(m, n, s, h)
    PROVE  Follows(l, n, s, h)
BY PastBoth DEF Follows

\* Windows of a slot that stay as they are.
LEMMA FollowsOf ==
    ASSUME NEW m, NEW n, n.windows \in SUBSET WindowType, m.failures \subseteq n.failures,
           NEW s, NEW h, Of(n.windows, s) = Of(m.windows, s)
    PROVE  Follows(m, n, s, h)
BY PastSame DEF Follows

LEMMA OpenActiveFollows ==
    ASSUME NEW m, m.windows \in SUBSET WindowType, NEW t \in Slots, NEW k \in Keys,
           NEW from \in Nat \ {0}, NEW at
    PROVE  LET n == OpenActive(m, t, k, from, at)
           IN  /\ n.windows = Open(m.windows, t, k, from) /\ n.windows \in SUBSET WindowType
               /\ m.failures \subseteq n.failures
               /\ ~CanOpen(m.windows, t, k, from) => Failure(at, t) \in n.failures
               /\ \A s \in Slots : s # t => Of(n.windows, s) = Of(m.windows, s)
               /\ \A s \in Slots, h \in Nat : h <= from => Follows(m, n, s, h)
<1> DEFINE n == OpenActive(m, t, k, from, at)
<1>1. /\ n.windows = Open(m.windows, t, k, from)
      /\ n.failures = m.failures \union IF CanOpen(m.windows, t, k, from) THEN {} ELSE {Failure(at, t)}
  BY DEF OpenActive, Map
<1>. HIDE DEF n
<1>2. n.windows \in SUBSET WindowType BY <1>1, OpenTyped
<1>3. \A s \in Slots : s # t => Of(n.windows, s) = Of(m.windows, s) BY <1>1, OpenOther
<1>4. \A s \in Slots, h \in Nat : h <= from => Follows(m, n, s, h) BY <1>1, <1>2, OpenPast DEF Follows
<1>. QED BY <1>1, <1>2, <1>3, <1>4 DEF n

LEMMA CloseActiveFollows ==
    ASSUME NEW m, m.windows \in SUBSET WindowType, NEW closing, \A w \in closing : w.to = NoEnd,
           NEW to \in Nat \ {0}, NEW at
    PROVE  LET n == CloseActive(m, closing, to, at)
           IN  /\ n.windows = Close(m.windows, closing, to) /\ n.windows \in SUBSET WindowType
               /\ m.failures \subseteq n.failures
               /\ ~CanClose(closing, to) => \E w \in closing : Failure(at, w.slot) \in n.failures
               /\ \A s \in Slots, h \in Nat : h <= to => Follows(m, n, s, h)
<1> DEFINE n == CloseActive(m, closing, to, at)
<1>1. /\ n.windows = Close(m.windows, closing, to)
      /\ n.failures = m.failures \union {Failure(at, w.slot) : w \in {v \in closing : ~(v.from < to)}}
  BY DEF CloseActive, Map
<1>. HIDE DEF n
<1>2. n.windows \in SUBSET WindowType BY <1>1, CloseTyped
<1>3. \A s \in Slots, h \in Nat : h <= to => Follows(m, n, s, h) BY <1>1, <1>2, ClosePast DEF Follows
<1>5. ~CanClose(closing, to) => \E w \in closing : Failure(at, w.slot) \in n.failures
  BY <1>1 DEF CanClose
<1>. QED BY <1>1, <1>2, <1>3, <1>5 DEF n

\* A lifecycle event is about its slot, from two heights on.
LEMMA LifecycleFollows ==
    ASSUME NEW m, m.windows \in SUBSET WindowType, NEW e \in EventRow, e.id[1] \in Nat
    PROVE  LET n == MapLifecycleEvent(m, e)
           IN  /\ \A s \in Slots : Follows(m, n, s, e.id[1] + 2)
               /\ \A s \in Slots : e.slot # s \/ e.type \notin Activity => Of(n.windows, s) = Of(m.windows, s)
<1> DEFINE n == MapLifecycleEvent(m, e)
           h == e.id[1]
           open == OpenOf(m.windows, e.slot)
<1>1. e.slot \in Slots /\ e.new \in Keys /\ h + 2 \in Nat \ {0} /\ MembershipHeight(h) = h + 2
  BY DEF EventRow, MembershipHeight
<1>2. CASE e.type \notin Activity
  <2>1. n = m BY <1>2 DEF MapLifecycleEvent, Activity
  <2>. HIDE DEF n
  <2>. QED BY <2>1, FollowsSame DEF n
<1>3. CASE e.type = "activated" /\ e.lost = "new"
  <2>1. n = Map(m.windows, m.failures \union {Failure(h, e.slot)}) BY <1>3 DEF MapLifecycleEvent
  <2>2. n.windows = m.windows /\ m.failures \subseteq n.failures BY <2>1 DEF Map
  <2>. HIDE DEF n
  <2>. QED BY <2>2, FollowsOf DEF n
<1>4. CASE e.type = "activated" /\ e.lost # "new"
  <2>1. n = OpenActive(m, e.slot, e.new, h + 2, h)
    BY <1>1, <1>4 DEF MapLifecycleEvent, ProjectLifecycleEvent
  <2>. HIDE DEF n, h
  <2>2. /\ \A s \in Slots : s # e.slot => Of(n.windows, s) = Of(m.windows, s)
        /\ \A s \in Slots : Follows(m, n, s, h + 2)
    BY <1>1, <2>1, OpenActiveFollows
  <2>. QED BY <1>4, <2>2 DEF n, h, Activity
<1>5. CASE e.type = "deactivated"
  <2>1. n = CloseActive(m, open, h + 2, h)
    BY <1>1, <1>5 DEF MapLifecycleEvent, ProjectLifecycleEvent
  <2>2. \A w \in open : w.slot = e.slot /\ w.to = NoEnd BY DEF OpenOf
  <2>. HIDE DEF n, h, open
  <2>3. h + 2 \in Nat \ {0} /\ m.windows \in SUBSET WindowType /\ \A w \in open : w.to = NoEnd
    BY <1>1, <2>2
  <2>4. \A s \in Slots : Follows(m, CloseActive(m, open, h + 2, h), s, h + 2)
    <3>1. \A s \in Slots, y \in Nat : y <= h + 2 => Follows(m, CloseActive(m, open, h + 2, h), s, y)
      BY ONLY <2>3, CloseActiveFollows
    <3>. QED BY <1>1, <3>1
  <2>5. n.windows = Close(m.windows, open, h + 2) BY <2>1, <2>3, CloseActiveFollows
  <2>6. ASSUME NEW s \in Slots, s # e.slot PROVE Of(n.windows, s) = Of(m.windows, s)
    <3>1. \A w \in open : w.slot # s BY <2>2, <2>6
    <3>. QED BY <2>3, <2>5, <3>1, CloseOther
  <2>. QED BY <1>5, <2>1, <2>4, <2>6 DEF n, h, Activity
<1>. QED BY <1>2, <1>3, <1>4, <1>5 DEF Activity

\* The rotation a row says, with the key of the window it replaces.
Rotation(r, old) ==
    [status |-> r.status, slot |-> r.slot, old |-> old, new |-> r.new,
     due |-> r.due, applied |-> r.applied[1]]

\* A row that is not applied, or that is refused, opens and ends nothing.
LEMMA RotationMapped ==
    ASSUME NEW m, NEW r
    PROVE  LET n == MapRotation(m, r)
           IN  \/ ~IsApplied(r) /\ n = m
               \/ IsApplied(r) /\ n = Map(m.windows, m.failures \union {Failure(r.applied[1], r.slot)})
               \/ IsApplied(r) /\ r.new # NoKey /\ \E old : n = ProjectRotation(m, Rotation(r, old))
BY DEF MapRotation, IsApplied, Rotation

LEMMA ProjectRotationFollows ==
    ASSUME NEW m, m.windows \in SUBSET WindowType, NEW r \in RowType, r.new # NoKey, NEW old
    PROVE  LET n == ProjectRotation(m, Rotation(r, old))
           IN  /\ \A s \in Slots, h \in Nat : h <= r.due + 2 => Follows(m, n, s, h)
               /\ n.windows \in SUBSET WindowType /\ m.failures \subseteq n.failures
               /\ \A s \in Slots : s # r.slot => Of(n.windows, s) = Of(m.windows, s)
<1> DEFINE q == Rotation(r, old)
           from == r.due + 2
           closing == Replaced(m, q, from)
           closed == CloseActive(m, closing, from, q.applied)
           opened == OpenActive(closed, r.slot, r.new, from, q.applied)
           n == ProjectRotation(m, q)
<1>1. /\ q.status = r.status /\ q.slot = r.slot /\ q.new = r.new /\ q.due = r.due
      /\ q.applied = r.applied[1] /\ q.old = old
  BY DEF Rotation
<1>2. r.slot \in Slots /\ r.new \in Keys /\ from \in Nat \ {0} /\ MembershipHeight(r.due) = from
  BY DEF RowType, SlotKey, MembershipHeight
<1>3. \A w \in closing : w.slot = r.slot /\ w.to = NoEnd
  BY <1>1 DEF Replaced, OpenOf
<1>4. n \in {m, closed, opened} BY <1>1, <1>2 DEF ProjectRotation
<1>. HIDE DEF q, from, closing, n
<1>5. /\ closed.windows \in SUBSET WindowType /\ m.failures \subseteq closed.failures
      /\ \A s \in Slots : s # r.slot => Of(closed.windows, s) = Of(m.windows, s)
      /\ \A s \in Slots, h \in Nat : h <= from => Follows(m, closed, s, h)
  <2>1. /\ closed.windows = Close(m.windows, closing, from)
        /\ closed.windows \in SUBSET WindowType /\ m.failures \subseteq closed.failures
        /\ \A s \in Slots, h \in Nat : h <= from => Follows(m, closed, s, h)
    <3>1. m.windows \in SUBSET WindowType /\ from \in Nat \ {0} /\ \A w \in closing : w.to = NoEnd
      BY <1>2, <1>3
    <3>2. closed.windows = Close(m.windows, closing, from) /\ closed.windows \in SUBSET WindowType
          /\ m.failures \subseteq closed.failures
      BY ONLY <3>1, CloseActiveFollows
    <3>3. \A s \in Slots, h \in Nat : h <= from => Follows(m, closed, s, h)
      BY ONLY <3>1, CloseActiveFollows
    <3>. QED BY <3>2, <3>3
  <2>. HIDE DEF closed
  <2>2. ASSUME NEW s \in Slots, s # r.slot PROVE Of(closed.windows, s) = Of(m.windows, s)
    <3>1. \A w \in closing : w.slot # s BY <1>3, <2>2
    <3>. QED BY <1>2, <2>1, <3>1, CloseOther
  <2>. QED BY <2>1, <2>2
<1>. HIDE DEF closed
<1>6. /\ opened.windows \in SUBSET WindowType /\ closed.failures \subseteq opened.failures
      /\ \A s \in Slots : s # r.slot => Of(opened.windows, s) = Of(closed.windows, s)
      /\ \A s \in Slots, h \in Nat : h <= from => Follows(closed, opened, s, h)
  BY <1>2, <1>5, OpenActiveFollows
<1>. HIDE DEF opened
<1>7. /\ n.windows \in SUBSET WindowType /\ m.failures \subseteq n.failures
      /\ \A s \in Slots : s # r.slot => Of(n.windows, s) = Of(m.windows, s)
  BY <1>4, <1>5, <1>6
<1>8. \A s \in Slots, h \in Nat : h <= from => Follows(m, n, s, h)
  <2>1. \A s \in Slots, h \in Nat : h <= from => Follows(m, opened, s, h) BY <1>5, <1>6, FollowsBoth
  <2>. QED BY <1>4, <1>5, <2>1, FollowsSame
<1>. QED BY <1>7, <1>8 DEF n, q, from

LEMMA RotationFollows ==
    ASSUME NEW m, m.windows \in SUBSET WindowType, NEW r \in RowType
    PROVE  LET n == MapRotation(m, r)
           IN  /\ \A s \in Slots, h \in Nat :
                     s # r.slot \/ ~IsApplied(r) \/ h <= r.due + 2 => Follows(m, n, s, h)
               /\ \A s \in Slots : s # r.slot \/ ~IsApplied(r) => Of(n.windows, s) = Of(m.windows, s)
               /\ n.windows \in SUBSET WindowType
<1> DEFINE n == MapRotation(m, r)
           refused == Map(m.windows, m.failures \union {Failure(r.applied[1], r.slot)})
<1>1. \/ ~IsApplied(r) /\ n = m
      \/ IsApplied(r) /\ n = refused
      \/ IsApplied(r) /\ r.new # NoKey /\ \E old : n = ProjectRotation(m, Rotation(r, old))
  BY RotationMapped
<1>2. refused.windows = m.windows /\ m.failures \subseteq refused.failures BY DEF Map
<1>. HIDE DEF n, refused
<1>3. CASE n = m
  <2>1. \A s, h : Follows(m, m, s, h) BY FollowsSame
  <2>. QED BY <1>3, <2>1 DEF n
<1>4. CASE n = refused
  <2>1. \A s, h : Follows(m, refused, s, h) BY <1>2, FollowsOf
  <2>. QED BY <1>2, <1>4, <2>1 DEF n
<1>5. CASE IsApplied(r) /\ r.new # NoKey /\ \E old : n = ProjectRotation(m, Rotation(r, old))
  <2>1. PICK old : n = ProjectRotation(m, Rotation(r, old)) BY <1>5
  <2>2. /\ \A s \in Slots, h \in Nat : h <= r.due + 2 => Follows(m, n, s, h)
        /\ n.windows \in SUBSET WindowType /\ m.failures \subseteq n.failures
        /\ \A s \in Slots : s # r.slot => Of(n.windows, s) = Of(m.windows, s)
    BY <1>5, <2>1, ProjectRotationFollows
  <2>3. \A s \in Slots, h \in Nat : s # r.slot => Follows(m, n, s, h) BY <2>2, FollowsOf
  <2>. QED BY <1>5, <2>2, <2>3 DEF n
<1>. QED BY <1>1, <1>3, <1>4, <1>5

(***************************************************************************)
(* The windows of a slot through a height's lifecycle events               *)
(***************************************************************************)
LEMMA OfTyped ==
    ASSUME NEW W \in SUBSET WindowType, NEW s
    PROVE  Of(W, s) \in SUBSET WindowType /\ \A w \in Of(W, s) : w \in W /\ w.slot = s
BY DEF Of

LEMMA PlainUp ==
    ASSUME NEW W \in SUBSET WindowType, NEW key, NEW h \in Nat, Plain(W, key, h)
    PROVE  Plain(W, key, h + 1)
<1>1. \A w \in W : w.from \in Nat /\ w.to \in Nat BY DEF WindowType
<1>2. ASSUME NEW w \in W PROVE Over(w, h + 1) \/ (w.to = NoEnd /\ w.key = key /\ w.from <= h + 1)
  <2>1. Over(w, h) \/ (w.to = NoEnd /\ w.key = key /\ w.from <= h) BY DEF Plain
  <2>. QED BY <1>1, <2>1 DEF Over
<1>. QED BY <1>2 DEF Plain

LEMMA EarlyUp ==
    ASSUME NEW W \in SUBSET WindowType, NEW key, NEW h \in Nat, NEW e, e.due \in Nat, h < e.due + 1,
           Early(W, key, h, e)
    PROVE  Early(W, key, h + 1, e)
<1>1. \A w \in W : w.from \in Nat /\ w.to \in Nat BY DEF WindowType
<1>2. ASSUME NEW w \in W
      PROVE  \/ Over(w, h + 1)
             \/ w.to = e.due + 2 /\ w.key = key /\ w.from <= h + 1
             \/ w.to = NoEnd /\ w.key = NewKey(e) /\ w.from = e.due + 2
  <2>1. \/ Over(w, h)
        \/ w.to = e.due + 2 /\ w.key = key /\ w.from <= h
        \/ w.to = NoEnd /\ w.key = NewKey(e) /\ w.from = e.due + 2
    BY DEF Early
  <2>. QED BY <1>1, <2>1 DEF Over
<1>3. h + 1 < e.due + 2 /\ e.due - RotationDelay + 2 <= h + 1 BY ChainAssumption DEF Early
<1>4. key # NoKey => \E w \in W : w.to = e.due + 2 /\ w.key = key /\ w.from <= h + 1
  BY <1>1 DEF Early
<1>. QED BY <1>2, <1>3, <1>4 DEF Early

\* Either way the window of the height is that of the key.
LEMMA HoldsKeys ==
    ASSUME NEW W \in SUBSET WindowType, NEW s, NEW key \in SlotKey, NEW h \in Nat,
           Plain(Of(W, s), key, h) \/ \E e \in EventRow : Early(Of(W, s), key, h, e)
    PROVE  KeysAt(W, s, h) = {key} \ {NoKey}
<1>1. \A w \in Of(W, s) : w.from \in Nat /\ w.to \in Nat /\ w.key \in Keys /\ w.key # NoKey
  BY ChainAssumption DEF Of, WindowType
<1>2. KeysAt(W, s, h) = {w.key : w \in {v \in Of(W, s) : Covers(v, h)}} BY DEF KeysAt, Of
<1>3. CASE Plain(Of(W, s), key, h)
  <2>1. \A w \in Of(W, s) : Covers(w, h) <=> w.to = NoEnd BY <1>1, <1>3 DEF Plain, Over, Covers, NoEnd
  <2>2. \A w \in Of(W, s) : w.to = NoEnd => w.key = key BY <1>3 DEF Plain, Over
  <2>. QED BY <1>1, <1>2, <1>3, <2>1, <2>2 DEF Plain
<1>4. CASE \E e \in EventRow : Early(Of(W, s), key, h, e)
  <2>1. PICK e \in EventRow : Early(Of(W, s), key, h, e) BY <1>4
  <2>2. e.due \in Nat /\ h < e.due + 2 BY <2>1, KeysRead DEF Early
  <2>3. \A w \in Of(W, s) : Covers(w, h) => w.key = key
    BY <1>1, <2>1, <2>2 DEF Early, Over, Covers, NoEnd
  <2>4. \A w \in Of(W, s) : w.to = e.due + 2 /\ w.from <= h => Covers(w, h) BY <1>1, <2>2 DEF Covers
  <2>. QED BY <1>1, <1>2, <2>1, <2>3, <2>4 DEF Early
<1>. QED BY <1>3, <1>4

\* A slot without a window begins one, or has a failure.
LEMMA PlainOpened ==
    ASSUME NEW m, m.windows \in SUBSET WindowType,
           NEW s \in Slots, NEW k \in Keys, NEW b \in Nat \ {0}, NEW at,
           \A w \in Of(m.windows, s) : Over(w, b)
    PROVE  LET n == OpenActive(m, s, k, b, at)
           IN  Failure(at, s) \in n.failures \/ Plain(Of(n.windows, s), k, b)
<1> DEFINE W == m.windows
           n == OpenActive(m, s, k, b, at)
           new == KeyWindow(s, k, b, NoEnd)
<1>1. /\ n.windows = Open(W, s, k, b)
      /\ ~CanOpen(W, s, k, b) => Failure(at, s) \in n.failures
  BY OpenActiveFollows
<1>2. \A w \in Of(W, s) : w.to # NoEnd /\ ~Covers(w, b)
  <2>1. \A w \in Of(W, s) : w.to \in Nat BY OfTyped DEF WindowType
  <2>. QED BY <2>1 DEF Over, Covers
<1>3. OpenOf(W, s) = {} BY <1>2 DEF OpenOf, Of
<1>4. ~HasWindow(W, s, k, b) BY <1>2 DEF HasWindow, Of
<1>5. Open(W, s, k, b) = W \union Opened(W, s, k, b) BY <1>3, <1>4, CloseNone DEF Open
<1>6. new.slot = s /\ new.key = k /\ new.from = b /\ new.to = NoEnd BY Begun
<1>. HIDE DEF n, new, W
<1>7. CASE ~CanOpen(W, s, k, b) BY <1>1, <1>7 DEF n
<1>8. CASE CanOpen(W, s, k, b)
  <2>1. n.windows = W \union {new} BY <1>1, <1>5, <1>8 DEF Opened, new
  <2>2. Of(n.windows, s) = Of(W, s) \union {new} BY <1>6, <2>1 DEF Of
  <2>3. \A w \in Of(W, s) : Over(w, b) BY DEF W
  <2>4. Plain(Of(n.windows, s), k, b) BY <1>6, <2>2, <2>3 DEF Plain
  <2>. QED BY <2>4 DEF n
<1>. QED BY <1>7, <1>8

LEMMA LifecycleTurns ==
    ASSUME NEW m, m.windows \in SUBSET WindowType, NEW e \in EventRow, NEW h \in Nat, e.id[1] = h,
           NEW s \in Slots, NEW key \in SlotKey, NEW next, Turns(key, e, s, next),
           e.slot = s => e.type # "rotated", Plain(Of(m.windows, s), key, h + 2)
    PROVE  LET n == MapLifecycleEvent(m, e)
           IN  Failure(h, s) \in n.failures \/ Plain(Of(n.windows, s), next, h + 2)
<1> DEFINE n == MapLifecycleEvent(m, e)
           W == m.windows
           b == h + 2
<1>1. e.slot \in Slots /\ e.new \in Keys /\ b \in Nat \ {0} /\ MembershipHeight(h) = b
  BY DEF EventRow, MembershipHeight
<1>2. CASE e.slot # s \/ e.type \notin Activity
  <2>1. next = key BY <1>2 DEF Turns, Activity
  <2>2. Of(n.windows, s) = Of(m.windows, s) BY <1>2, LifecycleFollows
  <2>. HIDE DEF n
  <2>. QED BY <2>1, <2>2 DEF n
<1>3. CASE e.slot = s /\ e.type = "activated"
  <2>1. key = NoKey /\ next = e.new BY <1>3 DEF Turns
  <2>2. CASE e.lost = "new"
    <3>1. n = Map(m.windows, m.failures \union {Failure(h, s)}) BY <1>3, <2>2 DEF MapLifecycleEvent
    <3>. HIDE DEF n
    <3>. QED BY <3>1 DEF Map, n
  <2>3. CASE e.lost # "new"
    <3>1. n = OpenActive(m, s, e.new, b, h)
      BY <1>1, <1>3, <2>3 DEF MapLifecycleEvent, ProjectLifecycleEvent
    <3>2. \A w \in Of(W, s) : Over(w, b)
      <4>1. \A w \in Of(W, s) : w.key \in Keys BY OfTyped DEF WindowType
      <4>. QED BY <2>1, <4>1, ChainAssumption DEF Plain
    <3>. HIDE DEF n, b
    <3>3. Failure(h, s) \in n.failures \/ Plain(Of(n.windows, s), e.new, b)
      BY <1>1, <3>1, <3>2, PlainOpened
    <3>. QED BY <2>1, <3>3 DEF n, b
  <2>. QED BY <2>2, <2>3
<1>4. CASE e.slot = s /\ e.type = "deactivated"
  <2> DEFINE open == OpenOf(W, s)
  <2>1. next = NoKey BY <1>4 DEF Turns
  <2>2. n = CloseActive(m, open, b, h)
    BY <1>1, <1>4 DEF MapLifecycleEvent, ProjectLifecycleEvent
  <2>3. \A w \in open : w.slot = s /\ w.to = NoEnd BY DEF OpenOf
  <2>4. \A w \in Of(W, s) : w.to = NoEnd => w \in open BY DEF Of, OpenOf
  <2>. HIDE DEF n, b, open
  <2>5. /\ n.windows = Close(W, open, b)
        /\ ~CanClose(open, b) => \E w \in open : Failure(h, w.slot) \in n.failures
    <3>1. W \in SUBSET WindowType /\ b \in Nat \ {0} /\ \A w \in open : w.to = NoEnd BY <1>1, <2>3
    <3>2. LET c == CloseActive(m, open, b, h)
          IN  c.windows = Close(m.windows, open, b)
              /\ (~CanClose(open, b) => \E w \in open : Failure(h, w.slot) \in c.failures)
      BY ONLY <3>1, CloseActiveFollows
    <3>. QED BY <2>2, <3>2
  <2>6. CASE ~CanClose(open, b)
    <3>1. Failure(h, s) \in n.failures BY <2>3, <2>5, <2>6
    <3>. QED BY <3>1 DEF n
  <2>7. CASE CanClose(open, b)
    <3>1. ASSUME NEW v \in Of(n.windows, s) PROVE Over(v, b)
      <4>1. v \in n.windows /\ v.slot = s BY DEF Of
      <4>2. PICK w \in W : v = End(w, open, b) BY <2>5, <4>1, Closed
      <4>3. w \in WindowType OBVIOUS
      <4>4. v.slot = w.slot /\ v.to = (IF w \in open /\ w.from < b THEN b ELSE w.to)
        BY <1>1, <4>2, <4>3, Ended
      <4>5. w \in Of(W, s) BY <4>1, <4>4 DEF Of
      <4>6. CASE w.to = NoEnd
        <5>1. w \in open /\ w.from < b BY <2>4, <2>7, <4>5, <4>6 DEF CanClose
        <5>. QED BY <1>1, <4>4, <5>1 DEF Over, NoEnd
      <4>7. CASE w.to # NoEnd
        <5>1. w \notin open BY <2>3, <4>7
        <5>2. Over(w, b) BY <4>5, <4>7 DEF Plain, b
        <5>. QED BY <4>4, <5>1, <5>2 DEF Over
      <4>. QED BY <4>6, <4>7
    <3>2. Plain(Of(n.windows, s), next, b) BY <2>1, <3>1 DEF Plain
    <3>. QED BY <3>2 DEF n, b
  <2>. QED BY <2>6, <2>7
<1>. QED BY <1>2, <1>3, <1>4 DEF Activity

\* The map after each event follows from the map before it.
LEMMA MappingEventsFollow ==
    ASSUME NEW m, NEW events, Len(events) \in Nat
    PROVE  /\ MappingEvents(m, events)[0] = m
           /\ \A n \in 1..Len(events) : MappingEvents(m, events)[n] =
               MapLifecycleEvent(MappingEvents(m, events)[n - 1], events[n])
<1> DEFINE N == Len(events)
           Body(g, n) == IF n = 0 THEN m ELSE MapLifecycleEvent(g[n - 1], events[n])
           Shown == {n \in 0..N : \E g : g = [i \in 0..n |-> Body(g, i)]}
<1>1. N \in Nat OBVIOUS
<1>. HIDE DEF N
<1>2. 0 \in Shown
  <2> DEFINE g == [i \in 0..0 |-> m]
  <2>1. g = [i \in 0..0 |-> Body(g, i)] OBVIOUS
  <2>2. \E x : x = [i \in 0..0 |-> Body(x, i)] BY <2>1
  <2>. HIDE DEF Body
  <2>. QED BY <1>1, <2>2
<1>3. ASSUME NEW n \in 0..(N - 1), n \in Shown PROVE n + 1 \in Shown
  <2>1. PICK g : g = [i \in 0..n |-> Body(g, i)] BY <1>3
  <2> DEFINE next == [i \in 0..(n + 1) |-> Body(g, i)]
  <2>2. ASSUME NEW i \in 0..(n + 1), i # 0 PROVE next[i - 1] = g[i - 1]
    <3>1. i - 1 \in 0..n /\ i - 1 \in 0..(n + 1) BY <2>2
    <3>. HIDE DEF Body
    <3>. QED BY <2>1, <3>1
  <2>. HIDE DEF next
  <2>3. \A i \in 0..(n + 1) : Body(next, i) = Body(g, i) BY <2>2
  <2>4. next = [i \in 0..(n + 1) |-> Body(next, i)]
    <3>1. next = [i \in 0..(n + 1) |-> Body(g, i)] BY DEF next
    <3>. HIDE DEF Body
    <3>. QED BY <2>3, <3>1
  <2>5. \E x : x = [i \in 0..(n + 1) |-> Body(x, i)] BY <2>4
  <2>6. n + 1 \in 0..N BY <1>1, <1>3
  <2>. HIDE DEF Body
  <2>. QED BY <2>5, <2>6
<1>4. N \in Shown
  <2>. HIDE DEF Shown
  <2>1. 0..N \subseteq Shown BY <1>1, <1>2, <1>3, CountingUp
  <2>. QED BY <1>1, <2>1
<1>5. \E g : g = [i \in 0..N |-> Body(g, i)] BY <1>4
<1> DEFINE f == MappingEvents(m, events)
<1>6. f = CHOOSE g : g = [i \in 0..N |-> Body(g, i)] BY DEF MappingEvents, N
<1>7. f = [i \in 0..N |-> Body(f, i)]
  <2>. HIDE DEF Body, f
  <2>. QED BY <1>5, <1>6
<1>. HIDE DEF f
<1>8. \A i \in 0..N : f[i] = Body(f, i)
  <2>. HIDE DEF Body
  <2>. QED BY <1>7
<1>9. f[0] = m BY <1>1, <1>8
<1>10. ASSUME NEW n \in 1..N PROVE f[n] = MapLifecycleEvent(f[n - 1], events[n]) BY <1>1, <1>8
<1>. QED BY <1>9, <1>10 DEF f, N

\* The events of a height leave the past, and the windows of a slot that is
\* neither activated nor deactivated.
LEMMA EventsFollow ==
    ASSUME ChainInv, NEW h \in DOMAIN log, NEW m, m.windows \in SUBSET WindowType, NEW s \in Slots
    PROVE  LET n == MappingEvents(m, EventsAt(h))[Len(log[h])]
           IN  /\ Follows(m, n, s, h + 2)
               /\ (\A i \in DOMAIN log[h] : log[h][i].slot = s => log[h][i].type \notin Activity)
                     => Of(n.windows, s) = Of(m.windows, s)
<1> DEFINE events == EventsAt(h)
           N == Len(events)
           map == MappingEvents(m, events)
           Quiet == \A i \in DOMAIN log[h] : log[h][i].slot = s => log[h][i].type \notin Activity
           Good(n) == Follows(m, map[n], s, h + 2) /\ (Quiet => Of(map[n].windows, s) = Of(m.windows, s))
           Shown == {n \in 0..N : Good(n)}
<1>1. /\ N \in Nat /\ N = Len(log[h]) /\ h \in Nat /\ DOMAIN log[h] = 1..N
      /\ \A i \in 1..N : /\ events[i] \in EventRow /\ events[i].id[1] = h
                         /\ events[i].slot = log[h][i].slot /\ events[i].type = log[h][i].type
  BY EventsOf
<1>2. map[0] = m /\ \A n \in 1..N : map[n] = MapLifecycleEvent(map[n - 1], events[n])
  BY <1>1, MappingEventsFollow
<1>. HIDE DEF events, N, map, Quiet
<1>3. Good(0) BY <1>2, FollowsSame
<1>4. ASSUME NEW n \in 0..(N - 1), Good(n) PROVE Good(n + 1)
  <2> DEFINE c == map[n]
             d == map[n + 1]
             e == events[n + 1]
  <2>1. n + 1 \in 1..N /\ n + 1 - 1 = n BY <1>1
  <2>2. d = MapLifecycleEvent(c, e) BY <1>2, <2>1
  <2>3. e \in EventRow /\ e.id[1] = h BY <1>1, <2>1
  <2>4. Quiet => e.slot # s \/ e.type \notin Activity BY <1>1, <2>1 DEF Quiet
  <2>5. Follows(m, c, s, h + 2) /\ (Quiet => Of(c.windows, s) = Of(m.windows, s)) BY <1>4
  <2>. HIDE DEF c, d, e
  <2>6. c.windows \in SUBSET WindowType BY <2>5 DEF Follows
  <2>7. Follows(c, d, s, h + 2) /\ (Quiet => Of(d.windows, s) = Of(c.windows, s))
    BY <1>1, <2>2, <2>3, <2>4, <2>6, LifecycleFollows
  <2>8. Follows(m, d, s, h + 2) BY <2>5, <2>7, FollowsBoth
  <2>. QED BY <2>5, <2>7, <2>8 DEF d
<1>5. N \in Shown
  <2>1. 0 \in Shown BY <1>1, <1>3
  <2>2. \A n \in 0..(N - 1) : n \in Shown => n + 1 \in Shown
    <3>1. \A n \in 0..(N - 1) : n + 1 \in 0..N BY <1>1
    <3>. HIDE DEF Good
    <3>. QED BY <1>4, <3>1
  <2>. HIDE DEF Shown
  <2>3. 0..N \subseteq Shown BY <1>1, <2>1, <2>2, CountingUp
  <2>. QED BY <1>1, <2>3
<1>6. Good(N) BY <1>5
<1>. QED BY <1>1, <1>6 DEF map, events, Quiet

\* Without a rotation the events turn the slot's window as they turn its key.
LEMMA EventsTurn ==
    ASSUME ChainInv, NEW h \in DOMAIN log, NEW m, m.windows \in SUBSET WindowType, NEW s \in Slots,
           NEW first, NEW last, Keyed(log[h], s, first, last), Plain(Of(m.windows, s), first, h + 2),
           \A i \in DOMAIN log[h] : log[h][i].slot = s => log[h][i].type # "rotated"
    PROVE  LET n == MappingEvents(m, EventsAt(h))[Len(log[h])]
           IN  Failure(h, s) \in n.failures \/ Plain(Of(n.windows, s), last, h + 2)
<1> DEFINE events == EventsAt(h)
           N == Len(events)
           map == MappingEvents(m, events)
<1>1. /\ N \in Nat /\ N = Len(log[h]) /\ h \in Nat /\ DOMAIN log[h] = 1..N
      /\ \A i \in 1..N : /\ events[i] \in EventRow /\ events[i].id[1] = h /\ events[i].new = log[h][i].new
                         /\ events[i].slot = log[h][i].slot /\ events[i].type = log[h][i].type
  BY EventsOf
<1>2. map[0] = m /\ \A n \in 1..N : map[n] = MapLifecycleEvent(map[n - 1], events[n])
  BY <1>1, MappingEventsFollow
<1>3. Keyed(events, s, first, last) BY <1>1, KeyedReadings
<1>. HIDE DEF events, N, map
<1>4. PICK keys \in [0..N -> SlotKey] :
         /\ keys[0] = first /\ keys[N] = last
         /\ \A i \in 1..N : Turns(keys[i - 1], events[i], s, keys[i])
  BY <1>3 DEF Keyed, N
<1> DEFINE Good(n) == /\ map[n].windows \in SUBSET WindowType
                      /\ Failure(h, s) \in map[n].failures \/ Plain(Of(map[n].windows, s), keys[n], h + 2)
           Shown == {n \in 0..N : Good(n)}
<1>5. Good(0) BY <1>2, <1>4
<1>6. ASSUME NEW n \in 0..(N - 1), Good(n) PROVE Good(n + 1)
  <2> DEFINE c == map[n]
             d == map[n + 1]
             e == events[n + 1]
             key == keys[n]
             next == keys[n + 1]
  <2>1. n + 1 \in 1..N /\ n + 1 - 1 = n /\ n \in 0..N BY <1>1
  <2>2. d = MapLifecycleEvent(c, e) BY <1>2, <2>1
  <2>3. e \in EventRow /\ e.id[1] = h /\ (e.slot = s => e.type # "rotated") BY <1>1, <2>1
  <2>4. Turns(key, e, s, next) /\ key \in SlotKey BY <1>4, <2>1
  <2>5. /\ c.windows \in SUBSET WindowType
        /\ Failure(h, s) \in c.failures \/ Plain(Of(c.windows, s), key, h + 2)
    BY <1>6
  <2>. HIDE DEF c, d, e, key, next
  <2>6. Follows(c, d, s, h + 2) BY <1>1, <2>2, <2>3, <2>5, LifecycleFollows
  <2>7. d.windows \in SUBSET WindowType /\ c.failures \subseteq d.failures BY <2>6 DEF Follows
  <2>8. Plain(Of(c.windows, s), key, h + 2) =>
           Failure(h, s) \in d.failures \/ Plain(Of(d.windows, s), next, h + 2)
    BY <1>1, <2>2, <2>3, <2>4, <2>5, LifecycleTurns
  <2>. QED BY <2>5, <2>7, <2>8 DEF d, next
<1>7. N \in Shown
  <2>1. 0 \in Shown BY <1>1, <1>5
  <2>2. \A n \in 0..(N - 1) : n \in Shown => n + 1 \in Shown
    <3>1. \A n \in 0..(N - 1) : n + 1 \in 0..N BY <1>1
    <3>. HIDE DEF Good
    <3>. QED BY <1>6, <3>1
  <2>. HIDE DEF Shown
  <2>3. 0..N \subseteq Shown BY <1>1, <2>1, <2>2, CountingUp
  <2>. QED BY <1>1, <2>3
<1>8. Good(N) BY <1>7
<1>. QED BY <1>1, <1>4, <1>8 DEF map, events

-----------------------------------------------------------------------------
(***************************************************************************)
(* The windows of a slot through a height's rotations                      *)
(***************************************************************************)
LEMMA MappingRotationsFollow ==
    ASSUME NEW m, NEW h, Len(rotations) \in Nat
    PROVE  /\ MappingRotations(m, h)[0] = m
           /\ \A n \in 1..Len(rotations) : MappingRotations(m, h)[n] =
                 IF h \in HeightsOf(rotations[n])
                 THEN MapRotation(MappingRotations(m, h)[n - 1], rotations[n])
                 ELSE MappingRotations(m, h)[n - 1]
<1> DEFINE N == Len(rotations)
           Body(g, n) ==
                 IF n = 0 THEN m
                 ELSE IF h \in HeightsOf(rotations[n])
                 THEN MapRotation(g[n - 1], rotations[n])
                 ELSE g[n - 1]
           Shown == {n \in 0..N : \E g : g = [i \in 0..n |-> Body(g, i)]}
<1>1. N \in Nat OBVIOUS
<1>. HIDE DEF N
<1>2. 0 \in Shown
  <2> DEFINE g == [i \in 0..0 |-> m]
  <2>1. g = [i \in 0..0 |-> Body(g, i)] OBVIOUS
  <2>2. \E x : x = [i \in 0..0 |-> Body(x, i)] BY <2>1
  <2>. HIDE DEF Body
  <2>. QED BY <1>1, <2>2
<1>3. ASSUME NEW n \in 0..(N - 1), n \in Shown PROVE n + 1 \in Shown
  <2>1. PICK g : g = [i \in 0..n |-> Body(g, i)] BY <1>3
  <2> DEFINE next == [i \in 0..(n + 1) |-> Body(g, i)]
  <2>2. ASSUME NEW i \in 0..(n + 1), i # 0 PROVE next[i - 1] = g[i - 1]
    <3>1. i - 1 \in 0..n /\ i - 1 \in 0..(n + 1) BY <2>2
    <3>. HIDE DEF Body
    <3>. QED BY <2>1, <3>1
  <2>. HIDE DEF next
  <2>3. \A i \in 0..(n + 1) : Body(next, i) = Body(g, i) BY <2>2
  <2>4. next = [i \in 0..(n + 1) |-> Body(next, i)]
    <3>1. next = [i \in 0..(n + 1) |-> Body(g, i)] BY DEF next
    <3>. HIDE DEF Body
    <3>. QED BY <2>3, <3>1
  <2>5. \E x : x = [i \in 0..(n + 1) |-> Body(x, i)] BY <2>4
  <2>6. n + 1 \in 0..N BY <1>1, <1>3
  <2>. HIDE DEF Body
  <2>. QED BY <2>5, <2>6
<1>4. N \in Shown
  <2>. HIDE DEF Shown
  <2>1. 0..N \subseteq Shown BY <1>1, <1>2, <1>3, CountingUp
  <2>. QED BY <1>1, <2>1
<1>5. \E g : g = [i \in 0..N |-> Body(g, i)] BY <1>4
<1> DEFINE f == MappingRotations(m, h)
<1>6. f = CHOOSE g : g = [i \in 0..N |-> Body(g, i)] BY DEF MappingRotations, N
<1>7. f = [i \in 0..N |-> Body(f, i)]
  <2>. HIDE DEF Body, f
  <2>. QED BY <1>5, <1>6
<1>. HIDE DEF f
<1>8. \A i \in 0..N : f[i] = Body(f, i)
  <2>. HIDE DEF Body
  <2>. QED BY <1>7
<1>9. f[0] = m BY <1>1, <1>8
<1>10. ASSUME NEW n \in 1..N PROVE f[n] =
      IF h \in HeightsOf(rotations[n])
      THEN MapRotation(f[n - 1], rotations[n])
      ELSE f[n - 1]
  BY <1>1, <1>8
<1>. QED BY <1>9, <1>10 DEF f, N

\* What counts at a height of a slot.
Counts(r, s, h) == h \in HeightsOf(r) /\ r.slot = s /\ IsApplied(r)

\* Through the rotations of a height the windows of a slot stay as they were
\* before, until one counts, or become what it makes of them.
LEMMA RotationsFollow ==
    ASSUME Len(rotations) \in Nat, \A i \in 1..Len(rotations) : rotations[i] \in RowType,
           NEW h \in Nat, NEW s \in Slots, NEW m, m.windows \in SUBSET WindowType,
           \A i \in 1..Len(rotations) : Counts(rotations[i], s, h) => h <= rotations[i].due,
           NEW Before, NEW After, Failure(h, s) \in m.failures \/ Of(m.windows, s) \in Before,
           \A i \in 1..Len(rotations) : \A c :
              /\ Counts(rotations[i], s, h)
              /\ c.windows \in SUBSET WindowType /\ Of(c.windows, s) \in Before \union After
              => \/ Failure(h, s) \in MapRotation(c, rotations[i]).failures
                 \/ Of(MapRotation(c, rotations[i]).windows, s) \in After
    PROVE  LET n == MappingRotations(m, h)[Len(rotations)]
           IN  /\ Follows(m, n, s, h + 2)
               /\ \/ Failure(h, s) \in n.failures
                  \/ Of(n.windows, s) \in After
                  \/ /\ Of(n.windows, s) \in Before
                     /\ \A i \in 1..Len(rotations) : ~Counts(rotations[i], s, h)
<1> DEFINE N == Len(rotations)
           map == MappingRotations(m, h)
           Good(n) == /\ Follows(m, map[n], s, h + 2)
                      /\ \/ Failure(h, s) \in map[n].failures
                         \/ Of(map[n].windows, s) \in After
                         \/ /\ Of(map[n].windows, s) \in Before
                            /\ \A i \in 1..n : ~Counts(rotations[i], s, h)
           Shown == {n \in 0..N : Good(n)}
<1>1. /\ map[0] = m
      /\ \A n \in 1..N : map[n] = IF h \in HeightsOf(rotations[n]) THEN MapRotation(map[n - 1], rotations[n])
                                  ELSE map[n - 1]
  BY MappingRotationsFollow
<1>2. N \in Nat OBVIOUS
<1>. HIDE DEF map
<1>3. Good(0) BY <1>1, FollowsSame
<1>4. ASSUME NEW n \in 0..(N - 1), Good(n) PROVE Good(n + 1)
  <2> DEFINE c == map[n]
             d == map[n + 1]
             r == rotations[n + 1]
  <2>1. n + 1 \in 1..N /\ n + 1 - 1 = n /\ \A i \in 1..(n + 1) : i = n + 1 \/ i \in 1..n BY <1>2
  <2>2. d = IF h \in HeightsOf(r) THEN MapRotation(c, r) ELSE c BY <1>1, <2>1
  <2>3. r \in RowType /\ (Counts(r, s, h) => h <= r.due) BY <2>1
  <2>4. /\ Follows(m, c, s, h + 2)
        /\ \/ Failure(h, s) \in c.failures
           \/ Of(c.windows, s) \in After
           \/ Of(c.windows, s) \in Before /\ \A i \in 1..n : ~Counts(rotations[i], s, h)
    BY <1>4
  <2>5. c.windows \in SUBSET WindowType /\ Of(c.windows, s) \in Before \union After /\ Counts(r, s, h)
        => Failure(h, s) \in MapRotation(c, r).failures \/ Of(MapRotation(c, r).windows, s) \in After
    BY <2>1
  <2>. HIDE DEF c, d
  <2>6. c.windows \in SUBSET WindowType BY <2>4 DEF Follows
  <2>7. CASE Counts(r, s, h)
    <3>1. d = MapRotation(c, r) BY <2>2, <2>7 DEF Counts
    <3>2. h + 2 <= r.due + 2 /\ h + 2 \in Nat BY <2>3, <2>7 DEF RowType
    <3>3. Follows(c, d, s, h + 2) BY <2>3, <2>6, <3>1, <3>2, RotationFollows
    <3>4. Follows(m, d, s, h + 2) BY <2>4, <3>3, FollowsBoth
    <3>5. Failure(h, s) \in c.failures => Failure(h, s) \in d.failures BY <3>3 DEF Follows
    <3>6. Failure(h, s) \in d.failures \/ Of(d.windows, s) \in After BY <2>4, <2>5, <2>6, <2>7, <3>1, <3>5
    <3>. QED BY <3>4, <3>6 DEF d
  <2>8. CASE ~Counts(r, s, h)
    <3>1. Follows(c, d, s, h + 2) /\ Of(d.windows, s) = Of(c.windows, s)
      <4>1. CASE h \in HeightsOf(r)
        <5>1. s # r.slot \/ ~IsApplied(r) BY <2>8, <4>1 DEF Counts
        <5>2. d = MapRotation(c, r) /\ h + 2 \in Nat BY <2>2, <4>1
        <5>. QED BY <2>3, <2>6, <5>1, <5>2, RotationFollows
      <4>2. CASE h \notin HeightsOf(r) BY <2>2, <2>6, <4>2, FollowsSame
      <4>. QED BY <4>1, <4>2
    <3>2. Follows(m, d, s, h + 2) BY <2>4, <3>1, FollowsBoth
    <3>3. Failure(h, s) \in c.failures => Failure(h, s) \in d.failures BY <3>1 DEF Follows
    <3>4. (\A i \in 1..n : ~Counts(rotations[i], s, h)) => \A i \in 1..(n + 1) : ~Counts(rotations[i], s, h)
      BY <2>1, <2>8
    <3>. QED BY <2>4, <3>1, <3>2, <3>3, <3>4 DEF d
  <2>. QED BY <2>7, <2>8
<1>5. N \in Shown
  <2>1. 0 \in Shown BY <1>2, <1>3
  <2>2. \A n \in 0..(N - 1) : n \in Shown => n + 1 \in Shown
    <3>1. \A n \in 0..(N - 1) : n + 1 \in 0..N BY <1>2
    <3>. HIDE DEF Good
    <3>. QED BY <1>4, <3>1
  <2>. HIDE DEF Shown
  <2>3. 0..N \subseteq Shown BY <1>2, <2>1, <2>2, CountingUp
  <2>. QED BY <1>2, <2>3
<1>6. Good(N) BY <1>5
<1>. QED BY <1>6 DEF map

\* The window a rotation makes of one.
Becomes(w, v, to) == v.key = w.key /\ v.from = w.from /\ v.to = IF w.to = NoEnd THEN to ELSE w.to

LEMMA Replacing ==
    ASSUME NEW m, m.windows \in SUBSET WindowType, NEW r \in RowType, IsApplied(r), r.new # NoKey, NEW old
    PROVE  LET n == ProjectRotation(m, Rotation(r, old))
               from == r.due + 2
           IN  /\ HasWindow(m.windows, r.slot, r.new, from) => n.windows = m.windows
               /\ /\ ~HasWindow(m.windows, r.slot, r.new, from)
                  /\ \A w \in Of(m.windows, r.slot) : w.to = NoEnd => w.from < from
                  => /\ \A v \in Of(n.windows, r.slot) :
                           \/ \E w \in Of(m.windows, r.slot) : Becomes(w, v, from)
                           \/ v.to = NoEnd /\ v.key = r.new /\ v.from = from
                     /\ \A w \in Of(m.windows, r.slot) : \E v \in Of(n.windows, r.slot) : Becomes(w, v, from)
                     /\ \/ Failure(r.applied[1], r.slot) \in n.failures
                        \/ \E v \in Of(n.windows, r.slot) : v.to = NoEnd /\ v.key = r.new /\ v.from = from
<1> DEFINE q == Rotation(r, old)
           from == r.due + 2
           s == r.slot
           k == r.new
           at == r.applied[1]
           W == m.windows
           closing == Replaced(m, q, from)
           closed == CloseActive(m, closing, from, at)
           opened == OpenActive(closed, s, k, from, at)
           n == ProjectRotation(m, q)
<1>1. q.status = r.status /\ q.slot = s /\ q.new = k /\ q.due = r.due /\ q.applied = at /\ q.old = old
  BY DEF Rotation
<1>2. s \in Slots /\ k \in Keys /\ from \in Nat \ {0} /\ MembershipHeight(r.due) = from
  BY DEF RowType, SlotKey, MembershipHeight
<1>3. closing = IF HasWindow(W, s, k, from) THEN {} ELSE {w \in OpenOf(W, s) : w.key = old}
  BY <1>1 DEF Replaced
<1>4. CanClose(closing, from) => n = opened BY <1>1, <1>2 DEF ProjectRotation, IsApplied
<1>. HIDE DEF q, closing, n
<1>5. W \in SUBSET WindowType /\ \A w \in closing : w.to = NoEnd /\ w \in OpenOf(W, s) BY <1>3 DEF OpenOf
<1>6. closed.windows = Close(W, closing, from) /\ closed.windows \in SUBSET WindowType
  <2>1. \A w \in closing : w.to = NoEnd BY <1>5
  <2>. HIDE DEF closed, from
  <2>2. LET c == CloseActive(m, closing, from, at)
        IN  c.windows = Close(m.windows, closing, from) /\ c.windows \in SUBSET WindowType
    BY <1>2, <2>1, CloseActiveFollows
  <2>. QED BY <2>2 DEF closed
<1>. HIDE DEF closed
<1>7. /\ opened.windows = Open(closed.windows, s, k, from)
      /\ ~CanOpen(closed.windows, s, k, from) => Failure(at, s) \in opened.failures
  BY <1>2, <1>6, OpenActiveFollows
<1>. HIDE DEF opened, from
<1>8. ASSUME HasWindow(W, s, k, from) PROVE n.windows = W
  <2>1. closing = {} BY <1>3, <1>8
  <2>2. n = opened /\ closed.windows = W BY <1>4, <1>6, <2>1, CloseNone DEF CanClose
  <2>. QED BY <1>7, <1>8, <2>2 DEF Open
<1>9. ASSUME ~HasWindow(W, s, k, from), \A w \in Of(W, s) : w.to = NoEnd => w.from < from
      PROVE  /\ \A v \in Of(n.windows, s) : \/ \E w \in Of(W, s) : Becomes(w, v, from)
                                            \/ v.to = NoEnd /\ v.key = k /\ v.from = from
             /\ \A w \in Of(W, s) : \E v \in Of(n.windows, s) : Becomes(w, v, from)
             /\ \/ Failure(at, s) \in n.failures
                \/ \E v \in Of(n.windows, s) : v.to = NoEnd /\ v.key = k /\ v.from = from
  <2> DEFINE V == closed.windows
             open == OpenOf(V, s)
             new == KeyWindow(s, k, from, NoEnd)
             Twice(w) == End(End(w, closing, from), open, from)
  <2>1. \A w \in OpenOf(W, s) : w.from < from BY <1>9 DEF OpenOf, Of
  <2>2. CanClose(closing, from) BY <1>5, <2>1 DEF CanClose
  <2>3. n = opened BY <1>4, <2>2
  <2>4. ~HasWindow(V, s, k, from) BY <1>2, <1>5, <1>6, <1>9, CloseCovers
  <2>5. n.windows = Close(V, open, from) \union Opened(V, s, k, from) BY <1>7, <2>3, <2>4 DEF Open
  <2>6. new.slot = s /\ new.key = k /\ new.from = from /\ new.to = NoEnd BY <1>2, Begun
  <2>7. V = {End(w, closing, from) : w \in W} BY <1>6, Closed
  <2>8. Close(V, open, from) = {Twice(w) : w \in W}
    <3>1. Close(V, open, from) = {End(u, open, from) : u \in V} BY Closed
    <3>. QED BY <2>7, <3>1
  <2>9. ASSUME NEW w \in W PROVE Twice(w).slot = w.slot /\ (w.slot = s => Becomes(w, Twice(w), from))
    <3> DEFINE u == End(w, closing, from)
               v == End(u, open, from)
    <3>1. w \in WindowType /\ w \in W BY <1>5
    <3>2. /\ u \in WindowType /\ u.slot = w.slot /\ u.key = w.key /\ u.from = w.from
          /\ u.to = IF w \in closing /\ w.from < from THEN from ELSE w.to
      BY <1>2, <3>1, Ended
    <3>3. u \in V BY <2>7
    <3>. HIDE DEF u
    <3>4. /\ v.slot = u.slot /\ v.key = u.key /\ v.from = u.from
          /\ v.to = IF u \in open /\ u.from < from THEN from ELSE u.to
      BY <1>2, <3>2, Ended
    <3>5. u \in open <=> u.slot = s /\ u.to = NoEnd BY <3>3 DEF OpenOf
    <3>. HIDE DEF v, open, V
    <3>6. ASSUME w.slot = s PROVE v.to = IF w.to = NoEnd THEN from ELSE w.to
      <4>1. CASE w.to = NoEnd
        <5>1. w.from < from BY <1>9, <3>1, <3>6, <4>1 DEF Of
        <5>2. u.to \in {from, NoEnd} BY <3>2, <4>1
        <5>. QED BY <3>2, <3>4, <3>5, <3>6, <4>1, <5>1, <5>2
      <4>2. CASE w.to # NoEnd
        <5>1. w \notin closing BY <1>5, <4>2
        <5>. QED BY <3>2, <3>4, <3>5, <4>2, <5>1
      <4>. QED BY <4>1, <4>2
    <3>7. Twice(w) = v BY DEF v, u
    <3>. QED BY <3>2, <3>4, <3>6, <3>7 DEF Becomes
  <2>. HIDE DEF V, open, new, Twice
  <2>10. Opened(V, s, k, from) \subseteq {new} BY DEF Opened, new
  <2>11. ASSUME NEW v \in Of(n.windows, s)
         PROVE \/ \E w \in Of(W, s) : Becomes(w, v, from)
               \/ v.to = NoEnd /\ v.key = k /\ v.from = from
    <3>1. v \in n.windows /\ v.slot = s BY DEF Of
    <3>2. CASE v = new BY <2>6, <3>2
    <3>3. CASE v # new
      <4>1. PICK w \in W : v = Twice(w) BY <2>5, <2>8, <2>10, <3>1, <3>3
      <4>2. w \in Of(W, s) BY <2>9, <3>1, <4>1 DEF Of
      <4>. QED BY <2>9, <3>1, <4>1, <4>2
    <3>. QED BY <3>2, <3>3
  <2>12. ASSUME NEW w \in Of(W, s) PROVE \E v \in Of(n.windows, s) : Becomes(w, v, from)
    <3>1. w \in W /\ w.slot = s BY DEF Of
    <3>2. Twice(w) \in n.windows BY <2>5, <2>8, <3>1
    <3>3. Twice(w) \in Of(n.windows, s) BY <2>9, <3>1, <3>2 DEF Of
    <3>. QED BY <2>9, <3>1, <3>3
  <2>13. \/ Failure(at, s) \in n.failures
         \/ \E v \in Of(n.windows, s) : v.to = NoEnd /\ v.key = k /\ v.from = from
    <3>1. CASE ~CanOpen(V, s, k, from) BY <1>7, <2>3, <3>1 DEF V
    <3>2. CASE CanOpen(V, s, k, from)
      <4>1. new \in n.windows BY <2>5, <3>2 DEF Opened, new
      <4>2. new \in Of(n.windows, s) BY <2>6, <4>1 DEF Of
      <4>. QED BY <2>6, <4>2
    <3>. QED BY <3>1, <3>2
  <2>. QED BY <2>11, <2>12, <2>13
<1>. QED BY <1>8, <1>9 DEF n, q, from

\* A row of an application to come maps it early, or leaves things as they are.
LEMMA RotationEarly ==
    ASSUME NEW m, m.windows \in SUBSET WindowType, NEW r \in RowType, NEW e \in EventRow,
           r.new = NewKey(e), r.due = e.due, NEW key \in SlotKey, NEW b \in Nat \ {0},
           b < e.due + 2, e.due - RotationDelay + 2 <= b,
           Plain(Of(m.windows, r.slot), key, b) \/ Early(Of(m.windows, r.slot), key, b, e)
    PROVE  LET n == MapRotation(m, r)
           IN  Plain(Of(n.windows, r.slot), key, b) \/ Early(Of(n.windows, r.slot), key, b, e)
<1> DEFINE n == MapRotation(m, r)
           s == r.slot
           W == Of(m.windows, s)
           V == Of(n.windows, s)
           from == r.due + 2
<1>1. /\ from = e.due + 2 /\ from \in Nat \ {0} /\ b < from
      /\ \A w \in W : w.from \in Nat /\ w.to \in Nat /\ w \in m.windows /\ w.slot = s
  BY KeysRead, OfTyped DEF WindowType
<1>2. CASE n.windows = m.windows BY <1>2
<1>3. CASE n.windows # m.windows
  <2>1. PICK old : IsApplied(r) /\ r.new # NoKey /\ n = ProjectRotation(m, Rotation(r, old))
    <3>1. \/ n = m \/ n = Map(m.windows, m.failures \union {Failure(r.applied[1], r.slot)})
          \/ IsApplied(r) /\ r.new # NoKey /\ \E old : n = ProjectRotation(m, Rotation(r, old))
      BY RotationMapped
    <3>. QED BY <1>3, <3>1 DEF Map
  <2>. HIDE DEF n
  <2>2. /\ ~HasWindow(m.windows, s, r.new, from)
        /\ (\A w \in W : w.to = NoEnd => w.from < from) =>
              /\ \A v \in V : \/ \E w \in W : Becomes(w, v, from)
                              \/ v.to = NoEnd /\ v.key = r.new /\ v.from = from
              /\ \A w \in W : \E v \in V : Becomes(w, v, from)
    BY <1>3, <2>1, Replacing
  <2>. HIDE DEF W, V, from, s
  <2>3. \A w \in W : w.to = NoEnd => w.from < from
    <3>1. ASSUME NEW w \in W, w.to = NoEnd PROVE w.from < from
      <4>1. CASE w.from <= b BY <1>1, <4>1
      <4>2. CASE ~(w.from <= b)
        <5>1. w.key = NewKey(e) /\ w.from = from
          BY <1>1, <3>1, <4>2 DEF Plain, Early, Over, W, s, NoEnd
        <5>2. HasWindow(m.windows, s, r.new, from) BY <1>1, <3>1, <5>1 DEF HasWindow, Covers
        <5>. QED BY <2>2, <5>2
      <4>. QED BY <4>1, <4>2
    <3>. QED BY <3>1
  <2>4. /\ \A v \in V : \/ \E w \in W : Becomes(w, v, from)
                        \/ v.to = NoEnd /\ v.key = r.new /\ v.from = from
        /\ \A w \in W : \E v \in V : Becomes(w, v, from)
    BY <2>2, <2>3
  <2>5. ASSUME NEW w \in W
        PROVE  \/ Over(w, b)
               \/ w.to \in {NoEnd, from} /\ w.key = key /\ w.from <= b
    <3>1. \/ Over(w, b)
          \/ w.to \in {NoEnd, from} /\ w.key = key /\ w.from <= b
          \/ w.to = NoEnd /\ w.from = from
      BY <1>1 DEF Plain, Early, W, s
    <3>. QED BY <1>1, <2>3, <3>1
  <2>6. ASSUME NEW v \in V
        PROVE  \/ Over(v, b)
               \/ v.to = from /\ v.key = key /\ v.from <= b
               \/ v.to = NoEnd /\ v.key = NewKey(e) /\ v.from = from
    <3>1. CASE \E w \in W : Becomes(w, v, from)
      <4>1. PICK w \in W : Becomes(w, v, from) BY <3>1
      <4>. QED BY <2>5, <4>1 DEF Becomes, Over
    <3>2. CASE ~ \E w \in W : Becomes(w, v, from) BY <2>4, <3>2
    <3>. QED BY <3>1, <3>2
  <2>7. key # NoKey => \E v \in V : v.to = from /\ v.key = key /\ v.from <= b
    <3>1. ASSUME key # NoKey PROVE \E w \in W : w.to \in {NoEnd, from} /\ w.key = key /\ w.from <= b
      <4>1. CASE Plain(W, key, b) BY <3>1, <4>1 DEF Plain, Over
      <4>2. CASE Early(W, key, b, e) BY <1>1, <3>1, <4>2 DEF Early
      <4>. QED BY <4>1, <4>2 DEF W, s
    <3>. QED BY <2>4, <3>1 DEF Becomes
  <2>8. Early(V, key, b, e) BY <1>1, <2>6, <2>7 DEF Early
  <2>. QED BY <2>8 DEF V, s, n
<1>. QED BY <1>2, <1>3

\* A row of an application of the height opens the window of the new key, or
\* has a failure.
LEMMA RotationDue ==
    ASSUME NEW m, m.windows \in SUBSET WindowType, NEW r \in RowType, IsApplied(r), NEW e \in EventRow,
           r.new = NewKey(e), r.due = e.due, NEW h \in Nat, r.applied[1] = h, r.due = h, NEW key \in SlotKey,
           \/ Plain(Of(m.windows, r.slot), key, h + 1)
           \/ Early(Of(m.windows, r.slot), key, h + 1, e)
           \/ r.new # NoKey /\ Plain(Of(m.windows, r.slot), r.new, h + 2)
    PROVE  LET n == MapRotation(m, r)
           IN  \/ Failure(h, r.slot) \in n.failures
               \/ r.new # NoKey /\ Plain(Of(n.windows, r.slot), r.new, h + 2)
<1> DEFINE n == MapRotation(m, r)
           s == r.slot
           W == Of(m.windows, s)
           V == Of(n.windows, s)
           from == r.due + 2
<1>1. /\ from = h + 2 /\ from = e.due + 2 /\ from \in Nat \ {0}
      /\ \A w \in W : w.from \in Nat /\ w.to \in Nat /\ w \in m.windows /\ w.slot = s
  BY KeysRead, OfTyped DEF WindowType
<1>2. CASE n = Map(m.windows, m.failures \union {Failure(r.applied[1], r.slot)})
  <2>. HIDE DEF n
  <2>. QED BY <1>2 DEF Map, n
<1>3. CASE n # Map(m.windows, m.failures \union {Failure(r.applied[1], r.slot)})
  <2>1. PICK old : r.new # NoKey /\ n = ProjectRotation(m, Rotation(r, old))
    BY <1>3, RotationMapped
  <2>. HIDE DEF n
  <2>2. /\ HasWindow(m.windows, s, r.new, from) => n.windows = m.windows
        /\ ~HasWindow(m.windows, s, r.new, from) /\ (\A w \in W : w.to = NoEnd => w.from < from) =>
              /\ \A v \in V : \/ \E w \in W : Becomes(w, v, from)
                              \/ v.to = NoEnd /\ v.key = r.new /\ v.from = from
              /\ \/ Failure(h, s) \in n.failures
                 \/ \E v \in V : v.to = NoEnd /\ v.key = r.new /\ v.from = from
    BY <2>1, Replacing
  <2>. HIDE DEF W, V, from, s
  <2>3. ASSUME NEW w \in W
        PROVE  \/ Over(w, from)
               \/ w.to = NoEnd /\ w.from < from
               \/ w.to = NoEnd /\ w.from <= from /\ w.key = r.new
    <3>1. CASE Plain(W, key, h + 1) BY <1>1, <3>1 DEF Plain, Over
    <3>2. CASE Early(W, key, h + 1, e) BY <1>1, <3>2 DEF Early, Over, NoEnd
    <3>3. CASE Plain(W, r.new, h + 2) BY <1>1, <3>3 DEF Plain, Over
    <3>. QED BY <3>1, <3>2, <3>3 DEF W, s
  <2>4. CASE HasWindow(m.windows, s, r.new, from)
    <3>1. PICK w \in m.windows : w.slot = s /\ w.key = r.new /\ Covers(w, from) BY <2>4 DEF HasWindow
    <3>2. w \in W BY <3>1 DEF Of, W
    <3>3. w.to = NoEnd
      <4>1. ~Over(w, from) BY <1>1, <3>1, <3>2 DEF Over, Covers
      <4>. QED BY <2>3, <3>2, <4>1
    <3>4. ASSUME NEW v \in W PROVE Over(v, from) \/ (v.to = NoEnd /\ v.key = r.new /\ v.from <= from)
      <4>1. CASE Plain(W, key, h + 1)
        <5>1. w.key = key BY <3>2, <3>3, <4>1 DEF Plain, Over
        <5>2. Over(v, h + 1) \/ (v.to = NoEnd /\ v.key = key /\ v.from <= h + 1) BY <4>1 DEF Plain
        <5>. QED BY <1>1, <3>1, <5>1, <5>2 DEF Over
      <4>2. CASE Early(W, key, h + 1, e) BY <1>1, <4>2 DEF Early, Over, NoEnd
      <4>3. CASE Plain(W, r.new, h + 2) BY <1>1, <4>3 DEF Plain, Over
      <4>. QED BY <4>1, <4>2, <4>3 DEF W, s
    <3>5. V = W BY <2>2, <2>4 DEF V, W
    <3>6. Plain(V, r.new, from) BY <3>2, <3>3, <3>4, <3>5 DEF Plain
    <3>. QED BY <1>1, <2>1, <3>6 DEF V, s, n
  <2>5. CASE ~HasWindow(m.windows, s, r.new, from)
    <3>1. \A w \in W : w.to = NoEnd => w.from < from
      <4>1. ASSUME NEW w \in W, w.to = NoEnd, w.from <= from, w.key = r.new PROVE FALSE
        <5>1. Covers(w, from) BY <4>1 DEF Covers
        <5>. QED BY <1>1, <2>5, <4>1, <5>1 DEF HasWindow
      <4>. QED BY <2>3, <4>1 DEF Over
    <3>2. /\ \A v \in V : \/ \E w \in W : Becomes(w, v, from)
                          \/ v.to = NoEnd /\ v.key = r.new /\ v.from = from
          /\ \/ Failure(h, s) \in n.failures
             \/ \E v \in V : v.to = NoEnd /\ v.key = r.new /\ v.from = from
      BY <2>2, <2>5, <3>1
    <3>3. \A w \in W : w.to # NoEnd => Over(w, from) BY <2>3
    <3>4. ASSUME NEW v \in V PROVE Over(v, from) \/ (v.to = NoEnd /\ v.key = r.new /\ v.from <= from)
      <4>1. CASE \E w \in W : Becomes(w, v, from)
        <5>1. PICK w \in W : Becomes(w, v, from) BY <4>1
        <5>2. CASE w.to = NoEnd
          <6>1. v.to = from BY <5>1, <5>2 DEF Becomes
          <6>2. from # NoEnd /\ from <= from BY <1>1 DEF NoEnd
          <6>. QED BY <6>1, <6>2 DEF Over
        <5>3. CASE w.to # NoEnd
          <6>1. v.to = w.to /\ Over(w, from) BY <3>3, <5>1, <5>3 DEF Becomes
          <6>. QED BY <6>1 DEF Over
        <5>. QED BY <5>2, <5>3
      <4>2. CASE ~ \E w \in W : Becomes(w, v, from) BY <1>1, <3>2, <4>2
      <4>. QED BY <4>1, <4>2
    <3>5. CASE Failure(h, s) \in n.failures BY <3>5 DEF s, n
    <3>6. CASE \E v \in V : v.to = NoEnd /\ v.key = r.new /\ v.from = from
      <4>1. Plain(V, r.new, from) BY <3>4, <3>6 DEF Plain
      <4>. QED BY <1>1, <2>1, <4>1 DEF V, s, n
    <3>. QED BY <3>2, <3>5, <3>6
  <2>. QED BY <2>4, <2>5
<1>. QED BY <1>2, <1>3

(***************************************************************************)
(* The rotations that count at a height                                    *)
(***************************************************************************)
\* A rotation to come, and what a slot is left out of before it.
LEMMA ComingCalm ==
    ASSUME ChainInv, NEW s, NEW e \in Coming(s)
    PROVE  /\ e \in Recorded /\ e \in EventRow /\ e.slot = s /\ e.type = "rotated"
           /\ e.id[1] = e.due /\ e.due \in DOMAIN log /\ e.due \in Nat
           /\ \A h \in DOMAIN log : \A i \in DOMAIN log[h] :
                 e.due - RotationDelay < h /\ h <= e.due /\ log[h][i].slot = s
                 => log[h][i].type \notin Activity /\ (log[h][i].type = "rotated" => h = e.due /\ i = e.id[2])
           /\ \A h \in DOMAIN log : \A i \in DOMAIN log[h] :
                 e.due - RotationDelay <= h /\ h < e.due /\ log[h][i].slot = s => log[h][i].type # "rotated"
<1>1. /\ e \in Recorded /\ e.type = "rotated" /\ e.slot = s BY DEF Coming
<1>2. /\ e \in EventRow /\ e.id[1] \in DOMAIN log /\ e.id[2] \in DOMAIN log[e.id[1]]
      /\ Timely(e, e.id[1]) /\ e.id[1] \in Nat \ {0}
      /\ log[e.id[1]][e.id[2]].type = "rotated" /\ log[e.id[1]][e.id[2]].slot = s
  BY <1>1, OfRecorded
<1>3. e.id[1] = e.due BY <1>1, <1>2 DEF Timely
<1>4. CalmAt(log, e.id[1], e.id[2]) BY <1>2 DEF ChainInv, RotationsCalm
<1>5. /\ Calm(log, s, e.due - RotationDelay, e.due - 1)
      /\ \A j \in DOMAIN log[e.due] :
            log[e.due][j].slot = s
            => log[e.due][j].type \notin Activity /\ (log[e.due][j].type = "rotated" => j = e.id[2])
  BY <1>2, <1>3, <1>4 DEF CalmAt
<1>6. log \in Seq(Seq(ChainEvent)) BY DEF ChainInv, ChainTyped
<1>7. DOMAIN log \subseteq Nat BY <1>6
<1>8. RotationDelay \in Nat \ {0} BY ChainAssumption
<1>9. ASSUME NEW h \in DOMAIN log, NEW i \in DOMAIN log[h],
             e.due - RotationDelay <= h, h < e.due, log[h][i].slot = s
      PROVE  (log[h][i].type \in Activity => h = e.due - RotationDelay) /\ log[h][i].type # "rotated"
  <2>1. h \in Nat /\ h <= e.due - 1 BY <1>2, <1>3, <1>7, <1>9
  <2>. QED BY <1>5, <1>9, <2>1 DEF Calm
<1>10. ASSUME NEW h \in DOMAIN log, NEW i \in DOMAIN log[h],
              e.due - RotationDelay < h, h <= e.due, log[h][i].slot = s
       PROVE  log[h][i].type \notin Activity /\ (log[h][i].type = "rotated" => h = e.due /\ i = e.id[2])
  <2>1. CASE h = e.due BY <1>5, <1>10, <2>1
  <2>2. CASE h # e.due
    <3>1. h \in Nat /\ h < e.due /\ e.due - RotationDelay <= h /\ h # e.due - RotationDelay
      BY <1>2, <1>3, <1>7, <1>8, <1>10, <2>2
    <3>. QED BY <1>9, <1>10, <3>1
  <2>. QED BY <2>1, <2>2
<1>. QED BY <1>1, <1>2, <1>3, <1>9, <1>10

\* Rotations of a slot are further apart than a request and its rotation.
LEMMA ComingApart ==
    ASSUME ChainInv, NEW s, NEW e \in Coming(s), NEW f \in Coming(s),
           e.due <= f.due, f.due <= e.due + RotationDelay
    PROVE  e = f
<1>1. /\ e \in Recorded /\ f \in Recorded /\ e.due = e.id[1] /\ f.due = f.id[1]
      /\ e.due \in DOMAIN log /\ e.due \in Nat /\ f.due \in Nat
  BY ComingCalm
<1>2. /\ e.id[2] \in DOMAIN log[e.due] /\ log[e.due][e.id[2]].slot = s /\ log[e.due][e.id[2]].type = "rotated"
      /\ e.id = <<e.id[1], e.id[2]>> /\ f.id = <<f.id[1], f.id[2]>>
  BY <1>1, OfRecorded, ComingCalm
<1>3. RotationDelay \in Nat \ {0} BY ChainAssumption
<1>4. CASE e.due = f.due
  <2>1. e.id[2] = f.id[2]
    <3>1. f.due - RotationDelay < e.due /\ e.due <= f.due BY <1>1, <1>3, <1>4
    <3>. QED BY <1>1, <1>2, <3>1, ComingCalm
  <2>2. e.id = f.id BY <1>1, <1>2, <1>4, <2>1
  <2>. QED BY <1>1, <2>2, SameEvent
<1>5. CASE e.due # f.due
  <2>1. f.due - RotationDelay <= e.due /\ e.due < f.due BY <1>1, <1>3, <1>5
  <2>2. FALSE BY <1>1, <1>2, <2>1, ComingCalm
  <2>. QED BY <2>2
<1>. QED BY <1>4, <1>5

\* A row that counts at a height is of a rotation applied there, or of one
\* requested there.
LEMMA RowCounts ==
    ASSUME ChainInv, NEW r, RowMade(r), NEW s \in Slots \ RotateInactive, NEW h \in Nat \ {0}, Counts(r, s, h)
    PROVE  \E e \in Coming(s) :
              /\ r.applied = e.id /\ r.new = NewKey(e) /\ r.due = e.due /\ Readable(e) /\ ~Ambiguous(e)
              /\ \/ e.due = h /\ r.applied[1] = h
                 \/ e.due = h + RotationDelay
<1>1. r.slot = s /\ IsApplied(r) /\ h \in HeightsOf(r) BY DEF Counts
<1>2. PICK e \in Recorded : ApplicationOf(r, e) BY <1>1 DEF RowMade
<1>3. e.slot = s /\ e.type \in {"rotated", "rotated_in_tx"} BY <1>1, <1>2 DEF ApplicationOf
<1>4. e.type = "rotated" BY <1>3, OfRecorded DEF Timely
<1>5. e \in Coming(s) BY <1>3, <1>4 DEF Coming
<1>6. e.id[1] = e.due BY <1>5, ComingCalm
<1>7. /\ r.applied = e.id /\ r.new = NewKey(e) /\ r.due = e.due /\ Readable(e) /\ ~Ambiguous(e)
  BY <1>2, <1>4 DEF ApplicationOf
<1>8. r.cancelled[1] # h
  <2>1. r.cancelled = NoEvent BY <1>1 DEF RowMade, IsApplied
  <2>. QED BY <2>1 DEF NoEvent
<1>9. CASE h = r.applied[1] BY <1>5, <1>6, <1>7, <1>9
<1>10. CASE h = r.request[1]
  <2>1. r.request # NoEvent BY <1>10 DEF NoEvent
  <2>2. PICK q \in Recorded : RequestOf(r, q) BY <2>1 DEF RowMade
  <2>3. q.id = r.request /\ q.type = "requested" /\ r.due = q.due BY <2>2 DEF RequestOf
  <2>4. q.due = h + RotationDelay BY <1>10, <2>3, OfRecorded DEF Timely
  <2>. QED BY <1>5, <1>7, <2>3, <2>4
<1>. QED BY <1>1, <1>8, <1>9, <1>10 DEF HeightsOf

(***************************************************************************)
(* A height of the map                                                     *)
(***************************************************************************)
Quiet(e, s) == e.slot = s => e.type \notin Activity /\ e.type # "rotated"

\* Nothing turns the key of a slot from a place on.
LEMMA KeyAlong ==
    ASSUME NEW events, Len(events) \in Nat, NEW s, NEW first, NEW last, Keyed(events, s, first, last),
           NEW j \in 0..Len(events), \A i \in (j + 1)..Len(events) : Quiet(events[i], s),
           j # 0 => events[j].slot = s /\ events[j].type = "rotated"
    PROVE  last = IF j = 0 THEN first ELSE events[j].new
<1> DEFINE N == Len(events)
           key == IF j = 0 THEN first ELSE events[j].new
<1>1. PICK keys \in [0..N -> SlotKey] :
         keys[0] = first /\ keys[N] = last /\ \A i \in 1..N : Turns(keys[i - 1], events[i], s, keys[i])
  BY DEF Keyed
<1> DEFINE Good(n) == keys[j + n] = key
           Shown == {n \in 0..(N - j) : Good(n)}
<1>2. N - j \in Nat /\ j \in Nat /\ N \in Nat OBVIOUS
<1>. HIDE DEF N, key
<1>3. Good(0)
  <2>1. CASE j = 0 BY <1>1, <2>1 DEF key
  <2>2. CASE j # 0
    <3>1. j \in 1..N /\ j + 0 = j /\ key = events[j].new BY <1>2, <2>2 DEF N, key
    <3>2. Turns(keys[j - 1], events[j], s, keys[j]) BY <1>1, <3>1
    <3>3. keys[j] = events[j].new BY <2>2, <3>2 DEF Turns
    <3>. QED BY <3>1, <3>3
  <2>. QED BY <2>1, <2>2
<1>4. ASSUME NEW n \in 0..(N - j - 1), Good(n) PROVE Good(n + 1)
  <2> DEFINE i == j + (n + 1)
  <2>1. i \in 1..N /\ i \in (j + 1)..N /\ i - 1 = j + n BY <1>2
  <2>2. Turns(keys[i - 1], events[i], s, keys[i]) BY <1>1, <2>1
  <2>3. Quiet(events[i], s) BY <2>1 DEF N
  <2>4. keys[i] = keys[i - 1] BY <2>2, <2>3 DEF Turns, Quiet, Activity
  <2>. HIDE DEF i
  <2>5. keys[i] = key BY <1>4, <2>1, <2>4
  <2>. QED BY <2>5 DEF i
<1>5. N - j \in Shown
  <2>1. 0 \in Shown BY <1>2, <1>3
  <2>2. \A n \in 0..(N - j - 1) : n \in Shown => n + 1 \in Shown
    <3>1. \A n \in 0..(N - j - 1) : n + 1 \in 0..(N - j) BY <1>2
    <3>. HIDE DEF Good
    <3>. QED BY <1>4, <3>1
  <2>. HIDE DEF Shown
  <2>3. 0..(N - j) \subseteq Shown BY <1>2, <2>1, <2>2, CountingUp
  <2>. QED BY <1>2, <2>3
<1>6. Good(N - j) BY <1>5
<1>7. j + (N - j) = N BY <1>2
<1>. QED BY <1>1, <1>6, <1>7 DEF key

LEMMA MembersTurn ==
    ASSUME ChainInv, NEW s \in Slots, NEW h \in DOMAIN log
    PROVE  /\ members[h + 1][s] \in SlotKey /\ members[h + 2][s] \in SlotKey
           /\ Keyed(log[h], s, members[h + 1][s], members[h + 2][s])
           /\ Len(log[h]) \in Nat /\ DOMAIN log[h] = 1..Len(log[h]) /\ h \in Nat \ {0}
<1>1. members \in Seq([Slots -> SlotKey]) /\ Len(members) = Len(log) + 2 /\ log \in Seq(Seq(ChainEvent))
  BY DEF ChainInv, ChainTyped
<1>2. h \in 1..Len(log) /\ Len(log) \in Nat BY <1>1
<1>3. h + 1 \in 1..Len(members) /\ h + 2 \in 1..Len(members) BY <1>1, <1>2
<1>4. members[h + 1] \in [Slots -> SlotKey] /\ members[h + 2] \in [Slots -> SlotKey] BY <1>1, <1>3
<1>5. Keyed(log[h], s, members[h + 1][s], members[h + 2][s]) BY DEF ChainInv, MembersFollow
<1>. QED BY <1>4, <1>5, EventsOf

\* The key of a slot that is left alone stays, and that of a rotation is new.
LEMMA MembersStay ==
    ASSUME ChainInv, NEW s \in Slots, NEW h \in DOMAIN log, \A i \in DOMAIN log[h] : Quiet(log[h][i], s)
    PROVE  members[h + 2][s] = members[h + 1][s]
<1>1. Len(log[h]) \in Nat /\ 0 \in 0..Len(log[h]) /\ \A i \in (0 + 1)..Len(log[h]) : Quiet(log[h][i], s)
  BY MembersTurn
<1>2. Keyed(log[h], s, members[h + 1][s], members[h + 2][s]) BY MembersTurn
<1>. QED BY ONLY <1>1, <1>2, KeyAlong

LEMMA MembersRotate ==
    ASSUME ChainInv, NEW s \in Slots, NEW e \in Coming(s)
    PROVE  members[e.due + 2][s] = e.new
<1> DEFINE h == e.due
           j == e.id[2]
<1>1. h \in DOMAIN log /\ e \in Recorded /\ e.id[1] = h BY ComingCalm
<1>2. /\ j \in DOMAIN log[h] /\ log[h][j].type = "rotated" /\ log[h][j].slot = s /\ log[h][j].new = e.new
  BY <1>1, OfRecorded, ComingCalm
<1>3. Len(log[h]) \in Nat /\ j \in 1..Len(log[h]) /\ h \in Nat BY <1>1, <1>2, MembersTurn
<1>4. ASSUME NEW i \in (j + 1)..Len(log[h]) PROVE Quiet(log[h][i], s)
  <2>1. i \in DOMAIN log[h] /\ i # j BY <1>1, <1>3, MembersTurn
  <2>2. h - RotationDelay < h BY <1>3, ChainAssumption
  <2>. QED BY <1>1, <1>3, <2>1, <2>2, ComingCalm DEF Quiet
<1>5. Keyed(log[h], s, members[h + 1][s], members[h + 2][s]) BY <1>1, MembersTurn
<1>6. j \in 0..Len(log[h]) /\ j # 0 BY <1>3
<1>. HIDE DEF h, j
<1>7. /\ Len(log[h]) \in Nat /\ j \in 0..Len(log[h])
      /\ Keyed(log[h], s, members[h + 1][s], members[h + 2][s])
      /\ \A i \in (j + 1)..Len(log[h]) : Quiet(log[h][i], s)
      /\ j # 0 => log[h][j].slot = s /\ log[h][j].type = "rotated"
  BY <1>2, <1>3, <1>4, <1>5, <1>6
<1>8. members[h + 2][s] = IF j = 0 THEN members[h + 1][s] ELSE log[h][j].new BY ONLY <1>7, KeyAlong
<1>. QED BY <1>2, <1>6, <1>8 DEF h

\* The map after a height.
Mapped(m, h) == MappingRotations(MappingEvents(m, EventsAt(h))[Len(log[h])], h)[Len(rotations)]

LEMMA RowsKnown ==
    ASSUME ChainInv, RotationsInv
    PROVE  /\ Len(rotations) \in Nat
           /\ \A i \in 1..Len(rotations) : rotations[i] \in RowType /\ RowMade(rotations[i])
<1>1. PICK whole \in SUBSET (1..Len(log)) : RowsMade(rotations, whole, whole) BY DEF RotationsInv
<1>2. rotations \in Seq(RowType) /\ \A i \in DOMAIN rotations : RowMade(rotations[i]) BY <1>1 DEF RowsMade
<1>. QED BY <1>2

\* A row counts no later than its rotation is due.
LEMMA CountsLate ==
    ASSUME ChainInv, RotationsInv, NEW s \in Slots, NEW h \in Nat \ {0},
           NEW i \in 1..Len(rotations), Counts(rotations[i], s, h)
    PROVE  h <= rotations[i].due
<1> DEFINE r == rotations[i]
<1>1. RowMade(r) /\ IsApplied(r) /\ h \in HeightsOf(r) BY RowsKnown DEF Counts
<1>. HIDE DEF r
<1>2. PICK e \in Recorded : ApplicationOf(r, e) BY <1>1 DEF RowMade
<1>3. /\ e.id = r.applied /\ r.due = e.due /\ e.due = e.id[1] /\ e.due \in Nat
  BY <1>2, OfRecorded, KeysRead DEF ApplicationOf, Timely
<1>4. r.cancelled[1] # h
  <2>1. r.cancelled = NoEvent BY <1>1 DEF RowMade, IsApplied
  <2>. QED BY <2>1 DEF NoEvent
<1>5. CASE h = r.applied[1] BY <1>3, <1>5 DEF r
<1>6. CASE h = r.request[1]
  <2>1. r.request # NoEvent BY <1>6 DEF NoEvent
  <2>2. PICK q \in Recorded : RequestOf(r, q) BY <1>1, <2>1 DEF RowMade
  <2>3. q.id = r.request /\ q.type = "requested" /\ r.due = q.due BY <2>2 DEF RequestOf
  <2>4. q.due = h + RotationDelay BY <1>6, <2>3, OfRecorded DEF Timely
  <2>. QED BY <2>3, <2>4, ChainAssumption DEF r
<1>. QED BY <1>1, <1>4, <1>5, <1>6 DEF HeightsOf

\* A height leaves the past of a slot as it was.
LEMMA MappedFollows ==
    ASSUME ChainInv, RotationsInv, NEW s \in Slots, NEW h \in DOMAIN log,
           NEW m, m.windows \in SUBSET WindowType
    PROVE  Follows(m, Mapped(m, h), s, h + 2)
<1> DEFINE c == MappingEvents(m, EventsAt(h))[Len(log[h])]
           n == MappingRotations(c, h)[Len(rotations)]
<1>1. h \in Nat \ {0} BY EventsOf
<1>2. Follows(m, c, s, h + 2) BY EventsFollow
<1>3. c.windows \in SUBSET WindowType BY <1>2 DEF Follows
<1>. HIDE DEF c
<1>4. /\ Len(rotations) \in Nat /\ \A i \in 1..Len(rotations) : rotations[i] \in RowType
      /\ \A i \in 1..Len(rotations) : Counts(rotations[i], s, h) => h <= rotations[i].due
  BY <1>1, RowsKnown, CountsLate
<1> DEFINE All == SUBSET WindowType
<1>5. Failure(h, s) \in c.failures \/ Of(c.windows, s) \in All BY <1>3, OfTyped
<1>6. ASSUME NEW i \in 1..Len(rotations), NEW d, d.windows \in SUBSET WindowType
      PROVE  Of(MapRotation(d, rotations[i]).windows, s) \in All
  <2>1. MapRotation(d, rotations[i]).windows \in SUBSET WindowType BY <1>4, <1>6, RotationFollows
  <2>. QED BY <2>1, OfTyped
<1>. HIDE DEF All
<1>7. Follows(c, n, s, h + 2)
  <2>1. \A i \in 1..Len(rotations) : \A d :
              /\ Counts(rotations[i], s, h)
              /\ d.windows \in SUBSET WindowType /\ Of(d.windows, s) \in All \union All
              => \/ Failure(h, s) \in MapRotation(d, rotations[i]).failures
                 \/ Of(MapRotation(d, rotations[i]).windows, s) \in All
    BY <1>6
  <2>. QED BY <1>1, <1>3, <1>4, <1>5, <2>1, RotationsFollow
<1>8. Follows(m, n, s, h + 2) BY <1>2, <1>7, FollowsBoth
<1>. QED BY <1>8 DEF c, n, Mapped

\* A height with a rotation of the slot.
LEMMA HeightApplied ==
    ASSUME ChainInv, RotationsInv, NEW s \in Slots \ RotateInactive, NEW h \in DOMAIN log, h <= rotated,
           NEW e \in Coming(s), e.due = h, Readable(e), ~Ambiguous(e),
           NEW m, m.windows \in SUBSET WindowType, Holds(m.windows, s, h + 1)
    PROVE  LET n == Mapped(m, h)
           IN  Failure(h, s) \in n.failures \/ Plain(Of(n.windows, s), members[h + 2][s], h + 2)
<1> DEFINE c == MappingEvents(m, EventsAt(h))[Len(log[h])]
           n == MappingRotations(c, h)[Len(rotations)]
           key == members[h + 1][s]
<1>1. h \in Nat \ {0} /\ RotationDelay \in Nat \ {0} /\ key \in SlotKey
  BY EventsOf, MembersTurn, ChainAssumption
<1>2. e \in EventRow /\ e \in Recorded /\ e.slot = s /\ e.type = "rotated" /\ e.id[1] = h BY ComingCalm
<1>3. Of(c.windows, s) = Of(m.windows, s) /\ c.windows \in SUBSET WindowType
  <2>1. \A i \in DOMAIN log[h] : log[h][i].slot = s => log[h][i].type \notin Activity
    <3>1. e.due - RotationDelay < h /\ h <= e.due BY <1>1
    <3>. QED BY <3>1, ComingCalm
  <2>2. Follows(m, c, s, h + 2) /\ Of(c.windows, s) = Of(m.windows, s) BY <2>1, EventsFollow
  <2>. QED BY <2>2 DEF Follows
<1>4. Plain(Of(m.windows, s), key, h + 1) \/ Early(Of(m.windows, s), key, h + 1, e)
  <2>1. ASSUME NEW f \in Coming(s), Early(Of(m.windows, s), key, h + 1, f) PROVE f = e
    <3>1. f.due \in Nat BY ComingCalm
    <3>2. e.due <= f.due /\ f.due <= e.due + RotationDelay BY <1>1, <2>1, <3>1 DEF Early
    <3>. QED BY <3>2, ComingApart
  <2>. QED BY <2>1 DEF Holds
<1>. HIDE DEF c, key
<1> DEFINE Before == {W \in SUBSET WindowType : Plain(W, key, h + 1) \/ Early(W, key, h + 1, e)}
           After == {W \in SUBSET WindowType : NewKey(e) # NoKey /\ Plain(W, NewKey(e), h + 2)}
<1>5. /\ Len(rotations) \in Nat /\ \A i \in 1..Len(rotations) : rotations[i] \in RowType
      /\ \A i \in 1..Len(rotations) : Counts(rotations[i], s, h) => h <= rotations[i].due
  BY <1>1, RowsKnown, CountsLate
<1>6. Failure(h, s) \in c.failures \/ Of(c.windows, s) \in Before BY <1>3, <1>4, OfTyped
<1>7. ASSUME NEW i \in 1..Len(rotations), Counts(rotations[i], s, h)
      PROVE  /\ IsApplied(rotations[i]) /\ rotations[i].slot = s /\ rotations[i].new = NewKey(e)
             /\ rotations[i].due = e.due /\ rotations[i].applied[1] = h
  <2>1. RowMade(rotations[i]) BY RowsKnown
  <2>2. PICK f \in Coming(s) :
           /\ rotations[i].new = NewKey(f) /\ rotations[i].due = f.due
           /\ \/ f.due = h /\ rotations[i].applied[1] = h
              \/ f.due = h + RotationDelay
    BY <1>1, <1>7, <2>1, RowCounts
  <2>3. e.due <= f.due /\ f.due <= e.due + RotationDelay BY <1>1, <2>2
  <2>4. e = f BY <2>3, ComingApart
  <2>5. f.due # h + RotationDelay BY <1>1, <2>4
  <2>. QED BY <1>7, <2>2, <2>4, <2>5 DEF Counts
<1>8. ASSUME NEW i \in 1..Len(rotations), NEW d, Counts(rotations[i], s, h),
             d.windows \in SUBSET WindowType, Of(d.windows, s) \in Before \union After
      PROVE  \/ Failure(h, s) \in MapRotation(d, rotations[i]).failures
             \/ Of(MapRotation(d, rotations[i]).windows, s) \in After
  <2> DEFINE r == rotations[i]
             o == MapRotation(d, r)
  <2>1. /\ r \in RowType /\ IsApplied(r) /\ r.slot = s /\ r.new = NewKey(e) /\ r.due = e.due
        /\ r.applied[1] = h /\ r.due = h
    BY <1>5, <1>7, <1>8
  <2>2. \/ Plain(Of(d.windows, r.slot), key, h + 1)
        \/ Early(Of(d.windows, r.slot), key, h + 1, e)
        \/ r.new # NoKey /\ Plain(Of(d.windows, r.slot), r.new, h + 2)
    BY <1>8, <2>1
  <2>. HIDE DEF r
  <2>3. Failure(h, r.slot) \in o.failures \/ (r.new # NoKey /\ Plain(Of(o.windows, r.slot), r.new, h + 2))
    BY <1>1, <1>2, <1>8, <2>1, <2>2, RotationDue
  <2>4. o.windows \in SUBSET WindowType BY <1>8, <2>1, RotationFollows
  <2>5. Of(o.windows, s) \in SUBSET WindowType BY <2>4, OfTyped
  <2>. QED BY <2>1, <2>3, <2>5 DEF r
<1>. HIDE DEF Before, After
<1>9. \/ Failure(h, s) \in n.failures
      \/ Of(n.windows, s) \in After
      \/ \A i \in 1..Len(rotations) : ~Counts(rotations[i], s, h)
  <2>1. \A i \in 1..Len(rotations) : \A d :
              /\ Counts(rotations[i], s, h)
              /\ d.windows \in SUBSET WindowType /\ Of(d.windows, s) \in Before \union After
              => \/ Failure(h, s) \in MapRotation(d, rotations[i]).failures
                 \/ Of(MapRotation(d, rotations[i]).windows, s) \in After
    BY <1>8
  <2>. QED BY <1>1, <1>3, <1>5, <1>6, <2>1, RotationsFollow
<1>10. \E i \in 1..Len(rotations) : Counts(rotations[i], s, h)
  <2>1. SettledAt(Book(rotations, drift), h) BY <1>1 DEF RotationsInv
  <2>2. e \in Range(EventsAt(h)) BY <1>2, OfRecorded
  <2>3. Settles(Book(rotations, drift), e) BY <1>2, <2>1, <2>2 DEF SettledAt
  <2>4. PICK i \in DOMAIN rotations : rotations[i].applied = e.id BY <2>3 DEF Settles, Book
  <2>5. i \in 1..Len(rotations)
    <3>1. PICK whole \in SUBSET (1..Len(log)) : RowsMade(rotations, whole, whole) BY DEF RotationsInv
    <3>2. rotations \in Seq(RowType) BY <3>1 DEF RowsMade
    <3>. QED BY <2>4, <3>2
  <2>6. RowMade(rotations[i]) BY <2>5, RowsKnown
  <2>7. ApplicationOf(rotations[i], e) /\ IsApplied(rotations[i]) BY <1>2, <2>4, <2>6, RowOfApplication
  <2>. QED BY <1>2, <2>4, <2>5, <2>7 DEF ApplicationOf, Counts, HeightsOf
<1>11. members[h + 2][s] = e.new BY MembersRotate
<1>12. NewKey(e) # NoKey => NewKey(e) = e.new BY DEF NewKey
<1>13. Failure(h, s) \in n.failures \/ Plain(Of(n.windows, s), members[h + 2][s], h + 2)
  BY <1>9, <1>10, <1>11, <1>12 DEF After
<1>. QED BY <1>13 DEF Mapped, c, n

\* A height without one, of a slot with no rotation mapped early.
LEMMA HeightPlain ==
    ASSUME ChainInv, RotationsInv, NEW s \in Slots \ RotateInactive, NEW h \in DOMAIN log,
           \A e \in Coming(s) : e.due # h, NEW m, m.windows \in SUBSET WindowType,
           Plain(Of(m.windows, s), members[h + 1][s], h + 1)
    PROVE  LET n == Mapped(m, h)
           IN  Failure(h, s) \in n.failures \/ Holds(n.windows, s, h + 2)
<1> DEFINE c == MappingEvents(m, EventsAt(h))[Len(log[h])]
           n == MappingRotations(c, h)[Len(rotations)]
           first == members[h + 1][s]
           key == members[h + 2][s]
           b == h + 2
<1>1. /\ h \in Nat \ {0} /\ RotationDelay \in Nat \ {0} /\ key \in SlotKey
      /\ Keyed(log[h], s, first, key) /\ b \in Nat \ {0}
  BY EventsOf, MembersTurn, ChainAssumption
<1>2. c.windows \in SUBSET WindowType
  <2>1. Follows(m, c, s, h + 2) BY EventsFollow
  <2>. QED BY <2>1 DEF Follows
<1>3. Failure(h, s) \in c.failures \/ Plain(Of(c.windows, s), key, b)
  <2>1. Plain(Of(m.windows, s), first, h + 2)
    <3>1. Of(m.windows, s) \in SUBSET WindowType /\ h + 1 \in Nat /\ h + 1 + 1 = h + 2 BY <1>1, OfTyped
    <3>2. Plain(Of(m.windows, s), first, h + 1 + 1) BY <3>1, PlainUp
    <3>. QED BY <3>1, <3>2
  <2>2. \A i \in DOMAIN log[h] : log[h][i].slot = s => log[h][i].type # "rotated"
    <3>1. ASSUME NEW i \in DOMAIN log[h], log[h][i].slot = s, log[h][i].type = "rotated" PROVE FALSE
      <4> DEFINE e == EventsAt(h)[i]
      <4>1. e \in Recorded /\ e.type = "rotated" /\ e.slot = s /\ e.id[1] = h BY <3>1, EventsOf
      <4>. HIDE DEF e
      <4>2. e \in Coming(s) BY <4>1 DEF Coming
      <4>. QED BY <4>1, <4>2, ComingCalm
    <3>. QED BY <3>1
  <2>. HIDE DEF first, key
  <2>. QED BY <1>1, <2>1, <2>2, EventsTurn
<1>. HIDE DEF c, first, key
<1>4. /\ Len(rotations) \in Nat /\ \A i \in 1..Len(rotations) : rotations[i] \in RowType
      /\ \A i \in 1..Len(rotations) : Counts(rotations[i], s, h) => h <= rotations[i].due
  BY <1>1, RowsKnown, CountsLate
<1>5. CASE \A i \in 1..Len(rotations) : ~Counts(rotations[i], s, h)
  <2> DEFINE Before == {Of(c.windows, s)}
             After == {}
  <2>1. Failure(h, s) \in c.failures \/ Of(c.windows, s) \in Before OBVIOUS
  <2>2. \A i \in 1..Len(rotations) : \A d :
              /\ Counts(rotations[i], s, h)
              /\ d.windows \in SUBSET WindowType /\ Of(d.windows, s) \in Before \union After
              => \/ Failure(h, s) \in MapRotation(d, rotations[i]).failures
                 \/ Of(MapRotation(d, rotations[i]).windows, s) \in After
    BY <1>5
  <2>. HIDE DEF Before, After
  <2>3. /\ Follows(c, n, s, h + 2)
        /\ \/ Failure(h, s) \in n.failures
           \/ Of(n.windows, s) \in After \/ Of(n.windows, s) \in Before
    BY <1>1, <1>2, <1>4, <2>1, <2>2, RotationsFollow
  <2>4. Failure(h, s) \in n.failures \/ Of(n.windows, s) = Of(c.windows, s) BY <2>3 DEF Before, After
  <2>5. c.failures \subseteq n.failures BY <2>3 DEF Follows
  <2>6. Failure(h, s) \in n.failures \/ Plain(Of(n.windows, s), key, b) BY <1>3, <2>4, <2>5
  <2>. QED BY <2>6 DEF Holds, Mapped, c, n, key, b
<1>6. CASE \E i \in 1..Len(rotations) : Counts(rotations[i], s, h)
  <2>1. ASSUME NEW i \in 1..Len(rotations), Counts(rotations[i], s, h)
        PROVE  /\ IsApplied(rotations[i]) /\ rotations[i].slot = s
               /\ \E e \in Coming(s) : /\ rotations[i].new = NewKey(e) /\ rotations[i].due = e.due
                                       /\ e.due = h + RotationDelay
    <3>1. RowMade(rotations[i]) BY RowsKnown
    <3>. QED BY <1>1, <2>1, <3>1, RowCounts DEF Counts
  <2>2. PICK e \in Coming(s) : e.due = h + RotationDelay BY <1>6, <2>1
  <2>3. e \in EventRow /\ b < e.due + 2 /\ e.due - RotationDelay + 2 <= b BY <1>1, <2>2, ComingCalm
  <2>4. ASSUME NEW i \in 1..Len(rotations), Counts(rotations[i], s, h)
        PROVE  rotations[i].new = NewKey(e) /\ rotations[i].due = e.due
    <3>1. PICK f \in Coming(s) : /\ rotations[i].new = NewKey(f) /\ rotations[i].due = f.due
                                 /\ f.due = h + RotationDelay
      BY <2>1, <2>4
    <3>2. e.due <= f.due /\ f.due <= e.due + RotationDelay BY <1>1, <2>2, <3>1
    <3>. QED BY <3>1, <3>2, ComingApart
  <2> DEFINE Before == {W \in SUBSET WindowType : Plain(W, key, b) \/ Early(W, key, b, e)}
  <2>5. Failure(h, s) \in c.failures \/ Of(c.windows, s) \in Before BY <1>2, <1>3, OfTyped
  <2>6. ASSUME NEW i \in 1..Len(rotations), NEW d, Counts(rotations[i], s, h),
               d.windows \in SUBSET WindowType, Of(d.windows, s) \in Before
        PROVE  Of(MapRotation(d, rotations[i]).windows, s) \in Before
    <3> DEFINE r == rotations[i]
               o == MapRotation(d, r)
    <3>1. r \in RowType /\ r.slot = s /\ r.new = NewKey(e) /\ r.due = e.due BY <1>4, <2>1, <2>4, <2>6
    <3>2. Plain(Of(d.windows, r.slot), key, b) \/ Early(Of(d.windows, r.slot), key, b, e) BY <2>6, <3>1
    <3>. HIDE DEF r, b
    <3>3. Plain(Of(o.windows, r.slot), key, b) \/ Early(Of(o.windows, r.slot), key, b, e)
      BY <1>1, <2>3, <2>6, <3>1, <3>2, RotationEarly
    <3>4. o.windows \in SUBSET WindowType BY <2>6, <3>1, RotationFollows
    <3>5. Of(o.windows, s) \in SUBSET WindowType BY <3>4, OfTyped
    <3>. QED BY <3>1, <3>3, <3>5 DEF r
  <2>. HIDE DEF Before
  <2>7. \A i \in 1..Len(rotations) : \A d :
              /\ Counts(rotations[i], s, h)
              /\ d.windows \in SUBSET WindowType /\ Of(d.windows, s) \in Before \union Before
              => \/ Failure(h, s) \in MapRotation(d, rotations[i]).failures
                 \/ Of(MapRotation(d, rotations[i]).windows, s) \in Before
    BY <2>6
  <2>8. Failure(h, s) \in n.failures \/ Of(n.windows, s) \in Before
    BY <1>1, <1>2, <1>4, <2>5, <2>7, RotationsFollow
  <2>9. \/ Failure(h, s) \in n.failures
        \/ Plain(Of(n.windows, s), key, b) \/ Early(Of(n.windows, s), key, b, e)
    BY <2>8 DEF Before
  <2>. QED BY <2>2, <2>9 DEF Holds, Mapped, c, n, key, b
<1>. QED BY <1>5, <1>6

\* A height before a rotation that is mapped already.
LEMMA HeightEarly ==
    ASSUME ChainInv, RotationsInv, NEW s \in Slots \ RotateInactive, NEW h \in DOMAIN log,
           NEW e \in Coming(s), e.due # h, NEW m, m.windows \in SUBSET WindowType,
           Early(Of(m.windows, s), members[h + 1][s], h + 1, e)
    PROVE  LET n == Mapped(m, h)
           IN  Failure(h, s) \in n.failures \/ Holds(n.windows, s, h + 2)
<1> DEFINE c == MappingEvents(m, EventsAt(h))[Len(log[h])]
           n == MappingRotations(c, h)[Len(rotations)]
           key == members[h + 1][s]
<1>1. h \in Nat \ {0} /\ RotationDelay \in Nat \ {0} /\ e.due \in Nat /\ e.slot = s /\ e \in EventRow
  BY EventsOf, ChainAssumption, ComingCalm
<1>2. h < e.due /\ e.due - RotationDelay < h BY <1>1 DEF Early
<1>3. \A i \in DOMAIN log[h] : Quiet(log[h][i], s) BY <1>1, <1>2, ComingCalm DEF Quiet
<1>4. members[h + 2][s] = key BY <1>3, MembersStay
<1>5. Of(c.windows, s) = Of(m.windows, s) /\ c.windows \in SUBSET WindowType
  <2>1. Follows(m, c, s, h + 2) /\ Of(c.windows, s) = Of(m.windows, s) BY <1>3, EventsFollow DEF Quiet
  <2>. QED BY <2>1 DEF Follows
<1>. HIDE DEF c, key
<1>6. /\ Len(rotations) \in Nat /\ \A i \in 1..Len(rotations) : rotations[i] \in RowType
      /\ \A i \in 1..Len(rotations) : Counts(rotations[i], s, h) => h <= rotations[i].due
  BY <1>1, RowsKnown, CountsLate
<1>7. ASSUME NEW i \in 1..Len(rotations), Counts(rotations[i], s, h) PROVE FALSE
  <2>1. RowMade(rotations[i]) BY RowsKnown
  <2>2. PICK f \in Coming(s) : f.due = h \/ f.due = h + RotationDelay BY <1>1, <1>7, <2>1, RowCounts
  <2>3. CASE f.due = h
    <3>1. f.due <= e.due /\ e.due <= f.due + RotationDelay BY <1>1, <1>2, <2>3
    <3>. QED BY <2>3, <3>1, ComingApart
  <2>4. CASE f.due = h + RotationDelay
    <3>1. e.due <= f.due /\ f.due <= e.due + RotationDelay /\ e.due # f.due BY <1>1, <1>2, <2>4
    <3>. QED BY <3>1, ComingApart
  <2>. QED BY <2>2, <2>3, <2>4
<1> DEFINE Before == {Of(c.windows, s)}
           After == {}
<1>8. Failure(h, s) \in c.failures \/ Of(c.windows, s) \in Before OBVIOUS
<1>9. \A i \in 1..Len(rotations) : \A d :
              /\ Counts(rotations[i], s, h)
              /\ d.windows \in SUBSET WindowType /\ Of(d.windows, s) \in Before \union After
              => \/ Failure(h, s) \in MapRotation(d, rotations[i]).failures
                 \/ Of(MapRotation(d, rotations[i]).windows, s) \in After
  BY <1>7
<1>. HIDE DEF Before, After
<1>10. \/ Failure(h, s) \in n.failures
       \/ Of(n.windows, s) \in After \/ Of(n.windows, s) \in Before
  BY <1>1, <1>5, <1>6, <1>8, <1>9, RotationsFollow
<1>11. Failure(h, s) \in n.failures \/ Of(n.windows, s) = Of(m.windows, s)
  BY <1>5, <1>10 DEF Before, After
<1>12. Early(Of(m.windows, s), key, h + 2, e)
  <2>1. Of(m.windows, s) \in SUBSET WindowType /\ h + 1 \in Nat /\ h + 1 < e.due + 1 /\ h + 1 + 1 = h + 2
    BY <1>1, <1>2, OfTyped
  <2>2. Early(Of(m.windows, s), key, h + 1, e) BY DEF key
  <2>3. Early(Of(m.windows, s), key, h + 1 + 1, e) BY <1>1, <2>1, <2>2, EarlyUp
  <2>. QED BY <2>1, <2>3
<1>13. Failure(h, s) \in n.failures \/ Early(Of(n.windows, s), members[h + 2][s], h + 2, e)
  BY <1>4, <1>11, <1>12
<1>. QED BY <1>13 DEF Holds, Mapped, c, n

LEMMA MappedTyped ==
    ASSUME ChainInv, RotationsInv, NEW h \in DOMAIN log, NEW m, m.windows \in SUBSET WindowType
    PROVE  Mapped(m, h).windows \in SUBSET WindowType
<1> DEFINE events == EventsAt(h)
           N == Len(events)
           map == MappingEvents(m, events)
           c == map[N]
           R == Len(rotations)
           after == MappingRotations(c, h)
<1>1. /\ N \in Nat /\ N = Len(log[h])
      /\ \A i \in 1..N : events[i] \in EventRow /\ events[i].id[1] \in Nat
  BY EventsOf
<1>2. map[0] = m /\ \A n \in 1..N : map[n] = MapLifecycleEvent(map[n - 1], events[n])
  BY <1>1, MappingEventsFollow
<1>3. R \in Nat /\ \A i \in 1..R : rotations[i] \in RowType BY RowsKnown
<1>4. /\ after[0] = c
      /\ \A n \in 1..R : \/ after[n] = MapRotation(after[n - 1], rotations[n])
                         \/ after[n] = after[n - 1]
  BY <1>3, MappingRotationsFollow
<1>. HIDE DEF events, N, map, R, after, c
<1>5. c.windows \in SUBSET WindowType
  <2> DEFINE Good(n) == map[n].windows \in SUBSET WindowType
             Shown == {n \in 0..N : Good(n)}
  <2>1. ASSUME NEW n \in 0..(N - 1), Good(n) PROVE Good(n + 1)
    <3>1. n + 1 \in 1..N /\ n + 1 - 1 = n BY <1>1
    <3>2. map[n + 1] = MapLifecycleEvent(map[n], events[n + 1]) /\ events[n + 1] \in EventRow
          /\ events[n + 1].id[1] \in Nat
      BY <1>1, <1>2, <3>1
    <3>3. events[n + 1].slot \in Slots BY <3>2 DEF EventRow
    <3>. QED BY <2>1, <3>2, <3>3, LifecycleFollows DEF Follows
  <2>2. N \in Shown
    <3>1. 0 \in Shown BY <1>1, <1>2
    <3>2. \A n \in 0..(N - 1) : n \in Shown => n + 1 \in Shown
      <4>1. \A n \in 0..(N - 1) : n + 1 \in 0..N BY <1>1
      <4>. HIDE DEF Good
      <4>. QED BY <2>1, <4>1
    <3>. HIDE DEF Shown
    <3>3. 0..N \subseteq Shown BY <1>1, <3>1, <3>2, CountingUp
    <3>. QED BY <1>1, <3>3
  <2>. QED BY <2>2 DEF c
<1>6. after[R].windows \in SUBSET WindowType
  <2> DEFINE Good(n) == after[n].windows \in SUBSET WindowType
             Shown == {n \in 0..R : Good(n)}
  <2>1. ASSUME NEW n \in 0..(R - 1), Good(n) PROVE Good(n + 1)
    <3>1. n + 1 \in 1..R /\ n + 1 - 1 = n BY <1>3
    <3>2. /\ \/ after[n + 1] = MapRotation(after[n], rotations[n + 1])
             \/ after[n + 1] = after[n]
          /\ rotations[n + 1] \in RowType
      BY <1>3, <1>4, <3>1
    <3>. QED BY <2>1, <3>2, RotationFollows
  <2>2. R \in Shown
    <3>1. 0 \in Shown BY <1>3, <1>4, <1>5
    <3>2. \A n \in 0..(R - 1) : n \in Shown => n + 1 \in Shown
      <4>1. \A n \in 0..(R - 1) : n + 1 \in 0..R BY <1>3
      <4>. HIDE DEF Good
      <4>. QED BY <2>1, <4>1
    <3>. HIDE DEF Shown
    <3>3. 0..R \subseteq Shown BY <1>3, <3>1, <3>2, CountingUp
    <3>. QED BY <1>3, <3>3
  <2>. QED BY <2>2
<1>. QED BY <1>1, <1>6 DEF Mapped, after, R, c, map, N, events

\* What a height does to a slot: a failure, or windows that say who validates.
LEMMA HeightMapped ==
    ASSUME ChainInv, RotationsInv, NEW s \in Slots \ RotateInactive, NEW h \in DOMAIN log, h <= rotated,
           \A e \in Coming(s) : e.due = h => Readable(e) /\ ~Ambiguous(e),
           NEW m, m.windows \in SUBSET WindowType, Holds(m.windows, s, h + 1)
    PROVE  LET n == Mapped(m, h)
           IN  Failure(h, s) \in n.failures \/ Holds(n.windows, s, h + 2)
<1>1. CASE \E e \in Coming(s) : e.due = h
  <2>1. PICK e \in Coming(s) : e.due = h BY <1>1
  <2>2. Readable(e) /\ ~Ambiguous(e) BY <2>1
  <2>. QED BY <2>1, <2>2, HeightApplied DEF Holds
<1>2. CASE \A e \in Coming(s) : e.due # h
  <2>1. CASE Plain(Of(m.windows, s), members[h + 1][s], h + 1) BY <1>2, <2>1, HeightPlain
  <2>2. CASE \E e \in Coming(s) : Early(Of(m.windows, s), members[h + 1][s], h + 1, e)
    <3>1. PICK e \in Coming(s) : Early(Of(m.windows, s), members[h + 1][s], h + 1, e) BY <2>2
    <3>. QED BY <1>2, <3>1, HeightEarly
  <2>. QED BY <2>1, <2>2 DEF Holds
<1>. QED BY <1>1, <1>2

LEMMA HoldsKeysAt ==
    ASSUME ChainInv, NEW W \in SUBSET WindowType, NEW s \in Slots, NEW h \in 1..(Len(log) + 2), Holds(W, s, h)
    PROVE  KeysAt(W, s, h) = {members[h][s]} \ {NoKey}
<1>1. members \in Seq([Slots -> SlotKey]) /\ Len(members) = Len(log) + 2 BY DEF ChainInv, ChainTyped
<1>2. members[h] \in [Slots -> SlotKey] BY <1>1
<1>3. members[h][s] \in SlotKey /\ h \in Nat BY <1>2
<1>4. \A e \in Coming(s) : e \in EventRow BY ComingCalm
<1>. QED BY <1>3, <1>4, HoldsKeys DEF Holds

LEMMA MapHeightKeeps ==
    ASSUME ChainInv, RotationsInv, MapInv, MapHeight
    PROVE  MapInv'
<1> DEFINE h == mapped + 1
           cleared == Map(windows, {f \in failures : f.height # h})
           n == Mapped(cleared, h)
<1>1. /\ log' = log /\ members' = members
      /\ windows' = n.windows /\ failures' = n.failures /\ mapped' = h /\ mapped < rotated
  BY DEF MapHeight, Mapped, chainVars
<1>2. /\ windows \in SUBSET WindowType /\ mapped \in 0..Len(log) /\ rotated \in 0..Len(log)
      /\ \A s \in Slots \ (RotateInactive \union Failing) : SlotMapped(s)
  BY DEF MapInv, RotationsInv
<1>3. Len(log) \in Nat /\ DOMAIN log = 1..Len(log)
  <2>1. log \in Seq(Seq(ChainEvent)) BY DEF ChainInv, ChainTyped
  <2>. QED BY <2>1
<1>4. h \in DOMAIN log /\ h \in Nat \ {0} /\ h <= rotated /\ h \in 0..Len(log) /\ h + 1 = mapped + 2
      /\ h + 2 \in 1..(Len(log) + 2)
  BY <1>1, <1>2, <1>3
<1>5. /\ cleared.windows = windows
      /\ \A f \in failures : f.height # h => f \in cleared.failures
  BY DEF Map
<1>. HIDE DEF cleared, n
<1>6. n.windows \in SUBSET WindowType BY <1>2, <1>4, <1>5, MappedTyped DEF n
<1>7. ASSUME NEW s PROVE Coming(s)' = Coming(s) BY <1>1 DEF Coming, Recorded, EventsAt
<1>8. ASSUME NEW e PROVE Ambiguous(e)' <=> Ambiguous(e)
  BY <1>1 DEF Ambiguous, Requests, Recorded, EventsAt
<1>9. ASSUME NEW s \in Slots \ (RotateInactive \union Failing') PROVE SlotMapped(s)'
  <2>1. /\ \A g \in 0..h : Failure(g, s) \notin n.failures
        /\ \A e \in Coming(s) : e.due <= h => Readable(e) /\ ~Ambiguous(e)
    BY <1>1, <1>7, <1>8, <1>9 DEF Failing
  <2>2. Follows(cleared, n, s, h + 2) BY <1>2, <1>4, <1>5, MappedFollows DEF n
  <2>3. cleared.failures \subseteq n.failures /\ Past(windows, n.windows, s, h + 2)
    BY <1>5, <2>2 DEF Follows
  <2>4. s \notin Failing
    <3>1. ASSUME NEW g \in 0..mapped, Failure(g, s) \in failures PROVE FALSE
      <4>1. g # h /\ g \in 0..h BY <1>2, <1>4
      <4>2. Failure(g, s).height = g BY DEF Failure
      <4>3. Failure(g, s) \in cleared.failures BY <1>5, <3>1, <4>1, <4>2
      <4>. QED BY <2>1, <2>3, <4>1, <4>3
    <3>2. ASSUME NEW e \in Coming(s), e.due <= mapped PROVE Readable(e) /\ ~Ambiguous(e)
      <4>1. e.due <= h BY <1>2, <3>2, ComingCalm
      <4>. QED BY <2>1, <4>1
    <3>. QED BY <3>1, <3>2 DEF Failing
  <2>5. SlotMapped(s) BY <1>2, <1>9, <2>4
  <2>6. /\ \A y \in 1..(h + 1) : KeysAt(windows, s, y) = {members[y][s]} \ {NoKey}
        /\ Holds(windows, s, h + 1)
    BY <1>4, <2>5 DEF SlotMapped, Settled
  <2>7. \A e \in Coming(s) : e.due = h => Readable(e) /\ ~Ambiguous(e) BY <1>4, <2>1
  <2>8. Failure(h, s) \in n.failures \/ Holds(n.windows, s, h + 2)
    BY <1>2, <1>4, <1>5, <2>6, <2>7, HeightMapped DEF n
  <2>9. Holds(n.windows, s, h + 2) BY <1>4, <2>1, <2>8
  <2>10. KeysAt(n.windows, s, h + 2) = {members[h + 2][s]} \ {NoKey} BY <1>4, <1>6, <2>9, HoldsKeysAt
  <2>11. ASSUME NEW y \in 1..(h + 2) PROVE KeysAt(n.windows, s, y) = {members[y][s]} \ {NoKey}
    <3>1. CASE y = h + 2 BY <2>10, <3>1
    <3>2. CASE y # h + 2
      <4>1. y \in 1..(h + 1) /\ y \in 1..(h + 2 - 1) BY <1>4, <3>2
      <4>2. KeysAt(n.windows, s, y) = KeysAt(windows, s, y)
        <5>1. \A x \in 1..(h + 2 - 1) : KeysAt(n.windows, s, x) = KeysAt(windows, s, x) BY <1>4, <2>3 DEF Past
        <5>. QED BY <4>1, <5>1
      <4>3. KeysAt(windows, s, y) = {members[y][s]} \ {NoKey} BY <2>6, <4>1
      <4>. QED BY <4>2, <4>3
    <3>. QED BY <3>1, <3>2
  <2>12. Settled' = 1..(h + 2) BY <1>1 DEF Settled
  <2>13. Holds(windows, s, mapped + 2)' BY <1>1, <1>7, <2>9 DEF Holds
  <2>14. \A y \in Settled' : KeysAt(windows', s, y) = {members'[y][s]} \ {NoKey}
    BY <1>1, <2>11, <2>12
  <2>. QED BY <2>13, <2>14 DEF SlotMapped
<1>10. windows' \subseteq WindowType /\ mapped' \in 0..Len(log') BY <1>1, <1>4, <1>6
<1>. QED BY <1>9, <1>10 DEF MapInv

(***************************************************************************)
(* The seed                                                                *)
(***************************************************************************)
LEMMA SeedingFollows ==
    ASSUME Cardinality(GenesisActive) \in Nat
    PROVE  /\ Seeding[0] = Map({}, {})
           /\ \A n \in 1..Cardinality(GenesisActive) : Seeding[n] =
               SeedGenesisSlot(Seeding[n - 1], AnOrder(GenesisActive)[n])
<1> DEFINE N == Cardinality(GenesisActive)
           Body(g, n) == IF n = 0 THEN Map({}, {}) ELSE SeedGenesisSlot(g[n - 1], AnOrder(GenesisActive)[n])
           Shown == {n \in 0..N : \E g : g = [i \in 0..n |-> Body(g, i)]}
<1>1. N \in Nat OBVIOUS
<1>. HIDE DEF N
<1>2. 0 \in Shown
  <2> DEFINE g == [i \in 0..0 |-> Map({}, {})]
  <2>1. g = [i \in 0..0 |-> Body(g, i)] OBVIOUS
  <2>2. \E x : x = [i \in 0..0 |-> Body(x, i)] BY <2>1
  <2>. HIDE DEF Body
  <2>. QED BY <1>1, <2>2
<1>3. ASSUME NEW n \in 0..(N - 1), n \in Shown PROVE n + 1 \in Shown
  <2>1. PICK g : g = [i \in 0..n |-> Body(g, i)] BY <1>3
  <2> DEFINE next == [i \in 0..(n + 1) |-> Body(g, i)]
  <2>2. ASSUME NEW i \in 0..(n + 1), i # 0 PROVE next[i - 1] = g[i - 1]
    <3>1. i - 1 \in 0..n /\ i - 1 \in 0..(n + 1) BY <2>2
    <3>. HIDE DEF Body
    <3>. QED BY <2>1, <3>1
  <2>. HIDE DEF next
  <2>3. \A i \in 0..(n + 1) : Body(next, i) = Body(g, i) BY <2>2
  <2>4. next = [i \in 0..(n + 1) |-> Body(next, i)]
    <3>1. next = [i \in 0..(n + 1) |-> Body(g, i)] BY DEF next
    <3>. HIDE DEF Body
    <3>. QED BY <2>3, <3>1
  <2>5. \E x : x = [i \in 0..(n + 1) |-> Body(x, i)] BY <2>4
  <2>6. n + 1 \in 0..N BY <1>1, <1>3
  <2>. HIDE DEF Body
  <2>. QED BY <2>5, <2>6
<1>4. N \in Shown
  <2>. HIDE DEF Shown
  <2>1. 0..N \subseteq Shown BY <1>1, <1>2, <1>3, CountingUp
  <2>. QED BY <1>1, <2>1
<1>5. \E g : g = [i \in 0..N |-> Body(g, i)] BY <1>4
<1> DEFINE f == Seeding
<1>6. f = CHOOSE g : g = [i \in 0..N |-> Body(g, i)] BY DEF Seeding, N
<1>7. f = [i \in 0..N |-> Body(f, i)]
  <2>. HIDE DEF Body, f
  <2>. QED BY <1>5, <1>6
<1>. HIDE DEF f
<1>8. \A i \in 0..N : f[i] = Body(f, i)
  <2>. HIDE DEF Body
  <2>. QED BY <1>7
<1>9. f[0] = Map({}, {}) BY <1>1, <1>8
<1>10. ASSUME NEW n \in 1..N PROVE f[n] = SeedGenesisSlot(f[n - 1], AnOrder(GenesisActive)[n]) BY <1>1, <1>8
<1>. QED BY <1>9, <1>10 DEF f, N

LEMMA GenesisSlotSeeded ==
    ASSUME NEW m, m.windows \in SUBSET WindowType, NEW t \in Slots, Of(m.windows, t) = {}
    PROVE  LET n == SeedGenesisSlot(m, t)
           IN  /\ n.windows \in SUBSET WindowType /\ m.failures \subseteq n.failures
               /\ \A s \in Slots : s # t => Of(n.windows, s) = Of(m.windows, s)
               /\ \/ Failure(0, t) \in n.failures
                  \/ Of(n.windows, t) = {KeyWindow(t, GenesisKey[t], 1, NoEnd)}
<1> DEFINE n == SeedGenesisSlot(m, t)
           k == GenesisKey[t]
           W == m.windows
           new == KeyWindow(t, k, 1, NoEnd)
<1>1. CASE t \in nameless
  <2>1. n = Map(W, m.failures \union {Failure(0, t)}) BY <1>1 DEF SeedGenesisSlot, SeedFailureHeight
  <2>. HIDE DEF n
  <2>2. n.windows = W /\ n.failures = m.failures \union {Failure(0, t)} BY <2>1 DEF Map
  <2>. QED BY <2>2 DEF n
<1>2. CASE t \notin nameless
  <2>1. n = OpenActive(m, t, k, 1, 0) BY <1>2 DEF SeedGenesisSlot, SeedFailureHeight
  <2>2. k \in Keys /\ 1 \in Nat \ {0} BY ChainAssumption
  <2>. HIDE DEF n, k
  <2>3. /\ n.windows = Open(W, t, k, 1) /\ n.windows \in SUBSET WindowType
        /\ m.failures \subseteq n.failures
        /\ ~CanOpen(W, t, k, 1) => Failure(0, t) \in n.failures
        /\ \A s \in Slots : s # t => Of(n.windows, s) = Of(W, s)
    BY <2>1, <2>2, OpenActiveFollows
  <2>4. CASE CanOpen(W, t, k, 1)
    <3>1. ~HasWindow(W, t, k, 1) BY DEF Of, HasWindow
    <3>2. OpenOf(W, t) = {} BY DEF Of, OpenOf
    <3>3. Open(W, t, k, 1) = W \union {new} BY <2>4, <3>1, <3>2, CloseNone DEF Open, Opened
    <3>4. new.slot = t BY DEF KeyWindow
    <3>. HIDE DEF new
    <3>5. Of(W \union {new}, t) = {new} BY <3>4 DEF Of
    <3>. QED BY <2>3, <3>3, <3>5 DEF n, k, new
  <2>5. CASE ~CanOpen(W, t, k, 1) BY <2>3, <2>5 DEF n
  <2>. QED BY <2>4, <2>5
<1>. QED BY <1>1, <1>2

\* Each slot that validates from block 1 has its window, or a failure.
LEMMA SeededWindows ==
    /\ Seeded.windows \in SUBSET WindowType
    /\ \A s \in Slots : \/ Failure(0, s) \in Seeded.failures
                        \/ Of(Seeded.windows, s) = IF s \in GenesisActive
                                                   THEN {KeyWindow(s, GenesisKey[s], 1, NoEnd)} ELSE {}
<1> DEFINE N == Cardinality(GenesisActive)
           order == AnOrder(GenesisActive)
           map == Seeding
<1>1. /\ order \in [1..N -> GenesisActive] /\ N \in Nat
      /\ \A x \in GenesisActive : \E i \in 1..N : order[i] = x
      /\ \A i, j \in 1..N : order[i] = order[j] => i = j
  <2>1. IsFiniteSet(GenesisActive) BY ChainAssumption, FS_Subset
  <2>. QED BY <2>1, OrderExists
<1>2. map[0] = Map({}, {}) /\ \A n \in 1..N : map[n] = SeedGenesisSlot(map[n - 1], order[n])
  BY <1>1, SeedingFollows
<1>. HIDE DEF N, order, map
<1> DEFINE Placed(s, n) == \E i \in 1..n : order[i] = s
           One(s) == {KeyWindow(s, GenesisKey[s], 1, NoEnd)}
           Done(m, s) == Failure(0, s) \in m.failures \/ Of(m.windows, s) = One(s)
           Good(n) == /\ map[n].windows \in SUBSET WindowType
                      /\ \A s \in Slots : /\ Placed(s, n) => Done(map[n], s)
                                          /\ ~Placed(s, n) => Of(map[n].windows, s) = {}
           Shown == {n \in 0..N : Good(n)}
<1>3. Good(0)
  <2>1. map[0].windows = {} BY <1>2 DEF Map
  <2>2. \A s : ~Placed(s, 0) OBVIOUS
  <2>. HIDE DEF Placed, Done
  <2>. QED BY <2>1, <2>2 DEF Of
<1>4. ASSUME NEW n \in 0..(N - 1), Good(n) PROVE Good(n + 1)
  <2> DEFINE m == map[n]
             o == map[n + 1]
             t == order[n + 1]
  <2>1. n + 1 \in 1..N /\ n + 1 - 1 = n /\ n \in 0..N /\ t \in Slots
    BY <1>1, ChainAssumption
  <2>2. o = SeedGenesisSlot(m, t) BY <1>2, <2>1
  <2>3. ~Placed(t, n)
    <3>1. ASSUME NEW i \in 1..n, order[i] = t PROVE FALSE
      <4>1. i \in 1..N /\ i # n + 1 BY <1>1, <2>1
      <4>. QED BY <1>1, <2>1, <3>1, <4>1
    <3>. QED BY <3>1
  <2>4. \A s : s # t => (Placed(s, n + 1) <=> Placed(s, n))
    <3>1. \A i \in 1..(n + 1) : i \in 1..n \/ i = n + 1 BY <1>1, <2>1
    <3>2. \A i \in 1..n : i \in 1..(n + 1) BY <1>1, <2>1
    <3>. QED BY <3>1, <3>2
  <2>5. Placed(t, n + 1)
    <3>1. n + 1 \in 1..(n + 1) BY <1>1, <2>1
    <3>. QED BY <3>1
  <2>6. m.windows \in SUBSET WindowType /\ Of(m.windows, t) = {} BY <1>4, <2>1, <2>3
  <2>. HIDE DEF Placed, One, o, t
  <2>7. /\ o.windows \in SUBSET WindowType /\ m.failures \subseteq o.failures
        /\ \A s \in Slots : s # t => Of(o.windows, s) = Of(m.windows, s)
        /\ Failure(0, t) \in o.failures \/ Of(o.windows, t) = One(t)
    BY <2>1, <2>2, <2>6, GenesisSlotSeeded DEF One
  <2>8. ASSUME NEW s \in Slots
        PROVE  (Placed(s, n + 1) => Done(o, s)) /\ (~Placed(s, n + 1) => Of(o.windows, s) = {})
    <3>1. CASE s = t BY <2>5, <2>7, <3>1
    <3>2. CASE s # t BY <1>4, <2>4, <2>7, <3>2
    <3>. QED BY <3>1, <3>2
  <2>. QED BY <2>7, <2>8 DEF o
<1>5. N \in Shown
  <2>1. 0 \in Shown BY <1>1, <1>3
  <2>2. \A n \in 0..(N - 1) : n \in Shown => n + 1 \in Shown
    <3>1. \A n \in 0..(N - 1) : n + 1 \in 0..N BY <1>1
    <3>. HIDE DEF Good
    <3>. QED BY <1>4, <3>1
  <2>. HIDE DEF Shown
  <2>3. 0..N \subseteq Shown BY <1>1, <2>1, <2>2, CountingUp
  <2>. QED BY <1>1, <2>3
<1>6. Good(N) BY <1>5
<1>7. Seeded = map[N] BY DEF Seeded, map, N
<1>8. \A s : Placed(s, N) <=> s \in GenesisActive BY <1>1
<1>. HIDE DEF Placed
<1>. QED BY <1>6, <1>7, <1>8

LEMMA SeededHolds ==
    ASSUME ChainInv, NEW s \in Slots, Failure(0, s) \notin Seeded.failures
    PROVE  /\ Holds(Seeded.windows, s, 2)
           /\ \A h \in 1..2 : KeysAt(Seeded.windows, s, h) = {members[h][s]} \ {NoKey}
<1> DEFINE W == Seeded.windows
           key == members[1][s]
           genesis == GenesisKey[s]
<1>1. /\ W \in SUBSET WindowType
      /\ Of(W, s) = IF s \in GenesisActive THEN {KeyWindow(s, genesis, 1, NoEnd)} ELSE {}
  BY SeededWindows
<1>2. /\ members[1][s] = members[2][s] /\ genesis \in Keys
      /\ key = IF s \in GenesisActive THEN genesis ELSE NoKey
  BY ChainAssumption DEF ChainInv, MembersAtGenesis
<1>3. key \in SlotKey BY <1>2 DEF SlotKey
<1>. HIDE DEF W, key, genesis
<1>4. Plain(Of(W, s), key, 1)
  <2>1. CASE s \in GenesisActive
    <3>1. Of(W, s) = {KeyWindow(s, genesis, 1, NoEnd)} /\ key = genesis BY <1>1, <1>2, <2>1
    <3>2. KeyWindow(s, genesis, 1, NoEnd).to = NoEnd /\ KeyWindow(s, genesis, 1, NoEnd).key = genesis
          /\ KeyWindow(s, genesis, 1, NoEnd).from = 1
      BY DEF KeyWindow
    <3>. QED BY <3>1, <3>2 DEF Plain
  <2>2. CASE s \notin GenesisActive BY <1>1, <1>2, <2>2 DEF Plain
  <2>. QED BY <2>1, <2>2
<1>5. Of(W, s) \in SUBSET WindowType BY <1>1, OfTyped
<1>6. Plain(Of(W, s), key, 2)
  <2>1. Plain(Of(W, s), key, 1 + 1) BY <1>4, <1>5, PlainUp
  <2>. QED BY <2>1
<1>7. KeysAt(W, s, 1) = {key} \ {NoKey} /\ KeysAt(W, s, 2) = {key} \ {NoKey}
  BY <1>1, <1>3, <1>4, <1>6, HoldsKeys
<1>8. \A h \in 1..2 : h = 1 \/ h = 2 OBVIOUS
<1>9. Holds(W, s, 2) BY <1>2, <1>6 DEF Holds, key
<1>10. \A h \in 1..2 : KeysAt(W, s, h) = {members[h][s]} \ {NoKey} BY <1>2, <1>7, <1>8 DEF key
<1>. QED BY <1>9, <1>10 DEF W

LEMMA MapBegins ==
    ASSUME ChainInv, windows = Seeded.windows, failures = Seeded.failures, mapped = 0
    PROVE  MapInv
<1>1. windows \subseteq WindowType BY SeededWindows
<1>2. mapped \in 0..Len(log)
  <2>1. log \in Seq(Seq(ChainEvent)) BY DEF ChainInv, ChainTyped
  <2>. QED BY <2>1
<1>3. ASSUME NEW s \in Slots \ (RotateInactive \union Failing) PROVE SlotMapped(s)
  <2>1. Failure(0, s) \notin Seeded.failures
    <3>1. 0 \in 0..mapped OBVIOUS
    <3>. QED BY <1>3, <3>1 DEF Failing
  <2>. QED BY <2>1, SeededHolds DEF SlotMapped, Settled
<1>. QED BY <1>1, <1>2, <1>3 DEF MapInv

LEMMA ResetMapKeeps ==
    ASSUME ChainInv, ResetMap
    PROVE  MapInv'
<1>1. /\ log' = log /\ members' = members
      /\ windows' = Seeded.windows /\ failures' = Seeded.failures /\ mapped' = 0
  BY DEF ResetMap, chainVars
<1>2. windows' \subseteq WindowType BY <1>1, SeededWindows
<1>3. mapped' \in 0..Len(log')
  <2>1. log \in Seq(Seq(ChainEvent)) BY DEF ChainInv, ChainTyped
  <2>. QED BY <1>1, <2>1
<1>4. ASSUME NEW s PROVE Coming(s)' = Coming(s) BY <1>1 DEF Coming, Recorded, EventsAt
<1>5. ASSUME NEW s \in Slots \ (RotateInactive \union Failing') PROVE SlotMapped(s)'
  <2>1. Failure(0, s) \notin Seeded.failures
    <3>1. 0 \in 0..mapped' BY <1>1
    <3>. QED BY <1>1, <1>5, <3>1 DEF Failing
  <2>2. /\ Holds(Seeded.windows, s, 2)
        /\ \A h \in 1..2 : KeysAt(Seeded.windows, s, h) = {members[h][s]} \ {NoKey}
    BY <2>1, SeededHolds
  <2>3. Holds(windows, s, mapped + 2)' BY <1>1, <1>4, <2>2 DEF Holds
  <2>4. Settled' = 1..2 BY <1>1 DEF Settled
  <2>. QED BY <1>1, <2>2, <2>3, <2>4 DEF SlotMapped
<1>. QED BY <1>2, <1>3, <1>5 DEF MapInv

(***************************************************************************)
(* The invariant                                                           *)
(***************************************************************************)
MembersGrow == \A h \in 1..(Len(log) + 2) : members'[h] = members[h]

LEMMA MembersGrowing ==
    ASSUME ChainInv, ChainNext
    PROVE  MembersGrow
<1>1. members \in Seq([Slots -> SlotKey]) /\ Len(members) = Len(log) + 2 BY DEF ChainInv, ChainTyped
<1>2. CASE EndBlock
  <2>1. members' = Append(members, ValidatorSet(slot')) BY <1>2 DEF EndBlock
  <2>. QED BY <1>1, <2>1 DEF MembersGrow
<1>3. CASE members' = members BY <1>3 DEF MembersGrow
<1>4. EndBlock \/ members' = members
  BY DEF ChainNext, Activate, Deactivate, RequestRotation, RotateNow, Emit
<1>. QED BY <1>2, <1>3, <1>4

LEMMA MapStays ==
    ASSUME ChainInv, ChainInv', Grows, MembersGrow, MapInv, UNCHANGED mapVars
    PROVE  MapInv'
<1>1. windows' = windows /\ failures' = failures /\ mapped' = mapped BY DEF mapVars
<1>2. /\ windows \subseteq WindowType /\ mapped \in 0..Len(log)
      /\ \A s \in Slots \ (RotateInactive \union Failing) : SlotMapped(s)
  BY DEF MapInv
<1>3. Len(log) \in Nat /\ Len(log') \in Nat
  <2>1. log \in Seq(Seq(ChainEvent)) BY DEF ChainInv, ChainTyped
  <2>2. log' \in Seq(Seq(ChainEvent)) BY DEF ChainInv, ChainTyped
  <2>. QED BY <2>1, <2>2
<1>4. mapped' \in 0..Len(log')
  <2>1. Len(log) <= Len(log') BY <1>3 DEF Grows
  <2>. QED BY <1>1, <1>2, <1>3, <2>1
<1>5. ASSUME NEW s, NEW e \in Coming(s) PROVE e \in Coming(s)' /\ (Ambiguous(e)' <=> Ambiguous(e))
  <2>1. e \in Recorded /\ e.type = "rotated" /\ e.slot = s BY <1>5 DEF Coming
  <2>2. e \in Recorded' BY <2>1, Recording
  <2>3. Ambiguous(e)' <=> Ambiguous(e) BY <2>1, SameRequests
  <2>. QED BY <2>1, <2>2, <2>3 DEF Coming
<1>6. ASSUME NEW s \in Slots \ (RotateInactive \union Failing') PROVE SlotMapped(s)'
  <2>1. s \notin Failing BY <1>1, <1>5, <1>6 DEF Failing
  <2>2. /\ \A h \in Settled : KeysAt(windows, s, h) = {members[h][s]} \ {NoKey}
        /\ Holds(windows, s, mapped + 2)
    BY <1>2, <1>6, <2>1 DEF SlotMapped
  <2>3. Settled' = Settled /\ \A h \in Settled : members'[h] = members[h]
    BY <1>1, <1>2, <1>3 DEF Settled, MembersGrow
  <2>4. members'[mapped + 2] = members[mapped + 2] BY <1>2, <1>3 DEF MembersGrow
  <2>5. Holds(windows, s, mapped + 2)' BY <1>1, <1>5, <2>2, <2>4 DEF Holds
  <2>. QED BY <1>1, <2>2, <2>3, <2>5 DEF SlotMapped
<1>. QED BY <1>1, <1>2, <1>4, <1>6 DEF MapInv

LEMMA MapKeeps ==
    ASSUME ChainInv, ChainInv', RotationsInv, MapInv, [MapNext]_temporalVars
    PROVE  MapInv'
<1>1. CASE Chain
  <2>1. Grows /\ MembersGrow BY <1>1, Growing, MembersGrowing DEF Chain
  <2>. QED BY <1>1, <2>1, MapStays DEF Chain
<1>2. CASE UNCHANGED <<chainVars, mapVars>>
  <2>1. log' = log /\ members' = members BY <1>2 DEF chainVars
  <2>2. Grows /\ MembersGrow BY <2>1 DEF Grows, MembersGrow
  <2>. QED BY <1>2, <2>2, MapStays
<1>3. CASE MapHeight BY <1>3, MapHeightKeeps
<1>4. CASE ResetMap BY <1>4, ResetMapKeeps
<1>. QED BY <1>1, <1>2, <1>3, <1>4 DEF MapNext, ProjectRotations, ResetRotations, temporalVars

LEMMA TemporalInvBegins ==
    ASSUME MapInit
    PROVE  TemporalInv
<1>1. ChainInv BY ChainBegins DEF MapInit
<1>. QED BY <1>1, RotationsBegin, MapBegins DEF MapInit, TemporalInv

LEMMA TemporalInvKeeps ==
    ASSUME TemporalInv, [MapNext]_temporalVars
    PROVE  TemporalInv'
<1>1. ChainInv /\ RotationsInv /\ MapInv BY DEF TemporalInv
<1>2. ChainInv'
  <2>1. CASE Chain BY <1>1, <2>1, ChainKeeps DEF Chain
  <2>2. CASE UNCHANGED chainVars
    <3>1. slot' = slot /\ block' = block /\ log' = log /\ members' = members /\ nameless' = nameless
      BY <2>2 DEF chainVars
    <3>2. ChainTyped' /\ MembersAtGenesis' BY <1>1, <3>1 DEF ChainInv, ChainTyped, MembersAtGenesis
    <3>3. EventsTimely' BY <1>1, <3>1 DEF ChainInv, EventsTimely, Now
    <3>4. RotationsCalm' BY <1>1, <3>1 DEF ChainInv, RotationsCalm
    <3>5. PendingCalm' BY <1>1, <3>1 DEF ChainInv, PendingCalm, Now
    <3>6. MembersFollow' BY <1>1, <3>1 DEF ChainInv, MembersFollow
    <3>. QED BY <3>2, <3>3, <3>4, <3>5, <3>6 DEF ChainInv
  <2>. QED BY <2>1, <2>2 DEF MapNext, ProjectRotations, ResetRotations, MapHeight, ResetMap, temporalVars
<1>3. RotationsInv' BY <1>1, <1>2, RotationsKeep
<1>4. MapInv' BY <1>1, <1>2, MapKeeps
<1>. QED BY <1>2, <1>3, <1>4 DEF TemporalInv

\* The chain, the rotation rows and the map keep to the invariant, whatever
\* is projected again or reset.
THEOREM TemporalInvAlways == MapSpec => []TemporalInv
<1>1. MapInit => TemporalInv BY TemporalInvBegins
<1>2. TemporalInv /\ [MapNext]_temporalVars => TemporalInv' BY TemporalInvKeeps
<1>. QED BY <1>1, <1>2, PTL DEF MapSpec

\* A slot the invariant leaves out has a failure to show.
LEMMA FailingReported ==
    ASSUME TemporalInv, mapped <= rotated
    PROVE  Failing \subseteq Reported
<1>1. ChainInv /\ RotationsInv /\ mapped \in 0..Len(log) BY DEF TemporalInv, MapInv
<1>2. ASSUME NEW s \in Slots, NEW h, Failure(h, s) \in failures PROVE s \in Reported
  <2>1. Failure(h, s).slot = s BY DEF Failure
  <2>. QED BY <1>2, <2>1 DEF Reported
<1>3. ASSUME NEW s \in Slots, NEW e \in Coming(s), e.due <= mapped, ~Readable(e) \/ Ambiguous(e)
      PROVE  s \in Reported
  <2>1. /\ e \in Recorded /\ e.slot = s /\ e.type = "rotated" /\ e.id[1] = e.due /\ e.due \in DOMAIN log
        /\ e.due \in Nat
    BY <1>1, ComingCalm
  <2>2. e.due \in 1..rotated BY <1>1, <1>3, <2>1, OfRecorded DEF RotationsInv
  <2>3. SettledAt(Book(rotations, drift), e.due) BY <1>1, <2>2 DEF RotationsInv
  <2>4. e \in Range(EventsAt(e.due)) BY <1>1, <2>1, OfRecorded
  <2>5. Settles(Book(rotations, drift), e) BY <2>1, <2>3, <2>4 DEF SettledAt
  <2>6. PICK kind \in {"unreadable", "ambiguous"} : Drift(e, kind) \in drift
    BY <1>3, <2>5 DEF Settles, Book
  <2>7. Drift(e, kind).kind = kind /\ Drift(e, kind).of = e.type /\ Drift(e, kind).slot = s
    BY <2>1 DEF Drift
  <2>8. Drift(e, kind) \in Excused BY <2>1, <2>6, <2>7 DEF Excused
  <2>. QED BY <2>7, <2>8 DEF Reported
<1>. QED BY <1>2, <1>3 DEF Failing

\* MapMatchesValidators: at every height the map has settled a slot has the
\* window of the key it validates with and no other, or a failure to show.
THEOREM MapMatches == MapSpec => []MapMatchesValidators
<1>1. TemporalInv => MapMatchesValidators
  <2>1. SUFFICES ASSUME TemporalInv, mapped <= rotated,
                        NEW s \in Slots \ (Reported \union RotateInactive), NEW h \in Settled
                 PROVE  KeysAt(windows, s, h) = {members[h][s]} \ {NoKey}
    BY DEF MapMatchesValidators
  <2>2. s \notin Failing BY <2>1, FailingReported
  <2>3. SlotMapped(s) BY <2>1, <2>2 DEF TemporalInv, MapInv
  <2>. QED BY <2>1, <2>3 DEF SlotMapped
<1>. QED BY <1>1, TemporalInvAlways, PTL

\* PastIsFinal: the height the map goes on to leaves what it said of the
\* heights it had settled, of every slot.
THEOREM MapPastStays == MapSpec => PastIsFinal
<1>1. TemporalInv /\ [MapNext]_temporalVars =>
        [mapped' > mapped =>
            \A s \in Slots, h \in Settled : KeysAt(windows', s, h) = KeysAt(windows, s, h)]_temporalVars
  <2>1. SUFFICES ASSUME TemporalInv, [MapNext]_temporalVars, mapped' > mapped,
                        NEW s \in Slots, NEW y \in Settled
                 PROVE  KeysAt(windows', s, y) = KeysAt(windows, s, y)
    OBVIOUS
  <2>2. ChainInv /\ RotationsInv /\ windows \in SUBSET WindowType /\ mapped \in 0..Len(log)
        /\ rotated \in 0..Len(log)
    BY <2>1 DEF TemporalInv, MapInv, RotationsInv
  <2>3. Len(log) \in Nat /\ DOMAIN log = 1..Len(log)
    <3>1. log \in Seq(Seq(ChainEvent)) BY <2>2 DEF ChainInv, ChainTyped
    <3>. QED BY <3>1
  <2>4. MapHeight
    <3>1. mapped' # mapped /\ ~(mapped' = 0) BY <2>1, <2>2, <2>3
    <3>. QED BY <2>1, <3>1 DEF MapNext, Chain, ProjectRotations, ResetRotations, ResetMap,
             mapVars, temporalVars
  <2> DEFINE h == mapped + 1
             cleared == Map(windows, {f \in failures : f.height # h})
             n == Mapped(cleared, h)
  <2>5. windows' = n.windows /\ h \in DOMAIN log /\ h \in Nat /\ y \in 1..(h + 2 - 1)
    BY <2>1, <2>2, <2>3, <2>4 DEF MapHeight, Mapped, Settled
  <2>6. cleared.windows = windows BY DEF Map
  <2>. HIDE DEF cleared, n
  <2>7. Follows(cleared, n, s, h + 2) BY <2>2, <2>5, <2>6, MappedFollows DEF n
  <2>8. \A x \in 1..(h + 2 - 1) : KeysAt(n.windows, s, x) = KeysAt(windows, s, x)
    BY <2>5, <2>6, <2>7 DEF Follows, Past
  <2>. QED BY <2>5, <2>8
<1>. QED BY <1>1, TemporalInvAlways, PTL DEF MapSpec, PastIsFinal

-----------------------------------------------------------------------------
(***************************************************************************)
(* One slot per key.  The chain keeps the keys of slots apart, and from    *)
(* the request of a rotation on the new key is the slot's; so a window     *)
(* that is opened early meets no later one of the same key.                *)
(***************************************************************************)
Steady == Slots \ RotateInactive

GenesisApart == \A s, t \in Slots : s # t => GenesisKey[s] # GenesisKey[t]

\* No key is of two slots, or of one and another's to be.
KeysApart ==
    \A s, t \in Slots : s # t =>
        /\ slot[s].key # slot[t].key /\ slot[s].key # slot[t].next
        /\ slot[s].next = slot[t].next => slot[s].next = NoKey

\* A slot is activated with the key it has.
BlockKeys ==
    \A i \in DOMAIN block :
        block[i].type = "activated" /\ block[i].slot \in Steady => block[i].new = slot[block[i].slot].key

Brings(e, k) == e.type \in {"activated", "rotated"} /\ e.slot \in Steady /\ e.new = k

\* From a height to another only one slot has windows of the key beginning.
Reserved(blocks, s, k, first, last) ==
    \A h \in DOMAIN blocks : \A i \in DOMAIN blocks[h] :
        first <= h /\ h <= last /\ Brings(blocks[h][i], k) => blocks[h][i].slot = s

PendingReserved ==
    \A s \in Slots : slot[s].next # NoKey =>
        Reserved(log, s, slot[s].next, slot[s].due - RotationDelay, Len(log))

AppliedReserved ==
    \A h \in DOMAIN log : \A i \in DOMAIN log[h] : log[h][i].type = "rotated" =>
        Reserved(log, log[h][i].slot, log[h][i].new, h - RotationDelay, h)

KeysInv == KeysApart /\ BlockKeys /\ PendingReserved /\ AppliedReserved

LEMMA KeysBegin ==
    ASSUME ChainInit, GenesisApart
    PROVE  KeysInv
<1>. USE ChainAssumption DEF ChainInit
<1>1. \A s \in Slots : slot[s].key = GenesisKey[s] /\ slot[s].next = NoKey /\ GenesisKey[s] \in Keys OBVIOUS
<1>2. KeysApart BY <1>1 DEF KeysApart, GenesisApart
<1>3. DOMAIN log = {} /\ DOMAIN block = {} OBVIOUS
<1>4. BlockKeys /\ AppliedReserved BY <1>3 DEF BlockKeys, AppliedReserved
<1>5. PendingReserved BY <1>1 DEF PendingReserved
<1>. QED BY <1>2, <1>4, <1>5 DEF KeysInv

\* A transaction about one slot.
LEMMA KeysTransacted ==
    ASSUME ChainInv, KeysInv, NEW s \in Slots, NEW state \in SlotState, NEW events \in Seq(ChainEvent),
           slot' = [slot EXCEPT ![s] = state], Emit(events),
           \A t \in Slots : t # s => /\ state.key # slot[t].key /\ state.key # slot[t].next
                                     /\ state.next # slot[t].key
                                     /\ state.next = slot[t].next => state.next = NoKey,
           s \in Steady => state.key = slot[s].key,
           \A i \in DOMAIN events : /\ events[i].slot = s
                                    /\ events[i].type = "activated" => events[i].new = state.key,
           \/ state.next = NoKey
           \/ state.next = slot[s].next /\ state.due = slot[s].due
           \/ state.due = Now + RotationDelay
    PROVE  KeysInv'
<1>1. /\ slot \in [Slots -> SlotState] /\ block \in Seq(ChainEvent) /\ log \in Seq(Seq(ChainEvent))
  BY DEF ChainInv, ChainTyped
<1>2. block' = block \o events /\ log' = log BY DEF Emit
<1>3. slot'[s] = state /\ \A t \in Slots : t # s => slot'[t] = slot[t] BY <1>1
<1>4. \A i \in DOMAIN block' : \/ i \in DOMAIN block /\ block'[i] = block[i]
                               \/ i - Len(block) \in DOMAIN events /\ block'[i] = events[i - Len(block)]
  BY <1>1, <1>2, Concat
<1>5. KeysApart'
  <2>1. ASSUME NEW u \in Slots, NEW t \in Slots, u # t
        PROVE  /\ slot'[u].key # slot'[t].key /\ slot'[u].key # slot'[t].next
               /\ slot'[u].next = slot'[t].next => slot'[u].next = NoKey
    <3>1. CASE u = s BY <1>3, <2>1, <3>1
    <3>2. CASE t = s BY <1>3, <2>1, <3>2
    <3>3. CASE u # s /\ t # s BY <1>3, <2>1, <3>3 DEF KeysInv, KeysApart
    <3>. QED BY <3>1, <3>2, <3>3
  <2>. QED BY <2>1 DEF KeysApart
<1>6. BlockKeys'
  <2>1. ASSUME NEW i \in DOMAIN block', block'[i].type = "activated", block'[i].slot \in Steady
        PROVE  block'[i].new = slot'[block'[i].slot].key
    <3>1. CASE i \in DOMAIN block /\ block'[i] = block[i]
      <4>1. block[i].new = slot[block[i].slot].key BY <2>1, <3>1 DEF KeysInv, BlockKeys
      <4>2. slot'[block[i].slot].key = slot[block[i].slot].key
        BY <1>3, <2>1, <3>1 DEF Steady
      <4>. QED BY <3>1, <4>1, <4>2
    <3>2. CASE i - Len(block) \in DOMAIN events /\ block'[i] = events[i - Len(block)]
      BY <1>3, <2>1, <3>2
    <3>. QED BY <1>4, <3>1, <3>2
  <2>. QED BY <2>1 DEF BlockKeys, Steady
<1>7. PendingReserved'
  <2>1. ASSUME NEW t \in Slots, slot'[t].next # NoKey
        PROVE  Reserved(log, t, slot'[t].next, slot'[t].due - RotationDelay, Len(log))
    <3>1. CASE slot'[t].next = slot[t].next /\ slot'[t].due = slot[t].due
      BY <2>1, <3>1 DEF KeysInv, PendingReserved
    <3>2. CASE slot'[t].due = Now + RotationDelay
      <4>1. slot'[t].due - RotationDelay = Len(log) + 1 /\ Len(log) \in Nat /\ DOMAIN log = 1..Len(log)
        BY <1>1, <3>2, ChainAssumption DEF Now
      <4>. QED BY <4>1 DEF Reserved
    <3>. QED BY <1>3, <2>1, <3>1, <3>2
  <2>. QED BY <1>2, <2>1 DEF PendingReserved, Reserved, Brings, Steady
<1>8. AppliedReserved' BY <1>2 DEF KeysInv, AppliedReserved, Reserved, Brings, Steady
<1>. QED BY <1>5, <1>6, <1>7, <1>8 DEF KeysInv

LEMMA KeysKept ==
    ASSUME ChainInv, KeysInv, NEW s \in Slots, NEW state \in SlotState,
           NEW events \in Seq(ChainEvent),
           slot' = [slot EXCEPT ![s] = state], Emit(events),
           state.key = slot[s].key,
           \/ state.next = slot[s].next /\ state.due = slot[s].due
           \/ state.next = NoKey,
           \A i \in DOMAIN events : /\ events[i].slot = s
                                    /\ events[i].type = "activated" => events[i].new = state.key
    PROVE  KeysInv'
<1>1. \A t \in Slots : slot[t].key \in Keys BY DEF ChainInv, ChainTyped, SlotState
<1>2. \A t \in Slots : t # s => /\ state.key # slot[t].key /\ state.key # slot[t].next
                                /\ state.next # slot[t].key
                                /\ state.next = slot[t].next => state.next = NoKey
  <2>1. NoKey \notin Keys BY ChainAssumption
  <2>. QED BY <1>1, <2>1 DEF KeysInv, KeysApart
<1>. QED BY <1>2, KeysTransacted

LEMMA TransactionsKeepKeys ==
    ASSUME ChainInv, KeysInv, ChainNext, ~EndBlock
    PROVE  KeysInv'
<1>0. slot \in [Slots -> SlotState] /\ Now \in Nat /\ Now + RotationDelay \in Nat
  BY ChainAssumption DEF ChainInv, ChainTyped, Now
<1>1. ASSUME NEW s \in Slots, Activate(s) PROVE KeysInv'
  <2> DEFINE e == Event("activated", s, slot[s].key, slot[s].key, Now)
             state == [slot[s] EXCEPT !.active = TRUE]
  <2>1. slot[s] \in SlotState BY <1>0
  <2>2. e \in ChainEvent /\ e.slot = s /\ e.new = slot[s].key
    BY <1>0, <2>1, EventTyped DEF SlotState, EventTypes
  <2>3. state \in SlotState /\ state.key = slot[s].key /\ state.next = slot[s].next /\ state.due = slot[s].due
    BY <2>1 DEF SlotState
  <2>4. slot' = [slot EXCEPT ![s] = state] /\ Emit(<<e>>) BY <1>1 DEF Activate
  <2>. HIDE DEF e, state
  <2>5. <<e>> \in Seq(ChainEvent) /\ \A i \in DOMAIN <<e>> : <<e>>[i] = e BY <2>2
  <2>6. \A i \in DOMAIN <<e>> : <<e>>[i].slot = s /\ <<e>>[i].new = state.key BY <2>2, <2>3, <2>5
  <2>. QED BY <2>2, <2>3, <2>4, <2>5, <2>6, KeysKept
<1>2. ASSUME NEW s \in Slots, Deactivate(s) PROVE KeysInv'
  <2> DEFINE e == Event("deactivated", s, slot[s].key, slot[s].key, Now)
             c == Cancelled(s)
             state == [slot[s] EXCEPT !.active = FALSE, !.next = NoKey, !.due = 0]
             events == IF slot[s].next = NoKey THEN <<e>> ELSE <<c>> \o <<e>>
  <2>1. slot[s] \in SlotState BY <1>0
  <2>2. e \in ChainEvent /\ e.slot = s /\ e.type = "deactivated"
    BY <1>0, <2>1, EventTyped DEF SlotState, EventTypes
  <2>3. slot[s].next # NoKey => c \in ChainEvent /\ c.slot = s /\ c.type = "cancelled"
    BY <1>0, <2>1, EventTyped DEF SlotState, EventTypes, Cancelled, SlotKey
  <2>4. state \in SlotState /\ state.key = slot[s].key /\ state.next = NoKey
    BY <2>1 DEF SlotState, SlotKey
  <2>5. slot' = [slot EXCEPT ![s] = state] /\ Emit(events) BY <1>0, <1>2, <2>1 DEF Deactivate, SlotState
  <2>. HIDE DEF e, c, state
  <2>6. events \in Seq(ChainEvent) /\ \A i \in DOMAIN events : events[i] = e \/ (slot[s].next # NoKey /\ events[i] = c)
    <3>1. <<e>> \in Seq(ChainEvent) /\ \A i \in DOMAIN <<e>> : <<e>>[i] = e BY <2>2
    <3>2. CASE slot[s].next = NoKey
      <4>1. events = <<e>> BY <3>2
      <4>. HIDE DEF events
      <4>. QED BY <3>1, <4>1
    <3>3. CASE slot[s].next # NoKey
      <4>1. <<c>> \in Seq(ChainEvent) /\ \A i \in DOMAIN <<c>> : <<c>>[i] = c BY <2>3, <3>3
      <4>2. events = <<c>> \o <<e>> BY <3>3
      <4>3. events \in Seq(ChainEvent)
            /\ \A i \in DOMAIN events : \/ i \in DOMAIN <<c>> /\ events[i] = <<c>>[i]
                                        \/ i - Len(<<c>>) \in DOMAIN <<e>> /\ events[i] = <<e>>[i - Len(<<c>>)]
        BY <3>1, <4>1, <4>2, Concat
      <4>. HIDE DEF events
      <4>. QED BY <3>1, <3>3, <4>1, <4>3
    <3>. QED BY <3>2, <3>3
  <2>. HIDE DEF events
  <2>7. \A i \in DOMAIN events : events[i].slot = s /\ events[i].type # "activated" BY <2>2, <2>3, <2>6
  <2>. QED BY <2>2, <2>4, <2>5, <2>6, <2>7, KeysKept
<1>3. ASSUME NEW s \in Slots, NEW k \in Keys, RequestRotation(s, k) PROVE KeysInv'
  <2> DEFINE e == Event("requested", s, slot[s].key, k, Now + RotationDelay)
             state == [slot[s] EXCEPT !.next = k, !.due = Now + RotationDelay]
  <2>1. slot[s] \in SlotState BY <1>0
  <2>2. e \in ChainEvent /\ e.slot = s /\ e.type = "requested"
    BY <1>0, <2>1, EventTyped DEF SlotState, EventTypes
  <2>3. state \in SlotState /\ state.key = slot[s].key /\ state.next = k /\ state.due = Now + RotationDelay
    BY <1>0, <2>1 DEF SlotState, SlotKey
  <2>4. slot' = [slot EXCEPT ![s] = state] /\ Emit(<<e>>) /\ Free(k)
    BY <1>0, <1>3, <2>1 DEF RequestRotation, SlotState
  <2>. HIDE DEF e, state
  <2>5. <<e>> \in Seq(ChainEvent) /\ \A i \in DOMAIN <<e>> : <<e>>[i] = e BY <2>2
  <2>6. \A i \in DOMAIN <<e>> : <<e>>[i].slot = s /\ <<e>>[i].type # "activated" BY <2>2, <2>5
  <2>7. \A t \in Slots : t # s => /\ state.key # slot[t].key /\ state.key # slot[t].next
                                  /\ state.next # slot[t].key
                                  /\ state.next = slot[t].next => state.next = NoKey
    BY <2>3, <2>4 DEF Free, KeysInv, KeysApart
  <2>. QED BY <2>3, <2>4, <2>5, <2>6, <2>7, KeysTransacted
<1>4. ASSUME NEW s \in Slots, NEW k \in Keys, RotateNow(s, k) PROVE KeysInv'
  <2> DEFINE e == Event("rotated_in_tx", s, slot[s].key, k, Now)
             state == [slot[s] EXCEPT !.key = k]
  <2>1. slot[s] \in SlotState BY <1>0
  <2>2. e \in ChainEvent /\ e.slot = s /\ e.type = "rotated_in_tx"
    BY <1>0, <2>1, EventTyped DEF SlotState, EventTypes
  <2>3. state \in SlotState /\ state.key = k /\ state.next = slot[s].next /\ state.due = slot[s].due
    BY <1>0, <2>1 DEF SlotState
  <2>4. slot' = [slot EXCEPT ![s] = state] /\ Emit(<<e>>) /\ Free(k) /\ s \notin Steady
    BY <1>0, <1>4, <2>1 DEF RotateNow, SlotState, Steady
  <2>. HIDE DEF e, state
  <2>5. <<e>> \in Seq(ChainEvent) /\ \A i \in DOMAIN <<e>> : <<e>>[i] = e BY <2>2
  <2>6. \A i \in DOMAIN <<e>> : <<e>>[i].slot = s /\ <<e>>[i].type # "activated" BY <2>2, <2>5
  <2>7. \A t \in Slots : t # s => /\ state.key # slot[t].key /\ state.key # slot[t].next
                                  /\ state.next # slot[t].key
                                  /\ state.next = slot[t].next => state.next = NoKey
    BY <2>3, <2>4 DEF Free, KeysInv, KeysApart
  <2>. QED BY <2>3, <2>4, <2>5, <2>6, <2>7, KeysTransacted
<1>. QED BY <1>1, <1>2, <1>3, <1>4 DEF ChainNext

\* What the end of a block adds to the log.
LEMMA BlockEnded ==
    ASSUME ChainInv, EndBlock
    PROVE  /\ Len(log) \in Nat /\ DOMAIN log = 1..Len(log) /\ DOMAIN log' = 1..Now /\ Len(log') = Now
           /\ \A h \in 1..Len(log) : log'[h] = log[h]
           /\ block' = <<>>
           /\ \A i \in DOMAIN log'[Now] :
                 LET e == log'[Now][i]
                 IN  \/ \E j \in DOMAIN block :
                           e.type = block[j].type /\ e.slot = block[j].slot /\ e.new = block[j].new
                     \/ e.type = "cancelled"
                     \/ e.type = "rotated" /\ e.slot \in Slots /\ e.new = slot[e.slot].next
                        /\ slot[e.slot].next # NoKey /\ slot[e.slot].due = Now
           /\ slot' \in [Slots -> SlotState]
           /\ \A s \in Slots : \/ slot'[s] = slot[s]
                               \/ /\ slot'[s].next = NoKey
                                  /\ \/ slot'[s].key = slot[s].key
                                     \/ slot[s].next # NoKey /\ slot'[s].key = slot[s].next
<1>1. block' = <<>> BY DEF EndBlock
<1>2. slot \in [Slots -> SlotState] /\ block \in Seq(ChainEvent) /\ log \in Seq(Seq(ChainEvent))
  BY DEF ChainInv, ChainTyped
<1>3. Now = Len(log) + 1 /\ Len(log) \in Nat /\ DOMAIN log = 1..Len(log)
  <2>1. Len(log) \in Nat /\ DOMAIN log = 1..Len(log) BY <1>2
  <2>2. Now = Len(log) + 1 BY DEF Now
  <2>. QED BY <2>1, <2>2
<1> DEFINE dueSlots == {s \in Slots : slot[s].next # NoKey /\ slot[s].due <= Now}
<1>4. \A s \in dueSlots : /\ slot[s].due = Now /\ slot[s] \in SlotState
                          /\ slot[s].next \in Keys /\ slot[s].next # NoKey /\ s \in Slots
  <2>1. ASSUME NEW s \in dueSlots PROVE slot[s].due = Now
    <3>1. Now <= slot[s].due /\ slot[s].due <= Now BY DEF ChainInv, PendingCalm
    <3>2. slot[s].due \in Nat BY <1>2 DEF SlotState
    <3>. QED BY <1>3, <3>1, <3>2
  <2>2. \A s \in dueSlots : s \in Slots /\ slot[s].next # NoKey OBVIOUS
  <2>3. \A s \in Slots : slot[s] \in SlotState /\ slot[s].next \in SlotKey
    <3>1. \A s \in Slots : slot[s] \in SlotState BY <1>2
    <3>. QED BY ONLY <3>1 DEF SlotState
  <2>. QED BY <2>1, <2>2, <2>3 DEF SlotKey
<1>5. IsFiniteSet(dueSlots) BY ChainAssumption, FS_Subset
<1>. HIDE DEF dueSlots
<1> DEFINE Outcome(stale, s) == IF s \in stale THEN Cancelled(s)
                                ELSE Event("rotated", s, slot[s].key, slot[s].next, slot[s].due)
           order == AnOrder(dueSlots)
           After(stale, s) == [slot[s] EXCEPT !.key = IF s \in stale THEN @ ELSE slot[s].next,
                                              !.next = NoKey, !.due = 0]
<1>6. PICK stale \in SUBSET dueSlots :
         /\ slot' = [s \in Slots |-> IF s \in dueSlots THEN After(stale, s) ELSE slot[s]]
         /\ \E seen \in Readings(block \o [i \in DOMAIN order |-> Outcome(stale, order[i])]) :
               log' = Append(log, seen)
  BY DEF EndBlock, dueSlots
<1> DEFINE ending == [i \in DOMAIN order |-> Outcome(stale, order[i])]
<1>7. PICK seen \in Readings(block \o ending) : log' = Append(log, seen) BY <1>6
<1> DEFINE n == Cardinality(dueSlots)
<1>8. order \in [1..n -> dueSlots] /\ n \in Nat BY <1>5, OrderExists
<1>. HIDE DEF order, n
<1>9. ASSUME NEW s \in dueSlots
      PROVE  /\ Outcome(stale, s) \in ChainEvent /\ Outcome(stale, s).slot = s
             /\ Outcome(stale, s).type = IF s \in stale THEN "cancelled" ELSE "rotated"
             /\ Outcome(stale, s).new = slot[s].next
  BY <1>3, <1>4, EventTyped DEF Cancelled, EventTypes, SlotState
<1>10. ASSUME NEW s \in dueSlots
       PROVE  /\ After(stale, s) \in SlotState /\ After(stale, s).next = NoKey
              /\ After(stale, s).key = IF s \in stale THEN slot[s].key ELSE slot[s].next
  BY <1>4 DEF SlotState, SlotKey
<1>. HIDE DEF Outcome, After
<1>11. ending \in [1..n -> ChainEvent] /\ \A i \in 1..n : order[i] \in dueSlots /\ ending[i] = Outcome(stale, order[i])
  BY <1>8, <1>9
<1>12. ending \in Seq(ChainEvent) /\ DOMAIN ending = 1..n BY <1>8, <1>11
<1>. HIDE DEF ending
<1> DEFINE all == block \o ending
<1>13. /\ all \in Seq(ChainEvent) /\ DOMAIN all = 1..Len(all)
       /\ \A i \in DOMAIN all : \/ i \in DOMAIN block /\ all[i] = block[i]
                                \/ i - Len(block) \in DOMAIN ending /\ all[i] = ending[i - Len(block)]
  <2>1. block \in Seq(ChainEvent) /\ ending \in Seq(ChainEvent) BY <1>2, <1>12
  <2>2. all \in Seq(ChainEvent)
        /\ \A i \in DOMAIN all : \/ i \in DOMAIN block /\ all[i] = block[i]
                                 \/ i - Len(block) \in DOMAIN ending /\ all[i] = ending[i - Len(block)]
    BY ONLY <2>1, Concat
  <2>. HIDE DEF all
  <2>. QED BY <2>2
<1>. HIDE DEF all
<1>14. /\ seen \in Seq(ChainEvent) /\ DOMAIN seen = DOMAIN all
       /\ \A i \in DOMAIN seen : /\ seen[i].type = all[i].type /\ seen[i].slot = all[i].slot
                                 /\ seen[i].new = all[i].new
  <2>1. seen \in Readings(all) BY <1>7 DEF all
  <2>. QED BY <1>13, <2>1, ReadingsKeep
<1>15. ASSUME NEW i \in DOMAIN seen
       PROVE  \/ \E j \in DOMAIN block :
                    seen[i].type = block[j].type /\ seen[i].slot = block[j].slot /\ seen[i].new = block[j].new
              \/ seen[i].type = "cancelled"
              \/ seen[i].type = "rotated" /\ seen[i].slot \in Slots /\ seen[i].new = slot[seen[i].slot].next
                 /\ slot[seen[i].slot].next # NoKey /\ slot[seen[i].slot].due = Now
  <2>1. CASE i \in DOMAIN block /\ all[i] = block[i] BY <1>14, <2>1
  <2>2. CASE i - Len(block) \in DOMAIN ending /\ all[i] = ending[i - Len(block)]
    <3> DEFINE s == order[i - Len(block)]
    <3>1. s \in dueSlots /\ all[i] = Outcome(stale, s) BY <1>11, <1>12, <2>2
    <3>. HIDE DEF s
    <3>2. /\ seen[i].slot = s /\ seen[i].new = slot[s].next /\ s \in Slots /\ slot[s].next # NoKey
          /\ slot[s].due = Now /\ seen[i].type \in {"cancelled", "rotated"}
      BY <1>4, <1>9, <1>14, <3>1
    <3>. QED BY <3>2
  <2>. QED BY <1>13, <1>14, <2>1, <2>2
<1>16. /\ DOMAIN log' = 1..Now /\ Len(log') = Now /\ log'[Now] = seen
       /\ \A h \in 1..Len(log) : log'[h] = log[h]
  BY <1>2, <1>3, <1>7, <1>14
<1>17. /\ slot' \in [Slots -> SlotState]
       /\ \A s \in dueSlots : slot'[s] = After(stale, s)
       /\ \A s \in Slots \ dueSlots : slot'[s] = slot[s]
  BY <1>2, <1>4, <1>6, <1>10
<1>18. \A s \in Slots : \/ slot'[s] = slot[s]
                        \/ /\ slot'[s].next = NoKey
                           /\ \/ slot'[s].key = slot[s].key
                              \/ slot[s].next # NoKey /\ slot'[s].key = slot[s].next
  BY <1>4, <1>10, <1>17
<1>. QED BY <1>1, <1>3, <1>15, <1>16, <1>17, <1>18

\* At the end of a block nobody but its slot brings a key that is to come.
LEMMA BlockBrings ==
    ASSUME ChainInv, KeysInv, EndBlock, NEW s \in Slots, slot[s].next # NoKey,
           NEW i \in DOMAIN log'[Now], Brings(log'[Now][i], slot[s].next)
    PROVE  log'[Now][i].slot = s
<1> DEFINE e == log'[Now][i]
<1>1. /\ e.type \in {"activated", "rotated"} /\ e.slot \in Steady /\ e.new = slot[s].next BY DEF Brings
<1>2. e.slot \in Slots BY <1>1 DEF Steady
<1>3. CASE \E j \in DOMAIN block : e.type = block[j].type /\ e.slot = block[j].slot /\ e.new = block[j].new
  <2>1. PICK j \in DOMAIN block : e.type = block[j].type /\ e.slot = block[j].slot /\ e.new = block[j].new
    BY <1>3
  <2>2. block[j].type # "rotated" BY DEF ChainInv, EventsTimely
  <2>3. block[j].new = slot[e.slot].key BY <1>1, <2>1, <2>2 DEF KeysInv, BlockKeys
  <2>. HIDE DEF e
  <2>. QED BY <1>1, <1>2, <2>1, <2>3 DEF KeysInv, KeysApart, e
<1>4. CASE e.type = "rotated" /\ e.new = slot[e.slot].next /\ slot[e.slot].next # NoKey
  BY <1>1, <1>2, <1>4 DEF KeysInv, KeysApart
<1>5. \/ \E j \in DOMAIN block : e.type = block[j].type /\ e.slot = block[j].slot /\ e.new = block[j].new
      \/ e.type = "cancelled"
      \/ e.type = "rotated" /\ e.new = slot[e.slot].next /\ slot[e.slot].next # NoKey
  BY BlockEnded
<1>. QED BY <1>1, <1>3, <1>4, <1>5

LEMMA EndKeepsKeys ==
    ASSUME ChainInv, KeysInv, EndBlock
    PROVE  KeysInv'
<1>1. /\ Len(log) \in Nat /\ DOMAIN log = 1..Len(log) /\ DOMAIN log' = 1..Now /\ Len(log') = Now
      /\ \A h \in 1..Len(log) : log'[h] = log[h]
      /\ block' = <<>>
      /\ \A s \in Slots : \/ slot'[s] = slot[s]
                          \/ /\ slot'[s].next = NoKey
                             /\ \/ slot'[s].key = slot[s].key
                                \/ slot[s].next # NoKey /\ slot'[s].key = slot[s].next
  BY BlockEnded
<1>2. Now = Len(log) + 1 /\ RotationDelay \in Nat \ {0} BY ChainAssumption DEF Now
<1>3. KeysApart'
  <2>1. ASSUME NEW s \in Slots, NEW t \in Slots, s # t
        PROVE  /\ slot'[s].key # slot'[t].key /\ slot'[s].key # slot'[t].next
               /\ slot'[s].next = slot'[t].next => slot'[s].next = NoKey
    <3>1. /\ slot[s].key \in Keys /\ slot[t].key \in Keys /\ slot[s].next \in SlotKey /\ NoKey \notin Keys
      BY ChainAssumption DEF ChainInv, ChainTyped, SlotState
    <3>2. /\ slot[s].key # slot[t].key /\ slot[s].key # slot[t].next /\ slot[t].key # slot[s].next
          /\ slot[s].next = slot[t].next => slot[s].next = NoKey
      BY <2>1 DEF KeysInv, KeysApart
    <3>3. slot'[s].key = slot[s].key \/ (slot[s].next # NoKey /\ slot'[s].key = slot[s].next) BY <1>1
    <3>4. slot'[t].key = slot[t].key \/ (slot[t].next # NoKey /\ slot'[t].key = slot[t].next) BY <1>1
    <3>5. slot'[s].next = slot[s].next \/ slot'[s].next = NoKey BY <1>1
    <3>6. slot'[t].next = slot[t].next \/ slot'[t].next = NoKey BY <1>1
    <3>. QED BY <3>1, <3>2, <3>3, <3>4, <3>5, <3>6 DEF SlotKey
  <2>. QED BY <2>1 DEF KeysApart
<1>4. BlockKeys' BY <1>1 DEF BlockKeys
<1>5. ASSUME NEW s \in Slots, slot[s].next # NoKey, slot[s].due \in Nat
      PROVE  Reserved(log', s, slot[s].next, slot[s].due - RotationDelay, Now)
  <2>1. ASSUME NEW h \in DOMAIN log', NEW i \in DOMAIN log'[h],
               slot[s].due - RotationDelay <= h, Brings(log'[h][i], slot[s].next)
        PROVE  log'[h][i].slot = s
    <3>1. CASE h = Now BY <1>5, <2>1, <3>1, BlockBrings
    <3>2. CASE h # Now
      <4>1. h \in DOMAIN log /\ h <= Len(log) /\ log'[h] = log[h] BY <1>1, <1>2, <3>2
      <4>2. Reserved(log, s, slot[s].next, slot[s].due - RotationDelay, Len(log))
        BY <1>5 DEF KeysInv, PendingReserved
      <4>. QED BY <2>1, <4>1, <4>2 DEF Reserved
    <3>. QED BY <3>1, <3>2
  <2>. QED BY <2>1 DEF Reserved
<1>6. PendingReserved'
  <2>1. ASSUME NEW s \in Slots, slot'[s].next # NoKey
        PROVE  Reserved(log', s, slot'[s].next, slot'[s].due - RotationDelay, Len(log'))
    <3>1. slot'[s] = slot[s] BY <1>1, <2>1
    <3>2. slot[s].due \in Nat BY DEF ChainInv, ChainTyped, SlotState
    <3>. QED BY <1>1, <1>5, <2>1, <3>1, <3>2
  <2>. QED BY <2>1 DEF PendingReserved, Reserved, Brings, Steady
<1>7. AppliedReserved'
  <2>1. ASSUME NEW h \in DOMAIN log', NEW i \in DOMAIN log'[h], log'[h][i].type = "rotated"
        PROVE  Reserved(log', log'[h][i].slot, log'[h][i].new, h - RotationDelay, h)
    <3>1. CASE h = Now
      <4> DEFINE s == log'[Now][i].slot
      <4>1. ~ \E j \in DOMAIN block : block[j].type = "rotated" BY DEF ChainInv, EventsTimely
      <4>2. s \in Slots /\ log'[Now][i].new = slot[s].next /\ slot[s].next # NoKey /\ slot[s].due = Now
        BY <2>1, <3>1, <4>1, BlockEnded
      <4>. HIDE DEF s
      <4>3. Reserved(log', s, slot[s].next, Now - RotationDelay, Now)
        BY <1>1, <1>2, <1>5, <4>2
      <4>. QED BY <3>1, <4>2, <4>3 DEF s
    <3>2. CASE h # Now
      <4>1. h \in DOMAIN log /\ h < Now /\ log'[h] = log[h] BY <1>1, <1>2, <3>2
      <4>2. Reserved(log, log[h][i].slot, log[h][i].new, h - RotationDelay, h)
        BY <2>1, <4>1 DEF KeysInv, AppliedReserved
      <4>3. \A g \in DOMAIN log' : g <= h => g \in DOMAIN log /\ log'[g] = log[g]
        BY <1>1, <1>2, <4>1
      <4>. QED BY <4>1, <4>2, <4>3 DEF Reserved
    <3>. QED BY <3>1, <3>2
  <2>. QED BY <2>1 DEF AppliedReserved, Reserved, Brings, Steady
<1>. QED BY <1>3, <1>4, <1>6, <1>7 DEF KeysInv

(***************************************************************************)
(* Windows of steady slots.  One that begins or ends after the heights the *)
(* map has settled is there early, for a rotation still to come.           *)
(***************************************************************************)
SteadyOf(W) == {w \in W : w.slot \in Steady}

Single(W) == Unique(SteadyOf(W))

\* The rotations of a slot that turn its key at a height, requested by another.
Turning(s, at, seen) == {e \in Coming(s) : at = e.due + 2 /\ e.due - RotationDelay <= seen}

Ahead(W, h, seen) ==
    \A w \in SteadyOf(W) :
        /\ w.from > h => \E e \in Turning(w.slot, w.from, seen) : w.key = e.new
        /\ w.to > h => \E e \in Turning(w.slot, w.to, seen) : TRUE

Attributed(W, h, seen) == W \in SUBSET WindowType /\ Single(W) /\ Ahead(W, h, seen)

\* A height where windows of the slot may begin or end.
EndsAt(s, at, h, seen) == at <= h \/ s \notin Steady \/ \E e \in Turning(s, at, seen) : TRUE

BeginsAt(s, k, at, h, seen) == at <= h \/ s \notin Steady \/ \E e \in Turning(s, at, seen) : k = e.new

\* Nothing of the slot or the key begins later, nothing of the slot ends later.
Latest(W, s, k, at) ==
    s \in Steady => \A w \in SteadyOf(W) : /\ w.slot = s \/ w.key = k => w.from <= at
                                           /\ w.slot = s => w.to <= at

LEMMA CloseAttributed ==
    ASSUME NEW W, NEW h \in Nat, NEW seen, Attributed(W, h, seen),
           NEW s, NEW closing, \A w \in closing : w.slot = s /\ w.to = NoEnd,
           NEW to \in Nat \ {0}, EndsAt(s, to, h, seen)
    PROVE  Attributed(Close(W, closing, to), h, seen)
<1> DEFINE V == Close(W, closing, to)
<1>1. W \in SUBSET WindowType /\ Single(W) /\ Ahead(W, h, seen) BY DEF Attributed
<1>2. V = {End(w, closing, to) : w \in W} BY Closed
<1>3. V \in SUBSET WindowType BY <1>1, CloseTyped
<1>. HIDE DEF V
<1>4. ASSUME NEW v \in SteadyOf(V)
      PROVE  \E w \in SteadyOf(W) :
                /\ v = End(w, closing, to) /\ v.slot = w.slot /\ v.key = w.key /\ v.from = w.from
                /\ \/ v.to = w.to
                   \/ v.to = to /\ w.to = NoEnd /\ w.slot = s
                /\ w.to # NoEnd => v.to = w.to
  <2>1. v \in V /\ v.slot \in Steady BY DEF SteadyOf
  <2>2. PICK w \in W : v = End(w, closing, to) BY <1>2, <2>1
  <2>3. w \in WindowType BY <1>1, <2>2
  <2>4. /\ v.slot = w.slot /\ v.key = w.key /\ v.from = w.from
        /\ v.to = IF w \in closing /\ w.from < to THEN to ELSE w.to
    BY <2>2, <2>3, Ended
  <2>5. w \in SteadyOf(W) BY <2>1, <2>2, <2>4 DEF SteadyOf
  <2>. QED BY <2>2, <2>4, <2>5
<1>5. Single(V)
  <2>1. ASSUME NEW a \in SteadyOf(V), NEW b \in SteadyOf(V), a # b, a.slot = b.slot \/ a.key = b.key
        PROVE  Disjoint(a, b)
    <3>1. PICK c \in SteadyOf(W) : /\ a = End(c, closing, to) /\ a.slot = c.slot /\ a.key = c.key
                                   /\ a.from = c.from
                                   /\ c.to # NoEnd => a.to = c.to
      BY <1>4
    <3>2. PICK d \in SteadyOf(W) : /\ b = End(d, closing, to) /\ b.slot = d.slot /\ b.key = d.key
                                   /\ b.from = d.from
                                   /\ d.to # NoEnd => b.to = d.to
      BY <1>4
    <3>3. c # d BY <2>1, <3>1, <3>2
    <3>4. Disjoint(c, d) BY <1>1, <2>1, <3>1, <3>2, <3>3 DEF Single, Unique
    <3>. QED BY <3>1, <3>2, <3>4 DEF Disjoint
  <2>. QED BY <2>1 DEF Single, Unique
<1>6. Ahead(V, h, seen)
  <2>1. ASSUME NEW v \in SteadyOf(V)
        PROVE  /\ v.from > h => \E e \in Turning(v.slot, v.from, seen) : v.key = e.new
               /\ v.to > h => \E e \in Turning(v.slot, v.to, seen) : TRUE
    <3>1. PICK w \in SteadyOf(W) :
             /\ v.slot = w.slot /\ v.key = w.key /\ v.from = w.from
             /\ v.to = w.to \/ (v.to = to /\ w.to = NoEnd /\ w.slot = s)
      BY <1>4
    <3>2. /\ w.from > h => \E e \in Turning(w.slot, w.from, seen) : w.key = e.new
          /\ w.to > h => \E e \in Turning(w.slot, w.to, seen) : TRUE
      BY <1>1, <3>1 DEF Ahead
    <3>3. w.slot \in Steady BY DEF SteadyOf
    <3>4. v.to = to /\ w.slot = s /\ to > h => \E e \in Turning(v.slot, v.to, seen) : TRUE
      BY <3>1, <3>3 DEF EndsAt
    <3>. QED BY <3>1, <3>2, <3>4
  <2>. QED BY <2>1 DEF Ahead
<1>. QED BY <1>3, <1>5, <1>6 DEF Attributed, V

LEMMA OpenAttributed ==
    ASSUME NEW W, NEW h \in Nat, NEW seen, Attributed(W, h, seen),
           NEW s \in Slots, NEW k \in Keys, NEW from \in Nat \ {0},
           BeginsAt(s, k, from, h, seen), Latest(W, s, k, from)
    PROVE  Attributed(Open(W, s, k, from), h, seen)
<1> DEFINE open == OpenOf(W, s)
           V == Close(W, open, from)
           new == KeyWindow(s, k, from, NoEnd)
           U == Open(W, s, k, from)
<1>1. W \in SUBSET WindowType /\ Single(W) /\ Ahead(W, h, seen) BY DEF Attributed
<1>2. new \in WindowType /\ new.slot = s /\ new.key = k /\ new.from = from /\ new.to = NoEnd BY Begun
<1>3. \A w \in open : w.slot = s /\ w.to = NoEnd BY DEF OpenOf
<1>4. \A w \in W : w.slot = s /\ w.to = NoEnd => w \in open BY DEF OpenOf
<1>5. V = {End(w, open, from) : w \in W} BY Closed
<1>6. U = W \/ U = V \/ (U = V \union {new} /\ CanClose(open, from) /\ ~Taken(W, s, k, from))
  BY DEF Open, Opened, CanOpen
<1>. HIDE DEF new, open, V, U
<1>7. EndsAt(s, from, h, seen) BY DEF EndsAt, BeginsAt
<1>8. Attributed(V, h, seen) BY <1>3, <1>7, CloseAttributed DEF V
<1>9. ASSUME U = V \union {new}, CanClose(open, from), ~Taken(W, s, k, from)
      PROVE  Attributed(U, h, seen)
  <2>1. V \in SUBSET WindowType /\ Single(V) /\ Ahead(V, h, seen) BY <1>8 DEF Attributed
  <2>2. ASSUME NEW v \in SteadyOf(V), s \in Steady, v.slot = s \/ v.key = k
        PROVE  v.to # NoEnd /\ v.to <= from
    <3>1. v \in V /\ v.slot \in Steady BY DEF SteadyOf
    <3>2. PICK w \in W : v = End(w, open, from) BY <1>5, <3>1
    <3>3. w \in WindowType BY <1>1, <3>2
    <3>4. /\ v.slot = w.slot /\ v.key = w.key /\ v.from = w.from
          /\ v.to = IF w \in open /\ w.from < from THEN from ELSE w.to
      BY <3>2, <3>3, Ended
    <3>5. w \in SteadyOf(W) BY <3>1, <3>2, <3>4 DEF SteadyOf
    <3>6. w.from <= from /\ (w.slot = s => w.to <= from) BY <2>2, <3>4, <3>5 DEF Latest
    <3>7. w.from \in Nat /\ w.to \in Nat BY <3>3 DEF WindowType
    <3>8. CASE w.slot = s
      <4>1. CASE w.to = NoEnd
        <5>1. w \in open /\ w.from < from BY <1>4, <1>9, <3>2, <3>8, <4>1 DEF CanClose
        <5>. QED BY <3>4, <5>1 DEF NoEnd
      <4>2. CASE w.to # NoEnd
        <5>1. w \notin open BY <1>3, <4>2
        <5>. QED BY <3>4, <3>6, <3>8, <4>2, <5>1
      <4>. QED BY <4>1, <4>2
    <3>9. CASE w.slot # s
      <4>1. w \notin open /\ w.key = k BY <1>3, <2>2, <3>4, <3>9
      <4>2. ~Covers(w, from) BY <1>9, <3>2, <3>9, <4>1 DEF Taken
      <4>. QED BY <3>4, <3>6, <3>7, <4>1, <4>2 DEF Covers
    <3>. QED BY <3>8, <3>9
  <2>3. U \in SUBSET WindowType BY <1>2, <1>9, <2>1
  <2>4. Single(U)
    <3>1. ASSUME NEW a \in SteadyOf(U), NEW b \in SteadyOf(U), a # b, a.slot = b.slot \/ a.key = b.key
          PROVE  Disjoint(a, b)
      <4>1. /\ a \in SteadyOf(V) \/ (a = new /\ s \in Steady)
            /\ b \in SteadyOf(V) \/ (b = new /\ s \in Steady)
        BY <1>2, <1>9 DEF SteadyOf
      <4>2. CASE a \in SteadyOf(V) /\ b \in SteadyOf(V) BY <2>1, <3>1, <4>2 DEF Single, Unique
      <4>3. ASSUME NEW v \in SteadyOf(V), s \in Steady, v.slot = new.slot \/ v.key = new.key
            PROVE  Disjoint(v, new) /\ Disjoint(new, v)
        <5>1. v.to # NoEnd /\ v.to <= from BY <1>2, <2>2, <4>3
        <5>. QED BY <1>2, <5>1 DEF Disjoint
      <4>4. CASE a = new /\ b \in SteadyOf(V)
        <5>1. s \in Steady BY <1>2, <4>4 DEF SteadyOf
        <5>. QED BY <3>1, <4>3, <4>4, <5>1
      <4>5. CASE b = new /\ a \in SteadyOf(V)
        <5>1. s \in Steady BY <1>2, <4>5 DEF SteadyOf
        <5>. QED BY <3>1, <4>3, <4>5, <5>1
      <4>. QED BY <3>1, <4>1, <4>2, <4>4, <4>5
    <3>. QED BY <3>1 DEF Single, Unique
  <2>5. Ahead(U, h, seen)
    <3>1. ASSUME NEW v \in SteadyOf(U)
          PROVE  /\ v.from > h => \E e \in Turning(v.slot, v.from, seen) : v.key = e.new
                 /\ v.to > h => \E e \in Turning(v.slot, v.to, seen) : TRUE
      <4>1. CASE v \in SteadyOf(V) BY <2>1, <4>1 DEF Ahead
      <4>2. CASE v = new /\ s \in Steady
        <5>1. v.slot = s /\ v.key = k /\ v.from = from /\ v.to = 0 BY <1>2, <4>2 DEF NoEnd
        <5>2. from > h => \E e \in Turning(s, from, seen) : k = e.new BY <4>2 DEF BeginsAt
        <5>. QED BY <5>1, <5>2
      <4>. QED BY <1>2, <1>9, <4>1, <4>2 DEF SteadyOf
    <3>. QED BY <3>1 DEF Ahead
  <2>. QED BY <2>3, <2>4, <2>5 DEF Attributed
<1>. QED BY <1>6, <1>8, <1>9 DEF U

\* No window of a slot or of its key begins after what an event of it does,
\* except for a rotation requested later.
LEMMA LatestTurn ==
    ASSUME ChainInv, KeysInv, NEW g \in DOMAIN log, NEW i \in DOMAIN log[g],
           NEW W, NEW h \in Nat, h <= g, NEW seen \in Int, Ahead(W, h + 2, seen), W \in SUBSET WindowType,
           \/ log[g][i].type = "activated" /\ seen < g
           \/ log[g][i].type = "rotated" /\ seen <= g
    PROVE  Latest(W, log[g][i].slot, log[g][i].new, g + 2)
<1> DEFINE s == log[g][i].slot
           k == log[g][i].new
<1>1. g \in Nat \ {0} BY EventsOf
<1>2. ASSUME NEW t \in Steady, NEW at, at > g + 2, NEW e \in Turning(t, at, seen)
      PROVE  t # s /\ (s \in Steady => e.new # k)
  <2>1. e \in Coming(t) /\ at = e.due + 2 /\ e.due - RotationDelay <= seen BY DEF Turning
  <2>2. /\ e \in Recorded /\ e.slot = t /\ e.type = "rotated" /\ e.id[1] = e.due
        /\ e.due \in DOMAIN log /\ e.due \in Nat
    BY <2>1, ComingCalm
  <2>3. /\ e.id[2] \in DOMAIN log[e.due] /\ log[e.due][e.id[2]].type = "rotated"
        /\ log[e.due][e.id[2]].slot = t /\ log[e.due][e.id[2]].new = e.new
    BY <2>2, OfRecorded
  <2>4. g < e.due /\ RotationDelay \in Nat BY <1>1, <1>2, <2>1, <2>2, ChainAssumption
  <2>5. e.due - RotationDelay <= g BY <1>1, <2>1, <2>2, <2>4
  <2>6. log[g][i].type = "activated" => e.due - RotationDelay < g BY <1>1, <2>1, <2>2, <2>4
  <2>7. t # s
    <3>1. CASE log[g][i].type = "activated"
      <4>1. log[g][i].slot = t => log[g][i].type \notin Activity
        <5>1. e.due - RotationDelay < g /\ g <= e.due BY <1>1, <2>2, <2>4, <2>6, <3>1
        <5>. QED BY <2>1, <5>1, ComingCalm
      <4>. QED BY <3>1, <4>1 DEF Activity
    <3>2. CASE log[g][i].type = "rotated" BY <2>1, <2>4, <2>5, <3>2, ComingCalm
    <3>. QED BY <3>1, <3>2
  <2>8. ASSUME s \in Steady, e.new = k PROVE FALSE
    <3>1. Reserved(log, t, e.new, e.due - RotationDelay, e.due)
      BY <2>2, <2>3 DEF KeysInv, AppliedReserved
    <3>2. Brings(log[g][i], e.new) BY <2>8 DEF Brings
    <3>3. e.due - RotationDelay <= g /\ g <= e.due BY <1>1, <2>2, <2>4, <2>5
    <3>4. s = t BY <3>1, <3>2, <3>3 DEF Reserved
    <3>. QED BY <2>7, <3>4
  <2>. QED BY <2>7, <2>8
<1>. HIDE DEF s, k
<1>3. ASSUME s \in Steady, NEW w \in SteadyOf(W)
      PROVE  /\ w.slot = s \/ w.key = k => w.from <= g + 2
             /\ w.slot = s => w.to <= g + 2
  <2>1. w \in WindowType /\ w.slot \in Steady BY DEF SteadyOf
  <2>2. w.from \in Nat /\ w.to \in Nat BY <2>1 DEF WindowType
  <2>3. /\ w.from > h + 2 => \E e \in Turning(w.slot, w.from, seen) : w.key = e.new
        /\ w.to > h + 2 => \E e \in Turning(w.slot, w.to, seen) : TRUE
    BY DEF Ahead
  <2>4. ASSUME w.from > g + 2 PROVE w.slot # s /\ w.key # k
    <3>1. w.from > h + 2 BY <1>1, <2>2, <2>4
    <3>2. PICK e \in Turning(w.slot, w.from, seen) : w.key = e.new BY <2>3, <3>1
    <3>. QED BY <1>2, <1>3, <2>1, <2>4, <3>2
  <2>5. ASSUME w.to > g + 2 PROVE w.slot # s
    <3>1. w.to > h + 2 BY <1>1, <2>2, <2>5
    <3>2. PICK e \in Turning(w.slot, w.to, seen) : TRUE BY <2>3, <3>1
    <3>. QED BY <1>2, <2>1, <2>5, <3>2
  <2>6. ~(w.from <= g + 2) => w.from > g + 2 BY <1>1, <2>2
  <2>7. ~(w.to <= g + 2) => w.to > g + 2 BY <1>1, <2>2
  <2>. QED BY <2>4, <2>5, <2>6, <2>7
<1>. QED BY <1>3 DEF Latest, s, k

LEMMA LifecycleAttributed ==
    ASSUME ChainInv, KeysInv, NEW h \in DOMAIN log, NEW i \in DOMAIN log[h], NEW m,
           Attributed(m.windows, h + 2, h - 1)
    PROVE  Attributed(MapLifecycleEvent(m, EventsAt(h)[i]).windows, h + 2, h - 1)
<1> DEFINE e == EventsAt(h)[i]
           n == MapLifecycleEvent(m, e)
           W == m.windows
           open == OpenOf(W, e.slot)
<1>1. /\ e \in EventRow /\ e.id[1] = h /\ e.type = log[h][i].type /\ e.slot = log[h][i].slot
      /\ e.new = log[h][i].new /\ h \in Nat \ {0}
  BY EventsOf
<1>. HIDE DEF e
<1>2. e.slot \in Slots /\ e.new \in Keys /\ h + 2 \in Nat \ {0} /\ h - 1 \in Int
      /\ MembershipHeight(h) = h + 2
  BY <1>1 DEF EventRow, MembershipHeight
<1>3. W \in SUBSET WindowType /\ Ahead(W, h + 2, h - 1) BY DEF Attributed
<1>4. CASE e.type = "activated" /\ e.lost # "new"
  <2>1. n = OpenActive(m, e.slot, e.new, h + 2, h)
    BY <1>1, <1>2, <1>4 DEF MapLifecycleEvent, ProjectLifecycleEvent
  <2>2. n.windows = Open(W, e.slot, e.new, h + 2) BY <2>1 DEF OpenActive, Map
  <2>3. Latest(W, e.slot, e.new, h + 2)
    <3>1. h <= h /\ h \in Nat /\ h - 1 < h BY <1>1
    <3>2. log[h][i].type = "activated" BY <1>1, <1>4
    <3>. HIDE DEF W
    <3>3. Latest(W, log[h][i].slot, log[h][i].new, h + 2) BY <1>2, <1>3, <3>1, <3>2, LatestTurn
    <3>. QED BY <1>1, <3>3
  <2>4. BeginsAt(e.slot, e.new, h + 2, h + 2, h - 1) BY <1>2 DEF BeginsAt
  <2>. HIDE DEF W, n
  <2>5. /\ h + 2 \in Nat /\ Attributed(W, h + 2, h - 1) /\ e.slot \in Slots /\ e.new \in Keys
        /\ h + 2 \in Nat \ {0} /\ BeginsAt(e.slot, e.new, h + 2, h + 2, h - 1)
        /\ Latest(W, e.slot, e.new, h + 2)
    BY <1>2, <2>3, <2>4 DEF W
  <2>6. Attributed(Open(W, e.slot, e.new, h + 2), h + 2, h - 1) BY ONLY <2>5, OpenAttributed
  <2>. QED BY <2>2, <2>6 DEF n, e
<1>5. CASE e.type = "deactivated"
  <2>1. n = CloseActive(m, open, h + 2, h)
    BY <1>1, <1>2, <1>5 DEF MapLifecycleEvent, ProjectLifecycleEvent
  <2>2. n.windows = Close(W, open, h + 2) BY <2>1 DEF CloseActive, Map
  <2>3. \A w \in open : w.slot = e.slot /\ w.to = NoEnd BY DEF OpenOf
  <2>4. EndsAt(e.slot, h + 2, h + 2, h - 1) BY <1>2 DEF EndsAt
  <2>. HIDE DEF W, n, open
  <2>5. /\ h + 2 \in Nat /\ Attributed(W, h + 2, h - 1) /\ h + 2 \in Nat \ {0}
        /\ \A w \in open : w.slot = e.slot /\ w.to = NoEnd
        /\ EndsAt(e.slot, h + 2, h + 2, h - 1)
    BY <1>2, <2>3, <2>4 DEF W
  <2>6. Attributed(Close(W, open, h + 2), h + 2, h - 1) BY ONLY <2>5, CloseAttributed
  <2>. QED BY <2>2, <2>6 DEF n, e
<1>6. CASE ~(e.type = "activated" /\ e.lost # "new") /\ e.type # "deactivated"
  <2>1. n.windows = W BY <1>6 DEF MapLifecycleEvent, Map
  <2>. QED BY <2>1 DEF e
<1>. QED BY <1>4, <1>5, <1>6 DEF e

LEMMA EventsAttributed ==
    ASSUME ChainInv, KeysInv, NEW h \in DOMAIN log, NEW m, Attributed(m.windows, h + 2, h - 1)
    PROVE  Attributed(MappingEvents(m, EventsAt(h))[Len(log[h])].windows, h + 2, h - 1)
<1> DEFINE events == EventsAt(h)
           N == Len(events)
           map == MappingEvents(m, events)
           Good(n) == Attributed(map[n].windows, h + 2, h - 1)
           Shown == {n \in 0..N : Good(n)}
<1>1. N \in Nat /\ N = Len(log[h]) /\ DOMAIN log[h] = 1..N BY EventsOf
<1>2. map[0] = m /\ \A n \in 1..N : map[n] = MapLifecycleEvent(map[n - 1], EventsAt(h)[n])
  BY <1>1, MappingEventsFollow
<1>. HIDE DEF events, N, map
<1>3. ASSUME NEW n \in 0..(N - 1), Good(n) PROVE Good(n + 1)
  <2>1. n + 1 \in 1..N /\ n + 1 - 1 = n /\ n + 1 \in DOMAIN log[h] BY <1>1
  <2>2. map[n + 1] = MapLifecycleEvent(map[n], EventsAt(h)[n + 1]) BY <1>2, <2>1
  <2>. QED BY <1>3, <2>1, <2>2, LifecycleAttributed
<1>4. N \in Shown
  <2>1. 0 \in Shown BY <1>1, <1>2
  <2>2. \A n \in 0..(N - 1) : n \in Shown => n + 1 \in Shown
    <3>1. \A n \in 0..(N - 1) : n + 1 \in 0..N BY <1>1
    <3>. HIDE DEF Good
    <3>. QED BY <1>3, <3>1
  <2>. HIDE DEF Shown
  <2>3. 0..N \subseteq Shown BY <1>1, <2>1, <2>2, CountingUp
  <2>. QED BY <1>1, <2>3
<1>. QED BY <1>1, <1>4 DEF map, events

LEMMA SeenLater ==
    ASSUME ChainInv, NEW W, NEW h, NEW seen \in Int, NEW later \in Int, seen <= later, Attributed(W, h, seen)
    PROVE  Attributed(W, h, later)
<1>1. ASSUME NEW s, NEW at, NEW e \in Turning(s, at, seen) PROVE e \in Turning(s, at, later)
  <2>1. e \in Coming(s) /\ at = e.due + 2 /\ e.due - RotationDelay <= seen BY DEF Turning
  <2>2. e.due \in Nat /\ RotationDelay \in Nat BY <2>1, ComingCalm, ChainAssumption
  <2>3. e.due - RotationDelay <= later BY <2>1, <2>2
  <2>. QED BY <2>1, <2>3 DEF Turning
<1>. QED BY <1>1 DEF Attributed, Ahead

\* A row that counts at a height is of a rotation applied there or requested
\* there, so nothing of its slot or key is later.
LEMMA RotationPlaced ==
    ASSUME ChainInv, KeysInv, NEW h \in DOMAIN log, NEW r \in RowType, RowMade(r), h \in HeightsOf(r),
           IsApplied(r), r.new # NoKey
    PROVE  /\ EndsAt(r.slot, r.due + 2, h + 2, h) /\ BeginsAt(r.slot, r.new, r.due + 2, h + 2, h)
           /\ \A W : Attributed(W, h + 2, h) => Latest(W, r.slot, r.new, r.due + 2)
<1>1. CASE r.slot \notin Steady BY <1>1 DEF EndsAt, BeginsAt, Latest
<1>2. CASE r.slot \in Steady
  <2> DEFINE s == r.slot
  <2>1. h \in Nat \ {0} /\ h \in Int /\ RotationDelay \in Nat BY EventsOf, ChainAssumption
  <2>2. s \in Slots \ RotateInactive /\ Counts(r, s, h) BY <1>2 DEF Steady, Counts
  <2>3. PICK e \in Coming(s) : /\ r.new = NewKey(e) /\ r.due = e.due
                               /\ e.due = h \/ e.due = h + RotationDelay
    BY <2>1, <2>2, RowCounts
  <2>4. r.new = e.new BY <2>3 DEF NewKey
  <2>5. /\ e \in Recorded /\ e.slot = s /\ e.type = "rotated" /\ e.id[1] = e.due
        /\ e.due \in DOMAIN log /\ e.due \in Nat
    BY ComingCalm
  <2>6. h <= e.due /\ e.due - RotationDelay <= h BY <2>1, <2>3, <2>5
  <2>7. e \in Turning(s, r.due + 2, h) BY <2>3, <2>6 DEF Turning
  <2>8. EndsAt(s, r.due + 2, h + 2, h) /\ BeginsAt(s, r.new, r.due + 2, h + 2, h)
    BY <2>4, <2>7 DEF EndsAt, BeginsAt
  <2> DEFINE g == e.due
             i == e.id[2]
  <2>9. /\ i \in DOMAIN log[g] /\ log[g][i].type = "rotated" /\ log[g][i].slot = s
        /\ log[g][i].new = r.new
    BY <2>4, <2>5, OfRecorded
  <2>10. g \in DOMAIN log /\ h <= g BY <2>5, <2>6
  <2>. HIDE DEF g, i, s
  <2>11. ASSUME NEW W, Attributed(W, h + 2, h) PROVE Latest(W, s, r.new, g + 2)
    <3>1. W \in SUBSET WindowType /\ Ahead(W, h + 2, h) BY <2>11 DEF Attributed
    <3>2. h \in Nat /\ h \in Int BY <2>1
    <3>3. Latest(W, log[g][i].slot, log[g][i].new, g + 2)
      BY <2>9, <2>10, <3>1, <3>2, LatestTurn
    <3>. QED BY <2>9, <3>3
  <2>. QED BY <2>3, <2>8, <2>11 DEF g, s
<1>. QED BY <1>1, <1>2

LEMMA RotationAttributed ==
    ASSUME ChainInv, KeysInv, NEW h \in DOMAIN log, NEW r \in RowType, RowMade(r), h \in HeightsOf(r),
           NEW m, Attributed(m.windows, h + 2, h)
    PROVE  Attributed(MapRotation(m, r).windows, h + 2, h)
<1> DEFINE n == MapRotation(m, r)
<1>1. \/ n = m
      \/ n = Map(m.windows, m.failures \union {Failure(r.applied[1], r.slot)})
      \/ IsApplied(r) /\ r.new # NoKey /\ \E old : n = ProjectRotation(m, Rotation(r, old))
  BY RotationMapped
<1>2. CASE n = m BY <1>2
<1>3. CASE n = Map(m.windows, m.failures \union {Failure(r.applied[1], r.slot)})
  <2>1. n.windows = m.windows BY <1>3 DEF Map
  <2>. QED BY <2>1
<1>4. ASSUME IsApplied(r), r.new # NoKey, NEW old, n = ProjectRotation(m, Rotation(r, old))
      PROVE  Attributed(n.windows, h + 2, h)
  <2> DEFINE q == Rotation(r, old)
             from == r.due + 2
             closing == Replaced(m, q, from)
             closed == CloseActive(m, closing, from, q.applied)
             opened == OpenActive(closed, r.slot, r.new, from, q.applied)
  <2>1. /\ q.status = r.status /\ q.slot = r.slot /\ q.new = r.new /\ q.due = r.due
        /\ q.applied = r.applied[1] /\ q.old = old
    BY DEF Rotation
  <2>2. r.slot \in Slots /\ r.new \in Keys /\ from \in Nat \ {0} /\ MembershipHeight(r.due) = from
    BY <1>4 DEF RowType, SlotKey, MembershipHeight
  <2>3. \A w \in closing : w.slot = r.slot /\ w.to = NoEnd BY <2>1 DEF Replaced, OpenOf
  <2>4. n \in {m, closed, opened} BY <1>4, <2>1, <2>2 DEF ProjectRotation
  <2>5. closed.windows = Close(m.windows, closing, from) BY DEF CloseActive, Map
  <2>6. opened.windows = Open(closed.windows, r.slot, r.new, from) BY DEF OpenActive, Map
  <2>7. h + 2 \in Nat BY EventsOf
  <2>8. /\ EndsAt(r.slot, from, h + 2, h) /\ BeginsAt(r.slot, r.new, from, h + 2, h)
        /\ \A W : Attributed(W, h + 2, h) => Latest(W, r.slot, r.new, from)
    BY <1>4, RotationPlaced
  <2>. HIDE DEF q, from, closing, closed, opened, n
  <2>9. Attributed(closed.windows, h + 2, h)
    <3>1. /\ h + 2 \in Nat /\ Attributed(m.windows, h + 2, h) /\ from \in Nat \ {0}
          /\ \A w \in closing : w.slot = r.slot /\ w.to = NoEnd
          /\ EndsAt(r.slot, from, h + 2, h)
      BY <2>2, <2>3, <2>7, <2>8
    <3>2. Attributed(Close(m.windows, closing, from), h + 2, h) BY ONLY <3>1, CloseAttributed
    <3>. QED BY <2>5, <3>2
  <2>10. Attributed(opened.windows, h + 2, h)
    <3>1. /\ h + 2 \in Nat /\ Attributed(closed.windows, h + 2, h) /\ from \in Nat \ {0}
          /\ r.slot \in Slots /\ r.new \in Keys
          /\ BeginsAt(r.slot, r.new, from, h + 2, h) /\ Latest(closed.windows, r.slot, r.new, from)
      BY <2>2, <2>7, <2>8, <2>9
    <3>2. Attributed(Open(closed.windows, r.slot, r.new, from), h + 2, h) BY ONLY <3>1, OpenAttributed
    <3>. QED BY <2>6, <3>2
  <2>. QED BY <2>4, <2>9, <2>10
<1>. QED BY <1>1, <1>2, <1>3, <1>4

LEMMA HeightAttributed ==
    ASSUME ChainInv, RotationsInv, KeysInv, NEW h \in DOMAIN log, NEW m,
           Attributed(m.windows, h + 1, h - 1)
    PROVE  Attributed(Mapped(m, h).windows, h + 2, h)
<1> DEFINE c == MappingEvents(m, EventsAt(h))[Len(log[h])]
           R == Len(rotations)
           after == MappingRotations(c, h)
           Good(n) == Attributed(after[n].windows, h + 2, h)
           Shown == {n \in 0..R : Good(n)}
<1>1. h \in Nat \ {0} /\ h - 1 \in Int /\ h \in Int /\ h - 1 <= h BY EventsOf
<1>2. Attributed(m.windows, h + 2, h - 1)
  <2>1. \A w \in WindowType : (w.from > h + 2 => w.from > h + 1) /\ (w.to > h + 2 => w.to > h + 1)
    BY <1>1 DEF WindowType
  <2>2. SteadyOf(m.windows) \subseteq WindowType BY DEF Attributed, SteadyOf
  <2>. QED BY <2>1, <2>2 DEF Attributed, Ahead
<1>3. Attributed(c.windows, h + 2, h - 1) BY <1>2, EventsAttributed
<1>4. R \in Nat /\ \A n \in 1..R : rotations[n] \in RowType /\ RowMade(rotations[n]) BY RowsKnown
<1>5. /\ after[0] = c
      /\ \A n \in 1..R : after[n] = IF h \in HeightsOf(rotations[n])
                                    THEN MapRotation(after[n - 1], rotations[n]) ELSE after[n - 1]
  BY <1>4, MappingRotationsFollow
<1>. HIDE DEF c, R, after
<1>6. Good(0) BY <1>1, <1>3, <1>5, SeenLater
<1>7. ASSUME NEW n \in 0..(R - 1), Good(n) PROVE Good(n + 1)
  <2>1. n + 1 \in 1..R /\ n + 1 - 1 = n BY <1>4
  <2>2. rotations[n + 1] \in RowType /\ RowMade(rotations[n + 1]) BY <1>4, <2>1
  <2>3. after[n + 1] = IF h \in HeightsOf(rotations[n + 1])
                       THEN MapRotation(after[n], rotations[n + 1]) ELSE after[n]
    BY <1>5, <2>1
  <2>4. CASE h \in HeightsOf(rotations[n + 1])
    <3>1. after[n + 1] = MapRotation(after[n], rotations[n + 1]) BY <2>3, <2>4
    <3>2. Attributed(MapRotation(after[n], rotations[n + 1]).windows, h + 2, h)
      BY <1>7, <2>2, <2>4, RotationAttributed
    <3>. QED BY <3>1, <3>2
  <2>5. CASE h \notin HeightsOf(rotations[n + 1]) BY <1>7, <2>3, <2>5
  <2>. QED BY <2>4, <2>5
<1>8. R \in Shown
  <2>1. 0 \in Shown BY <1>4, <1>6
  <2>2. \A n \in 0..(R - 1) : n \in Shown => n + 1 \in Shown
    <3>1. \A n \in 0..(R - 1) : n + 1 \in 0..R BY <1>4
    <3>. HIDE DEF Good
    <3>. QED BY <1>7, <3>1
  <2>. HIDE DEF Shown
  <2>3. 0..R \subseteq Shown BY <1>4, <2>1, <2>2, CountingUp
  <2>. QED BY <1>4, <2>3
<1>9. Attributed(after[R].windows, h + 2, h) BY <1>8
<1>. QED BY <1>9 DEF Mapped, after, R, c

(***************************************************************************)
(* The seed                                                                *)
(***************************************************************************)
FromGenesis(w) == w.slot \in Slots /\ w = KeyWindow(w.slot, GenesisKey[w.slot], 1, NoEnd)

LEMMA SlotFromGenesis ==
    ASSUME NEW m, \A w \in m.windows : FromGenesis(w), NEW t \in Slots
    PROVE  \A w \in SeedGenesisSlot(m, t).windows : FromGenesis(w)
<1> DEFINE W == m.windows
           k == GenesisKey[t]
           n == SeedGenesisSlot(m, t)
           V == Close(W, OpenOf(W, t), 1)
           new == KeyWindow(t, k, 1, NoEnd)
<1>1. \A w \in W : FromGenesis(w) OBVIOUS
<1>2. n.windows = W \/ n.windows = Open(W, t, k, 1) BY DEF SeedGenesisSlot, OpenActive, Map
<1>3. V \subseteq W
  <2>1. \A w \in W : ~(w.from < 1) BY <1>1 DEF FromGenesis, KeyWindow
  <2>. QED BY <2>1 DEF Close
<1>4. Open(W, t, k, 1) \subseteq W \union {new} BY <1>3 DEF Open, Opened
<1>5. FromGenesis(new)
  <2>1. new.slot = t BY DEF KeyWindow
  <2>. QED BY <2>1 DEF FromGenesis
<1>. HIDE DEF W, k, V, new, n
<1>6. \A w \in n.windows : FromGenesis(w) BY <1>1, <1>2, <1>4, <1>5
<1>. QED BY <1>6 DEF n

LEMMA SeededFromGenesis == \A w \in Seeded.windows : FromGenesis(w)
<1> DEFINE N == Cardinality(GenesisActive)
           order == AnOrder(GenesisActive)
           map == Seeding
           Good(n) == \A w \in map[n].windows : FromGenesis(w)
           Shown == {n \in 0..N : Good(n)}
<1>1. order \in [1..N -> GenesisActive] /\ N \in Nat
  <2>1. IsFiniteSet(GenesisActive) BY ChainAssumption, FS_Subset
  <2>. QED BY <2>1, OrderExists
<1>2. map[0] = Map({}, {}) /\ \A n \in 1..N : map[n] = SeedGenesisSlot(map[n - 1], order[n])
  BY <1>1, SeedingFollows
<1>. HIDE DEF N, order, map
<1>3. Good(0) BY <1>2 DEF Map
<1>4. ASSUME NEW n \in 0..(N - 1), Good(n) PROVE Good(n + 1)
  <2>1. n + 1 \in 1..N /\ n + 1 - 1 = n BY <1>1
  <2>2. order[n + 1] \in Slots BY <1>1, <2>1, ChainAssumption
  <2>3. map[n + 1] = SeedGenesisSlot(map[n], order[n + 1]) BY <1>2, <2>1
  <2>. QED BY <1>4, <2>2, <2>3, SlotFromGenesis
<1>5. N \in Shown
  <2>1. 0 \in Shown BY <1>1, <1>3
  <2>2. \A n \in 0..(N - 1) : n \in Shown => n + 1 \in Shown
    <3>1. \A n \in 0..(N - 1) : n + 1 \in 0..N BY <1>1
    <3>. HIDE DEF Good
    <3>. QED BY <1>4, <3>1
  <2>. HIDE DEF Shown
  <2>3. 0..N \subseteq Shown BY <1>1, <2>1, <2>2, CountingUp
  <2>. QED BY <1>1, <2>3
<1>6. Seeded = map[N] BY DEF Seeded, map, N
<1>. QED BY <1>5, <1>6

LEMMA SeededAttributed ==
    ASSUME GenesisApart
    PROVE  Attributed(Seeded.windows, 2, 0)
<1> DEFINE W == Seeded.windows
<1>1. W \in SUBSET WindowType /\ \A w \in W : FromGenesis(w) BY SeededWindows, SeededFromGenesis
<1>2. \A w \in W : w.from = 1 /\ w.to = 0 /\ w.key = GenesisKey[w.slot] /\ w.slot \in Slots
  BY <1>1 DEF FromGenesis, KeyWindow, NoEnd
<1>. HIDE DEF W
<1>3. Single(W)
  <2>1. ASSUME NEW v \in W, NEW w \in W, v.slot = w.slot \/ v.key = w.key PROVE v = w
    <3>1. v.slot = w.slot BY <1>2, <2>1 DEF GenesisApart
    <3>. QED BY <1>1, <3>1 DEF FromGenesis
  <2>. QED BY <2>1 DEF Single, Unique, SteadyOf
<1>4. Ahead(W, 2, 0) BY <1>2 DEF Ahead, SteadyOf
<1>. QED BY <1>1, <1>3, <1>4 DEF Attributed, W

(***************************************************************************)
(* The invariant                                                           *)
(***************************************************************************)
AttributionInv == KeysInv /\ Attributed(windows, mapped + 2, mapped)

LEMMA KeysInvKeeps ==
    ASSUME ChainInv, KeysInv, Chain \/ UNCHANGED chainVars
    PROVE  KeysInv'
<1>1. CASE Chain BY <1>1, TransactionsKeepKeys, EndKeepsKeys DEF Chain
<1>2. CASE UNCHANGED chainVars
  <2>1. slot' = slot /\ block' = block /\ log' = log BY <1>2 DEF chainVars
  <2>2. KeysApart' BY <2>1 DEF KeysInv, KeysApart
  <2>3. BlockKeys' BY <2>1 DEF KeysInv, BlockKeys, Steady
  <2>4. PendingReserved' BY <2>1 DEF KeysInv, PendingReserved, Reserved, Brings, Steady
  <2>5. AppliedReserved' BY <2>1 DEF KeysInv, AppliedReserved, Reserved, Brings, Steady
  <2>. QED BY <2>2, <2>3, <2>4, <2>5 DEF KeysInv
<1>. QED BY <1>1, <1>2

\* Rotations to come stay to come when the chain goes on.
LEMMA AttributedStays ==
    ASSUME ChainInv, ChainInv', Grows, NEW W, NEW h, NEW seen, Attributed(W, h, seen)
    PROVE  Attributed(W, h, seen)'
<1>1. ASSUME NEW s, NEW at, NEW e \in Turning(s, at, seen) PROVE e \in Turning(s, at, seen)'
  <2>1. e \in Recorded BY DEF Turning, Coming
  <2>2. e \in Recorded' BY <2>1, Recording
  <2>. QED BY <2>2 DEF Turning, Coming
<1>2. SteadyOf(W)' = SteadyOf(W) BY DEF SteadyOf, Steady
<1>3. Single(W)' BY <1>2 DEF Attributed, Single
<1>4. Ahead(W, h, seen)' BY <1>1, <1>2 DEF Attributed, Ahead
<1>. QED BY <1>3, <1>4 DEF Attributed, WindowType

LEMMA AttributionKeeps ==
    ASSUME GenesisApart, TemporalInv, TemporalInv', AttributionInv, [MapNext]_temporalVars
    PROVE  AttributionInv'
<1>1. ChainInv /\ ChainInv' /\ RotationsInv /\ KeysInv /\ Attributed(windows, mapped + 2, mapped)
  BY DEF TemporalInv, AttributionInv
<1>2. Chain \/ UNCHANGED chainVars
  BY DEF MapNext, ProjectRotations, ResetRotations, MapHeight, ResetMap, temporalVars
<1>3. KeysInv' BY <1>1, <1>2, KeysInvKeeps
<1>4. Grows
  <2>1. CASE Chain BY <1>1, <2>1, Growing DEF Chain
  <2>2. CASE UNCHANGED chainVars
    <3>1. log' = log BY <2>2 DEF chainVars
    <3>. QED BY <3>1 DEF Grows
  <2>. QED BY <1>2, <2>1, <2>2
<1>5. \A W, h, seen : Attributed(W, h, seen) => Attributed(W, h, seen)' BY <1>1, <1>4, AttributedStays
<1>6. CASE UNCHANGED mapVars
  <2>1. windows' = windows /\ mapped' = mapped BY <1>6 DEF mapVars
  <2>2. Attributed(windows', mapped' + 2, mapped') BY <1>1, <2>1
  <2>. QED BY <1>3, <1>5, <2>2 DEF AttributionInv
<1>7. CASE MapHeight
  <2> DEFINE h == mapped + 1
             cleared == Map(windows, {f \in failures : f.height # h})
  <2>1. windows' = Mapped(cleared, h).windows /\ mapped' = h /\ mapped < rotated
    BY <1>7 DEF MapHeight, Mapped
  <2>2. cleared.windows = windows BY DEF Map
  <2>3. h \in DOMAIN log /\ h + 1 = mapped + 2 /\ h - 1 = mapped
    <3>1. mapped \in 0..Len(log) /\ rotated \in 0..Len(log) BY DEF TemporalInv, MapInv, RotationsInv
    <3>2. Len(log) \in Nat /\ DOMAIN log = 1..Len(log)
      <4>1. log \in Seq(Seq(ChainEvent)) BY <1>1 DEF ChainInv, ChainTyped
      <4>. QED BY <4>1
    <3>. QED BY <2>1, <3>1, <3>2
  <2>. HIDE DEF h, cleared
  <2>4. Attributed(cleared.windows, h + 1, h - 1) BY <1>1, <2>2, <2>3
  <2>5. Attributed(Mapped(cleared, h).windows, h + 2, h) BY <1>1, <2>3, <2>4, HeightAttributed
  <2>6. Attributed(windows', mapped' + 2, mapped') BY <2>1, <2>5
  <2>. QED BY <1>3, <1>5, <2>6 DEF AttributionInv
<1>8. CASE ResetMap
  <2>1. windows' = Seeded.windows /\ mapped' = 0 BY <1>8 DEF ResetMap
  <2>2. Attributed(Seeded.windows, 2, 0) BY SeededAttributed
  <2>3. Attributed(windows', mapped' + 2, mapped') BY <2>1, <2>2
  <2>. QED BY <1>3, <1>5, <2>3 DEF AttributionInv
<1>. QED BY <1>6, <1>7, <1>8
  DEF MapNext, Chain, ProjectRotations, ResetRotations, temporalVars

\* ActiveAttributionUnique: of the slots that rotate only while they are active
\* no two windows of one key, or of one slot, overlap, whatever the chain does,
\* what of it can be read, and how far ahead of the map the rotation rows are.
\* At genesis, as ever after, no two slots have one key.
THEOREM MapAttribution ==
    ASSUME GenesisApart
    PROVE  MapSpec => []ActiveAttributionUnique
<1>1. MapInit => AttributionInv
  <2>1. SUFFICES ASSUME MapInit PROVE AttributionInv OBVIOUS
  <2>2. ChainInit /\ windows = Seeded.windows /\ mapped = 0 BY <2>1 DEF MapInit
  <2>3. Attributed(windows, mapped + 2, mapped) BY <2>2, SeededAttributed
  <2>. QED BY <2>2, <2>3, KeysBegin DEF AttributionInv
<1>2. AttributionInv /\ TemporalInv /\ TemporalInv' /\ [MapNext]_temporalVars => AttributionInv'
  BY AttributionKeeps
<1>3. TemporalInv /\ AttributionInv => ActiveAttributionUnique
  <2>1. SUFFICES ASSUME TemporalInv, AttributionInv PROVE ActiveAttributionUnique OBVIOUS
  <2>2. windows \in SUBSET WindowType /\ Single(windows)
    <3>1. Attributed(windows, mapped + 2, mapped) BY <2>1 DEF AttributionInv
    <3>. QED BY <3>1 DEF Attributed
  <2>3. {w \in windows : w.slot \notin RotateInactive} = SteadyOf(windows)
    BY <2>2 DEF SteadyOf, Steady, WindowType
  <2>. QED BY <2>2, <2>3 DEF Single, ActiveAttributionUnique
<1>4. MapSpec => []TemporalInv BY TemporalInvAlways
<1>. QED BY <1>1, <1>2, <1>3, <1>4, PTL DEF MapSpec
=============================================================================
