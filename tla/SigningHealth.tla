---------------------------- MODULE SigningHealth ----------------------------
(***************************************************************************)
(* From the votes of a commit to the network's halt risk: the projections  *)
(* operator_signing_evidence, coreslot_liveness, coreslot_liveness_summary *)
(* and coreslot_health, each run on its own under the projection lock, the *)
(* first two a height at a time, the other two over everything there is.   *)
(*                                                                         *)
(* What the temporal map says of a height is a set of slots that may be    *)
(* wrong about one of them; a rebuild of the map sets it right.  How a     *)
(* projection resumes and how it fails is in ProjectionPipeline.           *)
(***************************************************************************)
EXTENDS LivenessEvidence, LivenessSummary

CONSTANTS
    NumSlots,    \* slots are 1..NumSlots
    PartTime,    \* slots that may be outside the validator set
    Unreliable,  \* slots that may miss a height they validate
    Doubtful,    \* slots the temporal map may be wrong about
    Garbled,     \* slots whose votes a block may carry in a form that is not known
    Commitless,  \* whether a block may lack its last_commit
    RingSize,    \* the largest recent window
    Recent,      \* the window health looks at
    DownStreak,  \* misses in a row that make a slot count as down
    ChunkSize,   \* rows per read of the summary projection
    MaxHeight,   \* bound: committed heights
    MaxLag,      \* bound: heights evidence is behind the signatures
    MaxMistakes  \* bound: heights the temporal map is wrong about or whose commit
                 \* cannot be read in full

Slots == 1..NumSlots

ASSUME SigningAssumption ==
    /\ NumSlots \in Nat \ {0} /\ PartTime \subseteq Slots
    /\ Unreliable \subseteq Slots /\ Doubtful \subseteq Slots /\ Garbled \subseteq Slots
    /\ Commitless \in BOOLEAN /\ MaxLag \in Nat \ {0}
    /\ Recent \in 1..RingSize /\ RingSize \in Nat /\ ChunkSize \in Nat \ {0}
    /\ DownStreak \in Nat \ {0} /\ MaxHeight \in Nat /\ MaxMistakes \in Nat

VARIABLES
    votes,     \* the chain: votes[h][s] is what slot s gave to the commit of h
    commits,   \* commits[h]: BlockSignature rows and failures of the block after h
    windows,   \* windows[h]: the slots with a window at h, as the map is now
    evidence,  \* evidence[h]: OperatorSigningEvidence rows of h
    liveness,  \* liveness[h]: CoreSlotLivenessEvidence rows of h, by slot
    invalid,   \* heights with an unresolved ProjectionFailure of liveness
    scan,      \* the summary projection's read phase
    summaries, \* CoreSlotLivenessSummary rows, by slot
    health,    \* CoreSlotHealthSnapshot and NetworkLivenessRiskSnapshot rows
    mistakes   \* heights so far that were not read and mapped right

vars == <<votes, commits, windows, evidence, liveness, invalid, scan, summaries, health, mistakes>>

NoKey == <<0, 0>> \* before the first slot and height

NoScan == [active |-> FALSE, after |-> NoKey, states |-> <<>>, complete |-> FALSE]

NoSummaries == [s \in {} |-> NoRow]

Risk(latest, rows, level) == [latest |-> latest, rows |-> rows, level |-> level]

Init ==
    /\ votes = <<>> /\ commits = <<>> /\ windows = <<>> /\ evidence = <<>> /\ liveness = <<>>
    /\ invalid = {} /\ scan = NoScan /\ summaries = NoSummaries
    /\ health = Risk(NoHeight, <<>>, "none") /\ mistakes = 0

\* The commit of height h as the next block carries it, a vote of each validator
\* in the order of the set.
Carried(h, vote, stated, s, shape) ==
    LET voters == SetToSeq(Validators(vote))
    IN  [stated |-> stated,
         votes |-> [i \in DOMAIN voters |->
                       Vote(voters[i], vote[voters[i]],
                            IF voters[i] = s THEN shape ELSE "whole")]]

Intact(h, vote) == Carried(h, vote, h, NoSlot, "whole")

Spoilt(h, vote) ==
    {Carried(h, vote, h, s, shape) : s \in Garbled \intersect Validators(vote), shape \in Shapes}
    \union {Carried(h, vote, stated, NoSlot, "whole") : stated \in {Unreadable, h + 2}}
    \union (IF Commitless THEN {NoCommit} ELSE {})

\* What the map says of a height at which it is wrong about a slot.
Wrong(vote, s) ==
    IF vote[s] = "none" THEN Validators(vote) \union {s} ELSE Validators(vote) \ {s}

\* block_signatures projects the commit of the next height.  The temporal map,
\* which evidence never outruns, knows its validators or is wrong about a slot.
ProjectSignatures ==
    LET h == Len(votes) + 1 IN
    /\ ~scan.active
    /\ h <= MaxHeight /\ Len(votes) - Len(evidence) < MaxLag
    /\ \E vote \in [Slots -> Flags] :
          /\ HasQuorum(vote)
          /\ Slots \ PartTime \subseteq Validators(vote)
          /\ {s \in Slots : vote[s] \in {"nil", "absent"}} \subseteq Unreliable
          /\ votes' = Append(votes, vote)
          /\ \/ /\ windows' = Append(windows, Validators(vote))
                /\ commits' = Append(commits, ReadCommit(h + 1, Intact(h, vote)))
                /\ UNCHANGED mistakes
             \/ /\ mistakes < MaxMistakes /\ mistakes' = mistakes + 1
                /\ commits' = Append(commits, ReadCommit(h + 1, Intact(h, vote)))
                /\ \E s \in Doubtful : windows' = Append(windows, Wrong(vote, s))
             \/ /\ mistakes < MaxMistakes /\ mistakes' = mistakes + 1
                /\ windows' = Append(windows, Validators(vote))
                /\ \E commit \in Spoilt(h, vote) :
                      commits' = Append(commits, ReadCommit(h + 1, commit))
    /\ UNCHANGED <<evidence, liveness, invalid, scan, summaries, health>>

\* The temporal map is reset and projected again.
RebuildMap ==
    /\ ~scan.active
    /\ windows' = [h \in DOMAIN votes |-> Validators(votes[h])]
    /\ UNCHANGED <<votes, commits, evidence, liveness, invalid, scan, summaries, health, mistakes>>

ProjectEvidence ==
    LET h == Len(evidence) + 1 IN
    /\ ~scan.active /\ h <= Len(votes)
    /\ evidence' = Append(evidence, Attribute(windows[h], commits[h]))
    /\ UNCHANGED <<votes, commits, windows, liveness, invalid, scan, summaries, health, mistakes>>

\* The rows of the height, or a failure and no rows.  A height without evidence
\* is passed over.
ProjectLiveness ==
    LET h == Len(liveness) + 1
        none == [s \in {} |-> NoRow]
    IN
    /\ ~scan.active /\ h <= Len(evidence)
    /\ liveness' = Append(liveness, IF evidence[h] = {} THEN none
                                    ELSE Evaluate(windows[h], evidence[h]))
    /\ invalid' = IF evidence[h] = {} \/ CanEvaluate(windows[h], evidence[h]) THEN invalid
                  ELSE invalid \union {h}
    /\ UNCHANGED <<votes, commits, windows, evidence, scan, summaries, health, mistakes>>

\* RESET_PROJECTION=true of the liveness projection.
ResetLiveness ==
    /\ ~scan.active
    /\ liveness' = <<>> /\ invalid' = {}
    /\ UNCHANGED <<votes, commits, windows, evidence, scan, summaries, health, mistakes>>

(***************************************************************************)
(* Summaries: rows are read by slot and height in chunks, a new chunk      *)
(* starting behind the last row of the one before; then one transaction    *)
(* replaces all summaries.                                                 *)
(***************************************************************************)
RowAt(s, h) == Row(s, h, liveness[h][s])

\* The rows of a slot up to each height, lowest first.
RowsByHeight(s) ==
    LET rows[h \in 0..Len(liveness)] ==
            IF h = 0 THEN <<>>
            ELSE IF s \in DOMAIN liveness[h] THEN Append(rows[h - 1], RowAt(s, h))
            ELSE rows[h - 1]
    IN  rows

RowsOf(s) == RowsByHeight(s)[Len(liveness)]

\* Rows by what they are ordered by, slot and height.
RowKeys == UNION {{<<s, h>> : s \in DOMAIN liveness[h]} : h \in DOMAIN liveness}

UpTo(k, keys) == {j \in keys : j[1] < k[1] \/ (j[1] = k[1] /\ j[2] <= k[2])}

\* Mutant: the next chunk starts behind the last height, whatever the slot.
BehindHeight(k, tail) == k[2] > tail[2]

Behind(k, tail) == k[1] > tail[1] \/ (k[1] = tail[1] /\ k[2] > tail[2])

StartSummary ==
    /\ ~scan.active
    /\ scan' = [active |-> TRUE, after |-> NoKey, complete |-> FALSE,
                states |-> [s \in Slots |-> NewState(RingSize)]]
    /\ UNCHANGED <<votes, commits, windows, evidence, liveness, invalid, summaries, health, mistakes>>

\* The state of a slot at each height, fed with its rows of a chunk.
Feeding(st, s, chunk) ==
    LET fed[h \in 0..Len(liveness)] ==
            IF h = 0 THEN st
            ELSE IF s \in DOMAIN liveness[h] /\ <<s, h>> \in chunk
            THEN Feed(fed[h - 1], RowAt(s, h))
            ELSE fed[h - 1]
    IN  fed

\* The first rows behind a key.
RowsBehind(after) ==
    LET left == {k \in RowKeys : Behind(k, after)}
    IN  {k \in left : Cardinality(UpTo(k, left)) <= ChunkSize}

ReadChunk ==
    /\ scan.active /\ ~scan.complete
    /\ scan' = LET chunk == RowsBehind(scan.after) IN
               [active |-> TRUE,
                after  |-> IF chunk = {} THEN scan.after
                           ELSE CHOOSE k \in chunk : UpTo(k, chunk) = chunk,
                states |-> [s \in Slots |-> Feeding(scan.states[s], s, chunk)[Len(liveness)]],
                complete |-> Cardinality(chunk) < ChunkSize]
    /\ UNCHANGED <<votes, commits, windows, evidence, liveness, invalid, summaries, health, mistakes>>

WriteSummaries ==
    /\ scan.active /\ scan.complete
    /\ summaries' =
          [s \in {t \in Slots : scan.states[t].last # NoRow} |->
              [lifetime |-> LifetimeSummary(scan.states[s], invalid),
               recent |-> BuildSummary(Trailing(MaterializeRing(scan.states[s]), Recent), invalid)]]
    /\ scan' = NoScan
    /\ UNCHANGED <<votes, commits, windows, evidence, liveness, invalid, health, mistakes>>

\* The process ends before its transaction.
AbandonScan ==
    /\ scan.active
    /\ scan' = NoScan
    /\ UNCHANGED <<votes, commits, windows, evidence, liveness, invalid, summaries, health, mistakes>>

(***************************************************************************)
(* Health of the slots that are active at the latest summarised height.    *)
(***************************************************************************)
\* Counts that do not add up.
CorruptSummary(sum) == sum.signed + sum.absent + sum.nil # sum.expected

\* Mutant: an incomplete summary is taken at face value.
ClassifyHealthUnguarded(sum) ==
    IF sum.missedStreak >= DownStreak THEN "down"
    ELSE IF sum.missedStreak > 0 \/ UptimeBps(sum) < 9900 \/ sum.absent + sum.nil > 0
    THEN "degraded"
    ELSE "healthy"

ClassifyHealth(sum) ==
    IF sum.invalidCount > 0 THEN "incomplete"
    ELSE IF sum.missedStreak >= DownStreak THEN "down"
    ELSE IF sum.missedStreak > 0 \/ UptimeBps(sum) < 9900 \/ sum.absent + sum.nil > 0
    THEN "degraded"
    ELSE "healthy"

\* A slot's snapshot.  Nothing of a corrupt summary is shown, but the slot is
\* still counted.
HealthRow(status, first, last) == [status |-> status, first |-> first, last |-> last]

Snapshot(s) ==
    IF s \notin DOMAIN summaries THEN HealthRow("unknown", NoHeight, NoHeight)
    ELSE LET sum == summaries[s].recent IN
         IF CorruptSummary(sum) THEN HealthRow("incomplete", NoHeight, NoHeight)
         ELSE HealthRow(ClassifyHealth(sum), sum.first, sum.last)

\* The slots whose snapshot says so.
CountStatus(rows, kinds) == Cardinality({s \in DOMAIN rows : rows[s].status \in kinds})

Bps(n, total) == (n * 10000) \div total

RiskLevel(rows) ==
    LET total == Cardinality(DOMAIN rows) IN
    IF total = 0 \/ CountStatus(rows, {"incomplete", "unknown"}) > 0 THEN "unknown"
    ELSE IF Bps(CountStatus(rows, {"healthy", "degraded"}), total) <= 6666 THEN "critical"
    ELSE IF \/ CountStatus(rows, {"down", "degraded"}) > 0
            \/ Bps(CountStatus(rows, {"down"}), total) >= 2500
    THEN "warning"
    ELSE "normal"

\* The latest height a recent window ends at; every slot with a lifetime summary
\* has a recent one.
NetworkLatestHeight ==
    Max({summaries[s].recent.last : s \in DOMAIN summaries} \union {NoHeight})

ProjectHealth ==
    LET active == IF NetworkLatestHeight = NoHeight THEN {} ELSE windows[NetworkLatestHeight]
        rows == [s \in active |-> Snapshot(s)]
    IN
    /\ ~scan.active
    /\ health' = Risk(NetworkLatestHeight, rows, RiskLevel(rows))
    /\ UNCHANGED <<votes, commits, windows, evidence, liveness, invalid, scan, summaries, mistakes>>

Next ==
    \/ ProjectSignatures \/ RebuildMap
    \/ ProjectEvidence \/ ProjectLiveness \/ ResetLiveness
    \/ StartSummary \/ ReadChunk \/ WriteSummaries \/ AbandonScan
    \/ ProjectHealth

Spec == Init /\ [][Next]_vars

-----------------------------------------------------------------------------
TypeOK ==
    /\ Len(votes) <= MaxHeight /\ Len(windows) = Len(votes) /\ Len(commits) = Len(votes)
    /\ Len(evidence) <= Len(votes) /\ Len(liveness) <= Len(votes)
    /\ \A h \in DOMAIN liveness : DOMAIN liveness[h] \subseteq Slots
    /\ invalid \subseteq DOMAIN liveness
    /\ \A h \in invalid : DOMAIN liveness[h] = {}
    /\ DOMAIN summaries \subseteq Slots
    /\ \A s \in DOMAIN summaries : summaries[s].recent.first <= summaries[s].recent.last
    /\ health.level \in {"none", "unknown", "critical", "warning", "normal"}
    /\ mistakes \in 0..MaxMistakes

Truth(flag) == IF flag = "commit" THEN "signed" ELSE flag

\* No slot is ever said to have signed, voted nil or been absent when it did
\* not, although absent votes are anonymous, evidence may be older than the
\* map it is judged by, and the map may be wrong about one slot of the height.
RowsTruthful ==
    \A h \in DOMAIN liveness : \A s \in DOMAIN liveness[h] :
        liveness[h][s] = Truth(votes[h][s])

\* The summaries written are those of all rows there are: streaming through the
\* ring buffer in chunks equals the batch form over all of a slot's rows.
SummariesMatchBatch ==
    [][summaries' # summaries =>
        /\ DOMAIN summaries' = {s \in Slots : RowsOf(s) # <<>>}
        /\ \A s \in DOMAIN summaries' :
              summaries'[s] = [lifetime |-> BuildSummary(RowsOf(s), invalid),
                               recent |-> BuildSummary(Trailing(RowsOf(s), Recent), invalid)]]_vars

\* "normal" is never said of a network in which an active slot was absent at a
\* height its recent window spans, although a height the map was wrong about
\* leaves no row to count.
NormalIsEarned ==
    health.level = "normal" =>
        \A s \in DOMAIN health.rows :
            \A h \in health.rows[s].first..health.rows[s].last : votes[h][s] # "absent"
=============================================================================
