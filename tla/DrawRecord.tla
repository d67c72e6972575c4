----------------------------- MODULE DrawRecord -----------------------------
(***************************************************************************)
(* How the API judges an operator's published selection draw               *)
(* (apps/api/src/lib/draw-verify.ts).  The record is the operator's claim; *)
(* the context is what the explorer indexed: the anchor transaction, the   *)
(* window's blocks with their attributed proposers, the selection policy.  *)
(*                                                                         *)
(* A digest is modelled by what it is taken over, a draw id by a number    *)
(* (0 is the all-zero id), a block by its height.  Ticket orders the ids   *)
(* for one beacon hash.  A check holds, fails, or is open when the index   *)
(* lacks what it needs; one that is not made is absent from the function.  *)
(***************************************************************************)
EXTENDS Integers, Sequences, FiniteSets

CONSTANTS
    Slot, Epoch,     \* the draw asked for
    MaxUint,         \* largest number the parser accepts (12 digits)
    MaxWindow,       \* MAX_WINDOW_BLOCKS
    MaxCandidates,   \* MAX_CANDIDATES
    Ticket(_, _),    \* the draw's lottery: a number per beacon and id
    None

ASSUME NoneAssumption ==
    None \notin {"SUCCESS", "NO_CANDIDATES", "NO_VALID_BEACON", "verified", "mismatch"}

Numbers == {"paramsVersion", "policyVersion", "rate", "max", "perSelection", "candidates",
            "offset", "window", "chainBlocks", "chainProposers", "blocks", "proposers"}

\* parseParameters: the rules before and after the explorer's own window cap.
DrawableParams(p) ==
    /\ p.rate \in 1..5000
    /\ p.max > 0 /\ p.perSelection > 0
    /\ p.paramsVersion > 0 /\ p.policyVersion > 0
    /\ p.offset > 0 /\ p.window > 0

SanctionedParams(p) ==
    /\ p.candidates > 0
    /\ p.chainBlocks > 0 /\ p.chainProposers > 0
    /\ p.blocks <= p.chainBlocks /\ p.proposers <= p.chainProposers
    /\ p.blocks > 0 /\ p.proposers > 0
    /\ p.proposers <= p.blocks /\ p.blocks <= p.window
    /\ p.exclude

\* What the explorer cannot represent is its own limit, not the operator's error.
ParamsValid(p) ==
    IF \E f \in Numbers : p[f] > MaxUint THEN "open"
    ELSE IF ~DrawableParams(p)            THEN "fails"
    ELSE IF p.window > MaxWindow          THEN "open"
    ELSE IF ~SanctionedParams(p)          THEN "fails"
    ELSE "holds"

Least(S) == CHOOSE n \in S : \A k \in S : n <= k

\* K, without the product c * rate that would not fit.
WinnerCount(c, rate, max, perSelection) ==
    LET share == (c \div 10000) * rate + ((c % 10000) * rate) \div 10000
    IN  IF c < 2
        THEN c
        ELSE Least({IF share < 1 THEN 1 ELSE share, max, perSelection, c \div 2})

Elements(s) == {s[i] : i \in DOMAIN s}

\* parseCandidates: no zero id, strictly increasing, within the caps.
Canonical(c, p) ==
    /\ Len(c) <= MaxCandidates /\ Len(c) <= p.candidates
    /\ \A i \in DOMAIN c : c[i] > 0
    /\ \A i \in DOMAIN c : i > 1 => c[i - 1] < c[i]

SetHash(c) == <<Slot, Epoch, c>>

BeaconHash(c, start, end, used) == <<SetHash(c), start, end, used>>

SelectedHash(winners) == <<Slot, Epoch, winners>>

\* assessBeacon over the rows fetched: blocks is the set of [height, proposer]
\* records that have a hash and a final attribution.
Window(blocks, start, end) == {b \in blocks : b.height \in start..end}

Usable(blocks, start, end) == {b \in Window(blocks, start, end) : b.proposer # Slot}

Distinct(blocks, start, end) == Cardinality({b.proposer : b \in Usable(blocks, start, end)})

Missing(blocks, start, end) == (end - start + 1) - Cardinality(Window(blocks, start, end))

Admissible(p, blocks, start, end) ==
    /\ Cardinality(Usable(blocks, start, end)) >= p.blocks
    /\ Distinct(blocks, start, end) >= p.proposers

\* Candidates ranked by ticket, then by id; the first k win.
Before(beacon, x, y) ==
    \/ Ticket(beacon, x) < Ticket(beacon, y)
    \/ Ticket(beacon, x) = Ticket(beacon, y) /\ x < y

Winners(c, beacon, k) ==
    [i \in 1..k |->
        CHOOSE x \in Elements(c) :
            Cardinality({y \in Elements(c) : Before(beacon, y, x)}) = i - 1]

-----------------------------------------------------------------------------
(* The checks of verifyDraw, in its order.  r is the record, ctx the       *)
(* context [chain, anchor, blocks, policy, behind].                        *)

Judge(b) == IF b THEN "holds" ELSE "fails"

Sound(r) == ParamsValid(r.params) = "holds"

HasSet(r) == Sound(r) /\ Canonical(r.candidates, r.params)

RecordShape(r) == Judge(r.version = 1 /\ r.slot = Slot /\ r.epoch = Epoch)

ParametersHash(r) ==
    IF Sound(r) THEN Judge(r.committedParams = r.params) ELSE "open"

CandidatesCanonical(r) ==
    IF Sound(r) THEN Judge(Canonical(r.candidates, r.params)) ELSE "open"

CandidateSetHash(r) ==
    IF HasSet(r)
    THEN Judge(r.setHash = SetHash(r.candidates) /\ r.committedSet = SetHash(r.candidates))
    ELSE "open"

\* Mutant: the memo is compared with the record's copy of the commitment.
AnchorCommitmentUnread(r, ctx) ==
    IF ctx.anchor = None THEN "open" ELSE Judge(r.confirmed = ctx.anchor.height)

\* The memo on chain, decoded strictly (an unreadable one is None), must commit
\* the same set and parameters for this slot and epoch, at the height claimed.
AnchorCommitment(r, ctx) ==
    IF ctx.anchor = None
    THEN "open"
    ELSE LET memo == ctx.anchor.memo
         IN  Judge(/\ memo # None
                   /\ memo.slot = Slot /\ memo.epoch = Epoch
                   /\ HasSet(r) => memo.set = SetHash(r.candidates)
                   /\ Sound(r) => memo.params = r.params
                   /\ r.confirmed = ctx.anchor.height)

\* The policy in force at the anchor, when the projection is known to be there.
PolicyMatch(r, ctx) ==
    IF ctx.behind             THEN "open"
    ELSE IF ctx.policy = None THEN "absent"
    ELSE Judge(/\ ctx.policy.version = r.params.policyVersion
               /\ ctx.policy.rate = r.params.rate
               /\ ctx.policy.max = r.params.max)

WindowPlaced(r) ==
    /\ r.beacon.end >= r.beacon.start
    /\ r.beacon.end - r.beacon.start + 1 = r.params.window
    /\ r.beacon.start = r.confirmed + r.params.offset
    /\ r.beacon.start > r.confirmed

\* A contradicted foundation ends the verification: no beacon is assessed.
Foundation(r, ctx) ==
    {RecordShape(r), ParamsValid(r.params), ParametersHash(r), CandidateSetHash(r),
     AnchorCommitment(r, ctx)}

Assessable(r, ctx) ==
    /\ HasSet(r) /\ Len(r.candidates) >= 2
    /\ r.beacon # None /\ WindowPlaced(r)
    /\ Missing(ctx.blocks, r.beacon.start, r.beacon.end) = 0

\* Our own beacon for the record's window.
OurBeacon(r, ctx) ==
    BeaconHash(r.candidates, r.beacon.start, r.beacon.end,
               Usable(ctx.blocks, r.beacon.start, r.beacon.end))

WindowAdmissible(r, ctx) == Admissible(r.params, ctx.blocks, r.beacon.start, r.beacon.end)

BeaconCounts(r, ctx) ==
    LET b == r.beacon
    IN  /\ b.usable = Cardinality(Usable(ctx.blocks, b.start, b.end))
        /\ b.excluded = Cardinality(Window(ctx.blocks, b.start, b.end)) - b.usable
        /\ b.unattributable = 0
        /\ b.distinct = Distinct(ctx.blocks, b.start, b.end)
        /\ b.admissible = WindowAdmissible(r, ctx)

\* An inadmissible window has no hash.
BeaconHashMatches(r, ctx) ==
    r.beacon.hash = IF WindowAdmissible(r, ctx) THEN OurBeacon(r, ctx) ELSE None

BeaconPlacement(r) ==
    IF Sound(r) /\ r.beacon # None THEN Judge(WindowPlaced(r)) ELSE "absent"

BeaconRecomputed(r, ctx) ==
    IF ~HasSet(r)                      THEN "absent"
    ELSE IF Len(r.candidates) < 2      THEN IF r.beacon = None THEN "absent" ELSE "fails"
    ELSE IF r.beacon = None            THEN "fails"
    ELSE IF ~WindowPlaced(r)           THEN "absent"
    ELSE IF ~Assessable(r, ctx)        THEN "open"
    ELSE Judge(BeaconCounts(r, ctx) /\ BeaconHashMatches(r, ctx))

\* The outcome the chain's data lead to, None when they do not reach.
Expected(r, ctx) ==
    IF ~HasSet(r)                     THEN None
    ELSE IF Len(r.candidates) = 0     THEN "NO_CANDIDATES"
    ELSE IF Len(r.candidates) = 1     THEN "SUCCESS"
    ELSE IF ~Assessable(r, ctx)       THEN None
    ELSE IF WindowAdmissible(r, ctx)  THEN "SUCCESS"
    ELSE "NO_VALID_BEACON"

OutcomeRederived(r, ctx) ==
    IF Expected(r, ctx) # None
    THEN Judge(r.outcome = Expected(r, ctx))
    ELSE IF HasSet(r) /\ ~(r.beacon # None /\ ~WindowPlaced(r)) THEN "open" ELSE "absent"

\* NO_VALID_BEACON publishes the K of a draw that found no randomness.
ExpectedK(r, ctx) ==
    IF Expected(r, ctx) = "NO_CANDIDATES"
    THEN 0
    ELSE WinnerCount(Len(r.candidates), r.params.rate, r.params.max, r.params.perSelection)

\* Nobody, the only one, or the first K by our beacon.
Redrawn(r, ctx) ==
    IF Expected(r, ctx) # "SUCCESS"   THEN <<>>
    ELSE IF Len(r.candidates) = 1     THEN r.candidates
    ELSE Winners(r.candidates, OurBeacon(r, ctx), ExpectedK(r, ctx))

\* Without the beacon hash reproduced the winners are not drawn again.
Drawn(r, ctx) ==
    Expected(r, ctx) # "SUCCESS" \/ Len(r.candidates) = 1 \/ BeaconHashMatches(r, ctx)

WinnersRedrawn(r, ctx) ==
    IF Expected(r, ctx) = None        THEN "absent"
    ELSE IF r.k # ExpectedK(r, ctx)   THEN "fails"
    ELSE IF ~Drawn(r, ctx)            THEN "open"
    ELSE Judge(r.winners = Redrawn(r, ctx))

SelectedDigest(r, ctx) ==
    IF Expected(r, ctx) = None \/ ~Drawn(r, ctx)
    THEN "absent"
    ELSE Judge(r.selectedHash = SelectedHash(Redrawn(r, ctx)))

Checks(r, ctx) ==
    {RecordShape(r), ParamsValid(r.params), ParametersHash(r), CandidatesCanonical(r),
     CandidateSetHash(r), AnchorCommitment(r, ctx)}
    \union (IF Sound(r) THEN {PolicyMatch(r, ctx)} ELSE {})
    \union {BeaconPlacement(r)}
    \union (IF "fails" \in Foundation(r, ctx)
            THEN {}
            ELSE {BeaconRecomputed(r, ctx), OutcomeRederived(r, ctx),
                  WinnersRedrawn(r, ctx), SelectedDigest(r, ctx)})

\* verifyDraw: one contradiction is a mismatch, one open check leaves it open.
Verify(r, ctx) ==
    IF ~ctx.chain                       THEN "unverifiable"
    ELSE IF "fails" \in Checks(r, ctx)  THEN "mismatch"
    ELSE IF "open" \in Checks(r, ctx)   THEN "unverifiable"
    ELSE "verified"
=============================================================================
