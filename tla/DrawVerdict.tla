---------------------------- MODULE DrawVerdict ----------------------------
(***************************************************************************)
(* GET /operators/:slotId/draw/:epoch (apps/api/src/routes/operators.ts):  *)
(* the verdict on one stored draw record, computed from tables that the    *)
(* indexer fills while the request reads them, one await after the other,  *)
(* and cached for a while.  A draw record is final once stored, so it is a *)
(* constant of the behaviour; the chain is fixed and indexed block by      *)
(* block.  Numbers of a case keep within the parser's bounds unless the    *)
(* case is about them.                                                     *)
(***************************************************************************)
EXTENDS DrawRecord

CONSTANTS
    Cases,      \* a sequence of [chain, record]: what the chain did, what was published
    MaxResets   \* bound: resets of the two projections

\* What the parsers let through: numbers are numbers, candidates and winners are
\* lists, and the ticket of a candidate compares with any other's.
Parsed(c, r) ==
    /\ c.height \in Nat
    /\ c.anchor # None /\ c.anchor.height \in Nat
    /\ \A p \in c.policies : p # None /\ p.height \in Nat
    /\ \A f \in Numbers : r.params[f] \in Nat
    /\ r.candidates \in Seq(Nat) /\ r.winners \in Seq(Nat) /\ r.k \in Nat
    /\ r.confirmed \in Nat
    /\ r.beacon # None =>
         /\ r.beacon.start \in Nat /\ r.beacon.end \in Nat
         /\ \A used \in SUBSET {[height |-> h, proposer |-> c.proposers[h]] :
                                 h \in r.beacon.start..r.beacon.end} :
                \A x \in Elements(r.candidates) :
                    Ticket(BeaconHash(r.candidates, r.beacon.start, r.beacon.end, used), x) \in Int

ASSUME CaseAssumption == \A i \in DOMAIN Cases : Parsed(Cases[i].chain, Cases[i].record)

VARIABLES
    chain,      \* [height, anchor, proposers, addresses, windows, policies]
    record,     \* the stored sample's payload
    tip,        \* highest ingested block; its transactions come with it
    structural, \* lastProjectedHeight of coreslot_structural_v1
    attributed, \* and of the proposer attribution
    awaits, reads, \* the read the request makes next, and what it has read
    cache,      \* the verdict computed last, served until its entry expires; or None
    resets,
    straddled   \* history: the policy projection moved between its two reads

indexed == <<tip, structural, attributed, resets>>
verdictVars == <<chain, record, indexed, awaits, reads, cache, straddled>>

Verdicts == {"verified", "mismatch", "unverifiable"}

Newest(rows) ==
    IF rows = {} THEN None ELSE CHOOSE c \in rows : \A d \in rows : d.height <= c.height

\* A policy of height h is in force from h + 1 on.
PolicyBelow(h, projected) ==
    Newest({c \in chain.policies : c.height < h /\ c.height <= projected})

AnchorRow == IF tip >= chain.anchor.height THEN chain.anchor ELSE None

(***************************************************************************)
(* The proposer attribution of a block: the slot with a window at its own  *)
(* height for the address it names, if it names one that can be read.      *)
(***************************************************************************)
Attribution(status, slot) == [status |-> status, slot |-> slot]

ClassifyProposer(h) ==
    CASE chain.addresses[h] = "missing"   -> Attribution("missing_proposer", None)
      [] chain.addresses[h] = "malformed" -> Attribution("invalid_proposer_address", None)
      [] OTHER ->
             IF chain.proposers[h] \in chain.windows[h]
             THEN Attribution("attributed", chain.proposers[h])
             ELSE Attribution(IF chain.windows[h] # {} THEN "unmapped_validator"
                              ELSE "no_consensus_window", None)

Final(h) == ClassifyProposer(h).status = "attributed"

\* Blocks with a hash and a final attribution.
BlockRows ==
    {[height |-> h, proposer |-> ClassifyProposer(h).slot] : h \in {g \in 1..attributed : Final(g)}}

Nothing == [chain |-> FALSE, anchor |-> None, blocks |-> {}, policy |-> None, behind |-> FALSE]

-----------------------------------------------------------------------------

VerdictInit ==
    /\ \E i \in DOMAIN Cases : chain = Cases[i].chain /\ record = Cases[i].record
    /\ tip = 0 /\ structural = 0 /\ attributed = 0
    /\ awaits = "idle" /\ reads = Nothing
    /\ cache = None
    /\ resets = 0 /\ straddled = FALSE

IngestBlock ==
    /\ tip < chain.height
    /\ tip' = tip + 1
    /\ UNCHANGED <<chain, record, structural, attributed, resets, awaits, reads, cache, straddled>>

\* The structural projection commits a height, or its reset everything.
MoveStructural(to) ==
    /\ structural' = to
    /\ straddled' = (straddled \/ awaits = "structural")
    /\ UNCHANGED <<chain, record, tip, attributed, awaits, reads, cache>>

ProjectStructural ==
    /\ structural < tip
    /\ MoveStructural(structural + 1)
    /\ UNCHANGED resets

ResetStructural ==
    /\ resets < MaxResets /\ structural > 0
    /\ resets' = resets + 1
    /\ MoveStructural(0)

AttributeBlock ==
    /\ attributed < tip
    /\ attributed' = attributed + 1
    /\ UNCHANGED <<chain, record, tip, structural, resets, awaits, reads, cache, straddled>>

ResetAttribution ==
    /\ resets < MaxResets /\ attributed > 0
    /\ resets' = resets + 1
    /\ attributed' = 0
    /\ UNCHANGED <<chain, record, tip, structural, awaits, reads, cache, straddled>>

\* The next await of the request.
Goto(from, to) == awaits = from /\ awaits' = to

\* Without an entry that is still served the request reads the cursor.
ReadCursor ==
    /\ cache = None
    /\ Goto("idle", "anchor")
    /\ reads' = [Nothing EXCEPT !.chain = tip > 0]
    /\ UNCHANGED <<chain, record, indexed, cache, straddled>>

ReadAnchor ==
    /\ Goto("anchor", "blocks")
    /\ reads' = [reads EXCEPT !.anchor = AnchorRow]
    /\ UNCHANGED <<chain, record, indexed, cache, straddled>>

ReadBlocks ==
    /\ Goto("blocks", "policy")
    /\ reads' = [reads EXCEPT !.blocks = IF record.beacon = None THEN {} ELSE BlockRows]
    /\ UNCHANGED <<chain, record, indexed, cache, straddled>>

\* Mutant: the policy of the anchor's own block is taken for the one in force.
ReadPolicyAt ==
    /\ Goto("policy", "structural")
    /\ reads' = [reads EXCEPT !.policy =
                    IF reads.anchor = None
                    THEN None
                    ELSE PolicyBelow(reads.anchor.height + 1, structural)]
    /\ UNCHANGED <<chain, record, indexed, cache, straddled>>

ReadPolicy ==
    /\ Goto("policy", "structural")
    /\ reads' = [reads EXCEPT !.policy =
                    IF reads.anchor = None
                    THEN None
                    ELSE PolicyBelow(reads.anchor.height, structural)]
    /\ UNCHANGED <<chain, record, indexed, cache, straddled>>

ReadStructural ==
    /\ Goto("structural", "verify")
    /\ reads' = [reads EXCEPT !.behind = reads.anchor # None /\ structural < reads.anchor.height]
    /\ UNCHANGED <<chain, record, indexed, cache, straddled>>

Judgement ==
    /\ Goto("verify", "idle")
    /\ cache' = Verify(record, reads)
    /\ reads' = Nothing /\ straddled' = FALSE
    /\ UNCHANGED <<chain, record, indexed>>

\* Mutant: only a pending verdict expires.
ExpirePending ==
    /\ cache = "unverifiable"
    /\ cache' = None
    /\ UNCHANGED <<chain, record, indexed, awaits, reads, straddled>>

\* The entry's time is up, or 500 younger ones have pushed it out.
Expire ==
    /\ cache # None
    /\ cache' = None
    /\ UNCHANGED <<chain, record, indexed, awaits, reads, straddled>>

Request ==
    \/ ReadCursor \/ ReadAnchor \/ ReadBlocks \/ ReadPolicy \/ ReadStructural \/ Judgement

VerdictNext ==
    \/ IngestBlock \/ ProjectStructural \/ AttributeBlock
    \/ ResetStructural \/ ResetAttribution
    \/ Request \/ Expire

\* Ticks keep coming, somebody keeps asking, entries have a time to live.
VerdictFairness ==
    /\ WF_verdictVars(IngestBlock)
    /\ WF_verdictVars(ProjectStructural) /\ WF_verdictVars(AttributeBlock)
    /\ WF_verdictVars(Request) /\ WF_verdictVars(Expire)

VerdictSpec == VerdictInit /\ [][VerdictNext]_verdictVars /\ VerdictFairness

-----------------------------------------------------------------------------

\* Reads and cache hold what their tables or Verify can give.
VerdictTypeOK ==
    /\ tip \in 0..chain.height /\ structural \in 0..tip /\ attributed \in 0..tip
    /\ awaits \in {"idle", "anchor", "blocks", "policy", "structural", "verify"}
    /\ reads.anchor \in {None, chain.anchor} /\ reads.policy \in chain.policies \union {None}
    /\ cache \in Verdicts \union {None}
    /\ resets \in 0..MaxResets /\ straddled \in BOOLEAN

(* The draw the chain's data determine, stated without verifyDraw.         *)

DrawWindow(r) == (chain.anchor.height + r.params.offset)..
                     (chain.anchor.height + r.params.offset + r.params.window - 1)

External(r) == {h \in DrawWindow(r) : chain.proposers[h] # Slot}

Proposers(r) == {chain.proposers[h] : h \in External(r)}

Enough(r) ==
    Cardinality(External(r)) >= r.params.blocks /\ Cardinality(Proposers(r)) >= r.params.proposers

DrawHash(r) ==
    BeaconHash(r.candidates, chain.anchor.height + r.params.offset,
               chain.anchor.height + r.params.offset + r.params.window - 1,
               {[height |-> h, proposer |-> chain.proposers[h]] : h \in External(r)})

\* Winners are candidates in ranking order, and nobody left out ranks before one.
RankedFirst(r, w) ==
    /\ Elements(w) \subseteq Elements(r.candidates)
    /\ \A i, j \in DOMAIN w : i < j => Before(DrawHash(r), w[i], w[j])
    /\ \A i \in DOMAIN w : \A x \in Elements(r.candidates) \ Elements(w) :
            Before(DrawHash(r), w[i], x)

\* At least one of two or more, at most half, at most the rate and the caps.
Quota(r, k) ==
    LET C == Len(r.candidates)
        Within(n) == /\ 2 * n <= C
                     /\ n <= r.params.max /\ n <= r.params.perSelection
                     /\ n = 1 \/ 10000 * n <= C * r.params.rate
    IN  Within(k) /\ ~Within(k + 1) /\ k > 0

Committed(r) ==
    LET memo == chain.anchor.memo
    IN  /\ r.version = 1 /\ r.slot = Slot /\ r.epoch = Epoch
        /\ memo # None
        /\ memo.slot = Slot /\ memo.epoch = Epoch
        /\ memo.params = r.params /\ r.committedParams = r.params
        /\ memo.set = SetHash(r.candidates)
        /\ r.setHash = memo.set /\ r.committedSet = memo.set
        /\ r.confirmed = chain.anchor.height

Outcome(r) ==
    CASE Len(r.candidates) = 0 ->
             r.outcome = "NO_CANDIDATES" /\ r.beacon = None /\ r.k = 0 /\ r.winners = <<>>
      [] Len(r.candidates) = 1 ->
             r.outcome = "SUCCESS" /\ r.beacon = None /\ r.k = 1 /\ r.winners = r.candidates
      [] OTHER ->
             /\ r.beacon # None
             /\ r.beacon.start..r.beacon.end = DrawWindow(r)
             /\ r.beacon.usable = Cardinality(External(r))
             /\ r.beacon.excluded = r.params.window - Cardinality(External(r))
             /\ r.beacon.distinct = Cardinality(Proposers(r))
             /\ r.beacon.unattributable = 0
             /\ r.beacon.admissible = Enough(r)
             /\ r.beacon.hash = IF Enough(r) THEN DrawHash(r) ELSE None
             /\ r.outcome = IF Enough(r) THEN "SUCCESS" ELSE "NO_VALID_BEACON"
             /\ Quota(r, r.k)
             /\ IF Enough(r) THEN Len(r.winners) = r.k /\ RankedFirst(r, r.winners)
                             ELSE r.winners = <<>>

TheDraw(r) == Committed(r) /\ Outcome(r) /\ r.selectedHash = SelectedHash(r.winners)

\* A green answer, however the reads fell among the indexer's commits, means the
\* chain confirms the draw: what was anchored, and the winners it leads to.
GreenIsTheDraw == cache = "verified" => TheDraw(record)

Policy == PolicyBelow(chain.anchor.height, chain.height)

Lawful(r) ==
    Policy # None => /\ Policy.version = r.params.policyVersion
                     /\ Policy.rate = r.params.rate /\ Policy.max = r.params.max

\* Parameters and candidate lists the protocol allows are part of honesty; the
\* rules are one by one those of draw-verify.ts, and stated once.
Honest ==
    /\ TheDraw(record) /\ Lawful(record)
    /\ ParamsValid(record.params) # "fails" /\ Canonical(record.candidates, record.params)

\* When the policy projection did not move between the two reads it takes part
\* in, an honest record is never called a mismatch and another never verified,
\* whatever else was missing, late or rebuilt.
RightUnlessStraddled ==
    awaits = "verify" /\ ~straddled =>
        LET v == Verify(record, reads)
        IN  IF Honest THEN v # "mismatch" ELSE v # "verified"

\* What the explorer itself cannot represent, or whose proposer it never knows.
Beyond ==
    \/ ParamsValid(record.params) = "open"
    \/ record.beacon # None /\ \E h \in DrawWindow(record) : ~Final(h)

\* Once the chain is indexed, every reader gets the right verdict for good: no
\* verdict built on a lagging projection outlives its cache entry.
EventuallyRight ==
    LET right == IF Beyond THEN "unverifiable"
                 ELSE IF Honest THEN "verified" ELSE "mismatch"
    IN  <>[](cache \in {None, right}) /\ []<>(cache = right)

\* routes/operators.ts:616: until the projection has processed the anchor height
\* "the comparison waits (unverifiable) instead of accusing an honest record that
\* names a policy the projection has not reached yet".
HonestNeverAccused == Honest => cache # "mismatch"
=============================================================================
