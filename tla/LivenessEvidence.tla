-------------------------- MODULE LivenessEvidence --------------------------
(***************************************************************************)
(* One committed height, from its votes to its liveness rows: attribution  *)
(* of the signatures of a commit (projections/operator-signing-            *)
(* evidence.ts) and the verdict on every expected slot (projections/       *)
(* coreslot-liveness.ts).                                                  *)
(*                                                                         *)
(* A slot stands for the key it validates with: windows name at most one   *)
(* slot per key and one key per slot (AttributionUnique of TemporalMap).   *)
(* A signature names a slot by its address, or nobody.                     *)
(***************************************************************************)
EXTENDS CommitSignatures

\* What a validator contributes to a commit; "none" is no validator.
Flags == {"commit", "nil", "absent", "none"}

Validators(vote) == {s \in DOMAIN vote : vote[s] # "none"}

\* The block commits with the votes of more than two thirds of the validators.
HasQuorum(vote) ==
    3 * Cardinality({s \in DOMAIN vote : vote[s] = "commit"}) > 2 * Cardinality(Validators(vote))

Evidence(index, slot, status, flag) ==
    [index |-> index, slot |-> slot, status |-> status, flag |-> flag]

\* Only a vote with an address can be attributed: an absent one carries none,
\* and the address of another may be missing or malformed.
Classify(active, sig, flaws) ==
    IF sig.address = NoSlot /\ sig.flag = "absent"
    THEN Evidence(sig.index, NoSlot, "absent_no_validator", sig.flag)
    ELSE IF sig.address = NoSlot
    THEN Evidence(sig.index, NoSlot, IF "invalid_validator_address" \in flaws
                                     THEN "invalid_validator_address" ELSE "unknown_shape", sig.flag)
    ELSE IF sig.address \in active
    THEN Evidence(sig.index, sig.address, "attributed", sig.flag)
    ELSE Evidence(sig.index, NoSlot, IF active = {} THEN "no_consensus_window"
                                     ELSE "unmapped_validator", sig.flag)

Attribute(active, read) == {Classify(active, sig, read.flaws) : sig \in read.rows}

Attributed(rows, flag) == {r \in rows : r.status = "attributed" /\ r.flag = flag}

SlotsOf(rows) == {r.slot : r \in rows}

AllAttributed(rows) == {r \in rows : r.status = "attributed"}

Observed(rows) == SlotsOf(Attributed(rows, "commit") \union Attributed(rows, "nil"))

Anonymous(rows) == {r \in rows : r.status = "absent_no_validator"}

\* Mutant: the anonymous absent votes are not counted.
CanEvaluateUncounted(expected, rows) ==
    /\ SlotsOf(Attributed(rows, "commit")) \intersect SlotsOf(Attributed(rows, "nil")) = {}
    /\ Observed(rows) \subseteq expected

\* The hard guards of evaluateHeight: every attributed vote is a commit or nil,
\* no slot signed twice, none signed and voted nil, nobody unexpected was
\* observed, and the slots that are missing are as many as the absent votes.
CanEvaluate(expected, rows) ==
    LET signed == Attributed(rows, "commit") IN
    /\ AllAttributed(rows) = signed \union Attributed(rows, "nil")
    /\ Cardinality(SlotsOf(signed)) = Cardinality(signed)
    /\ SlotsOf(signed) \intersect SlotsOf(Attributed(rows, "nil")) = {}
    /\ Observed(rows) \subseteq expected
    /\ Cardinality(expected \ Observed(rows)) = Cardinality(Anonymous(rows))

\* One row per expected slot; no row at all when a guard fails.
Evaluate(expected, rows) ==
    [s \in IF CanEvaluate(expected, rows) THEN expected ELSE {} |->
        IF s \in SlotsOf(Attributed(rows, "commit")) THEN "signed"
        ELSE IF s \in SlotsOf(Attributed(rows, "nil")) THEN "nil"
        ELSE "absent"]
=============================================================================
