---------------------------- MODULE Settlements ----------------------------
(***************************************************************************)
(* One slot's settlements as the explorer shows them.  When an epoch       *)
(* closes the chain owes the slot an entitlement, silently; a chunk        *)
(* transaction pays participants from it and a finalization releases the   *)
(* rest.  Two projections follow:                                          *)
(*   - rewards-entitlements.ts samples entitlements from the node, which   *)
(*     answers for its head, not for the height being projected;           *)
(*   - mining-semantic.ts derives chunks, payout lines and finalizations   *)
(*     from the ingested blocks, height by height.                         *)
(* Both run under the projections' lock, so only the chain and ingestion   *)
(* move while a sampler run waits for the node.                            *)
(***************************************************************************)
EXTENDS Integers, FiniteSets

CONSTANTS
    Last,        \* the epochs are 1..Last
    MaxHeight,   \* bound: heights of the chain
    Window,      \* an epoch is finalized by the close of the epoch Window later
    Refresh,     \* DEFAULT_ENTITLEMENT_REFRESH_EPOCHS
    Histories,   \* chains: where epochs close, are paid and are finalized
    MaxFaults    \* bound: failed or killed runs, resets, reruns, redecodings

Epochs == 1..Last
Heights == 1..MaxHeight

\* What becomes of the chunk: its lines are whole, one lacks a recipient or an
\* amount, the message does not decode, none correlates with the event, the
\* event's numbers do not parse, or its transaction failed.
Messages == {"whole", "short", "undecoded"}
Fates == Messages \union {"lost", "garbled", "failed"}

\* 0: the slot submits no chunk.  Heights above MaxHeight are not reached.
History ==
    [close : [Epochs -> Heights], chunk : [Epochs -> 0..MaxHeight],
     final : [Epochs -> 1..(MaxHeight + 1)], fate : [Epochs -> Fates],
     unreadable : SUBSET Epochs]   \* finalizations whose numbers do not parse

SettlesInTime(c) ==
    /\ \A e \in Epochs : c.close[e] < c.final[e] /\ (c.chunk[e] = 0 \/ c.chunk[e] \in c.close[e]..c.final[e])
    /\ \A d, e \in Epochs : d < e => c.close[d] < c.close[e]
    /\ \A d, e \in Epochs : d + Window <= e => c.final[d] <= c.close[e]

ASSUME SettlementBounds ==
    /\ Last \in Nat /\ MaxHeight \in Nat /\ Window \in Nat /\ Refresh \in Nat /\ MaxFaults \in Nat
    /\ Histories \subseteq {c \in History : SettlesInTime(c)}

\* "The default window covers the chain's settlement window with margin."
ASSUME WindowCovered == Window <= Refresh

VARIABLES
    chain, head,          \* the chain's history and how far it has come
    tip, fate,            \* ingested heights; how the chunk's rows read at present
    sampled, scursor,     \* SlotEntitlementProjection (released amount), its cursor
    pc, run,              \* the sampler
    chunks, lines,        \* MiningSettlementChunk, MiningSettlementPayout
    finals,               \* MiningSettlementFinalization
    failures, cursor,     \* mining failures, by event; the mining cursor
    undecoded,            \* DecodeFailure rows, which are never removed
    torn,                 \* an entitlement reset was cut short
    stale,                \* chunks redecoded since they were projected
    faults

mining == <<chunks, lines, finals, failures, cursor, stale>>
entitlement == <<sampled, scursor, torn>>
vars == <<chain, head, tip, fate, entitlement, pc, run, mining, undecoded, faults>>

None == -1
NoRows == [e \in Epochs |-> None]
Idle == [end |-> 0, todo |-> {}, got |-> NoRows]

Fault == faults < MaxFaults /\ faults' = faults + 1

-----------------------------------------------------------------------------
(* The chain.  An entitlement is worth three units: a chunk pays two lines *)
(* of one unit, the finalization releases what is left.                    *)

Amount == 3
ChunkLines == {1, 2}

Paid(e, h) == IF chain.chunk[e] \in 1..h /\ chain.fate[e] # "failed" THEN Cardinality(ChunkLines) ELSE 0

Released(e, h) == IF chain.final[e] <= h THEN Amount ELSE Paid(e, h)

Closed(from, to) == {e \in Epochs : chain.close[e] \in from..to}

Produce ==
    /\ head < MaxHeight
    /\ head' = head + 1
    /\ UNCHANGED <<chain, tip, fate, entitlement, pc, run, mining, undecoded, faults>>

Ingest ==
    /\ tip < head
    /\ tip' = tip + 1
    /\ undecoded' = undecoded \union {e \in Epochs : chain.chunk[e] = tip + 1 /\ fate[e] = "undecoded"}
    /\ UNCHANGED <<chain, head, fate, entitlement, pc, run, mining, faults>>

\* The block is ingested again by a process whose decoder reads the message
\* differently.
Redecode(e) ==
    /\ Fault
    /\ pc = "idle"
    /\ chain.chunk[e] \in 1..tip /\ fate[e] \in Messages
    /\ \E m \in Messages \ {fate[e]} :
         /\ fate' = [fate EXCEPT ![e] = m]
         /\ undecoded' = IF m = "undecoded" THEN undecoded \union {e} ELSE undecoded
    /\ stale' = stale \union {e}
    /\ UNCHANGED <<chain, head, tip, entitlement, pc, run, chunks, lines, finals, failures, cursor>>

-----------------------------------------------------------------------------
(* The entitlement sampler (rewards-entitlements.ts).                      *)

Known == {e \in Epochs : sampled[e] # None}

\* The Refresh newest of a set of epochs.
Newest(epochs) == {e \in epochs : Cardinality({d \in epochs : e < d}) < Refresh}

\* recentKnownEpochs: of those that have rows.
Recent == Newest(Known)

\* Mutant: this run's epochs count among the newest.
ToReadOfAll(start, end) == Closed(start, end) \union Newest(Known \union Closed(start, end))

\* The epochs that close in the range, and the recent ones.
ToRead(start, end) == Closed(start, end) \union Recent

\* START_HEIGHT and END_HEIGHT name the range; by default it is what has been
\* ingested past the cursor.  An empty run only moves the cursor.
StartSample(start, end) ==
    /\ pc = "idle"
    /\ IF ToRead(start, end) = {}
       THEN scursor' = end /\ UNCHANGED <<pc, run>>
       ELSE /\ pc' = "reading"
            /\ run' = [end |-> end, todo |-> ToRead(start, end), got |-> NoRows]
            /\ UNCHANGED scursor
    /\ UNCHANGED <<chain, head, tip, fate, sampled, torn, mining, undecoded>>

Sample == scursor < tip /\ StartSample(scursor + 1, tip) /\ UNCHANGED faults

SampleAgain == Fault /\ \E start \in 1..scursor : \E end \in start..tip : StartSample(start, end)

\* getEpochEntitlements: the node's head answers, whatever height is projected.
Reading(e) == Released(e, head)

ReadEpoch ==
    /\ pc = "reading"
    /\ \E e \in run.todo :
         /\ \A x \in run.todo : e <= x
         /\ run' = [run EXCEPT !.todo = @ \ {e}, !.got[e] = Reading(e)]
    /\ UNCHANGED <<chain, head, tip, fate, entitlement, pc, mining, undecoded, faults>>

\* Every read succeeded: rows and cursor in one transaction.
StoreSample ==
    /\ pc = "reading" /\ run.todo = {}
    /\ sampled' = [e \in Epochs |-> IF run.got[e] = None THEN sampled[e] ELSE run.got[e]]
    /\ scursor' = run.end
    /\ pc' = "idle" /\ run' = Idle
    /\ UNCHANGED <<chain, head, tip, fate, torn, mining, undecoded, faults>>

\* Mutant: a run that could not read moves the cursor all the same.
CursorAtEnd == run.end

\* haltProjectionCursorError: the projected height stays.
CursorAfterHalt == scursor

FailRead ==
    /\ Fault
    /\ pc = "reading" /\ run.todo # {}
    /\ scursor' = CursorAfterHalt
    /\ pc' = "idle" /\ run' = Idle
    /\ UNCHANGED <<chain, head, tip, fate, sampled, torn, mining, undecoded>>

\* RESET_PROJECTION deletes the rows and then, in a statement of its own, the
\* cursor.
ResetRows ==
    /\ Fault
    /\ pc = "idle"
    /\ sampled' = NoRows
    /\ pc' = "reset"
    /\ UNCHANGED <<chain, head, tip, fate, scursor, torn, run, mining, undecoded>>

ResetCursor ==
    /\ pc = "reset"
    /\ scursor' = 0 /\ torn' = FALSE
    /\ pc' = "idle"
    /\ UNCHANGED <<chain, head, tip, fate, sampled, run, mining, undecoded, faults>>

Kill ==
    /\ Fault
    /\ pc # "idle"
    /\ torn' = (torn \/ pc = "reset")
    /\ pc' = "idle" /\ run' = Idle
    /\ UNCHANGED <<chain, head, tip, fate, sampled, scursor, mining, undecoded>>

-----------------------------------------------------------------------------
(* The mining projection (mining-semantic.ts).  A height is one            *)
(* transaction, so one that fails or is killed leaves no trace but the     *)
(* cursor's status.                                                        *)

Chunks(h) == {e \in Epochs : chain.chunk[e] = h /\ fate[e] # "failed"}
Finalizations(h) == {e \in Epochs : chain.final[e] = h}

\* The payout lines the chunk's message names a recipient and an amount for.
Recorded(e) == CASE fate[e] = "whole" -> ChunkLines [] fate[e] = "short" -> {1} [] OTHER -> {}

\* Mutant: the lines of the last run are not deleted first.
PayoutsAdded(e) == lines[e] \union Recorded(e)

\* Delete, then insert, the lines of this event.
Payouts(e) == Recorded(e)

\* Mutant: a chunk without a message is recorded without a failure.
FailuresOfLines(h) ==
    {<<"chunk", e>> : e \in {d \in Chunks(h) : fate[d] \in {"short", "garbled"}}}
        \union {<<"final", e>> : e \in Finalizations(h) \intersect chain.unreadable}

FailuresAt(h) ==
    {<<"chunk", e>> : e \in {d \in Chunks(h) : fate[d] \in {"short", "lost", "garbled"}}}
        \union {<<"final", e>> : e \in Finalizations(h) \intersect chain.unreadable}

\* The failures of the height are cleared before its events are gone through.
ClearedAt(h) == {"chunk"} \X {e \in Epochs : chain.chunk[e] = h} \union {"final"} \X Finalizations(h)

ProjectHeight(h) ==
    /\ pc = "idle"
    /\ LET readable == {e \in Chunks(h) : fate[e] # "garbled"}
       IN /\ chunks' = chunks \union readable
          /\ lines' = [e \in Epochs |-> IF e \in readable THEN Payouts(e) ELSE lines[e]]
    /\ finals' = finals \union (Finalizations(h) \ chain.unreadable)
    /\ failures' = (failures \ ClearedAt(h)) \union FailuresAt(h)
    /\ cursor' = h
    /\ stale' = stale \ Chunks(h)
    /\ UNCHANGED <<chain, head, tip, fate, entitlement, pc, run, undecoded>>

Project == cursor < tip /\ ProjectHeight(cursor + 1) /\ UNCHANGED faults

ProjectAgain == Fault /\ \E h \in 1..cursor : ProjectHeight(h)

\* Mutant: the cursor survives the reset.
CursorAfterResetKept == cursor

CursorAfterReset == 0

ResetMining ==
    /\ Fault
    /\ pc = "idle"
    /\ chunks' = {} /\ lines' = [e \in Epochs |-> {}] /\ finals' = {} /\ failures' = {}
    /\ cursor' = CursorAfterReset
    /\ UNCHANGED <<chain, head, tip, fate, entitlement, pc, run, undecoded, stale>>

-----------------------------------------------------------------------------
Init ==
    /\ chain \in Histories /\ head = 0
    /\ tip = 0 /\ fate = chain.fate /\ undecoded = {}
    /\ sampled = NoRows /\ scursor = 0 /\ torn = FALSE
    /\ pc = "idle" /\ run = Idle
    /\ chunks = {} /\ lines = [e \in Epochs |-> {}] /\ finals = {}
    /\ failures = {} /\ cursor = 0 /\ stale = {}
    /\ faults = 0

Sampler == ReadEpoch \/ StoreSample \/ ResetCursor

Next ==
    \/ Produce \/ Ingest
    \/ \E e \in Epochs : Redecode(e)
    \/ Sample \/ SampleAgain \/ Sampler \/ FailRead \/ ResetRows \/ Kill
    \/ Project \/ ProjectAgain \/ ResetMining

Spec == Init /\ [][Next]_vars

\* The tick loop and the CLIs are run again and again; the node answers in the
\* end, for faults are bounded.
FairSpec ==
    /\ Spec
    /\ WF_vars(Produce) /\ WF_vars(Ingest)
    /\ WF_vars(Sample) /\ WF_vars(Sampler) /\ WF_vars(Project)

-----------------------------------------------------------------------------
(* Properties.                                                             *)

\* Every variable has its type, and the cursors never pass what is ingested,
\* nor that what is on the chain.
TypeOK ==
    /\ chain \in Histories /\ head \in 0..MaxHeight /\ tip \in 0..head
    /\ fate \in [Epochs -> Fates] /\ undecoded \subseteq Epochs
    /\ sampled \in [Epochs -> None..Amount] /\ scursor \in 0..tip /\ torn \in BOOLEAN
    /\ pc \in {"idle", "reading", "reset"}
    /\ run \in [end : 0..tip, todo : SUBSET Epochs, got : [Epochs -> None..Amount]]
    /\ chunks \subseteq Epochs /\ lines \in [Epochs -> SUBSET ChunkLines] /\ finals \subseteq Epochs
    /\ failures \subseteq {"chunk", "final"} \X Epochs
    /\ cursor \in 0..tip /\ stale \subseteq Epochs
    /\ faults \in 0..MaxFaults

\* An entitlement that is not sampled any more, because Refresh newer epochs
\* have rows, shows the amount the chain has released for good, although no
\* read is pinned to a height and runs fail, are killed and start over
\* ("the default window covers the chain's settlement window").
FrozenIsFinal == \A e \in Known \ Recent : sampled[e] = Released(e, MaxHeight) /\ chain.final[e] <= head

\* releasedAmount never goes back while its row lives (schema.prisma:645
\* "releasedAmount is monotonic"), through reruns of ranges already sampled.
ReleasedOnlyGrows ==
    [][\A e \in Epochs : sampled[e] # None /\ sampled'[e] # None => sampled[e] <= sampled'[e]]_vars

\* A replay is exact: the payout lines shown are those the message yields as it
\* decodes now, unless the chunk waits to be projected again.
PayoutsExact == \A e \in chunks \ stale : lines[e] = Recorded(e)

\* What a settled slot shows adds up, payouts and released remainder to the
\* entitlement, or a failure of the chunk says why not.
SettlementsAddUp ==
    \A e \in finals :
        \/ Cardinality(lines[e]) + (Amount - Paid(e, MaxHeight)) = Amount
        \/ <<"chunk", e>> \in failures
        \/ e \in undecoded

\* An entitlement shown as settled was finalized on the chain; one shown as
\* open has no finalization the projection has passed, but one it failed on.
SettledIsSettled ==
    \A e \in Known :
        IF e \in finals THEN chain.final[e] <= tip
                        ELSE cursor < chain.final[e] \/ <<"final", e>> \in failures

\* In the end every closed epoch has its entitlement as it stands on the chain
\* and every finalization is shown or accounted for; only a reset killed
\* between its two statements may lose entitlements.
EverySettlementShown ==
    <>[]( \/ torn
          \/ \A e \in Epochs :
               /\ sampled[e] = Released(e, MaxHeight)
               /\ chain.final[e] <= MaxHeight => e \in finals \/ <<"final", e>> \in failures )
=============================================================================
