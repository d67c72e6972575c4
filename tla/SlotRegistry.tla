---------------------------- MODULE SlotRegistry ----------------------------
(***************************************************************************)
(* The CoreSlotProjection row of a slot ("current explorer view of one     *)
(* CoreSlot") and the five projections that write it, each one column by   *)
(* column and height by height behind a cursor of its own, together with   *)
(* the genesis seed, the live registry refresh, the resets and the         *)
(* combined rebuild.  Params keeps a history and never touches the row.    *)
(*                                                                         *)
(* A column holds the row of the change table that last wrote it, so that  *)
(* a value also says where it came from.  The projection lock keeps runs   *)
(* apart, so a height is one step; MaxHeight blocks are stored, and a run  *)
(* may stop after any height, so every interleaving of runs is here.       *)
(***************************************************************************)
EXTENDS SlotEvents

CONSTANTS
    MaxHeight,    \* bound: blocks stored
    Slots,
    GenesisSlots, \* the slots of the genesis document
    Chains,       \* the block histories of the instance, a sequence
    MaxManual,    \* bound: resets and START_HEIGHT re-runs in one behaviour
    Null, Genesis, Live

VARIABLES
    chain,  \* which of the histories is stored
    cursor, \* ProjectionCursor.lastProjectedHeight
    rows,   \* the change table of each projection
    fails,  \* its unresolved ProjectionFailure rows
    slot,   \* CoreSlotProjection
    wiped,  \* history: projections whose columns were emptied behind their cursor
    manual

vars == <<chain, cursor, rows, fails, slot, wiped, manual>>

Heights == 1..MaxHeight

Projections == {"metadata", "lifecycle", "payout", "params", "rotation", "structural"}

\* CORESLOT_SEMANTIC_PROJECTIONS: what the combined reset and rebuild cover.
\* The temporal map does not write the row.
Semantic == {"metadata", "lifecycle", "payout", "params", "rotation"}

Columns == {"status", "metadata", "payout", "address", "power", "weight", "settlement", "policy"}

\* The columns the genesis document has a value for.
Baseline == {"status", "metadata", "payout", "address", "power", "weight"}

Row(h, t, r) == [h |-> h, t |-> t, m |-> r.m, e |-> r.e]

\* The transactions of a block that were applied; failed ones are not read.
Applied(block) == {t \in DOMAIN block : block[t].ok}

RowsIn(blocks, p, h) ==
    UNION {{Row(h, t, r) : r \in Pairs(p, blocks[h][t])} : t \in Applied(blocks[h])}

FailsIn(blocks, p, h) ==
    UNION {{[h |-> h, t |-> t, f |-> f] : f \in Failures(p, blocks[h][t])} :
           t \in Applied(blocks[h])}

EventOf(blocks, r) == blocks[r.h][r.t].events[r.e]

\* The columns a row writes: a registration brings the columns of its message,
\* an activation or removal the validator's power.
Writes(blocks, p, r) ==
    CASE p = "metadata"  -> {"metadata"}
      [] p = "payout"    -> {"payout"}
      [] p = "rotation"  -> {"address", "power"}
      [] p = "lifecycle" ->
            IF EventOf(blocks, r).kind = "register"
            THEN {"status", "address"} \union (IF r.m # 0 THEN {"metadata", "payout"} ELSE {})
            ELSE {"status", "address", "power"}
      [] p = "structural" ->
            IF EventOf(blocks, r).kind = "policy"
            THEN {"policy"}
            ELSE IF r.m # 0 /\ ~blocks[r.h][r.t].msgs[r.m].bad THEN {"settlement"} ELSE {}
      [] OTHER -> {}

\* Order in which one height is applied: transactions by hash, messages before
\* the events that have none; structural follows the events as stored.
Lower(a, b) == \E i \in DOMAIN a : a[i] < b[i] /\ \A j \in 1..(i - 1) : a[j] = b[j]

\* Mutant: structural reads its events transaction by transaction too.
ApplyKeyByHash(blocks, p, r) ==
    <<IF r.m = 0 THEN 1 ELSE 0, blocks[r.h][r.t].hash, IF r.m = 0 THEN r.e ELSE r.m>>

ApplyKey(blocks, p, r) ==
    IF p = "structural"
    THEN <<r.t, r.e>>
    ELSE <<IF r.m = 0 THEN 1 ELSE 0, blocks[r.h][r.t].hash, IF r.m = 0 THEN r.e ELSE r.m>>

Writers(blocks, p, h, s, c) ==
    {r \in RowsIn(blocks, p, h) : EventOf(blocks, r).slot = s /\ c \in Writes(blocks, p, r)}

\* What height h of p leaves in a column: the last write, or Null for none.
Change(blocks, p, h, s, c) ==
    LET W == Writers(blocks, p, h, s, c)
    IN  IF W = {}
        THEN Null
        ELSE CHOOSE r \in W :
                \A q \in W \ {r} : Lower(ApplyKey(blocks, p, q), ApplyKey(blocks, p, r))

\* The three of them for every history.
RowTable ==
    [c \in DOMAIN Chains |-> [p \in Projections |-> [h \in Heights |-> RowsIn(Chains[c], p, h)]]]

FailTable ==
    [c \in DOMAIN Chains |-> [p \in Projections |-> [h \in Heights |-> FailsIn(Chains[c], p, h)]]]

ChangeTable ==
    [k \in DOMAIN Chains |-> [p \in Projections |-> [h \in Heights |->
        [s \in Slots |-> [c \in Columns |-> Change(Chains[k], p, h, s, c)]]]]]

RowsAt(p, h) == RowTable[chain][p][h]
FailsAt(p, h) == FailTable[chain][p][h]

\* The slot rows after height h of p: an upsert sets its columns, or creates
\* the row ("seen").
Projected(p, h, was) ==
    LET new == ChangeTable[chain][p][h]
    IN  [s \in Slots |->
            [seen |-> was[s].seen \/ \E c \in Columns : new[s][c] # Null,
             col  |-> [c \in Columns |-> IF new[s][c] = Null THEN was[s].col[c] ELSE new[s][c]]]]

NoSlotRow == [seen |-> FALSE, col |-> [c \in Columns |-> Null]]

\* Mutant: a seed of an existing row writes the whole baseline again.
SeededOver(S, was) ==
    [s \in Slots |->
        IF s \notin S
        THEN was[s]
        ELSE [seen |-> TRUE,
              col |-> [c \in Columns |-> IF c \in Baseline THEN Genesis ELSE was[s].col[c]]]]

\* seedCoreSlotGenesisIdentity for the slots S: a new row gets the baseline, an
\* existing one the columns it lacks.
Seeded(S, was) ==
    [s \in Slots |->
        IF s \notin S
        THEN was[s]
        ELSE [seen |-> TRUE,
              col |-> [c \in Columns |->
                          IF c \in Baseline /\ was[s].col[c] = Null
                          THEN Genesis
                          ELSE was[s].col[c]]]]

\* A transaction is finite, its messages and events are numbered, and what the
\* chain emitted for a message is among the events the message matches, when it
\* matches any.
WellFormed(tx) ==
    /\ IsFiniteSet(DOMAIN tx.msgs) /\ IsFiniteSet(DOMAIN tx.events)
    /\ DOMAIN tx.msgs \subseteq Nat \ {0} /\ DOMAIN tx.events \subseteq Nat
    /\ \A e \in DOMAIN tx.events : tx.events[e].index \in Nat
    /\ \A p \in Correlated : \A m \in Readable(p, tx) :
          EventsFor(p, tx, m) # {} => \E e \in EventsFor(p, tx, m) : tx.events[e].by = m

\* Transactions have a place in their block and a hash of their own.
WellFormedBlock(block) ==
    /\ IsFiniteSet(DOMAIN block) /\ DOMAIN block \subseteq Nat
    /\ \A t, u \in DOMAIN block : block[t].hash = block[u].hash => t = u
    /\ \A t \in DOMAIN block : block[t].hash \in Nat /\ WellFormed(block[t])

ASSUME RegistryAssumption ==
    /\ MaxHeight \in Nat /\ MaxManual \in Nat
    /\ Null \notin {Genesis, Live}
    /\ \A c \in DOMAIN Chains : \A h \in Heights :
          /\ WellFormedBlock(Chains[c][h])
          /\ \A p \in Projections : {Null, Genesis, Live} \intersect RowsIn(Chains[c], p, h) = {}

\* The rows of a slot in one transaction are applied in the order of its events:
\* messages are executed one after the other, and an event without a message
\* comes after those that have one.
InOrder(p, tx) ==
    \A q, r \in Pairs(p, tx) :
        /\ q.e < r.e /\ r.m # 0
        /\ tx.events[q.e].slot = tx.events[r.e].slot
        => q.m # 0 /\ q.m < r.m

EventsInOrder ==
    \A c \in DOMAIN Chains : \A h \in Heights : \A t \in DOMAIN Chains[c][h] :
        \A p \in Projections \ {"structural"} : InOrder(p, Chains[c][h][t])

-----------------------------------------------------------------------------

Init ==
    /\ chain \in DOMAIN Chains
    /\ cursor = [p \in Projections |-> 0]
    /\ rows = [p \in Projections |-> {}]
    /\ fails = [p \in Projections |-> {}]
    /\ slot = [s \in Slots |-> NoSlotRow]
    /\ wiped = {}
    /\ manual = 0

RefreshedFails(p, h) == {f \in fails[p] : f.h # h} \union FailsAt(p, h)

\* Height h of p in one transaction: failures of the height are replaced, change
\* rows upserted by their source, the slot rows written, the cursor set to h.
Project(p, h, base) ==
    /\ rows' = [rows EXCEPT ![p] = @ \union RowsAt(p, h)]
    /\ fails' = [fails EXCEPT ![p] = RefreshedFails(p, h)]
    /\ slot' = Projected(p, h, base)
    /\ cursor' = [cursor EXCEPT ![p] = h]
    /\ UNCHANGED <<chain, wiped>>

\* The next height, or with START_HEIGHT one that was projected before: then
\* the cursor goes back and the next runs repeat what follows.
Reachable(p, h) ==
    \/ h = cursor[p] + 1 /\ UNCHANGED manual
    \/ h <= cursor[p] /\ manual < MaxManual /\ manual' = manual + 1

\* A metadata run from height 1 seeds the genesis slots first.
ProjectMetadata ==
    \E h \in Heights :
        /\ Reachable("metadata", h)
        /\ Project("metadata", h, IF h = 1 THEN Seeded(GenesisSlots, slot) ELSE slot)

ProjectLifecycle == \E h \in Heights : Reachable("lifecycle", h) /\ Project("lifecycle", h, slot)

ProjectPayout == \E h \in Heights : Reachable("payout", h) /\ Project("payout", h, slot)

ProjectParams == \E h \in Heights : Reachable("params", h) /\ Project("params", h, slot)

RotateKeys == \E h \in Heights : Reachable("rotation", h) /\ Project("rotation", h, slot)

ProjectStructural == \E h \in Heights : Reachable("structural", h) /\ Project("structural", h, slot)

\* The seed on its own: SEED_GENESIS=true, a first run over an empty range, or a
\* metadata run that died in it.  Slots are seeded one by one, outside a
\* transaction, so any part of it may be missing.
SeedGenesis ==
    /\ \E S \in SUBSET GenesisSlots : slot' = Seeded(S, slot)
    /\ UNCHANGED <<chain, cursor, rows, fails, wiped, manual>>

\* slot-registry-refresh: reward weight and power have no event, so a row that
\* lacks them takes them from the live registry.
RefreshRegistry ==
    /\ slot' = [s \in Slots |->
                  [slot[s] EXCEPT !.col = [c \in Columns |->
                      IF slot[s].seen /\ c \in {"weight", "power"} /\ @[c] = Null
                      THEN Live
                      ELSE @[c]]]]
    /\ UNCHANGED <<chain, cursor, rows, fails, wiped, manual>>

\* Mutant: a reset deletes the rows and leaves the cursor.
ForgetRows(P) ==
    /\ manual < MaxManual
    /\ manual' = manual + 1
    /\ rows' = [p \in Projections |-> IF p \in P THEN {} ELSE rows[p]]
    /\ fails' = [p \in Projections |-> IF p \in P THEN {} ELSE fails[p]]
    /\ UNCHANGED <<chain, cursor>>

Forget(P) ==
    /\ manual < MaxManual
    /\ manual' = manual + 1
    /\ cursor' = [p \in Projections |-> IF p \in P THEN 0 ELSE cursor[p]]
    /\ rows' = [p \in Projections |-> IF p \in P THEN {} ELSE rows[p]]
    /\ fails' = [p \in Projections |-> IF p \in P THEN {} ELSE fails[p]]
    /\ UNCHANGED chain

\* The resets of lifecycle, payout, params, rotation and structural leave the
\* shared row alone; a replay writes their columns again.
ResetOne(p) == Forget({p}) /\ wiped' = wiped \ {p} /\ UNCHANGED slot

EmptyTable(P) ==
    /\ slot' = [s \in Slots |-> NoSlotRow]
    /\ wiped' = {p \in Projections \ P : cursor[p] > 0 \/ p \in wiped}

\* reset.ts: the metadata reset empties the shared table.
ResetMetadata == Forget({"metadata"}) /\ EmptyTable({"metadata"})

\* reset-semantic.ts, the first step of the combined rebuild.
ResetSemantic == Forget(Semantic) /\ EmptyTable(Semantic)

(***************************************************************************)
(* The command line programs: a reset, or a height of a run.               *)
(***************************************************************************)
MetadataCli == ResetMetadata \/ SeedGenesis \/ ProjectMetadata

LifecycleCli == ResetOne("lifecycle") \/ ProjectLifecycle

PayoutCli == ResetOne("payout") \/ ProjectPayout

ParamsCli == ResetOne("params") \/ ProjectParams

KeyRotationCli == ResetOne("rotation") \/ RotateKeys

StructuralCli == ResetOne("structural") \/ ProjectStructural

\* The combined rebuild resets what it covers; then it runs the projections from
\* a height on, which their own actions do, in its order or in any other.
RebuildCli == ResetSemantic

Next ==
    \/ MetadataCli \/ LifecycleCli \/ PayoutCli
    \/ ParamsCli \/ KeyRotationCli \/ StructuralCli
    \/ RebuildCli \/ RefreshRegistry

Spec == Init /\ [][Next]_vars

-----------------------------------------------------------------------------

\* Each variable holds what its table may hold.
TypeOK ==
    /\ chain \in DOMAIN Chains
    /\ cursor \in [Projections -> 0..MaxHeight]
    /\ \A p \in Projections : \A r \in rows[p] : r.h \in Heights /\ r \in RowsAt(p, r.h)
    /\ \A s \in Slots : \A c \in Columns :
          slot[s].col[c] \in {Null, Genesis, Live} \union
                                UNION {RowsAt(p, h) : p \in Projections, h \in Heights}
    /\ wiped \subseteq Projections
    /\ manual \in 0..MaxManual

\* The change tables and the failures below a cursor are what one pass over the
\* blocks gives, whatever was re-run, reset or replayed before: re-runs add no
\* row twice and leave no failure of an earlier run behind.
HistoryFollowsChain ==
    \A p \in Projections : \A h \in 1..cursor[p] :
        /\ {r \in rows[p] : r.h = h} = RowsAt(p, h)
        /\ {f \in fails[p] : f.h = h} = FailsAt(p, h)

\* A change row never joins a message with an event of another message
\* (CHANGELOG: ambiguous history is a failure, never a guessed value).
NeverGuessed ==
    \A p \in Correlated : \A r \in rows[p] :
        /\ Chains[chain][r.h][r.t].ok
        /\ r.m # 0 => EventOf(Chains[chain], r).by = r.m

\* What names the trouble with a message: itself, an event it matches, or a
\* message it shares that event with.
Explained(p, tx, m, F) ==
    \/ \E f \in F : f.m = m
    \/ \E e \in EventsFor(p, tx, m) :
          \E f \in F : f.e = e \/ f.m \in MessagesFor(p, tx, e)

\* Below the cursor every message and every event of a successful transaction
\* is in a change row or some failure explains why not: nothing is dropped in
\* silence between the two loops of a projection.
NothingLost ==
    \A p \in Correlated : \A h \in 1..cursor[p] : \A t \in DOMAIN Chains[chain][h] :
        LET tx == Chains[chain][h][t]
            R  == {r \in rows[p] : r.h = h /\ r.t = t}
            F  == {f.f : f \in {g \in fails[p] : g.h = h /\ g.t = t}}
        IN  tx.ok =>
              /\ \A m \in MessagesOf(p, tx) : (\E r \in R : r.m = m) \/ Explained(p, tx, m, F)
              /\ \A e \in EventsOf(p, tx) :
                    \/ \E r \in R : r.e = e
                    \/ \E f \in F : f.e = e
                    \/ \E m \in MessagesFor(p, tx, e) : \E f \in F : f.m = m

ColumnWrites(p, s, c) == UNION {Writers(Chains[chain], p, h, s, c) : h \in Heights}

\* Later in the chain: height, place in the block, event.
IsLatest(r, S) ==
    r \in S /\ \A q \in S \ {r} : Lower(<<q.h, q.t, q.e>>, <<r.h, r.t, r.e>>)

\* r is the latest write of p; only for two transactions of one block may it be
\* the other one, and never for structural, which reads events in chain order.
LatestOf(p, r, S) ==
    \/ IsLatest(r, S)
    \/ p # "structural" /\ r \in S /\ \E q \in S : IsLatest(q, S) /\ q.h = r.h /\ q.t # r.t

\* The projections that write a column.
Owners(c) ==
    CASE c \in {"metadata", "payout"} -> {c, "lifecycle"}
      [] c \in {"address", "power"}   -> {"lifecycle", "rotation"}
      [] c = "status"                 -> {"lifecycle"}
      [] c \in {"settlement", "policy"} -> {"structural"}
      [] OTHER                        -> {}

\* Once the projections of a column are at the last block, and nobody emptied
\* the table behind them, the column holds the latest write of one of them;
\* without a write, nothing an event did not set.
ColumnsCurrent ==
    \A s \in Slots : \A c \in Columns :
        (\A p \in Owners(c) : cursor[p] = MaxHeight /\ p \notin wiped) =>
            LET writing == {p \in Owners(c) : ColumnWrites(p, s, c) # {}}
                value   == slot[s].col[c]
            IN  IF writing = {}
                THEN value \in {Null, Genesis, Live}
                ELSE \E p \in writing : LatestOf(p, value, ColumnWrites(p, s, c))

\* A value an event gave is replaced by another event's, or goes with the whole
\* table; neither the genesis seed nor the live registry ever takes its place.
EventNeverUndone ==
    [][\A s \in Slots : \A c \in Columns :
          slot[s].col[c] \notin {Null, Genesis, Live} =>
              slot'[s].col[c] \notin {Genesis, Live}]_vars

\* coreslot-semantic-rebuild.ts:43: lifecycle "establishes
\* status/operator/consensus/power without clearing metadata".  The code lets a
\* registration that is projected after a later update put the old one back.
MetadataInForce ==
    (/\ \A p \in {"metadata", "lifecycle"} : cursor[p] = MaxHeight /\ p \notin wiped
     /\ wiped = {}) =>
        \A s \in Slots :
            LET S == ColumnWrites("metadata", s, "metadata") \union
                         ColumnWrites("lifecycle", s, "metadata")
            IN  S # {} => \E p \in {"metadata", "lifecycle"} : LatestOf(p, slot[s].col["metadata"], S)
=============================================================================
