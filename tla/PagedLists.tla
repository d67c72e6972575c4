----------------------------- MODULE PagedLists -----------------------------
(***************************************************************************)
(* The API's lists (apps/api/src/{routes,repositories}) walked page by     *)
(* page, as the web's infinite queries do, while the indexer writes.  A    *)
(* page is one query: rows after the cursor, in the list's order, one more *)
(* than the limit.  Between two pages anything may be written.             *)
(*                                                                         *)
(* A row is what it is about - a height, epoch or window start (at), a     *)
(* slot, address, index or kind of event (sub), one of several of these    *)
(* (n) - and the id its insertion gave it.                                 *)
(***************************************************************************)
EXTENDS Integers, FiniteSets

CONSTANTS
    Lists,     \* the lists that are walked
    Limit,     \* rows of a page
    MaxAt,     \* bounds: heights or epochs, slots or kinds, rows of one place,
    MaxSub,    \* and insertions
    MaxN,
    MaxId

Fields == {"at", "sub", "n", "id"}

Up(field) == [field |-> field, up |-> TRUE]
Down(field) == [field |-> field, up |-> FALSE]

-----------------------------------------------------------------------------
(* The queries: which of at, sub and n tell rows apart, the orderBy, and   *)
(* the fields the where clause compares with the cursor's.                 *)

Keyset(keys, order) == [keys |-> keys, order |-> order, where |-> order]

Blocks == Keyset({"at"}, <<Down("at")>>)

Transactions == Keyset({"at", "sub"}, <<Down("at"), Down("sub")>>)

Accounts == Keyset({"sub"}, <<Up("sub")>>)

DecodeFailures == Keyset({"at"}, <<Down("id")>>)

CoreSlots == Keyset({"sub"}, <<Up("sub")>>)

\* compareDesc and cursorFilter; sub is the rank of the event's kind.
EventFeed == Keyset({"at", "sub", "n"}, <<Down("at"), Up("sub"), Down("id")>>)

Windows == Keyset({"at", "n"}, <<Down("at"), Down("id")>>)

KeyRotations == Keyset({"at"}, <<Down("id")>>)

ProposedBlocks == Keyset({"at"}, <<Down("at")>>)

RewardEpochs == Keyset({"at"}, <<Down("at")>>)

SlotRewards == Keyset({"at"}, <<Down("at")>>)

\* The where clause names the slot alone, and the wrong way round.
Entitlements ==
    [keys |-> {"at", "sub"}, order |-> <<Down("at"), Up("sub")>>, where |-> <<Down("sub")>>]

Balances == Keyset({"at", "sub"}, <<Down("id")>>)

ParamsChanges == Keyset({"at"}, <<Down("id")>>)

TreasuryPayments == Keyset({"at"}, <<Down("id")>>)

PayoutLines == Keyset({"at", "n"}, <<Down("at"), Down("id")>>)

Settlements == Keyset({"at", "sub"}, <<Down("at"), Up("sub")>>)

SettlementStatus == Keyset({"at", "sub"}, <<Down("at"), Up("sub")>>)

Query ==
    [blocks |-> Blocks, txs |-> Transactions, accounts |-> Accounts, decode_failures |-> DecodeFailures,
     coreslots |-> CoreSlots, slot_events |-> EventFeed, windows |-> Windows,
     key_rotations |-> KeyRotations, proposed_blocks |-> ProposedBlocks, epochs |-> RewardEpochs,
     slot_rewards |-> SlotRewards, entitlements |-> Entitlements, balances |-> Balances,
     params |-> ParamsChanges, treasury |-> TreasuryPayments, payouts |-> PayoutLines,
     settlements |-> Settlements, settlement_status |-> SettlementStatus]

ASSUME ListBounds ==
    /\ Lists \subseteq DOMAIN Query
    /\ Limit \in Nat \ {0}
    /\ MaxAt \in Nat /\ MaxSub \in Nat /\ MaxN \in Nat /\ MaxId \in Nat

(* The fields of a page's last row that its route makes the next cursor.   *)

BlocksCursor == {"at"}
TransactionsCursor == {"at", "sub"}
AccountsCursor == {"sub"}
DecodeFailuresCursor == {"id"}
CoreSlotsCursor == {"sub"}
EventFeedCursor == {"at", "sub", "id"}
WindowsCursor == {"at", "id"}
KeyRotationsCursor == {"id"}
ProposedBlocksCursor == {"at"}
EpochsCursor == {"at"}
SlotRewardsCursor == {"at"}
EntitlementsCursor == {"sub"}
BalancesCursor == {"id"}
ParamsChangesCursor == {"id"}
TreasuryPaymentsCursor == {"id"}
PayoutsCursor == {"at", "id"}
SettlementsCursor == {"at", "sub"}
SettlementStatusCursor == {"at", "sub"}

CursorFields ==
    [blocks |-> BlocksCursor, txs |-> TransactionsCursor, accounts |-> AccountsCursor,
     decode_failures |-> DecodeFailuresCursor, coreslots |-> CoreSlotsCursor,
     slot_events |-> EventFeedCursor, windows |-> WindowsCursor, key_rotations |-> KeyRotationsCursor,
     proposed_blocks |-> ProposedBlocksCursor, epochs |-> EpochsCursor,
     slot_rewards |-> SlotRewardsCursor, entitlements |-> EntitlementsCursor,
     balances |-> BalancesCursor, params |-> ParamsChangesCursor, treasury |-> TreasuryPaymentsCursor,
     payouts |-> PayoutsCursor, settlements |-> SettlementsCursor,
     settlement_status |-> SettlementStatusCursor]

-----------------------------------------------------------------------------

VARIABLES
    list,     \* the list of this behaviour
    table,    \* its rows
    inserted, \* insertions so far, the id of the last one
    cursor,   \* what the reader asks for next: Start, the fields of a row, or End
    page,     \* the last page
    shown,    \* rows of the pages before it
    kept      \* history: rows that have been there since the walk began

vars == <<list, table, inserted, cursor, page, shown, kept>>

Places == [at : 0..MaxAt, sub : 0..MaxSub, n : 0..MaxN]
Rows == [at : 0..MaxAt, sub : 0..MaxSub, n : 0..MaxN, id : 1..MaxId]

\* A field that tells no rows apart is 0.
Place == {p \in Places : \A f \in DOMAIN p : p[f] = 0 <=> f \notin Query[list].keys}

Content(r) == [at |-> r.at, sub |-> r.sub, n |-> r.n]
Contents(rows) == {Content(r) : r \in rows}

Start == [start |-> TRUE]
End == [end |-> TRUE]

\* Of two rows, or a cursor and a row, the first comes earlier in the order.
Earlier(order, a, b) ==
    \E i \in DOMAIN order :
        /\ IF order[i].up THEN a[order[i].field] < b[order[i].field]
                          ELSE a[order[i].field] > b[order[i].field]
        /\ \A j \in 1..(i - 1) : a[order[j].field] = b[order[j].field]

Precedes(a, b) == Earlier(Query[list].order, a, b)

\* take: the first k rows of S, or all of them.
TakesFirst(k, S, T) ==
    /\ T \subseteq S
    /\ \A a \in T : \A b \in S \ T : Precedes(a, b)
    /\ (T = S /\ Cardinality(T) <= k) \/ Cardinality(T) = k

Cursor(r) == [f \in CursorFields[list] |-> r[f]]

\* Mutant: the row the cursor was made of matches once more.
MatchesFrom(r) == cursor = Start \/ ~Earlier(Query[list].where, r, cursor)

Matches(r) == cursor = Start \/ Earlier(Query[list].where, cursor, r)

Matching == {r \in table : Matches(r)}

\* One more than a page holds tells whether there is another.
Want == Limit + 1

OfKind(kind) == {r \in Matching : r.sub = kind}

\* Mutant: the cursor is applied to each kind's newest rows, not to the query.
FetchesNewest(fetched) ==
    \E head \in [1..MaxSub -> SUBSET table] :
        /\ \A kind \in 1..MaxSub : TakesFirst(Want, {r \in table : r.sub = kind}, head[kind])
        /\ TakesFirst(Want, UNION {head[kind] : kind \in 1..MaxSub} \intersect Matching, fetched)

\* listSlotEvents: as many rows of each kind, merged and cut.
FetchesEvents(fetched) ==
    \E head \in [1..MaxSub -> SUBSET Matching] :
        /\ \A kind \in 1..MaxSub : TakesFirst(Want, OfKind(kind), head[kind])
        /\ TakesFirst(Want, UNION {head[kind] : kind \in 1..MaxSub}, fetched)

Fetches(fetched) ==
    IF list = "slot_events" THEN FetchesEvents(fetched) ELSE TakesFirst(Want, Matching, fetched)

-----------------------------------------------------------------------------

Init ==
    /\ list \in Lists
    /\ table = {} /\ inserted = 0
    /\ cursor = Start /\ page = {} /\ shown = {} /\ kept = {}

(* The reader: useInfiniteQuery with getNextPageParam.                     *)

FetchPage ==
    /\ cursor # End
    /\ \E fetched \in SUBSET Matching :
         /\ Fetches(fetched)
         /\ \E rows \in SUBSET fetched :
              /\ TakesFirst(Limit, fetched, rows)
              /\ IF Cardinality(fetched) > Limit
                 THEN \E last \in rows :
                        /\ \A r \in rows \ {last} : Precedes(r, last)
                        /\ cursor' = Cursor(last)
                 ELSE cursor' = End
              /\ page' = rows
    /\ shown' = shown \union page
    /\ kept' = IF cursor = Start THEN table ELSE kept
    /\ UNCHANGED <<list, table, inserted>>

\* resetQueries, or a change of filter: the walk starts over.
Restart ==
    /\ cursor # Start
    /\ cursor' = Start /\ page' = {} /\ shown' = {} /\ kept' = {}
    /\ UNCHANGED <<list, table, inserted>>

(* The writers.  Heights and ranges are projected in any order: by workers *)
(* side by side, or by a start height below the cursor.                    *)

Row(place, id) == [at |-> place.at, sub |-> place.sub, n |-> place.n, id |-> id]

Insert ==
    /\ inserted < MaxId
    /\ \E place \in Place \ Contents(table) : table' = table \union {Row(place, inserted + 1)}
    /\ inserted' = inserted + 1
    /\ UNCHANGED <<list, cursor, page, shown, kept>>

\* A rerun of mining deletes a chunk's payout lines and creates them again.
Rewrite ==
    /\ list = "payouts" /\ inserted < MaxId
    /\ \E r \in table :
         /\ table' = (table \ {r}) \union {Row(r, inserted + 1)}
         /\ kept' = kept \ {r}
    /\ inserted' = inserted + 1
    /\ UNCHANGED <<list, cursor, page, shown>>

\* A slot whose status the filter does not name any more.
Leave ==
    /\ list = "coreslots"
    /\ \E r \in table : table' = table \ {r} /\ kept' = kept \ {r}
    /\ UNCHANGED <<list, inserted, cursor, page, shown>>

\* What ingestion writes stays; rows of projections go with a reset.
Ingested == {"blocks", "txs", "accounts", "decode_failures"}

Reset ==
    /\ list \notin Ingested /\ table # {}
    /\ table' = {} /\ kept' = {}
    /\ UNCHANGED <<list, inserted, cursor, page, shown>>

Next == FetchPage \/ Restart \/ Insert \/ Rewrite \/ Leave \/ Reset

Spec == Init /\ [][Next]_vars

-----------------------------------------------------------------------------
(* Properties.                                                             *)

\* The walk holds rows of the list, and its cursor is one its route decodes.
TypeOK ==
    /\ list \in Lists
    /\ table \subseteq Rows /\ page \subseteq Rows /\ shown \subseteq Rows /\ kept \subseteq table
    /\ inserted \in 0..MaxId
    /\ cursor \in {Start, End} \union [CursorFields[list] -> Nat]

\* "Dup-free" (docs/research/phase-13d-3-soak-plan.md:140): nothing is shown on
\* two pages of a walk, though it may be rewritten, or reset and projected
\* again, between the two.
NoRowTwice == Contents(page) \intersect Contents(shown) = {}

\* "Walked count == DB count" (the same line), beside writers: what has been in
\* the list since the walk began has been shown, or a later page will show it.
NothingSkipped == \A r \in kept : r \in shown \union page \/ (cursor # End /\ Matches(r))
=============================================================================
