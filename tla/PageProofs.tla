-------------------------- MODULE PageProofs --------------------------
(***************************************************************************)
(* What the API's readers are shown.  No walk over a list shows a row      *)
(* twice or misses one that stays, for any page size and any tables, when  *)
(* the cursor compares what the list is ordered by (entitlements, whose    *)
(* cursor does not, are excluded).  A page shows what it asked for, never  *)
(* older than what it showed.  The figures of an operator, computed by     *)
(* different statements, agree.                                            *)
(***************************************************************************)
EXTENDS PagedLists, PageQueries, FiniteSetTheorems, WellFoundedInduction, TLAPS

KeysetLists == "entitlements" \notin Lists

-----------------------------------------------------------------------------
(* The orders.                                                             *)

\* What the proofs need of an order: rows are compared by their fields, by id
\* only at the end and newest first, and the cursor carries what is compared.
WellOrdered(order, fields) ==
    /\ DOMAIN order \subseteq Nat \ {0}
    /\ \A i \in DOMAIN order : 1..i \subseteq DOMAIN order
    /\ \A i \in DOMAIN order : order[i].field \in Fields /\ order[i].field \in fields
    /\ \A i \in DOMAIN order : order[i].field = "id" => ~order[i].up
    /\ \A i, j \in DOMAIN order : j < i => order[j].field # "id"

\* What the query of l asks for and what its route makes a cursor of.
LEMMA Orders ==
    ASSUME KeysetLists, NEW l \in Lists
    PROVE  /\ WellOrdered(Query[l].order, CursorFields[l])
           /\ Query[l].where = Query[l].order
           /\ CursorFields[l] \subseteq Fields /\ CursorFields[l] # {}
           /\ Query[l].keys \subseteq {"at", "sub", "n"}
<1>. USE DEF Keyset
<1>1. CASE l = "blocks"
  <2>1. Query[l] = Blocks /\ CursorFields[l] = BlocksCursor BY <1>1 DEF Query, CursorFields
  <2>2. WellOrdered(<<Down("at")>>, {"at"}) BY DEF WellOrdered, Down, Up, Fields
  <2>. QED BY <2>1, <2>2 DEF Blocks, BlocksCursor, Fields
<1>2. CASE l = "txs"
  <2>1. Query[l] = Transactions /\ CursorFields[l] = TransactionsCursor BY <1>2 DEF Query, CursorFields
  <2>2. WellOrdered(<<Down("at"), Down("sub")>>, {"at", "sub"}) BY DEF WellOrdered, Down, Up, Fields
  <2>. QED BY <2>1, <2>2 DEF Transactions, TransactionsCursor, Fields
<1>3. CASE l = "accounts"
  <2>1. Query[l] = Accounts /\ CursorFields[l] = AccountsCursor BY <1>3 DEF Query, CursorFields
  <2>2. WellOrdered(<<Up("sub")>>, {"sub"}) BY DEF WellOrdered, Down, Up, Fields
  <2>. QED BY <2>1, <2>2 DEF Accounts, AccountsCursor, Fields
<1>4. CASE l = "decode_failures"
  <2>1. Query[l] = DecodeFailures /\ CursorFields[l] = DecodeFailuresCursor BY <1>4 DEF Query, CursorFields
  <2>2. WellOrdered(<<Down("id")>>, {"id"}) BY DEF WellOrdered, Down, Up, Fields
  <2>. QED BY <2>1, <2>2 DEF DecodeFailures, DecodeFailuresCursor, Fields
<1>5. CASE l = "coreslots"
  <2>1. Query[l] = CoreSlots /\ CursorFields[l] = CoreSlotsCursor BY <1>5 DEF Query, CursorFields
  <2>2. WellOrdered(<<Up("sub")>>, {"sub"}) BY DEF WellOrdered, Down, Up, Fields
  <2>. QED BY <2>1, <2>2 DEF CoreSlots, CoreSlotsCursor, Fields
<1>6. CASE l = "slot_events"
  <2>1. Query[l] = EventFeed /\ CursorFields[l] = EventFeedCursor BY <1>6 DEF Query, CursorFields
  <2>2. WellOrdered(<<Down("at"), Up("sub"), Down("id")>>, {"at", "sub", "id"}) BY DEF WellOrdered, Down, Up, Fields
  <2>. QED BY <2>1, <2>2 DEF EventFeed, EventFeedCursor, Fields
<1>7. CASE l = "windows"
  <2>1. Query[l] = Windows /\ CursorFields[l] = WindowsCursor BY <1>7 DEF Query, CursorFields
  <2>2. WellOrdered(<<Down("at"), Down("id")>>, {"at", "id"}) BY DEF WellOrdered, Down, Up, Fields
  <2>. QED BY <2>1, <2>2 DEF Windows, WindowsCursor, Fields
<1>8. CASE l = "key_rotations"
  <2>1. Query[l] = KeyRotations /\ CursorFields[l] = KeyRotationsCursor BY <1>8 DEF Query, CursorFields
  <2>2. WellOrdered(<<Down("id")>>, {"id"}) BY DEF WellOrdered, Down, Up, Fields
  <2>. QED BY <2>1, <2>2 DEF KeyRotations, KeyRotationsCursor, Fields
<1>9. CASE l = "proposed_blocks"
  <2>1. Query[l] = ProposedBlocks /\ CursorFields[l] = ProposedBlocksCursor BY <1>9 DEF Query, CursorFields
  <2>2. WellOrdered(<<Down("at")>>, {"at"}) BY DEF WellOrdered, Down, Up, Fields
  <2>. QED BY <2>1, <2>2 DEF ProposedBlocks, ProposedBlocksCursor, Fields
<1>10. CASE l = "epochs"
  <2>1. Query[l] = RewardEpochs /\ CursorFields[l] = EpochsCursor BY <1>10 DEF Query, CursorFields
  <2>2. WellOrdered(<<Down("at")>>, {"at"}) BY DEF WellOrdered, Down, Up, Fields
  <2>. QED BY <2>1, <2>2 DEF RewardEpochs, EpochsCursor, Fields
<1>11. CASE l = "slot_rewards"
  <2>1. Query[l] = SlotRewards /\ CursorFields[l] = SlotRewardsCursor BY <1>11 DEF Query, CursorFields
  <2>2. WellOrdered(<<Down("at")>>, {"at"}) BY DEF WellOrdered, Down, Up, Fields
  <2>. QED BY <2>1, <2>2 DEF SlotRewards, SlotRewardsCursor, Fields
<1>12. CASE l = "balances"
  <2>1. Query[l] = Balances /\ CursorFields[l] = BalancesCursor BY <1>12 DEF Query, CursorFields
  <2>2. WellOrdered(<<Down("id")>>, {"id"}) BY DEF WellOrdered, Down, Up, Fields
  <2>. QED BY <2>1, <2>2 DEF Balances, BalancesCursor, Fields
<1>13. CASE l = "params"
  <2>1. Query[l] = ParamsChanges /\ CursorFields[l] = ParamsChangesCursor BY <1>13 DEF Query, CursorFields
  <2>2. WellOrdered(<<Down("id")>>, {"id"}) BY DEF WellOrdered, Down, Up, Fields
  <2>. QED BY <2>1, <2>2 DEF ParamsChanges, ParamsChangesCursor, Fields
<1>14. CASE l = "treasury"
  <2>1. Query[l] = TreasuryPayments /\ CursorFields[l] = TreasuryPaymentsCursor BY <1>14 DEF Query, CursorFields
  <2>2. WellOrdered(<<Down("id")>>, {"id"}) BY DEF WellOrdered, Down, Up, Fields
  <2>. QED BY <2>1, <2>2 DEF TreasuryPayments, TreasuryPaymentsCursor, Fields
<1>15. CASE l = "payouts"
  <2>1. Query[l] = PayoutLines /\ CursorFields[l] = PayoutsCursor BY <1>15 DEF Query, CursorFields
  <2>2. WellOrdered(<<Down("at"), Down("id")>>, {"at", "id"}) BY DEF WellOrdered, Down, Up, Fields
  <2>. QED BY <2>1, <2>2 DEF PayoutLines, PayoutsCursor, Fields
<1>16. CASE l = "settlements"
  <2>1. Query[l] = Settlements /\ CursorFields[l] = SettlementsCursor BY <1>16 DEF Query, CursorFields
  <2>2. WellOrdered(<<Down("at"), Up("sub")>>, {"at", "sub"}) BY DEF WellOrdered, Down, Up, Fields
  <2>. QED BY <2>1, <2>2 DEF Settlements, SettlementsCursor, Fields
<1>17. CASE l = "settlement_status"
  <2>1. Query[l] = SettlementStatus /\ CursorFields[l] = SettlementStatusCursor BY <1>17 DEF Query, CursorFields
  <2>2. WellOrdered(<<Down("at"), Up("sub")>>, {"at", "sub"}) BY DEF WellOrdered, Down, Up, Fields
  <2>. QED BY <2>1, <2>2 DEF SettlementStatus, SettlementStatusCursor, Fields
<1>. QED
  BY ListBounds, <1>1, <1>2, <1>3, <1>4, <1>5, <1>6, <1>7, <1>8, <1>9, <1>10, <1>11, <1>12,
     <1>13, <1>14, <1>15, <1>16, <1>17 DEF KeysetLists, Query

\* The fields of a row or of a cursor are numbers.
Numbered(a, fields) == \A f \in fields : a[f] \in Int

LEMMA EarlierIsAsymmetric ==
    ASSUME NEW order, NEW fields, WellOrdered(order, fields),
           NEW a, NEW b, Numbered(a, fields), Numbered(b, fields),
           Earlier(order, a, b)
    PROVE  ~Earlier(order, b, a)
<1>. SUFFICES ASSUME Earlier(order, b, a) PROVE FALSE
  OBVIOUS
<1>1. PICK i \in DOMAIN order :
         /\ IF order[i].up THEN a[order[i].field] < b[order[i].field]
                           ELSE a[order[i].field] > b[order[i].field]
         /\ \A k \in 1..(i - 1) : a[order[k].field] = b[order[k].field]
  BY DEF Earlier
<1>2. PICK j \in DOMAIN order :
         /\ IF order[j].up THEN b[order[j].field] < a[order[j].field]
                           ELSE b[order[j].field] > a[order[j].field]
         /\ \A k \in 1..(j - 1) : b[order[k].field] = a[order[k].field]
  BY DEF Earlier
<1>3. i \in Nat \ {0} /\ j \in Nat \ {0} BY DEF WellOrdered
<1>4. a[order[i].field] \in Int /\ b[order[i].field] \in Int
      /\ a[order[j].field] \in Int /\ b[order[j].field] \in Int
  BY DEF WellOrdered, Numbered
<1>5. CASE i < j BY <1>1, <1>2, <1>3, <1>4, <1>5
<1>6. CASE j < i BY <1>1, <1>2, <1>3, <1>4, <1>6
<1>7. CASE i = j BY <1>1, <1>2, <1>4, <1>7
<1>. QED BY <1>3, <1>5, <1>6, <1>7

LEMMA EarlierIsTransitive ==
    ASSUME NEW order, NEW fields, WellOrdered(order, fields),
           NEW a, NEW b, NEW c, Numbered(a, fields), Numbered(b, fields), Numbered(c, fields),
           Earlier(order, a, b), Earlier(order, b, c)
    PROVE  Earlier(order, a, c)
<1>1. PICK i \in DOMAIN order :
         /\ IF order[i].up THEN a[order[i].field] < b[order[i].field]
                           ELSE a[order[i].field] > b[order[i].field]
         /\ \A k \in 1..(i - 1) : a[order[k].field] = b[order[k].field]
  BY DEF Earlier
<1>2. PICK j \in DOMAIN order :
         /\ IF order[j].up THEN b[order[j].field] < c[order[j].field]
                           ELSE b[order[j].field] > c[order[j].field]
         /\ \A k \in 1..(j - 1) : b[order[k].field] = c[order[k].field]
  BY DEF Earlier
<1>3. i \in Nat \ {0} /\ j \in Nat \ {0} BY DEF WellOrdered
<1>4. \A k \in DOMAIN order : /\ a[order[k].field] \in Int /\ b[order[k].field] \in Int
                              /\ c[order[k].field] \in Int
  BY DEF WellOrdered, Numbered
<1>5. CASE i < j
  <2>1. i \in 1..(j - 1) BY <1>3, <1>5
  <2>2. \A k \in 1..(i - 1) : k \in 1..(j - 1) BY <1>3, <1>5
  <2>3. b[order[i].field] = c[order[i].field] BY <2>1, <1>2
  <2>4. \A k \in 1..(i - 1) : a[order[k].field] = c[order[k].field] BY <2>2, <1>1, <1>2
  <2>. QED BY <2>3, <2>4, <1>1 DEF Earlier
<1>6. CASE j < i
  <2>1. j \in 1..(i - 1) BY <1>3, <1>6
  <2>2. \A k \in 1..(j - 1) : k \in 1..(i - 1) BY <1>3, <1>6
  <2>3. a[order[j].field] = b[order[j].field] BY <2>1, <1>1
  <2>4. \A k \in 1..(j - 1) : a[order[k].field] = c[order[k].field] BY <2>2, <1>1, <1>2
  <2>. QED BY <2>3, <2>4, <1>2 DEF Earlier
<1>7. CASE i = j
  <2>1. \A k \in 1..(i - 1) : a[order[k].field] = c[order[k].field] BY <1>1, <1>2, <1>7
  <2>2. IF order[i].up THEN a[order[i].field] < c[order[i].field]
                       ELSE a[order[i].field] > c[order[i].field]
    BY <1>1, <1>2, <1>4, <1>7
  <2>. QED BY <2>1, <2>2 DEF Earlier
<1>. QED BY <1>3, <1>5, <1>6, <1>7

\* What has the place of an older row comes no later than it.
LEMMA SamePlace ==
    ASSUME NEW order, NEW fields, WellOrdered(order, fields),
           NEW c, NEW old \in Rows, NEW new \in Rows, Numbered(c, fields),
           Content(old) = Content(new), old.id <= new.id, Earlier(order, c, new)
    PROVE  Earlier(order, c, old)
<1>1. PICK i \in DOMAIN order :
         /\ IF order[i].up THEN c[order[i].field] < new[order[i].field]
                           ELSE c[order[i].field] > new[order[i].field]
         /\ \A k \in 1..(i - 1) : c[order[k].field] = new[order[k].field]
  BY DEF Earlier
<1>2. i \in Nat \ {0} /\ 1..i \subseteq DOMAIN order BY DEF WellOrdered
<1>3. old["at"] = new["at"] /\ old["sub"] = new["sub"] /\ old["n"] = new["n"]
  <2>1. old.at = new.at /\ old.sub = new.sub /\ old.n = new.n BY DEF Content
  <2>. QED BY <2>1
<1>4. \A f \in Fields : f # "id" => old[f] = new[f] BY <1>3 DEF Fields
<1>5. \A k \in 1..(i - 1) : old[order[k].field] = new[order[k].field]
  <2>. SUFFICES ASSUME NEW k \in 1..(i - 1) PROVE old[order[k].field] = new[order[k].field]
    OBVIOUS
  <2>1. k \in DOMAIN order /\ k < i BY <1>2
  <2>. QED BY <2>1, <1>4 DEF WellOrdered
<1>6. IF order[i].up THEN c[order[i].field] < old[order[i].field]
                     ELSE c[order[i].field] > old[order[i].field]
  <2>1. CASE order[i].field = "id"
    <3>1. c["id"] \in Int /\ ~order[i].up BY <2>1 DEF WellOrdered, Numbered
    <3>2. old["id"] <= new["id"] /\ old["id"] \in Int /\ new["id"] \in Int BY DEF Rows
    <3>. QED BY <2>1, <3>1, <3>2, <1>1
  <2>2. CASE order[i].field # "id" BY <2>2, <1>4, <1>1 DEF WellOrdered
  <2>. QED BY <2>1, <2>2
<1>. QED BY <1>1, <1>5, <1>6 DEF Earlier

\* Order looks at the fields it compares and at nothing else.
LEMMA SameFields ==
    ASSUME NEW order, NEW fields, WellOrdered(order, fields),
           NEW a, NEW b, \A f \in fields : a[f] = b[f], NEW x
    PROVE  Earlier(order, a, x) <=> Earlier(order, b, x)
<1>1. \A i \in DOMAIN order : a[order[i].field] = b[order[i].field] BY DEF WellOrdered
<1>2. \A i \in DOMAIN order : \A j \in 1..(i - 1) : j \in DOMAIN order
  <2>. SUFFICES ASSUME NEW i \in DOMAIN order, NEW j \in 1..(i - 1) PROVE j \in DOMAIN order
    OBVIOUS
  <2>1. i \in Nat \ {0} /\ 1..i \subseteq DOMAIN order BY DEF WellOrdered
  <2>. QED BY <2>1
<1>. QED BY <1>1, <1>2 DEF Earlier

-----------------------------------------------------------------------------
(* A page.                                                                 *)

\* The rows of a list have places of their own; a place that was shown and
\* filled again has a younger row.
TableInv ==
    /\ list \in Lists
    /\ inserted \in 0..MaxId
    /\ table \subseteq Rows /\ IsFiniteSet(table)
    /\ \A r \in table : r.id <= inserted /\ Content(r) \in Place
    /\ \A r, s \in table : Content(r) = Content(s) => r = s
    /\ page \subseteq Rows /\ shown \subseteq Rows
    /\ \A r \in page \union shown : r.id <= inserted
    /\ \A old \in page \union shown, new \in table : Content(old) = Content(new) => old.id <= new.id

\* The cursor is behind what was shown.
CursorInv ==
    /\ kept \subseteq table
    /\ cursor \in {Start, End} \union [CursorFields[list] -> Nat]
    /\ cursor = Start => page = {} /\ shown = {} /\ kept = {}
    /\ cursor \notin {Start, End} =>
          \A r \in page \union shown : ~Earlier(Query[list].order, cursor, r)

WalkInv == TableInv /\ CursorInv /\ NoRowTwice /\ NothingSkipped

LEMMA RowsNumbered ==
    ASSUME KeysetLists, list \in Lists, NEW r \in Rows
    PROVE  /\ Numbered(r, CursorFields[list])
           /\ Cursor(r) \in [CursorFields[list] -> Nat] /\ Cursor(r) \notin {Start, End}
           /\ \A x : Earlier(Query[list].order, Cursor(r), x) <=> Precedes(r, x)
<1>1. CursorFields[list] \subseteq Fields /\ CursorFields[list] # {} BY Orders
<1>2. r["at"] \in Nat /\ r["sub"] \in Nat /\ r["n"] \in Nat /\ r["id"] \in Nat BY ListBounds DEF Rows
<1>3. \A f \in CursorFields[list] : r[f] \in Nat BY <1>1, <1>2 DEF Fields
<1>4. Cursor(r) \in [CursorFields[list] -> Nat] BY <1>3 DEF Cursor
<1>5. DOMAIN Start = {"start"} /\ DOMAIN End = {"end"} BY DEF Start, End
<1>6. DOMAIN Cursor(r) = CursorFields[list] BY DEF Cursor
<1>7. Cursor(r) # Start /\ Cursor(r) # End BY <1>1, <1>5, <1>6 DEF Fields
<1>8. \A f \in CursorFields[list] : Cursor(r)[f] = r[f] BY DEF Cursor
<1>9. ASSUME NEW x PROVE Earlier(Query[list].order, Cursor(r), x) <=> Precedes(r, x)
  BY <1>8, SameFields, Orders DEF Precedes
<1>. QED BY <1>3, <1>4, <1>7, <1>9 DEF Numbered

LEMMA Ordered ==
    ASSUME KeysetLists, list \in Lists, NEW a \in Rows, NEW b \in Rows, Precedes(a, b)
    PROVE  /\ ~Precedes(b, a) /\ a # b
           /\ \A c \in Rows : Precedes(b, c) => Precedes(a, c)
<1>1. WellOrdered(Query[list].order, CursorFields[list]) BY Orders
<1>2. \A r \in Rows : Numbered(r, CursorFields[list]) BY RowsNumbered
<1>3. ~Precedes(b, a) BY <1>1, <1>2, EarlierIsAsymmetric DEF Precedes
<1>4. ASSUME NEW c \in Rows, Precedes(b, c) PROVE Precedes(a, c)
  BY <1>1, <1>2, <1>4, EarlierIsTransitive DEF Precedes
<1>. QED BY <1>3, <1>4

\* The sets a page is taken from are finite, and so is the page.
LEMMA Taken ==
    ASSUME NEW S, IsFiniteSet(S), NEW k \in Nat, NEW T, TakesFirst(k, S, T)
    PROVE  /\ T \subseteq S /\ IsFiniteSet(T)
           /\ Cardinality(T) \in Nat /\ Cardinality(T) <= k
           /\ T # S => Cardinality(T) = k
           /\ \A a \in T : \A b \in S \ T : Precedes(a, b)
<1>1. T \subseteq S BY DEF TakesFirst
<1>2. IsFiniteSet(T) BY <1>1, FS_Subset
<1>3. Cardinality(T) \in Nat BY <1>2, FS_CardinalityType
<1>. QED BY <1>1, <1>2, <1>3 DEF TakesFirst

\* What a query fetches comes before what it does not, and with no more than a
\* page it fetches everything; listSlotEvents, too, though it merges queries.
LEMMA Fetched ==
    ASSUME KeysetLists, TableInv, NEW fetched \in SUBSET Matching, Fetches(fetched)
    PROVE  /\ IsFiniteSet(fetched) /\ Cardinality(fetched) \in Nat
           /\ \A a \in fetched : \A r \in Matching \ fetched : Precedes(a, r)
           /\ Cardinality(fetched) <= Limit => fetched = Matching
<1>1. IsFiniteSet(Matching) /\ Matching \subseteq Rows /\ Matching \subseteq table
  BY FS_Subset DEF TableInv, Matching
<1>2. Want \in Nat /\ Want > Limit /\ Limit \in Nat BY ListBounds DEF Want
<1>3. IsFiniteSet(fetched) /\ Cardinality(fetched) \in Nat BY <1>1, FS_Subset, FS_CardinalityType
<1>4. CASE list # "slot_events"
  <2>1. TakesFirst(Want, Matching, fetched) BY <1>4 DEF Fetches
  <2>2. /\ \A a \in fetched : \A r \in Matching \ fetched : Precedes(a, r)
        /\ fetched # Matching => Cardinality(fetched) = Want
    BY <2>1, <1>1, <1>2, Taken
  <2>. QED BY <1>2, <1>3, <2>2
<1>5. CASE list = "slot_events"
  <2>1. PICK head \in [1..MaxSub -> SUBSET Matching] :
           /\ \A kind \in 1..MaxSub : TakesFirst(Want, OfKind(kind), head[kind])
           /\ TakesFirst(Want, UNION {head[kind] : kind \in 1..MaxSub}, fetched)
    BY <1>5 DEF Fetches, FetchesEvents
  <2> DEFINE Merged == UNION {head[kind] : kind \in 1..MaxSub}
  <2>2. Merged \subseteq Matching BY <2>1
  <2>3. IsFiniteSet(Merged) BY <1>1, <2>2, FS_Subset
  <2>4. /\ fetched \subseteq Merged /\ (fetched # Merged => Cardinality(fetched) = Want)
        /\ \A a \in fetched : \A b \in Merged \ fetched : Precedes(a, b)
        /\ Cardinality(fetched) <= Want
    <3>. HIDE DEF Merged
    <3>1. TakesFirst(Want, Merged, fetched) BY <2>1 DEF Merged
    <3>. QED BY <3>1, <2>3, <1>2, Taken
  <2>5. ASSUME NEW kind \in 1..MaxSub
        PROVE  /\ head[kind] \subseteq OfKind(kind) /\ head[kind] \subseteq Merged
               /\ IsFiniteSet(head[kind])
               /\ head[kind] # OfKind(kind) => Cardinality(head[kind]) = Want
               /\ \A a \in head[kind] : \A b \in OfKind(kind) \ head[kind] : Precedes(a, b)
    <3>1. OfKind(kind) \subseteq Matching BY DEF OfKind
    <3>2. IsFiniteSet(OfKind(kind)) BY <1>1, <3>1, FS_Subset
    <3>3. TakesFirst(Want, OfKind(kind), head[kind]) BY <2>1
    <3>. QED BY <3>2, <3>3, <1>2, Taken
  <2>6. ASSUME NEW r \in Matching PROVE r.sub \in 1..MaxSub /\ r \in OfKind(r.sub)
    <3>1. r \in Rows /\ Content(r) \in Place BY <1>1 DEF TableInv
    <3>2. Query[list].keys = {"at", "sub", "n"} BY <1>5 DEF Query, EventFeed, Keyset
    <3>3. Content(r) \in Places /\ "sub" \in DOMAIN Content(r) /\ Content(r)["sub"] = r.sub
      BY <3>1 DEF Place, Content
    <3>4. r.sub # 0 BY <3>1, <3>2, <3>3 DEF Place
    <3>5. r.sub \in 0..MaxSub BY <3>1 DEF Rows
    <3>. QED BY <3>4, <3>5, ListBounds DEF OfKind
  <2>7. ASSUME NEW a \in fetched, NEW r \in Matching \ fetched PROVE Precedes(a, r)
    <3>. HIDE DEF Merged
    <3>1. CASE r \in head[r.sub] BY <2>4, <2>5, <2>6, <3>1
    <3>2. CASE r \notin head[r.sub]
      <4>1. \A b \in head[r.sub] : Precedes(b, r) BY <2>5, <2>6, <3>2
      <4>2. Cardinality(head[r.sub]) = Want BY <2>5, <2>6, <3>2
      <4>3. CASE head[r.sub] \subseteq fetched
        <5>1. Cardinality(fetched) <= Cardinality(head[r.sub]) BY <4>2, <2>4
        <5>2. Cardinality(head[r.sub]) <= Cardinality(fetched) /\ Cardinality(head[r.sub]) \in Nat
          BY <4>2, <4>3, <1>2, <1>3, FS_Subset
        <5>3. head[r.sub] = fetched BY <4>3, <5>1, <5>2, <1>3, FS_Subset
        <5>. QED BY <4>1, <5>3
      <4>4. CASE ~(head[r.sub] \subseteq fetched)
        <5>1. PICK b \in head[r.sub] : b \notin fetched BY <4>4
        <5>2. b \in Merged BY <2>5, <2>6, <5>1
        <5>3. Precedes(a, b) /\ Precedes(b, r) BY <4>1, <5>1, <5>2, <2>4
        <5>4. a \in Rows /\ b \in Rows /\ r \in Rows BY <5>2, <2>2, <1>1
        <5>. QED BY <5>3, <5>4, Ordered DEF TableInv
      <4>. QED BY <4>3, <4>4
    <3>. QED BY <3>1, <3>2
  <2>8. ASSUME Cardinality(fetched) <= Limit, NEW r \in Matching PROVE r \in fetched
    <3>. HIDE DEF Merged
    <3>1. fetched = Merged BY <2>4, <2>8, <1>2, <1>3
    <3>2. Cardinality(head[r.sub]) <= Cardinality(fetched) BY <3>1, <2>5, <2>6, <1>3, FS_Subset
    <3>3. Cardinality(head[r.sub]) \in Nat BY <2>5, <2>6, FS_CardinalityType
    <3>4. head[r.sub] = OfKind(r.sub) BY <2>5, <2>6, <2>8, <3>2, <3>3, <1>2, <1>3
    <3>. QED BY <3>1, <3>4, <2>5, <2>6
  <2>. QED BY <1>3, <2>7, <2>8
<1>. QED BY <1>4, <1>5

\* With nothing more to fetch a page has all that matched; else its last row
\* comes before all that matched and was not shown.
LEMMA PageOf ==
    ASSUME KeysetLists, TableInv, NEW fetched \in SUBSET Matching, Fetches(fetched),
           NEW rows \in SUBSET fetched, TakesFirst(Limit, fetched, rows)
    PROVE  /\ Cardinality(fetched) <= Limit => rows = Matching
           /\ \A a \in rows : \A r \in Matching \ rows : Precedes(a, r)
<1>1. /\ IsFiniteSet(fetched) /\ Cardinality(fetched) \in Nat
      /\ \A a \in fetched : \A r \in Matching \ fetched : Precedes(a, r)
      /\ Cardinality(fetched) <= Limit => fetched = Matching
  BY Fetched
<1>2. /\ \A a \in rows : \A b \in fetched \ rows : Precedes(a, b)
      /\ rows # fetched => Cardinality(rows) = Limit
  BY <1>1, Taken, ListBounds
<1>3. Cardinality(fetched) <= Limit => rows = fetched
  BY <1>1, <1>2, FS_Subset, ListBounds
<1>. QED BY <1>1, <1>2, <1>3

-----------------------------------------------------------------------------
(* The walk.                                                               *)

LEMMA WalkInit == Init => WalkInv
<1>. SUFFICES ASSUME Init PROVE WalkInv
  OBVIOUS
<1>1. TableInv BY FS_EmptySet, ListBounds DEF Init, TableInv
<1>2. CursorInv BY DEF Init, CursorInv
<1>3. NoRowTwice BY DEF Init, NoRowTwice, Contents
<1>4. NothingSkipped BY DEF Init, NothingSkipped
<1>. QED BY <1>1, <1>2, <1>3, <1>4 DEF WalkInv

\* A reader in the middle of a walk, whose cursor has the fields compared.
LEMMA Midway ==
    ASSUME KeysetLists, WalkInv, cursor \notin {Start, End}
    PROVE  /\ Numbered(cursor, CursorFields[list])
           /\ \A r \in Rows : Matches(r) <=> Earlier(Query[list].order, cursor, r)
           /\ \A a, b \in Rows : Matches(a) /\ Precedes(a, b) => Matches(b)
<1>1. list \in Lists /\ cursor \in [CursorFields[list] -> Nat] BY DEF WalkInv, TableInv, CursorInv
<1>2. Numbered(cursor, CursorFields[list]) BY <1>1 DEF Numbered
<1>3. WellOrdered(Query[list].order, CursorFields[list]) /\ Query[list].where = Query[list].order
  BY <1>1, Orders
<1>4. \A r \in Rows : Matches(r) <=> Earlier(Query[list].order, cursor, r) BY <1>3 DEF Matches
<1>5. \A r \in Rows : Numbered(r, CursorFields[list]) BY <1>1, RowsNumbered
<1>6. ASSUME NEW a \in Rows, NEW b \in Rows, Matches(a), Precedes(a, b) PROVE Matches(b)
  BY <1>2, <1>3, <1>4, <1>5, <1>6, EarlierIsTransitive DEF Precedes
<1>. QED BY <1>2, <1>4, <1>6

LEMMA StartIsNotEnd == Start # End
<1>1. DOMAIN Start = {"start"} /\ DOMAIN End = {"end"} BY DEF Start, End
<1>. QED BY <1>1

LEMMA FetchPageKeeps ==
    ASSUME KeysetLists, WalkInv, FetchPage
    PROVE  WalkInv'
<1>. USE DEF WalkInv
<1>1. PICK fetched \in SUBSET Matching :
         /\ Fetches(fetched)
         /\ \E rows \in SUBSET fetched :
              /\ TakesFirst(Limit, fetched, rows)
              /\ IF Cardinality(fetched) > Limit
                 THEN \E last \in rows :
                        /\ \A r \in rows \ {last} : Precedes(r, last)
                        /\ cursor' = Cursor(last)
                 ELSE cursor' = End
              /\ page' = rows
  BY DEF FetchPage
<1>2. PICK rows \in SUBSET fetched :
         /\ TakesFirst(Limit, fetched, rows)
         /\ IF Cardinality(fetched) > Limit
            THEN \E last \in rows :
                   /\ \A r \in rows \ {last} : Precedes(r, last)
                   /\ cursor' = Cursor(last)
            ELSE cursor' = End
         /\ page' = rows
  BY <1>1
<1>3. /\ cursor # End /\ shown' = shown \union page
      /\ kept' = IF cursor = Start THEN table ELSE kept
      /\ list' = list /\ table' = table /\ inserted' = inserted
  BY DEF FetchPage
<1>4. list \in Lists /\ Matching \subseteq table /\ table \subseteq Rows /\ rows \subseteq Matching
  BY DEF TableInv, Matching
<1>5. /\ Cardinality(fetched) <= Limit => rows = Matching
      /\ \A a \in rows : \A r \in Matching \ rows : Precedes(a, r)
  BY <1>1, <1>2, PageOf
<1>6. page' = rows BY <1>2
<1>7. cursor = Start => page = {} /\ shown = {} BY DEF CursorInv
<1>8. ASSUME cursor' # End
      PROVE  \E last \in rows : cursor' = Cursor(last) /\ \A r \in rows \ {last} : Precedes(r, last)
  BY <1>2, <1>8
<1>9. cursor' = End => rows = Matching
  <2>. SUFFICES ASSUME cursor' = End, rows # Matching PROVE FALSE
    OBVIOUS
  <2>1. Cardinality(fetched) \in Nat /\ ~(Cardinality(fetched) <= Limit) BY <1>1, <1>5, Fetched
  <2>2. PICK last \in rows : cursor' = Cursor(last) BY <1>2, <2>1, ListBounds
  <2>. QED BY <2>2, <1>4, RowsNumbered
<1>10. TableInv'
  <2>1. Place' = Place BY <1>3 DEF Place
  <2>2. page' \subseteq table /\ page' \union shown' = rows \union (page \union shown) BY <1>3, <1>4, <1>6
  <2>3. (page \subseteq Rows /\ shown \subseteq Rows)' BY <1>3, <1>4, <2>2 DEF TableInv
  <2>4. (\A r \in page \union shown : r.id <= inserted)' BY <1>3, <1>4, <2>2 DEF TableInv
  <2>5. ASSUME NEW old \in rows \union (page \union shown), NEW new \in table, Content(old) = Content(new)
        PROVE  old.id <= new.id
    <3>1. CASE old \in rows
      <4>1. old = new BY <1>4, <2>5, <3>1 DEF TableInv
      <4>2. old.id \in Int BY <1>4, <3>1, ListBounds DEF Rows
      <4>. QED BY <4>1, <4>2
    <3>2. CASE old \in page \union shown BY <2>5, <3>2 DEF TableInv
    <3>. QED BY <2>5, <3>1, <3>2
  <2>. QED BY <1>3, <2>1, <2>2, <2>3, <2>4, <2>5 DEF TableInv
<1>11. CursorInv'
  <2>1. (kept \subseteq table)' BY <1>3 DEF CursorInv
  <2>2. (cursor \in {End} \union [CursorFields[list] -> Nat])' /\ cursor' # Start
    <3>1. CASE cursor' = End BY <3>1, StartIsNotEnd
    <3>2. CASE cursor' # End
      <4>1. PICK last \in rows : cursor' = Cursor(last) BY <1>8, <3>2
      <4>. QED BY <1>3, <1>4, <4>1, RowsNumbered
    <3>. QED BY <3>1, <3>2
  <2>3. ASSUME cursor' \notin {Start, End}, NEW r \in rows \union shown \union page
        PROVE  ~Earlier(Query[list].order, cursor', r)
    <3>1. PICK last \in rows : /\ \A s \in rows \ {last} : Precedes(s, last)
                               /\ cursor' = Cursor(last)
      BY <1>8, <2>3
    <3>2. last \in Rows /\ Matches(last) /\ r \in Rows BY <1>4, <2>3 DEF Matching, TableInv
    <3>3. SUFFICES ASSUME Precedes(last, r) PROVE FALSE BY <1>4, <3>1, <3>2, RowsNumbered
    <3>4. CASE r \in rows BY <1>4, <3>1, <3>2, <3>3, <3>4, Ordered
    <3>5. CASE r \in shown \union page
      <4>1. cursor \notin {Start, End} BY <1>3, <1>7, <3>5
      <4>2. Earlier(Query[list].order, cursor, r) BY <4>1, <3>2, <3>3, Midway
      <4>. QED BY <4>1, <4>2, <3>5 DEF CursorInv
    <3>. QED BY <2>3, <3>4, <3>5
  <2>. QED BY <1>3, <1>6, <2>1, <2>2, <2>3 DEF CursorInv
<1>12. NoRowTwice'
  <2>. SUFFICES ASSUME NEW new \in rows, NEW old \in page \union shown, Content(old) = Content(new)
                PROVE  FALSE
    BY <1>3, <1>6 DEF NoRowTwice, Contents
  <2>1. new \in table /\ new \in Rows /\ Matches(new) BY <1>4 DEF Matching
  <2>2. old \in Rows /\ old.id <= new.id BY <2>1 DEF TableInv
  <2>3. cursor \notin {Start, End} BY <1>3, <1>7
  <2>4. Earlier(Query[list].order, cursor, new) BY <2>1, <2>3, Midway
  <2>5. WellOrdered(Query[list].order, CursorFields[list]) /\ Numbered(cursor, CursorFields[list])
    BY <1>4, <2>3, Midway, Orders
  <2>6. Earlier(Query[list].order, cursor, old) BY <2>1, <2>2, <2>4, <2>5, SamePlace
  <2>. QED BY <2>3, <2>6 DEF CursorInv
<1>13. NothingSkipped'
  <2>. SUFFICES ASSUME NEW r \in kept', r \notin shown \union page, r \notin rows
                PROVE  cursor' # End /\ Matches(r)'
    BY <1>3, <1>6 DEF NothingSkipped
  <2>1. r \in table /\ r \in Rows BY <1>3, <1>4 DEF CursorInv
  <2>2. Matches(r)
    <3>1. CASE cursor = Start BY <3>1 DEF Matches
    <3>2. CASE cursor # Start BY <1>3, <3>2 DEF NothingSkipped
    <3>. QED BY <3>1, <3>2
  <2>3. r \in Matching \ rows BY <2>1, <2>2 DEF Matching
  <2>4. cursor' # End BY <1>9, <2>3
  <2>5. PICK last \in rows : cursor' = Cursor(last) BY <1>8, <2>4
  <2>6. Precedes(last, r) BY <1>5, <2>3
  <2>7. Earlier(Query[list].order, cursor', r) BY <1>4, <2>5, <2>6, RowsNumbered
  <2>8. Query[list].where = Query[list].order BY <1>4, Orders
  <2>. QED BY <1>3, <2>4, <2>7, <2>8 DEF Matches
<1>. QED BY <1>10, <1>11, <1>12, <1>13

LEMMA RestartKeeps ==
    ASSUME WalkInv, Restart
    PROVE  WalkInv'
<1>. USE DEF WalkInv, Restart
<1>1. TableInv' BY DEF TableInv, Place, Places
<1>2. CursorInv' BY DEF CursorInv
<1>3. NoRowTwice' BY DEF NoRowTwice, Contents
<1>4. NothingSkipped' BY DEF NothingSkipped
<1>. QED BY <1>1, <1>2, <1>3, <1>4

\* What a writer does to the table: rows go, a younger one may take a place.
LEMMA WritesKeep ==
    ASSUME WalkInv, TableInv', UNCHANGED <<list, cursor, page, shown>>,
           kept' \subseteq kept, kept' \subseteq table'
    PROVE  WalkInv'
<1>. USE DEF WalkInv
<1>1. CursorInv' BY DEF CursorInv
<1>2. NoRowTwice' BY DEF NoRowTwice, Contents
<1>3. NothingSkipped' BY DEF NothingSkipped, Matches
<1>. QED BY <1>1, <1>2, <1>3

LEMMA InsertKeeps ==
    ASSUME WalkInv, Insert
    PROVE  WalkInv'
<1>. USE DEF WalkInv
<1>1. PICK place \in Place \ Contents(table) : table' = table \union {Row(place, inserted + 1)}
  BY DEF Insert
<1> DEFINE new == Row(place, inserted + 1)
<1>2. inserted < MaxId /\ inserted \in 0..MaxId /\ inserted' = inserted + 1
      /\ UNCHANGED <<list, cursor, page, shown, kept>>
  BY DEF Insert, TableInv
<1>3. inserted + 1 \in 1..MaxId BY <1>2, ListBounds
<1>4. new \in Rows /\ Content(new) = place /\ new.id = inserted + 1
  BY <1>1, <1>3 DEF Place, Places, Rows, Row, Content
<1>5. table' = table \union {new} BY <1>1
<1>6. \A r \in table : Content(r) # Content(new) BY <1>1, <1>4 DEF Contents
<1>. HIDE DEF new
<1>7. \A r \in Rows : r.id \in Nat BY ListBounds DEF Rows
<1>8. TableInv'
  <2>1. (list \in Lists /\ inserted \in 0..MaxId /\ page \subseteq Rows /\ shown \subseteq Rows)'
    BY <1>2, <1>3 DEF TableInv
  <2>2. (table \subseteq Rows /\ IsFiniteSet(table))' BY <1>4, <1>5, FS_AddElement DEF TableInv
  <2>3. (\A r \in table : r.id <= inserted /\ Content(r) \in Place)'
    BY <1>1, <1>2, <1>4, <1>5, <1>7 DEF TableInv, Place
  <2>4. (\A r, s \in table : Content(r) = Content(s) => r = s)' BY <1>5, <1>6 DEF TableInv
  <2>5. (\A r \in page \union shown : r.id <= inserted)' BY <1>2, <1>7 DEF TableInv
  <2>6. ASSUME NEW old \in page \union shown, NEW r \in table', Content(old) = Content(r)
        PROVE  old.id <= r.id
    <3>1. CASE r = new BY <3>1, <1>2, <1>4, <1>7 DEF TableInv
    <3>2. CASE r # new BY <3>2, <1>5, <2>6 DEF TableInv
    <3>. QED BY <3>1, <3>2
  <2>. QED BY <1>2, <2>1, <2>2, <2>3, <2>4, <2>5, <2>6 DEF TableInv
<1>9. kept' \subseteq kept /\ kept' \subseteq table' BY <1>2, <1>5 DEF CursorInv
<1>. QED BY <1>2, <1>8, <1>9, WritesKeep

LEMMA RewriteKeeps ==
    ASSUME WalkInv, Rewrite
    PROVE  WalkInv'
<1>. USE DEF WalkInv
<1>1. PICK line \in table : /\ table' = (table \ {line}) \union {Row(line, inserted + 1)}
                            /\ kept' = kept \ {line}
  BY DEF Rewrite
<1> DEFINE new == Row(line, inserted + 1)
<1>2. inserted < MaxId /\ inserted \in 0..MaxId /\ inserted' = inserted + 1
      /\ UNCHANGED <<list, cursor, page, shown>>
  BY DEF Rewrite, TableInv
<1>3. inserted + 1 \in 1..MaxId BY <1>2, ListBounds
<1>4. new \in Rows /\ Content(new) = Content(line) /\ new.id = inserted + 1
  <2>1. line \in Rows BY DEF TableInv
  <2>. QED BY <2>1, <1>3 DEF Rows, Row, Content
<1>5. table' = (table \ {line}) \union {new} BY <1>1
<1>. HIDE DEF new
<1>6. \A r \in Rows : r.id \in Nat BY ListBounds DEF Rows
<1>7. \A r \in table \ {line} : Content(r) # Content(new) BY <1>4 DEF TableInv
<1>8. TableInv'
  <2>1. (list \in Lists /\ inserted \in 0..MaxId /\ page \subseteq Rows /\ shown \subseteq Rows)'
    BY <1>2, <1>3 DEF TableInv
  <2>2. (table \subseteq Rows)' BY <1>4, <1>5 DEF TableInv
  <2>3. IsFiniteSet(table)'
    <3>1. IsFiniteSet(table \ {line}) BY FS_RemoveElement DEF TableInv
    <3>. QED BY <3>1, <1>5, FS_AddElement
  <2>4. (\A r \in table : r.id <= inserted /\ Content(r) \in Place)'
    BY <1>2, <1>4, <1>5, <1>6 DEF TableInv, Place
  <2>5. (\A r, s \in table : Content(r) = Content(s) => r = s)' BY <1>5, <1>7 DEF TableInv
  <2>6. (\A r \in page \union shown : r.id <= inserted)' BY <1>2, <1>6 DEF TableInv
  <2>7. ASSUME NEW old \in page \union shown, NEW r \in table', Content(old) = Content(r)
        PROVE  old.id <= r.id
    <3>1. CASE r = new BY <3>1, <1>2, <1>4, <1>6 DEF TableInv
    <3>2. CASE r # new BY <3>2, <1>5, <2>7 DEF TableInv
    <3>. QED BY <3>1, <3>2
  <2>. QED BY <1>2, <2>1, <2>2, <2>3, <2>4, <2>5, <2>6, <2>7 DEF TableInv
<1>9. kept' \subseteq kept /\ kept' \subseteq table' BY <1>1, <1>5 DEF CursorInv
<1>. QED BY <1>2, <1>8, <1>9, WritesKeep

\* Rows that only go leave the table as it was, but smaller.
LEMMA RemovalKeeps ==
    ASSUME WalkInv, Leave \/ Reset
    PROVE  WalkInv'
<1>. USE DEF WalkInv
<1>1. table' \subseteq table /\ kept' \subseteq kept /\ kept' \subseteq table'
      /\ UNCHANGED <<list, inserted, cursor, page, shown>>
  <2>1. CASE Leave BY <2>1 DEF Leave, CursorInv
  <2>2. CASE Reset BY <2>2 DEF Reset
  <2>. QED BY <2>1, <2>2
<1>2. IsFiniteSet(table') BY <1>1, FS_Subset DEF TableInv
<1>3. TableInv' BY <1>1, <1>2 DEF TableInv, Place
<1>. QED BY <1>1, <1>3, WritesKeep

LEMMA WalkStep ==
    ASSUME KeysetLists, WalkInv, [Next]_vars
    PROVE  WalkInv'
<1>1. CASE FetchPage BY <1>1, FetchPageKeeps
<1>2. CASE Restart BY <1>2, RestartKeeps
<1>3. CASE Insert BY <1>3, InsertKeeps
<1>4. CASE Rewrite BY <1>4, RewriteKeeps
<1>5. CASE Leave \/ Reset BY <1>5, RemovalKeeps
<1>6. CASE UNCHANGED vars
  <2>1. TableInv' BY <1>6 DEF WalkInv, vars, TableInv, Place
  <2>2. kept' \subseteq kept /\ kept' \subseteq table' BY <1>6 DEF WalkInv, vars, CursorInv
  <2>. QED BY <1>6, <2>1, <2>2, WritesKeep DEF vars
<1>. QED BY <1>1, <1>2, <1>3, <1>4, <1>5, <1>6 DEF Next

\* WalkInv holds throughout: a reader is always behind what it was shown.
THEOREM WalkHolds ==
    ASSUME KeysetLists
    PROVE  Spec => []WalkInv
<1>1. Init => WalkInv BY WalkInit
<1>2. WalkInv /\ [Next]_vars => WalkInv' BY WalkStep
<1>. QED BY <1>1, <1>2, PTL DEF Spec

\* No list shows on a later page what a page of the walk has shown: neither a
\* payout line that mining deleted and created again, nor a row that a reset
\* took away and its projection wrote once more.
THEOREM NoRowTwiceHolds ==
    ASSUME KeysetLists
    PROVE  Spec => []NoRowTwice
<1>1. WalkInv => NoRowTwice BY DEF WalkInv
<1>. QED BY <1>1, WalkHolds, PTL

\* What stays in a list from its first page on is shown, or a later page shows
\* it, whatever is written in between and however listSlotEvents merges.
THEOREM NothingSkippedHolds ==
    ASSUME KeysetLists
    PROVE  Spec => []NothingSkipped
<1>1. WalkInv => NothingSkipped BY DEF WalkInv
<1>. QED BY <1>1, WalkHolds, PTL

(***************************************************************************)
(* The queries of the web, whose first page a list's is.                   *)
(***************************************************************************)
Sources == {"blocks", "record", "sample", "facts"}

\* What is read of one epoch is only asked with an epoch.
LEMMA QueryReads ==
    ASSUME NEW q \in Queries
    PROVE  /\ \A i \in DOMAIN q.reads : q.reads[i] \in Sources
           /\ \A i \in DOMAIN q.reads : q.reads[i] \in {"record", "sample"} => q.needs = "one"
<1>. DEFINE Of(reads) == /\ \A i \in DOMAIN reads : reads[i] \in Sources
                         /\ \A i \in DOMAIN reads : reads[i] \notin {"record", "sample"}
<1>1. Of(<<>>) /\ Of(Newest) /\ Of(<<"blocks", "blocks">>) BY DEF Newest, Sources
<1>2. \/ q.reads \in {<<>>, Newest, <<"blocks", "blocks">>}
      \/ q.needs = "one" /\ q.reads \in {<<"record">>, <<"sample", "facts">>}
  <2>1. /\ Polled.reads = Newest /\ PolledOf.reads = Newest /\ OnDemand.reads = Newest
        /\ List.reads = Newest /\ FilteredList.reads = Newest /\ Detail.reads = Newest
        /\ UseLivenessRisk.reads = Newest /\ UseSupply.reads = Newest
    BY DEF QueryOf, Polled, PolledOf, OnDemand, List, FilteredList, Detail, UseLivenessRisk, UseSupply
  <2>2. /\ Fanout.reads = <<"blocks", "blocks">> /\ UseHistory.reads = <<"blocks", "blocks">>
        /\ NoPage.reads = <<>>
    BY DEF QueryOf, PolledOf, OnDemand, Fanout, UseHistory, NoPage
  <2>3. UseDraw.needs = "one" /\ UseDraw.reads = <<"record">>
    BY DEF QueryOf, UseDraw
  <2>4. UseFeedEpoch.needs = "one" /\ UseFeedEpoch.reads = <<"sample", "facts">>
    BY DEF QueryOf, UseFeedEpoch
  <2>5. q \in {Polled, PolledOf, OnDemand, List, FilteredList, Detail, Fanout, UseLivenessRisk, UseSupply,
               UseHistory, UseDraw, UseFeedEpoch, NoPage}
    BY Zenon DEF Queries, UseStatus,
      UseLatestBlocks, UseTxsAggregate, UseCoreSlots, UseValidatorSet, UseProposers,
      UseSearch, UseBlocksList, UseBlock, UseTxsByHeight, UseTxsList, UseTx, UseAccountsList, UseAccount,
      UseAccountBalances, UseCoreSlotsList, UseCoreSlot, UseCoreSlotEvents, UseCoreSlotLiveness,
      UseProposedBlocks, UseOperatorResolution, UseHealthFanout, UseOperatorDirectory, UseRewardsEpochs,
      UseRewardEpoch, UseSlotSettlements, UseSettlementStatus, UseSettlementSeries, UseSettlement,
      UseAccountPayouts, UseEntitlements, UseBalances, UseParams, UseTreasury, UseOperators,
      UseOperatorProfile, UseOperatorAuth, UseParticipants, UseClock, UseFeedFanout
  <2>. QED BY <2>1, <2>2, <2>3, <2>4, <2>5, Zenon
<1>3. CASE q.reads \in {<<>>, Newest, <<"blocks", "blocks">>} BY <1>1, <1>3
<1>4. CASE q.needs = "one" /\ q.reads = <<"record">> BY <1>4 DEF Sources
<1>5. CASE q.needs = "one" /\ q.reads = <<"sample", "facts">> BY <1>5 DEF Sources
<1>. QED BY <1>2, <1>3, <1>4, <1>5

\* The tables only grow.
TablesTyped ==
    /\ chain \in Histories /\ stored \in Nat /\ mined \in Nat
    /\ published \in [Epochs -> Nat]

\* A request in flight is for its key, and has read nothing newer than the
\* tables are.
FetchInv(k) ==
    /\ DOMAIN fetches[k] = DOMAIN NoFetch
    /\ Fetching(k) =>
         /\ fetches[k].of = k /\ Enabled(k)
         /\ DOMAIN fetches[k].got = DOMAIN query.reads
         /\ \A i \in DOMAIN query.reads :
              \/ fetches[k].got[i] = None
              \/ /\ fetches[k].got[i] \in Nat
                 /\ ~query.items => fetches[k].got[i] <= Value(query.reads[i], k)

\* An entry is of its key, and a request that is to replace it has read nothing
\* older: it was sent when the entry was there.
EntryInv(k) ==
    /\ DOMAIN entries[k] = DOMAIN Empty
    /\ entries[k].has =>
         /\ entries[k].of = k /\ Enabled(k)
         /\ DOMAIN entries[k].read = DOMAIN query.reads
         /\ \A i \in DOMAIN query.reads :
              /\ entries[k].read[i] \in Nat
              /\ ~query.items =>
                   /\ entries[k].read[i] <= Value(query.reads[i], k)
                   /\ Fetching(k) /\ fetches[k].got[i] # None =>
                        entries[k].read[i] <= fetches[k].got[i]

PageInv ==
    /\ TablesTyped /\ query \in Queries
    /\ param \in Params \union {Away}
    /\ DOMAIN entries = Keys /\ DOMAIN fetches = Keys
    /\ \A k \in Keys : FetchInv(k) /\ EntryInv(k)

LEMMA ParamFacts == Keys = Params /\ Away \notin Params /\ Params \subseteq Nat /\ Epochs \subseteq Nat
BY FigureBounds DEF Keys, Params, Epochs, Away, None, Nothing

LEMMA ValueIsNat ==
    ASSUME TablesTyped, query \in Queries, NEW k \in Keys, Enabled(k), NEW i \in DOMAIN query.reads
    PROVE  Value(query.reads[i], k) \in Nat
<1>1. query.reads[i] \in Sources /\ (query.reads[i] \in {"record", "sample"} => k \in Epochs)
  BY QueryReads, ParamFacts DEF Enabled, Params
<1>. QED BY <1>1 DEF Value, TablesTyped, Sources

\* What the indexer writes makes no table shorter.
LEMMA TablesGrow ==
    ASSUME TablesTyped, Fill
    PROVE  /\ chain' = chain /\ stored' \in Nat /\ stored <= stored' /\ mined' \in Nat /\ mined <= mined'
           /\ published' \in [Epochs -> Nat] /\ \A e \in Epochs : published[e] <= published'[e]
           /\ \A e \in Epochs : published[e] = 2 => published'[e] = 2
<1>1. CASE Ingest BY <1>1 DEF Ingest, TablesTyped
<1>2. CASE ProjectMining BY <1>2 DEF ProjectMining, TablesTyped
<1>3. CASE ProjectRewards \/ SampleEntitlements BY <1>3 DEF ProjectRewards, SampleEntitlements, TablesTyped
<1>4. CASE \E e \in Epochs : SampleFeed(e) BY <1>4 DEF SampleFeed, TablesTyped
<1>. QED BY <1>1, <1>2, <1>3, <1>4 DEF Fill

LEMMA ValueGrows ==
    ASSUME TablesTyped, query \in Queries, Fill, query' = query,
           NEW k \in Keys, Enabled(k), NEW i \in DOMAIN query.reads
    PROVE  Value(query.reads[i], k) <= Value(query.reads[i], k)'
<1>1. query.reads[i] \in Sources /\ (query.reads[i] \in {"record", "sample"} => k \in Epochs)
  BY QueryReads, ParamFacts DEF Enabled, Params
<1>. QED BY <1>1, TablesGrow DEF Value, TablesTyped, Sources

\* An entry that is replaced is replaced by one that was read later.
Later(k) ==
    entries[k].has /\ entries'[k].has /\ ~query.items =>
        \A i \in DOMAIN query.reads : entries[k].read[i] <= entries'[k].read[i]

LaterEverywhere == \A k \in Keys : Later(k)

LEMMA SameEntry ==
    ASSUME PageInv, NEW k \in Keys, entries'[k].read = entries[k].read
    PROVE  Later(k)
BY DEF PageInv, EntryInv, Later

LEMMA FillKeeps ==
    ASSUME PageInv, Fill, UNCHANGED <<query, param, entries, fetches>>
    PROVE  PageInv' /\ LaterEverywhere
<1>1. TablesTyped' BY TablesGrow DEF PageInv, TablesTyped
<1>2. ASSUME NEW k \in Keys PROVE FetchInv(k)' /\ EntryInv(k)'
  <2>1. FetchInv(k) /\ EntryInv(k) BY DEF PageInv
  <2>2. \A i \in DOMAIN query.reads : Enabled(k) => Value(query.reads[i], k) <= Value(query.reads[i], k)'
    BY ValueGrows DEF PageInv
  <2>3. \A i \in DOMAIN query.reads : Enabled(k) => Value(query.reads[i], k) \in Nat
    BY ValueIsNat DEF PageInv
  <2>4. \A i \in DOMAIN query.reads : Enabled(k) => Value(query.reads[i], k)' \in Nat
    <3>1. ASSUME NEW i \in DOMAIN query.reads, Enabled(k)
          PROVE  Value(query.reads[i], k)' \in Nat
      <4>1. query.reads[i] \in Sources /\ (query.reads[i] \in {"record", "sample"} => k \in Epochs)
        BY <3>1, QueryReads, ParamFacts DEF Enabled, Params, PageInv
      <4>. QED BY <4>1, <1>1 DEF Value, TablesTyped, Sources
    <3>. QED BY <3>1
  <2>5. query' = query /\ entries' = entries /\ fetches' = fetches OBVIOUS
  <2>6. ASSUME NEW i \in DOMAIN query.reads, Enabled(k), NEW n \in Nat, n <= Value(query.reads[i], k)
        PROVE  n <= Value(query.reads[i], k)'
    BY <2>2, <2>3, <2>4, <2>6
  <2>7. FetchInv(k)'
    BY <2>1, <2>5, <2>6 DEF FetchInv, Fetching, Enabled
  <2>8. EntryInv(k)'
    BY <2>1, <2>5, <2>6 DEF EntryInv, Fetching, Enabled
  <2>. QED BY <2>7, <2>8
<1>3. LaterEverywhere BY SameEntry DEF LaterEverywhere
<1>. QED BY <1>1, <1>2, <1>3 DEF PageInv

\* A step of the page or of a request that changes one key.
OnlyKey(k) ==
    /\ UNCHANGED <<chain, tables, query>>
    /\ param' \in Params \union {Away}
    /\ DOMAIN entries' = Keys /\ DOMAIN fetches' = Keys
    /\ \A j \in Keys \ {k} : entries'[j] = entries[j] /\ fetches'[j] = fetches[j]

LEMMA TablesStay ==
    ASSUME UNCHANGED <<chain, tables, query>>
    PROVE  /\ TablesTyped => TablesTyped'
           /\ \A k : Enabled(k)' = Enabled(k)
           /\ \A i, k : Value(query.reads[i], k)' = Value(query.reads[i], k)
<1>1. /\ chain' = chain /\ stored' = stored /\ mined' = mined /\ published' = published /\ query' = query
  BY DEF tables
<1>2. TablesTyped => TablesTyped' BY <1>1 DEF TablesTyped
<1>3. \A k : Enabled(k)' = Enabled(k) BY <1>1 DEF Enabled
<1>4. ASSUME NEW i, NEW k PROVE Value(query.reads[i], k)' = Value(query.reads[i], k) BY <1>1 DEF Value
<1>. QED BY <1>2, <1>3, <1>4

LEMMA OneKeyKeeps ==
    ASSUME PageInv, NEW k \in Keys, OnlyKey(k), FetchInv(k)', EntryInv(k)', Later(k)
    PROVE  PageInv' /\ LaterEverywhere
<1>1. TablesTyped' /\ query' \in Queries /\ query' = query BY TablesStay DEF OnlyKey, PageInv
<1>2. ASSUME NEW j \in Keys \ {k} PROVE FetchInv(j)' /\ EntryInv(j)' /\ Later(j)
  <2>1. FetchInv(j) /\ EntryInv(j) /\ entries'[j] = entries[j] /\ fetches'[j] = fetches[j]
    BY DEF PageInv, OnlyKey
  <2>2. /\ Enabled(j)' = Enabled(j) /\ query' = query
        /\ \A i : Value(query.reads[i], j)' = Value(query.reads[i], j)
    BY TablesStay DEF OnlyKey
  <2>3. FetchInv(j)' BY <2>1, <2>2 DEF FetchInv, Fetching
  <2>4. EntryInv(j)' BY <2>1, <2>2 DEF EntryInv, Fetching
  <2>. QED BY <2>1, <2>3, <2>4, SameEntry
<1>. QED BY <1>1, <1>2 DEF PageInv, LaterEverywhere, OnlyKey

\* A request is sent, with nothing read, for the page's parameter.
LEMMA FetchKeeps ==
    ASSUME PageInv, NEW p \in Params, Enabled(p), ~Fetching(p),
           UNCHANGED <<chain, tables, query, entries>>, param' \in Params \union {Away},
           fetches' = [fetches EXCEPT ![p] = NewFetch(p)]
    PROVE  PageInv' /\ LaterEverywhere
<1>1. p \in Keys /\ p # Away BY ParamFacts
<1>2. /\ OnlyKey(p) /\ fetches'[p] = NewFetch(p) /\ entries'[p] = entries[p]
  BY <1>1 DEF OnlyKey, PageInv
<1>3. /\ DOMAIN NewFetch(p) = DOMAIN NoFetch /\ NewFetch(p).of = p
      /\ DOMAIN NewFetch(p).got = DOMAIN query.reads
      /\ \A i \in DOMAIN query.reads : NewFetch(p).got[i] = None
  BY DEF NewFetch, NoFetch, NoneRead
<1>4. /\ query' = query /\ Enabled(p)' = Enabled(p)
      /\ \A i : Value(query.reads[i], p)' = Value(query.reads[i], p)
  BY TablesStay
<1>5. FetchInv(p)' BY <1>2, <1>3, <1>4 DEF FetchInv, Fetching
<1>6. EntryInv(p) BY <1>1 DEF PageInv
<1>7. EntryInv(p)' BY <1>2, <1>3, <1>4, <1>6 DEF EntryInv, Fetching
<1>8. Later(p) BY <1>1, <1>2, SameEntry
<1>. QED BY <1>1, <1>2, <1>5, <1>7, <1>8, OneKeyKeeps

\* Nothing under way and nothing in the cache changes.
LEMMA MoveKeeps ==
    ASSUME PageInv, UNCHANGED <<chain, tables, query, entries, fetches>>, param' \in Params \union {Away}
    PROVE  PageInv' /\ LaterEverywhere
<1>1. ASSUME NEW k \in Keys PROVE FetchInv(k)' /\ EntryInv(k)' /\ Later(k)
  <2>1. FetchInv(k) /\ EntryInv(k) BY DEF PageInv
  <2>2. /\ query' = query /\ Enabled(k)' = Enabled(k) /\ entries' = entries /\ fetches' = fetches
        /\ \A i : Value(query.reads[i], k)' = Value(query.reads[i], k)
    BY TablesStay
  <2>3. FetchInv(k)' BY <2>1, <2>2 DEF FetchInv, Fetching
  <2>4. EntryInv(k)' BY <2>1, <2>2 DEF EntryInv, Fetching
  <2>. QED BY <2>2, <2>3, <2>4, SameEntry
<1>2. TablesTyped' /\ query' \in Queries BY TablesStay DEF PageInv
<1>. QED BY <1>1, <1>2 DEF PageInv, LaterEverywhere

LEMMA VisitKeeps ==
    ASSUME PageInv, NEW p \in Params, Visit(p)
    PROVE  PageInv' /\ LaterEverywhere
<1>1. UNCHANGED <<chain, tables, query, entries>> /\ param' \in Params \union {Away}
  BY DEF Visit
<1>2. CASE Enabled(p) /\ ~Fetching(p) /\ ~entries[p].fresh
  <2>1. fetches' = [fetches EXCEPT ![p] = NewFetch(p)] BY <1>2 DEF Visit, Key
  <2>. QED BY <1>1, <1>2, <2>1, FetchKeeps
<1>3. CASE ~(Enabled(p) /\ ~Fetching(p) /\ ~entries[p].fresh)
  <2>1. fetches' = fetches BY <1>3 DEF Visit, Key
  <2>. QED BY <1>1, <2>1, MoveKeeps
<1>. QED BY <1>2, <1>3

LEMMA AskKeeps ==
    ASSUME PageInv, Ask
    PROVE  PageInv' /\ LaterEverywhere
<1>1. param \in Params /\ Enabled(param) /\ ~Fetching(param)
  BY DEF PageInv, Ask, Enabled, Key
<1>2. /\ UNCHANGED <<chain, tables, query, entries>> /\ param' \in Params \union {Away}
      /\ fetches' = [fetches EXCEPT ![param] = NewFetch(param)]
  BY <1>1 DEF Ask, Key
<1>. QED BY <1>1, <1>2, FetchKeeps

\* The request of a key is over, and its entry is as it was but for its flags.
LEMMA EndKeeps ==
    ASSUME PageInv, NEW k \in Keys, OnlyKey(k), fetches'[k] = NoFetch \/ fetches'[k] = fetches[k],
           DOMAIN entries'[k] = DOMAIN entries[k],
           \A f \in {"has", "of", "read"} : entries'[k][f] = entries[k][f]
    PROVE  PageInv' /\ LaterEverywhere
<1>1. FetchInv(k) /\ EntryInv(k) BY DEF PageInv
<1>2. /\ entries'[k].has = entries[k].has /\ entries'[k].of = entries[k].of
      /\ entries'[k].read = entries[k].read
  OBVIOUS
<1>3. /\ query' = query /\ Enabled(k)' = Enabled(k)
      /\ \A i : Value(query.reads[i], k)' = Value(query.reads[i], k)
  BY TablesStay DEF OnlyKey
<1>4. NoFetch.of = Away BY DEF NoFetch
<1>5. FetchInv(k)' BY <1>1, <1>3, <1>4 DEF FetchInv, Fetching
<1>6. EntryInv(k)' BY <1>1, <1>2, <1>3, <1>4 DEF EntryInv, Fetching
<1>7. Later(k) BY <1>2, SameEntry
<1>. QED BY <1>5, <1>6, <1>7, OneKeyKeeps

LEMMA GiveUpKeeps ==
    ASSUME PageInv, NEW k \in Keys, GiveUp(k), UNCHANGED <<chain, tables, query, param>>
    PROVE  PageInv' /\ LaterEverywhere
<1>1. DOMAIN entries[k] = DOMAIN Empty BY DEF PageInv, EntryInv
<1>2. k \in DOMAIN entries /\ k \in DOMAIN fetches BY DEF PageInv
<1>3. OnlyKey(k) /\ fetches'[k] = NoFetch BY <1>2 DEF OnlyKey, GiveUp, PageInv
<1>4. entries'[k] = [entries[k] EXCEPT !.failed = TRUE, !.fresh = FALSE] BY <1>2 DEF GiveUp
<1>5. {"has", "of", "read"} \subseteq DOMAIN entries[k] BY <1>1 DEF Empty
<1>6. DOMAIN entries'[k] = DOMAIN entries[k] BY <1>4
<1>7. \A f \in {"has", "of", "read"} : entries'[k][f] = entries[k][f] BY <1>4, <1>5
<1>. QED BY <1>3, <1>6, <1>7, EndKeeps

LEMMA ExpireKeeps ==
    ASSUME PageInv, NEW k \in Keys, Expire(k)
    PROVE  PageInv' /\ LaterEverywhere
<1>1. DOMAIN entries[k] = DOMAIN Empty BY DEF PageInv, EntryInv
<1>2. k \in DOMAIN entries BY DEF PageInv
<1>3. OnlyKey(k) /\ fetches'[k] = fetches[k] BY <1>2 DEF OnlyKey, Expire, PageInv
<1>4. entries'[k] = [entries[k] EXCEPT !.fresh = FALSE] BY <1>2 DEF Expire
<1>5. {"has", "of", "read"} \subseteq DOMAIN entries[k] BY <1>1 DEF Empty
<1>6. DOMAIN entries'[k] = DOMAIN entries[k] BY <1>4
<1>7. \A f \in {"has", "of", "read"} : entries'[k][f] = entries[k][f] BY <1>4, <1>5
<1>. QED BY <1>3, <1>6, <1>7, EndKeeps

LEMMA ForgetKeeps ==
    ASSUME PageInv, NEW k \in Keys, Forget(k)
    PROVE  PageInv' /\ LaterEverywhere
<1>1. k \in DOMAIN entries BY DEF PageInv
<1>2. OnlyKey(k) /\ fetches'[k] = fetches[k] /\ entries'[k] = Empty BY <1>1 DEF OnlyKey, Forget, PageInv
<1>3. Empty.has = FALSE BY DEF Empty
<1>4. /\ query' = query /\ Enabled(k)' = Enabled(k)
      /\ \A i : Value(query.reads[i], k)' = Value(query.reads[i], k)
  BY <1>2, TablesStay DEF OnlyKey
<1>5. FetchInv(k) BY DEF PageInv
<1>6. FetchInv(k)' BY <1>2, <1>4, <1>5 DEF FetchInv, Fetching
<1>7. EntryInv(k)' /\ Later(k) BY <1>2, <1>3 DEF EntryInv, Later
<1>. QED BY <1>2, <1>6, <1>7, OneKeyKeeps

\* A statement reads the tables as they are now.
LEMMA ReadKeeps ==
    ASSUME PageInv, NEW k \in Keys, Fetching(k), NEW i \in DOMAIN query.reads, NEW n \in Nat,
           UNCHANGED <<chain, tables, query, param, entries>>,
           fetches' = [fetches EXCEPT ![k].got[i] = n],
           ~query.items => n = Value(query.reads[i], k)
    PROVE  PageInv' /\ LaterEverywhere
<1>1. FetchInv(k) /\ EntryInv(k) /\ k \in DOMAIN fetches BY DEF PageInv
<1>2. fetches'[k] = [fetches[k] EXCEPT !.got[i] = n] BY <1>1
<1>3. {"of", "tries", "got"} = DOMAIN fetches[k] BY <1>1 DEF FetchInv, NoFetch
<1>4. /\ DOMAIN fetches'[k] = DOMAIN fetches[k] /\ fetches'[k].of = fetches[k].of
      /\ fetches'[k].got = [fetches[k].got EXCEPT ![i] = n]
  BY <1>2, <1>3
<1>5. OnlyKey(k) BY <1>1 DEF OnlyKey, PageInv
<1>6. /\ query' = query /\ Enabled(k)' = Enabled(k) /\ entries' = entries
      /\ \A j : Value(query.reads[j], k)' = Value(query.reads[j], k)
  BY TablesStay
<1>7. DOMAIN fetches[k].got = DOMAIN query.reads /\ Enabled(k) BY <1>1 DEF FetchInv
<1>8. /\ fetches'[k].got[i] = n
      /\ \A j \in DOMAIN query.reads \ {i} : fetches'[k].got[j] = fetches[k].got[j]
      /\ DOMAIN fetches'[k].got = DOMAIN query.reads
  BY <1>4, <1>7
<1>9. Value(query.reads[i], k) \in Nat BY <1>7, ValueIsNat DEF PageInv
<1>10. FetchInv(k)'
  <2>1. \A j \in DOMAIN query.reads :
           \/ fetches'[k].got[j] = None
           \/ fetches'[k].got[j] \in Nat /\ (~query.items => fetches'[k].got[j] <= Value(query.reads[j], k))
    BY <1>1, <1>8, <1>9 DEF FetchInv
  <2>. QED BY <1>1, <1>4, <1>6, <1>8, <2>1 DEF FetchInv, Fetching
<1>11. EntryInv(k)'
  <2>1. ASSUME entries[k].has, ~query.items, NEW j \in DOMAIN query.reads, fetches'[k].got[j] # None
        PROVE  entries[k].read[j] <= fetches'[k].got[j]
    BY <1>1, <1>8, <2>1 DEF EntryInv
  <2>. QED BY <1>1, <1>6, <2>1 DEF EntryInv, Fetching
<1>12. Later(k) BY <1>6, SameEntry
<1>. QED BY <1>5, <1>10, <1>11, <1>12, OneKeyKeeps

LEMMA ArriveKeeps ==
    ASSUME PageInv, NEW k \in Keys, Arrive(k)
    PROVE  PageInv' /\ LaterEverywhere
<1>1. FetchInv(k) /\ EntryInv(k) /\ k \in DOMAIN fetches /\ k \in DOMAIN entries BY DEF PageInv
<1>2. /\ fetches[k].of = k /\ Enabled(k) /\ DOMAIN fetches[k].got = DOMAIN query.reads
      /\ \A i \in DOMAIN query.reads : fetches[k].got[i] # None
  BY <1>1 DEF Arrive, FetchInv
<1>3. OnlyKey(k) /\ fetches'[k] = NoFetch BY <1>1 DEF OnlyKey, Arrive, PageInv
<1>4. entries'[k] = [has |-> TRUE, of |-> k, read |-> fetches[k].got, failed |-> FALSE, fresh |-> TRUE]
  BY <1>1, <1>2 DEF Arrive
<1>5. /\ query' = query /\ Enabled(k)' = Enabled(k)
      /\ \A i : Value(query.reads[i], k)' = Value(query.reads[i], k)
  BY <1>3, TablesStay DEF OnlyKey
<1>6. FetchInv(k)' BY <1>3 DEF FetchInv, Fetching, NoFetch
<1>7. ~Fetching(k)' BY <1>3 DEF Fetching, NoFetch
<1>8. /\ DOMAIN entries'[k] = DOMAIN Empty /\ entries'[k].has /\ entries'[k].of = k
      /\ entries'[k].read = fetches[k].got
  BY <1>4 DEF Empty
<1>9. EntryInv(k)' BY <1>1, <1>2, <1>5, <1>7, <1>8 DEF EntryInv, FetchInv, Arrive
<1>10. Later(k) BY <1>1, <1>2, <1>8 DEF Later, EntryInv, Arrive
<1>. QED BY <1>3, <1>6, <1>9, <1>10, OneKeyKeeps

LEMMA FailKeeps ==
    ASSUME PageInv, NEW k \in Keys, Fail(k)
    PROVE  PageInv' /\ LaterEverywhere
<1>1. FetchInv(k) /\ EntryInv(k) /\ k \in DOMAIN fetches /\ Fetching(k) BY DEF PageInv, Fail
<1>2. CASE fetches[k].tries < Tries
  <2>1. /\ fetches' = [fetches EXCEPT ![k].tries = @ + 1, ![k].got = NoneRead] /\ entries' = entries
        /\ UNCHANGED <<chain, tables, query, param>>
    BY <1>2 DEF Fail
  <2>2. fetches'[k] = [fetches[k] EXCEPT !.tries = @ + 1, !.got = NoneRead] BY <1>1, <2>1
  <2>3. {"of", "tries", "got"} = DOMAIN fetches[k] BY <1>1 DEF FetchInv, NoFetch
  <2>4. DOMAIN fetches'[k] = DOMAIN fetches[k] /\ fetches'[k].of = fetches[k].of /\ fetches'[k].got = NoneRead
    BY <2>2, <2>3
  <2>5. DOMAIN NoneRead = DOMAIN query.reads /\ \A i \in DOMAIN query.reads : NoneRead[i] = None
    BY DEF NoneRead
  <2>6. /\ query' = query /\ Enabled(k)' = Enabled(k)
        /\ \A i : Value(query.reads[i], k)' = Value(query.reads[i], k)
    BY <2>1, TablesStay
  <2>7. OnlyKey(k) BY <1>1, <2>1 DEF OnlyKey, PageInv
  <2>8. FetchInv(k)' BY <1>1, <2>4, <2>5, <2>6 DEF FetchInv, Fetching
  <2>9. EntryInv(k)' BY <1>1, <2>1, <2>4, <2>5, <2>6 DEF EntryInv, Fetching
  <2>. QED BY <2>1, <2>7, <2>8, <2>9, SameEntry, OneKeyKeeps
<1>3. CASE ~(fetches[k].tries < Tries)
  <2>1. GiveUp(k) /\ UNCHANGED <<chain, tables, query, param>> BY <1>3 DEF Fail
  <2>. QED BY <2>1, GiveUpKeeps
<1>. QED BY <1>2, <1>3

LEMMA PageInvStep ==
    ASSUME PageInv, [PageNext]_pageVars
    PROVE  PageInv' /\ LaterEverywhere
<1>1. CASE Fill /\ UNCHANGED <<query, param, entries, fetches, faults, visits>> BY <1>1, FillKeeps
<1>2. CASE \E p \in Params : Visit(p) BY <1>2, VisitKeeps
<1>3. CASE LeavePage BY <1>3, MoveKeeps DEF LeavePage
<1>4. CASE Poll \/ Refetch BY <1>4, AskKeeps DEF Poll, Refetch
<1>5. ASSUME NEW k \in Keys, Serve(k) \/ Expire(k) \/ Forget(k) \/ Fail(k) \/ (\E i \in 1..2 : FailItem(k, i))
      PROVE  PageInv' /\ LaterEverywhere
  <2>1. FetchInv(k) BY DEF PageInv
  <2>2. ASSUME NEW i \in 1..2, Statement(k, i) PROVE PageInv' /\ LaterEverywhere
    <3>1. Fetching(k) /\ fetches[k].of = k /\ i \in DOMAIN query.reads /\ Enabled(k)
      BY <2>1, <2>2 DEF Statement, FetchInv
    <3>2. Value(query.reads[i], k) \in Nat BY <3>1, ValueIsNat DEF PageInv
    <3>3. /\ UNCHANGED <<chain, tables, query, param, entries>>
          /\ fetches' = [fetches EXCEPT ![k].got[i] = Value(query.reads[i], k)]
      BY <2>2, <3>1 DEF Statement
    <3>. QED BY <3>1, <3>2, <3>3, ReadKeeps
  <2>3. ASSUME NEW i \in 1..2, FailItem(k, i) PROVE PageInv' /\ LaterEverywhere
    <3>1. Fetching(k) /\ query.items /\ i \in DOMAIN query.reads BY <2>1, <2>3 DEF FailItem, FetchInv
    <3>2. UNCHANGED <<chain, tables, query, param, entries>> /\ fetches' = [fetches EXCEPT ![k].got[i] = 0]
      BY <2>3 DEF FailItem
    <3>. QED BY <3>1, <3>2, ReadKeeps
  <2>4. CASE NotFound(k) BY <2>4, GiveUpKeeps DEF NotFound
  <2>. QED BY <1>5, <2>2, <2>3, <2>4, ArriveKeeps, ExpireKeeps, ForgetKeeps, FailKeeps DEF Serve
<1>6. CASE UNCHANGED pageVars BY <1>6, MoveKeeps DEF pageVars, PageInv
<1>. QED BY <1>1, <1>2, <1>3, <1>4, <1>5, <1>6 DEF PageNext

LEMMA PageInvInit == PageInit => PageInv
<1>. SUFFICES ASSUME PageInit PROVE PageInv OBVIOUS
<1>1. chain \in Histories BY FigureBounds DEF PageInit
<1>2. stored \in Nat BY PageBounds, FigureBounds DEF PageInit
<1>3. mined \in Nat /\ published \in [Epochs -> Nat] BY DEF PageInit
<1>4. \A k \in Keys : entries[k] = Empty /\ fetches[k] = NoFetch BY DEF PageInit
<1>5. NoFetch.of = Away /\ ~Empty.has BY DEF NoFetch, Empty
<1>6. \A k \in Keys : FetchInv(k) /\ EntryInv(k) BY <1>4, <1>5 DEF FetchInv, EntryInv, Fetching
<1>. QED BY <1>1, <1>2, <1>3, <1>6 DEF PageInit, PageInv, TablesTyped

LEMMA PageInvHolds == PageSpec => []PageInv
<1>1. PageInv /\ [PageNext]_pageVars => PageInv' BY PageInvStep
<1>. QED BY <1>1, PageInvInit, PTL DEF PageSpec

\* A page shows what was asked with the parameter it has now, and nothing older
\* than it showed before, for every query of queries.ts, any number of epochs,
\* retries, faults and visits.
THEOREM ShownIsAskedHolds == PageSpec => ShownIsAsked
<1>1. PageInv /\ [PageNext]_pageVars =>
        [/\ Shown' => entries'[Key(param')].of = param'
         /\ Shown /\ Shown' /\ param' = param /\ ~query.items =>
              \A i \in DOMAIN query.reads :
                  entries[Key(param)].read[i] <= entries'[Key(param)].read[i]]_pageVars
  <2>. SUFFICES ASSUME PageInv, [PageNext]_pageVars
                PROVE  /\ Shown' => entries'[Key(param')].of = param'
                       /\ Shown /\ Shown' /\ param' = param /\ ~query.items =>
                            \A i \in DOMAIN query.reads :
                                entries[Key(param)].read[i] <= entries'[Key(param)].read[i]
    OBVIOUS
  <2>1. PageInv' /\ LaterEverywhere BY PageInvStep
  <2>2. ASSUME Shown' PROVE param' \in Keys /\ entries'[param'].has
    BY <2>1, <2>2, ParamFacts DEF Shown, Key, PageInv
  <2>3. ASSUME Shown' PROVE entries'[Key(param')].of = param'
    BY <2>1, <2>2, <2>3 DEF PageInv, EntryInv, Key
  <2>4. ASSUME Shown, Shown', param' = param, ~query.items
        PROVE  Later(param) /\ entries[param].has /\ entries'[param].has
    BY <2>1, <2>2, <2>4 DEF LaterEverywhere, Shown, Key
  <2>. QED BY <2>3, <2>4 DEF Later, Key
<1>. QED BY <1>1, PageInvHolds, PTL DEF PageSpec, ShownIsAsked

(***************************************************************************)
(* What the page says of a claim.                                          *)
(***************************************************************************)
\* With all of an epoch's lines read, the four checks of verifyFeedEpoch are
\* what a true claim is.
LEMMA ChecksAreTrue ==
    ASSUME chain \in Histories, NEW e \in Epochs, NEW upTo \in Nat, upTo >= chain.final[e]
    PROVE  VerifyFeedEpoch(2, chain.claim[e], EpochPayoutFacts(e, upTo))
             = IF True(e) THEN "verified" ELSE "mismatch"
<1> DEFINE lines == {l \in chain.lines : l.epoch = e}
           paid == {l.to : l \in lines}
           claim == chain.claim[e]
           facts == EpochPayoutFacts(e, upTo)
<1>1. /\ IsFiniteSet(chain.lines) /\ chain.final[e] \in Nat
      /\ claim.excluded \in Nat /\ claim.ineligible \in Nat
  BY FigureBounds
<1>2. \A l \in lines : l.at \in (chain.close[e] + 1)..chain.final[e] BY FigureBounds
<1>3. \A l \in lines : l.at <= upTo
  <2>1. chain.close[e] \in Nat BY FigureBounds
  <2>. QED BY <1>1, <1>2, <2>1
<1>4. {l \in chain.lines : l.epoch = e /\ l.at <= upTo} = lines BY <1>3
<1>5. facts.amounts = {l.amount : l \in lines} /\ facts.recipients = Cardinality(paid)
  BY <1>4 DEF EpochPayoutFacts, Recipients
<1>6. Cardinality(paid) \in Nat
  <2>1. IsFiniteSet(lines) BY <1>1, FS_Subset
  <2>2. [l \in lines |-> l.to] \in Surjection(lines, paid) BY DEF Surjection
  <2>3. IsFiniteSet(paid) BY <2>1, <2>2, FS_Surjection
  <2>. QED BY <2>3, FS_CardinalityType
<1>7. ShareEqualsPayouts(claim, facts)
        <=> IF lines = {} THEN claim.share \in {None, 0} ELSE \A l \in lines : l.amount = claim.share
  BY <1>5 DEF ShareEqualsPayouts
<1>. HIDE DEF lines, paid, claim, facts
<1>8. claim.admitted = facts.recipients =>
        /\ EligibleReconciles(claim) <=> claim.eligible = claim.admitted + claim.excluded
        /\ EligibleReconciles(claim) =>
             (EnrolledReconciles(claim) <=> claim.enrolled = claim.eligible + claim.ineligible)
  BY <1>1, <1>5, <1>6 DEF EligibleReconciles, EnrolledReconciles, None
<1>9. True(e) <=> /\ claim.admitted = Cardinality(paid)
                  /\ IF lines = {} THEN claim.share \in {None, 0} ELSE \A l \in lines : l.amount = claim.share
                  /\ claim.eligible = claim.admitted + claim.excluded
                  /\ claim.enrolled = claim.eligible + claim.ineligible
  BY DEF True, lines, paid, claim
<1>10. True(e) <=> /\ ShareEqualsPayouts(claim, facts) /\ claim.admitted = facts.recipients
                   /\ EnrolledReconciles(claim) /\ EligibleReconciles(claim)
  BY <1>5, <1>7, <1>8, <1>9
<1>. QED BY <1>10 DEF VerifyFeedEpoch, claim, facts

\* Once the mining rows of an epoch are read to its finalization, a reconciled
\* claim is struck through exactly if it is false (verifyFeedEpoch,
\* epochPayoutFacts), for any chain, claims and order of requests.
THEOREM JudgedRightHolds == PageSpec => []JudgedRightOnceIndexed
<1>1. PageInv => JudgedRightOnceIndexed
  <2>. SUFFICES ASSUME PageInv, NEW k \in Keys, query = UseFeedEpoch, entries[k].has,
                       entries[k].read[1] = 2, entries[k].read[2] >= chain.final[entries[k].of]
                PROVE  ShownVerdict(entries[k])
                         = IF True(entries[k].of) THEN "verified" ELSE "mismatch"
    BY DEF JudgedRightOnceIndexed
  <2>1. EntryInv(k) /\ chain \in Histories BY DEF PageInv, TablesTyped
  <2>2. UseFeedEpoch.needs = "one" /\ UseFeedEpoch.reads = <<"sample", "facts">> BY DEF UseFeedEpoch, QueryOf
  <2>3. k \in Epochs /\ entries[k].of = k BY <2>1, <2>2, ParamFacts DEF EntryInv, Enabled, Params
  <2>4. 2 \in DOMAIN query.reads BY <2>2
  <2>5. entries[k].read[2] \in Nat BY <2>1, <2>4 DEF EntryInv
  <2>. QED BY <2>1, <2>3, <2>5, ChecksAreTrue DEF ShownVerdict
<1>. QED BY <1>1, PageInvHolds, PTL

(***************************************************************************)
(* Sums over finite sets.  Induction is over a set that is shown to hold   *)
(* all natural numbers, or all subsets of a finite set.                    *)
(***************************************************************************)
LEMMA CountingUp ==
    ASSUME NEW Good, 0 \in Good, \A n \in Nat : n \in Good => n + 1 \in Good
    PROVE  Nat \subseteq Good
<1> DEFINE Bad == Nat \ Good
<1>1. IsWellFoundedOn({p \in Nat \X Nat : p[1] < p[2]}, Nat)
  BY NatLessThanWellFounded DEF OpToRel
<1>2. SUFFICES ASSUME Bad # {} PROVE FALSE OBVIOUS
<1>3. PICK m \in Bad : \A k \in Bad : <<k, m>> \notin {p \in Nat \X Nat : p[1] < p[2]}
  BY <1>1, <1>2, WFMin
<1>4. m \in Nat /\ m - 1 \in Nat BY <1>3
<1>5. m - 1 \in Good
  <2>1. m - 1 < m BY <1>4
  <2>. QED BY <1>3, <1>4, <2>1
<1>6. m - 1 + 1 = m BY <1>4
<1>. QED BY <1>3, <1>4, <1>5, <1>6

\* Induction over the subsets of a finite set.
LEMMA TakingAway ==
    ASSUME NEW S, IsFiniteSet(S), NEW Good, {} \in Good,
           \A T \in SUBSET S : T # {} /\ (\A x \in T : T \ {x} \in Good) => T \in Good
    PROVE  SUBSET S \subseteq Good
<1> DEFINE Bad == (SUBSET S) \ Good
<1>1. IsWellFoundedOn(StrictSubsetOrdering(S), FiniteSubsetsOf(S))
  BY FS_StrictSubsetOrderingWellFounded
<1>2. FiniteSubsetsOf(S) = SUBSET S BY FS_FiniteSubsetsOfFinite
<1>3. SUFFICES ASSUME Bad # {} PROVE FALSE OBVIOUS
<1>4. PICK T \in Bad : \A U \in Bad : <<U, T>> \notin StrictSubsetOrdering(S)
  <2>1. Bad \subseteq FiniteSubsetsOf(S) BY <1>2
  <2>. HIDE DEF Bad
  <2>. QED BY <1>1, <1>3, <2>1, WFMin
<1>5. T # {} BY <1>4
<1>6. ASSUME NEW x \in T PROVE T \ {x} \in Good
  <2>1. <<T \ {x}, T>> \in StrictSubsetOrdering(S) BY <1>4, <1>6 DEF StrictSubsetOrdering
  <2>. QED BY <1>4, <2>1
<1>. QED BY <1>4, <1>5, <1>6

\* The recursion of SumFunctionOnSet is well defined.
Adds(f, S, it) ==
    it = [T \in SUBSET S |-> IF T = {} THEN 0
                             ELSE f[CHOOSE x \in T : TRUE] + it[T \ {CHOOSE x \in T : TRUE}]]

LEMMA SumExists ==
    ASSUME NEW f, NEW S, IsFiniteSet(S)
    PROVE  \E it : Adds(f, S, it)
<1> DEFINE Small(n) == {T \in SUBSET S : Cardinality(T) <= n}
           One(T) == CHOOSE x \in T : TRUE
           Body(it, T) == IF T = {} THEN 0 ELSE f[One(T)] + it[T \ {One(T)}]
           Good == {n \in Nat : \E it : it = [T \in Small(n) |-> Body(it, T)]}
<1>1. \A T \in SUBSET S : Cardinality(T) \in Nat /\ (Cardinality(T) = 0 <=> T = {})
  BY FS_Subset, FS_CardinalityType, FS_EmptySet
<1>2. \A T \in SUBSET S : T # {} =>
        One(T) \in T /\ Cardinality(T \ {One(T)}) = Cardinality(T) - 1
  BY FS_Subset, FS_RemoveElement
<1>. HIDE DEF One
<1>3. 0 \in Good
  <2> DEFINE it == [T \in Small(0) |-> 0]
  <2>1. \A T \in Small(0) : T = {} BY <1>1
  <2>2. it = [T \in Small(0) |-> Body(it, T)] BY <2>1
  <2>. QED BY <2>2
<1>4. ASSUME NEW n \in Nat, n \in Good PROVE n + 1 \in Good
  <2>1. PICK it : it = [T \in Small(n) |-> Body(it, T)] BY <1>4
  <2> DEFINE next == [T \in Small(n + 1) |-> Body(it, T)]
  <2>2. ASSUME NEW T \in Small(n + 1), T # {} PROVE next[T \ {One(T)}] = it[T \ {One(T)}]
    <3> DEFINE U == T \ {One(T)}
    <3>1. U \in Small(n) /\ U \in Small(n + 1) BY <1>1, <1>2, <2>2
    <3>. HIDE DEF U
    <3>2. it[U] = Body(it, U) BY <2>1, <3>1
    <3>3. next[U] = Body(it, U) BY <3>1
    <3>. QED BY <3>2, <3>3 DEF U
  <2>. HIDE DEF next
  <2>3. \A T \in Small(n + 1) : Body(next, T) = Body(it, T) BY <2>2
  <2>4. next = [T \in Small(n + 1) |-> Body(next, T)]
    <3>1. next = [T \in Small(n + 1) |-> Body(it, T)] BY DEF next
    <3>. HIDE DEF Body
    <3>. QED BY <2>3, <3>1
  <2>5. \E x : x = [T \in Small(n + 1) |-> Body(x, T)] BY <2>4
  <2>. HIDE DEF Small, Body
  <2>. QED BY <2>5
<1>5. Cardinality(S) \in Good
  <2>. HIDE DEF Good
  <2>. QED BY <1>1, <1>3, <1>4, CountingUp
<1>6. Small(Cardinality(S)) = SUBSET S BY FS_Subset
<1>. QED BY <1>5, <1>6 DEF Adds, One

LEMMA SumIs ==
    ASSUME NEW f, NEW S, IsFiniteSet(S)
    PROVE  \E it : Adds(f, S, it) /\ SumFunctionOnSet(f, S) = it[S]
<1>1. SumFunctionOnSet(f, S) = (CHOOSE it : Adds(f, S, it))[S]
  BY DEF SumFunctionOnSet, FoldFunctionOnSet, MapThenFoldSet, Adds
<1>. QED BY <1>1, SumExists

\* Two sums over the same numbers, one of them within a larger set, agree.
LEMMA SumsAgree ==
    ASSUME NEW S, IsFiniteSet(S), NEW T \in SUBSET S, NEW f, NEW g, \A x \in T : f[x] = g[x],
           NEW it, Adds(f, S, it), NEW jt, Adds(g, T, jt)
    PROVE  \A U \in SUBSET T : it[U] = jt[U]
<1> DEFINE One(U) == CHOOSE x \in U : TRUE
           Good == {U \in SUBSET T : it[U] = jt[U]}
<1>1. IsFiniteSet(T) BY FS_Subset
<1>2. \A U \in SUBSET T : U # {} => One(U) \in U OBVIOUS
<1>3. \A U \in SUBSET T : /\ it[U] = IF U = {} THEN 0 ELSE f[One(U)] + it[U \ {One(U)}]
                          /\ jt[U] = IF U = {} THEN 0 ELSE g[One(U)] + jt[U \ {One(U)}]
  BY DEF Adds
<1>. HIDE DEF One
<1>4. {} \in Good BY <1>3
<1>5. ASSUME NEW U \in SUBSET T, U # {}, \A x \in U : U \ {x} \in Good PROVE U \in Good
  <2>1. U \ {One(U)} \in Good BY <1>2, <1>5
  <2>2. f[One(U)] = g[One(U)] BY <1>2, <1>5
  <2>. QED BY <1>3, <1>5, <2>1, <2>2
<1>6. SUBSET T \subseteq Good
  <2>. HIDE DEF Good
  <2>. QED BY <1>1, <1>4, <1>5, TakingAway
<1>. QED BY <1>6

LEMMA SumEqual ==
    ASSUME NEW S, IsFiniteSet(S), NEW f, NEW g, \A x \in S : f[x] = g[x]
    PROVE  SumFunctionOnSet(f, S) = SumFunctionOnSet(g, S)
<1>1. PICK it : Adds(f, S, it) /\ SumFunctionOnSet(f, S) = it[S] BY SumIs
<1>2. PICK jt : Adds(g, S, jt) /\ SumFunctionOnSet(g, S) = jt[S] BY SumIs
<1>3. S \in SUBSET S OBVIOUS
<1>4. \A U \in SUBSET S : it[U] = jt[U] BY <1>1, <1>2, <1>3, SumsAgree
<1>. QED BY <1>1, <1>2, <1>3, <1>4

LEMMA SumStep ==
    ASSUME NEW S, IsFiniteSet(S), NEW f
    PROVE  /\ S = {} => SumFunctionOnSet(f, S) = 0
           /\ S # {} => \E x \in S : SumFunctionOnSet(f, S) = f[x] + SumFunctionOnSet(f, S \ {x})
<1>1. PICK it : Adds(f, S, it) /\ SumFunctionOnSet(f, S) = it[S] BY SumIs
<1>2. CASE S = {} BY <1>1, <1>2 DEF Adds
<1>3. CASE S # {}
  <2> DEFINE one == CHOOSE x \in S : TRUE
  <2>1. one \in S BY <1>3
  <2>2. it[S] = f[one] + it[S \ {one}] BY <1>1, <1>3 DEF Adds
  <2>. HIDE DEF one
  <2>3. IsFiniteSet(S \ {one}) BY FS_Subset
  <2>4. PICK jt : Adds(f, S \ {one}, jt) /\ SumFunctionOnSet(f, S \ {one}) = jt[S \ {one}] BY <2>3, SumIs
  <2>5. it[S \ {one}] = jt[S \ {one}] BY <1>1, <2>4, SumsAgree
  <2>. QED BY <1>1, <1>3, <2>1, <2>2, <2>4, <2>5
<1>. QED BY <1>2, <1>3

LEMMA SumIsNat ==
    ASSUME NEW S, IsFiniteSet(S), NEW f, \A x \in S : f[x] \in Nat
    PROVE  SumFunctionOnSet(f, S) \in Nat
<1> DEFINE Good == {T \in SUBSET S : SumFunctionOnSet(f, T) \in Nat}
<1>1. \A T \in SUBSET S : IsFiniteSet(T) BY FS_Subset
<1>2. {} \in Good
  <2>1. IsFiniteSet({}) BY FS_EmptySet
  <2>2. SumFunctionOnSet(f, {}) = 0 BY <2>1, SumStep
  <2>. QED BY <2>2
<1>3. ASSUME NEW T \in SUBSET S, T # {}, \A x \in T : T \ {x} \in Good PROVE T \in Good
  <2>1. PICK x \in T : SumFunctionOnSet(f, T) = f[x] + SumFunctionOnSet(f, T \ {x}) BY <1>1, <1>3, SumStep
  <2>2. f[x] \in Nat /\ SumFunctionOnSet(f, T \ {x}) \in Nat BY <1>3
  <2>. QED BY <2>1, <2>2
<1>4. SUBSET S \subseteq Good
  <2>. HIDE DEF Good
  <2>. QED BY <1>2, <1>3, TakingAway
<1>. QED BY <1>4

\* The order in which numbers are added does not matter.
LEMMA SumTake ==
    ASSUME NEW S, IsFiniteSet(S), NEW f, \A x \in S : f[x] \in Nat, NEW a \in S
    PROVE  SumFunctionOnSet(f, S) = f[a] + SumFunctionOnSet(f, S \ {a})
<1> DEFINE Sf(T) == SumFunctionOnSet(f, T)
           Good == {T \in SUBSET S : \A x \in T : Sf(T) = f[x] + Sf(T \ {x})}
<1>1. \A T \in SUBSET S : IsFiniteSet(T) /\ Sf(T) \in Nat BY FS_Subset, SumIsNat
<1>2. {} \in Good OBVIOUS
<1>3. ASSUME NEW T \in SUBSET S, T # {}, \A x \in T : T \ {x} \in Good PROVE T \in Good
  <2>1. PICK c \in T : Sf(T) = f[c] + Sf(T \ {c}) BY <1>1, <1>3, SumStep
  <2>. SUFFICES ASSUME NEW x \in T, x # c PROVE Sf(T) = f[x] + Sf(T \ {x}) BY <2>1
  <2> DEFINE U == T \ {c, x}
  <2>2. T \ {c} \in Good /\ x \in T \ {c} /\ (T \ {c}) \ {x} = U BY <1>3
  <2>3. T \ {x} \in Good /\ c \in T \ {x} /\ (T \ {x}) \ {c} = U BY <1>3
  <2>4. U \in SUBSET S OBVIOUS
  <2>5. Sf(U) \in Nat BY <1>1, <2>4
  <2>6. f[c] \in Nat /\ f[x] \in Nat OBVIOUS
  <2>. HIDE DEF Sf, U
  <2>7. Sf(T \ {c}) = f[x] + Sf(U) BY <2>2
  <2>8. Sf(T \ {x}) = f[c] + Sf(U) BY <2>3
  <2>. QED BY <2>1, <2>5, <2>6, <2>7, <2>8
<1>4. SUBSET S \subseteq Good
  <2>. HIDE DEF Good
  <2>. QED BY <1>2, <1>3, TakingAway
<1>. QED BY <1>4

LEMMA SumJoin ==
    ASSUME NEW A, NEW B, IsFiniteSet(A), IsFiniteSet(B), A \intersect B = {}, NEW f,
           \A x \in A \union B : f[x] \in Nat
    PROVE  SumFunctionOnSet(f, A \union B) = SumFunctionOnSet(f, A) + SumFunctionOnSet(f, B)
<1> DEFINE Sf(T) == SumFunctionOnSet(f, T)
           Good == {T \in SUBSET A : Sf(T \union B) = Sf(T) + Sf(B)}
<1>1. \A T \in SUBSET A : IsFiniteSet(T) /\ IsFiniteSet(T \union B) BY FS_Subset, FS_Union
<1>2. \A T \in SUBSET A : Sf(T) \in Nat /\ Sf(T \union B) \in Nat BY <1>1, SumIsNat
<1>3. Sf(B) \in Nat BY SumIsNat
<1>4. {} \in Good
  <2>1. Sf({}) = 0 /\ {} \union B = B BY <1>1, SumStep
  <2>. QED BY <1>3, <2>1
<1>5. ASSUME NEW T \in SUBSET A, T # {}, \A x \in T : T \ {x} \in Good PROVE T \in Good
  <2>1. PICK x : x \in T BY <1>5
  <2>2. (T \union B) \ {x} = (T \ {x}) \union B BY <2>1
  <2>3. Sf(T) = f[x] + Sf(T \ {x}) BY <1>1, <2>1, SumTake
  <2>4. Sf(T \union B) = f[x] + Sf((T \ {x}) \union B)
    <3> DEFINE W == T \union B
    <3>1. IsFiniteSet(W) /\ x \in W /\ \A y \in W : f[y] \in Nat BY <1>1, <2>1
    <3>2. W \ {x} = (T \ {x}) \union B BY <2>2
    <3>. HIDE DEF W
    <3>3. SumFunctionOnSet(f, W) = f[x] + SumFunctionOnSet(f, W \ {x}) BY <3>1, SumTake
    <3>. QED BY <3>2, <3>3 DEF W
  <2>5. Sf((T \ {x}) \union B) = Sf(T \ {x}) + Sf(B) BY <1>5, <2>1
  <2>6. f[x] \in Nat /\ Sf(T \ {x}) \in Nat BY <1>2, <2>1
  <2>. HIDE DEF Sf
  <2>. QED BY <1>3, <2>3, <2>4, <2>5, <2>6
<1>6. SUBSET A \subseteq Good
  <2>. HIDE DEF Good
  <2>. QED BY <1>1, <1>4, <1>5, TakingAway
<1>. QED BY <1>6

\* A sum is that of the sums of its parts.
LEMMA SumParts ==
    ASSUME NEW S, IsFiniteSet(S), NEW f, \A x \in S : f[x] \in Nat,
           NEW R, IsFiniteSet(R), NEW g, \A x \in S : g[x] \in R,
           NEW part, \A y \in R : \A x : x \in part[y] <=> x \in S /\ g[x] = y,
           NEW h, \A y \in R : h[y] = SumFunctionOnSet(f, part[y])
    PROVE  SumFunctionOnSet(h, R) = SumFunctionOnSet(f, S)
<1>0. \A y \in R : part[y] = {x \in S : g[x] = y} OBVIOUS
<1> DEFINE In(Q) == {x \in S : g[x] \in Q}
           Good == {Q \in SUBSET R : SumFunctionOnSet(h, Q) = SumFunctionOnSet(f, In(Q))}
<1>1. \A Q \in SUBSET R : IsFiniteSet(Q) /\ IsFiniteSet(In(Q)) BY FS_Subset
<1>2. \A y \in R : h[y] \in Nat
  <2>. SUFFICES ASSUME NEW y \in R PROVE SumFunctionOnSet(f, part[y]) \in Nat OBVIOUS
  <2>1. part[y] \in SUBSET S BY <1>0
  <2>2. IsFiniteSet(part[y]) /\ \A x \in part[y] : f[x] \in Nat BY <2>1, FS_Subset
  <2>. QED BY <2>2, SumIsNat
<1>3. {} \in Good
  <2>1. In({}) = {} OBVIOUS
  <2>2. IsFiniteSet({}) BY FS_EmptySet
  <2>. QED BY <2>1, <2>2, SumStep
<1>4. ASSUME NEW Q \in SUBSET R, Q # {}, \A y \in Q : Q \ {y} \in Good PROVE Q \in Good
  <2>1. PICK y : y \in Q BY <1>4
  <2> DEFINE At == part[y]
  <2>0. y \in R /\ At = {x \in S : g[x] = y} BY <1>0, <2>1
  <2>2. In(Q) = In(Q \ {y}) \union At /\ In(Q \ {y}) \intersect At = {} /\ IsFiniteSet(At) /\ At \subseteq S
    <3>. HIDE DEF At
    <3>. QED BY <2>0, <2>1, FS_Subset
  <2>3. IsFiniteSet(In(Q \ {y})) /\ IsFiniteSet(Q) BY <1>1
  <2>4. SumFunctionOnSet(f, In(Q)) = SumFunctionOnSet(f, In(Q \ {y})) + SumFunctionOnSet(f, At)
    <3> DEFINE Rest == In(Q \ {y})
    <3>1. \A x \in Rest \union At : f[x] \in Nat BY <2>2
    <3>2. Rest \intersect At = {} /\ IsFiniteSet(Rest) /\ IsFiniteSet(At) /\ In(Q) = Rest \union At
      BY <2>2, <2>3
    <3>. HIDE DEF Rest, In, At
    <3>3. SumFunctionOnSet(f, Rest \union At) = SumFunctionOnSet(f, Rest) + SumFunctionOnSet(f, At)
      BY <3>1, <3>2, SumJoin
    <3>. QED BY <3>2, <3>3 DEF Rest
  <2>5. SumFunctionOnSet(h, Q) = h[y] + SumFunctionOnSet(h, Q \ {y}) BY <1>2, <2>1, <2>3, SumTake
  <2>6. SumFunctionOnSet(h, Q \ {y}) = SumFunctionOnSet(f, In(Q \ {y})) BY <1>4, <2>1
  <2>7. h[y] = SumFunctionOnSet(f, At) BY <2>1
  <2>8. SumFunctionOnSet(f, In(Q \ {y})) \in Nat /\ SumFunctionOnSet(f, At) \in Nat
    BY <2>2, <2>3, SumIsNat
  <2>. HIDE DEF In, At
  <2>. QED BY <2>4, <2>5, <2>6, <2>7, <2>8
<1>5. SUBSET R \subseteq Good
  <2>. HIDE DEF Good
  <2>. QED BY <1>3, <1>4, TakingAway
<1>6. In(R) = S OBVIOUS
<1>. QED BY <1>5, <1>6

\* A sum taken along a one-to-one renaming.
LEMMA SumAlong ==
    ASSUME NEW A, IsFiniteSet(A), NEW B, NEW f, \A b \in B : f[b] \in Nat,
           NEW to, \A a \in A : to[a] \in B, \A b \in B : \E a \in A : to[a] = b,
           \A a, b \in A : to[a] = to[b] => a = b,
           NEW h, \A a \in A : h[a] = f[to[a]]
    PROVE  SumFunctionOnSet(h, A) = SumFunctionOnSet(f, B)
<1>1. IsFiniteSet(B)
  <2> DEFINE map == [a \in A |-> to[a]]
  <2>1. map \in Surjection(A, B) BY DEF Surjection
  <2>. QED BY <2>1, FS_Surjection
<1> DEFINE part == [b \in B |-> {a \in A : to[a] = b}]
<1>2. \A b \in B : f[b] = SumFunctionOnSet(h, {a \in A : to[a] = b})
  <2>. SUFFICES ASSUME NEW b \in B PROVE f[b] = SumFunctionOnSet(h, {a \in A : to[a] = b}) OBVIOUS
  <2>1. PICK a \in A : to[a] = b OBVIOUS
  <2>2. {x \in A : to[x] = b} = {a} BY <2>1
  <2>3. IsFiniteSet({a}) /\ IsFiniteSet({}) BY FS_Singleton, FS_EmptySet
  <2>4. SumFunctionOnSet(h, {a}) = h[a] + SumFunctionOnSet(h, {a} \ {a})
    <3>1. h[a] \in Nat BY <2>1
    <3>. QED BY <2>3, <3>1, SumTake
  <2>5. {a} \ {a} = {} /\ SumFunctionOnSet(h, {}) = 0 BY <2>3, SumStep
  <2>6. h[a] = f[b] /\ f[b] \in Nat BY <2>1
  <2>7. SumFunctionOnSet(h, {a}) = f[b] + 0 BY <2>4, <2>5, <2>6
  <2>8. SumFunctionOnSet(h, {x \in A : to[x] = b}) = SumFunctionOnSet(h, {a}) BY <2>2, Zenon
  <2>. QED BY <2>6, <2>7, <2>8
<1>3. \A a \in A : h[a] \in Nat OBVIOUS
<1>4. \A b \in B : \A x : x \in part[b] <=> x \in A /\ to[x] = b OBVIOUS
<1>5. \A b \in B : f[b] = SumFunctionOnSet(h, part[b])
  <2>. SUFFICES ASSUME NEW b \in B PROVE f[b] = SumFunctionOnSet(h, part[b]) OBVIOUS
  <2>1. part[b] = {a \in A : to[a] = b} OBVIOUS
  <2>. QED BY <1>2, <2>1, Zenon
<1>. HIDE DEF part
<1>6. SumFunctionOnSet(f, B) = SumFunctionOnSet(h, A)
  <2>1. \A a \in A : to[a] \in B OBVIOUS
  <2>2. IsFiniteSet(A) OBVIOUS
  <2>. QED BY ONLY <1>1, <1>3, <1>4, <1>5, <2>1, <2>2, SumParts
<1>. QED BY <1>6

LEMMA CountIsSum ==
    ASSUME NEW S, IsFiniteSet(S), NEW f, \A x \in S : f[x] = 1
    PROVE  SumFunctionOnSet(f, S) = Cardinality(S)
<1> DEFINE Good == {T \in SUBSET S : SumFunctionOnSet(f, T) = Cardinality(T)}
<1>1. \A T \in SUBSET S : IsFiniteSet(T) BY FS_Subset
<1>2. {} \in Good BY <1>1, SumStep, FS_EmptySet
<1>3. ASSUME NEW T \in SUBSET S, T # {}, \A x \in T : T \ {x} \in Good PROVE T \in Good
  <2>1. PICK x \in T : SumFunctionOnSet(f, T) = f[x] + SumFunctionOnSet(f, T \ {x}) BY <1>1, <1>3, SumStep
  <2>2. Cardinality(T \ {x}) = Cardinality(T) - 1 /\ Cardinality(T) \in Nat
    BY <1>1, FS_RemoveElement, FS_CardinalityType
  <2>3. SumFunctionOnSet(f, T \ {x}) = Cardinality(T \ {x}) /\ f[x] = 1 BY <1>3
  <2>. QED BY <2>1, <2>2, <2>3
<1>4. SUBSET S \subseteq Good
  <2>. HIDE DEF Good
  <2>. QED BY <1>2, <1>3, TakingAway
<1>. QED BY <1>4

LEMMA SumOfPart ==
    ASSUME NEW S, IsFiniteSet(S), NEW T \in SUBSET S, NEW f, \A x \in S : f[x] \in Nat
    PROVE  SumFunctionOnSet(f, T) <= SumFunctionOnSet(f, S)
<1> DEFINE U == S \ T
<1>1. IsFiniteSet(T) /\ IsFiniteSet(U) BY FS_Subset
<1>2. T \union U = S /\ T \intersect U = {} OBVIOUS
<1>. HIDE DEF U
<1>3. SumFunctionOnSet(f, T \union U) = SumFunctionOnSet(f, T) + SumFunctionOnSet(f, U)
  BY <1>1, <1>2, SumJoin
<1>4. SumFunctionOnSet(f, T) \in Nat /\ SumFunctionOnSet(f, U) \in Nat BY <1>1, <1>2, SumIsNat
<1>5. SumFunctionOnSet(f, S) = SumFunctionOnSet(f, T) + SumFunctionOnSet(f, U) BY <1>2, <1>3
<1>. QED BY <1>4, <1>5

(***************************************************************************)
(* The figures of an operator's page, which are sums over the same rows    *)
(* cut up in different ways.                                               *)
(***************************************************************************)
FillInv ==
    /\ TablesTyped
    /\ stored \in 0..MaxHeight /\ rewarded \in 0..stored /\ sampled \in 0..stored /\ mined \in 0..stored

LEMMA FillInvHolds == PageSpec => []FillInv
<1>1. ASSUME PageInit PROVE FillInv
  <2>1. TablesTyped BY <1>1, PageInvInit DEF PageInv
  <2>2. stored \in {0, MaxHeight - Behind, MaxHeight} /\ rewarded = 0 /\ sampled = 0 /\ mined = 0
    BY <1>1 DEF PageInit
  <2>3. MaxHeight \in Nat /\ MaxHeight - Behind \in Nat /\ Behind \in Nat BY FigureBounds, PageBounds
  <2>. QED BY <2>1, <2>2, <2>3 DEF FillInv
<1>2. FillInv /\ [PageNext]_pageVars => FillInv'
  <2>. SUFFICES ASSUME FillInv, [PageNext]_pageVars PROVE FillInv' OBVIOUS
  <2>. USE DEF FillInv
  <2>1. CASE Fill
    <3>1. TablesTyped' BY <2>1, TablesGrow DEF TablesTyped
    <3>2. MaxHeight \in Nat BY FigureBounds
    <3>. QED BY <2>1, <3>1, <3>2
         DEF Fill, Ingest, ProjectRewards, SampleEntitlements, ProjectMining, SampleFeed
  <2>2. CASE UNCHANGED <<chain, tables>> BY <2>2 DEF TablesTyped, tables
  <2>3. Fill \/ UNCHANGED <<chain, tables>>
    <3>1. ASSUME NEW p \in Params, Visit(p) PROVE UNCHANGED <<chain, tables>> BY <3>1 DEF Visit
    <3>2. CASE LeavePage \/ Poll \/ Refetch BY <3>2 DEF LeavePage, Poll, Refetch, Ask
    <3>3. ASSUME NEW k \in Keys, Serve(k) \/ Expire(k) \/ Forget(k) PROVE UNCHANGED <<chain, tables>>
      BY <3>3 DEF Serve, Statement, Arrive, NotFound, Expire, Forget
    <3>4. ASSUME NEW k \in Keys, Fail(k) \/ (\E i \in 1..2 : FailItem(k, i)) PROVE UNCHANGED <<chain, tables>>
      BY <3>4 DEF Fail, FailItem
    <3>5. CASE UNCHANGED pageVars BY <3>5 DEF pageVars
    <3>. QED BY <3>1, <3>2, <3>3, <3>4, <3>5 DEF PageNext
  <2>. QED BY <2>1, <2>2, <2>3
<1>. QED BY <1>1, <1>2, PTL DEF PageSpec

LineAmount == [l \in chain.lines |-> l.amount]

LEMMA AmountIs ==
    ASSUME FillInv, NEW lines \in SUBSET chain.lines
    PROVE  Amount(lines) = SumFunctionOnSet(LineAmount, lines) /\ Amount(lines) \in Nat /\ IsFiniteSet(lines)
<1>1. /\ IsFiniteSet(chain.lines) /\ \A l \in chain.lines : l.amount \in Nat
  BY FigureBounds DEF FillInv, TablesTyped
<1>2. IsFiniteSet(lines) BY <1>1, FS_Subset
<1> DEFINE w == [l \in lines |-> l.amount]
<1>3. DOMAIN w = lines /\ \A l \in lines : w[l] = LineAmount[l] /\ LineAmount[l] \in Nat
  BY <1>1 DEF LineAmount
<1>4. Amount(lines) = SumFunctionOnSet(w, DOMAIN w) BY DEF Amount, SumFunction
<1>. HIDE DEF w
<1>5. Amount(lines) = SumFunctionOnSet(w, lines) BY <1>3, <1>4
<1>6. SumFunctionOnSet(w, lines) = SumFunctionOnSet(LineAmount, lines) BY <1>2, <1>3, SumEqual
<1>7. SumFunctionOnSet(LineAmount, lines) \in Nat BY <1>2, <1>3, SumIsNat
<1>. QED BY <1>2, <1>5, <1>6, <1>7

LEMMA FieldSum ==
    ASSUME NEW field, NEW rows, IsFiniteSet(rows), NEW w, \A r \in rows : w[r] = r[field]
    PROVE  Sum(field, rows) = SumFunctionOnSet(w, rows)
<1> DEFINE v == [r \in rows |-> r[field]]
<1>1. DOMAIN v = rows /\ \A r \in rows : v[r] = w[r] OBVIOUS
<1>2. Sum(field, rows) = SumFunctionOnSet(v, DOMAIN v) BY DEF Sum, SumFunction
<1>. HIDE DEF v
<1>3. Sum(field, rows) = SumFunctionOnSet(v, rows) BY <1>1, <1>2
<1>. QED BY <1>1, <1>3, SumEqual

\* What there is to add up.
LEMMA FigureFacts ==
    ASSUME FillInv
    PROVE  /\ IsFiniteSet(Epochs) /\ Entitled \in SUBSET Epochs /\ IsFiniteSet(Entitled)
           /\ Payouts \in SUBSET chain.lines /\ IsFiniteSet(Payouts) /\ \A l \in Payouts : l.epoch \in Epochs
           /\ \A e \in EpochRows : /\ CloseDay(e) = chain.day[chain.close[e]] /\ CloseDay(e) \in Nat \ {0}
                                   /\ chain.close[e] \in Heights
           /\ \A e \in Epochs \ EpochRows : CloseDay(e) = NoDay
           /\ \A e \in Entitled : chain.close[e] \in Heights
<1>1. Last \in Nat /\ MaxHeight \in Nat /\ chain \in Histories
  BY FigureBounds DEF FillInv, TablesTyped
<1>2. IsFiniteSet(Epochs) BY <1>1, FS_Interval DEF Epochs
<1>3. Entitled \in SUBSET Epochs /\ IsFiniteSet(Entitled) BY <1>2, FS_Subset DEF Entitled
<1>4. Payouts \in SUBSET chain.lines BY DEF Payouts
<1>5. \A l \in Payouts : l.epoch \in Epochs BY <1>1, <1>4, FigureBounds
<1>6. \A e \in Epochs : chain.close[e] \in Nat \ {0} BY <1>1, FigureBounds
<1>7. ASSUME NEW e \in Epochs, chain.close[e] <= rewarded \/ chain.close[e] <= sampled
      PROVE  chain.close[e] \in Heights
  BY <1>1, <1>6, <1>7 DEF FillInv, Heights
<1>8. ASSUME NEW e \in EpochRows
      PROVE  /\ CloseDay(e) = chain.day[chain.close[e]] /\ CloseDay(e) \in Nat \ {0}
             /\ chain.close[e] \in Heights
  <2>1. e \in Epochs /\ chain.close[e] \in Heights BY <1>7 DEF EpochRows
  <2>. QED BY <1>1, <2>1, FigureBounds DEF CloseDay
<1>9. \A e \in Entitled : chain.close[e] \in Heights BY <1>7 DEF Entitled
<1>10. IsFiniteSet(Payouts) BY <1>4, AmountIs
<1>. QED BY <1>2, <1>3, <1>4, <1>5, <1>8, <1>9, <1>10 DEF CloseDay

LEMMA JoinedFacts ==
    ASSUME FillInv, NEW e \in Entitled
    PROVE  /\ Joined(e).epoch = e /\ Joined(e).day = CloseDay(e)
           /\ Joined(e).paid = SumFunctionOnSet(LineAmount, PayoutsOf(e))
           /\ PayoutsOf(e) \in SUBSET Payouts
           /\ \A field \in {"settled", "kept", "paid", "entitlement"} : Joined(e)[field] \in Nat
<1>1. e \in Epochs /\ chain \in Histories BY FigureFacts DEF FillInv, TablesTyped
<1>2. PayoutsOf(e) \in SUBSET Payouts /\ PayoutsOf(e) \in SUBSET chain.lines BY FigureFacts DEF PayoutsOf
<1>3. Amount(PayoutsOf(e)) = SumFunctionOnSet(LineAmount, PayoutsOf(e)) /\ Amount(PayoutsOf(e)) \in Nat
  BY <1>2, AmountIs
<1>4. chain.kept[e] \in Nat BY <1>1, FigureBounds
<1>5. chain.owed[e] \in Nat
  <2> DEFINE lines == {x \in chain.lines : x.epoch = e}
  <2>1. chain.owed[e] = chain.kept[e] + SumFunction([l \in lines |-> l.amount]) BY <1>1, FigureBounds
  <2>2. Amount(lines) \in Nat BY AmountIs
  <2>. HIDE DEF lines
  <2>. QED BY <1>4, <2>1, <2>2 DEF Amount
<1>6. /\ Joined(e).epoch = e /\ Joined(e).day = CloseDay(e) /\ Joined(e).entitlement = chain.owed[e]
      /\ Joined(e).settled \in {0, 1} /\ Joined(e).kept \in {0, chain.kept[e]}
      /\ Joined(e).paid = Amount(PayoutsOf(e))
  BY DEF Joined
<1>. QED BY <1>2, <1>3, <1>4, <1>5, <1>6

LEMMA OwedFacts ==
    ASSUME FillInv
    PROVE  /\ IsFiniteSet(Owed)
           /\ \A r \in Owed : r.epoch \in Entitled /\ r = Joined(r.epoch)
           /\ \A e \in Entitled : Joined(e) \in Owed /\ Joined(e).epoch = e
<1>1. \A e \in Entitled : Joined(e) \in Owed /\ Joined(e).epoch = e BY JoinedFacts DEF Owed
<1>2. \A r \in Owed : r.epoch \in Entitled /\ r = Joined(r.epoch) BY <1>1 DEF Owed
<1>3. IsFiniteSet(Owed)
  <2>1. [e \in Entitled |-> Joined(e)] \in Surjection(Entitled, Owed) BY DEF Surjection, Owed
  <2>. QED BY <2>1, FigureFacts, FS_Surjection
<1>. QED BY <1>1, <1>2, <1>3

DayRows(day) == {r \in Owed : r.day = day}

\* The days are those of the rows that have one, and each has one entry.
LEMMA HistoryFacts ==
    ASSUME FillInv
    PROVE  /\ IsFiniteSet(Days) /\ Days \subseteq Nat \ {0} /\ IsFiniteSet(History)
           /\ \A r \in Owed : r.day = NoDay \/ r.day \in Days
           /\ \A y \in Days : HistoryEntry(y) \in History /\ HistoryEntry(y).day = y
           /\ \A d \in History : /\ d.day \in Days /\ d = HistoryEntry(d.day)
                                 /\ d.row.figures = FiguresOf(DayRows(d.day))
                                 /\ d.active = Cardinality(MinersOn(d.day))
                                 /\ d.new = Cardinality(NewMinersOn(d.day))
<1>1. Days = {r.day : r \in Owed} \ {NoDay} BY DEF Days
<1>2. ASSUME NEW r \in Owed, r.day # NoDay PROVE r.day \in Nat \ {0}
  <2>1. r.epoch \in Entitled /\ r.day = CloseDay(r.epoch) BY OwedFacts, JoinedFacts
  <2>. QED BY <1>2, <2>1, FigureFacts
<1>3. Days \subseteq Nat \ {0} BY <1>1, <1>2
<1>4. IsFiniteSet(Days)
  <2> DEFINE all == {r.day : r \in Owed}
  <2>1. [r \in Owed |-> r.day] \in Surjection(Owed, all) BY DEF Surjection
  <2>2. IsFiniteSet(all) BY <2>1, OwedFacts, FS_Surjection
  <2>. QED BY <1>1, <2>2, FS_Subset
<1>5. ASSUME NEW y
      PROVE  /\ HistoryEntry(y).day = y /\ HistoryEntry(y).row.figures = FiguresOf(DayRows(y))
             /\ HistoryEntry(y).active = Cardinality(MinersOn(y))
             /\ HistoryEntry(y).new = Cardinality(NewMinersOn(y))
  BY DEF HistoryEntry, HistoryDay, DayRows
<1>6. \A d \in History : \E y \in Days : d = HistoryEntry(y) BY DEF History
<1>7. \A y \in Days : HistoryEntry(y) \in History BY DEF History
<1>8. IsFiniteSet(History)
  <2>1. [y \in Days |-> HistoryEntry(y)] \in Surjection(Days, History) BY DEF Surjection, History
  <2>. QED BY <1>4, <2>1, FS_Surjection
<1>9. \A d \in History : /\ d.day \in Days /\ d = HistoryEntry(d.day)
                         /\ d.row.figures = FiguresOf(DayRows(d.day))
                         /\ d.active = Cardinality(MinersOn(d.day))
                         /\ d.new = Cardinality(NewMinersOn(d.day))
  BY <1>5, <1>6
<1>. QED BY <1>1, <1>3, <1>4, <1>5, <1>7, <1>8, <1>9

\* A sum over some days' entries is one over the days.
LEMMA HistorySum ==
    ASSUME FillInv, NEW Q \in SUBSET Days, NEW f, \A y \in Q : f[y] \in Nat,
           NEW H, H = {d \in History : d.day \in Q}, NEW h, \A d \in H : h[d] = f[d.day]
    PROVE  SumFunctionOnSet(h, H) = SumFunctionOnSet(f, Q) /\ IsFiniteSet(H)
<1> DEFINE to == [d \in H |-> d.day]
<1>1. IsFiniteSet(H) BY HistoryFacts, FS_Subset
<1>2. \A d \in H : to[d] \in Q /\ h[d] = f[to[d]] OBVIOUS
<1>3. \A y \in Q : \E d \in H : to[d] = y
  <2>. SUFFICES ASSUME NEW y \in Q PROVE \E d \in H : to[d] = y OBVIOUS
  <2>1. HistoryEntry(y) \in H /\ HistoryEntry(y).day = y BY HistoryFacts
  <2>. QED BY <2>1
<1>4. \A c, d \in H : to[c] = to[d] => c = d BY HistoryFacts
<1>. HIDE DEF to
<1>5. SumFunctionOnSet(h, H) = SumFunctionOnSet(f, Q) BY <1>1, <1>2, <1>3, <1>4, SumAlong
<1>. QED BY <1>1, <1>5

\* What the days say is what the rows with a day say.
LEMMA DaysAddUp ==
    ASSUME FillInv, NEW w, \A r \in Owed : w[r] \in Nat,
           NEW h, \A d \in History : h[d] = SumFunctionOnSet(w, DayRows(d.day))
    PROVE  SumFunctionOnSet(h, History) = SumFunctionOnSet(w, {r \in Owed : r.day # NoDay})
<1> DEFINE S == {r \in Owed : r.day # NoDay}
           f == [y \in Days |-> SumFunctionOnSet(w, DayRows(y))]
           g == [r \in S |-> r.day]
<1>1. IsFiniteSet(S) /\ \A r \in S : w[r] \in Nat BY OwedFacts, FS_Subset
<1>2. \A y \in Days : DayRows(y) = {r \in S : g[r] = y}
  BY HistoryFacts DEF DayRows, NoDay
<1>3. \A y \in Days : f[y] \in Nat
  <2>. SUFFICES ASSUME NEW y \in Days PROVE SumFunctionOnSet(w, DayRows(y)) \in Nat OBVIOUS
  <2>1. IsFiniteSet(DayRows(y)) /\ \A r \in DayRows(y) : w[r] \in Nat BY OwedFacts, FS_Subset DEF DayRows
  <2>. QED BY <2>1, SumIsNat
<1>4. \A r \in S : g[r] \in Days BY HistoryFacts
<1> DEFINE part == [y \in Days |-> DayRows(y)]
<1>5. \A y \in Days : /\ f[y] = SumFunctionOnSet(w, part[y])
                       /\ \A x : x \in part[y] <=> x \in S /\ g[x] = y
  BY <1>2
<1>6. IsFiniteSet(Days) BY HistoryFacts
<1>7. \A d \in History : h[d] = f[d.day] BY HistoryFacts
<1>8. History = {d \in History : d.day \in Days} BY HistoryFacts
<1>. HIDE DEF S, f, g, part
<1>9. SumFunctionOnSet(f, Days) = SumFunctionOnSet(w, S)
  <2>1. \A r \in S : w[r] \in Nat BY <1>1
  <2>2. IsFiniteSet(S) BY <1>1
  <2>. QED BY <1>4, <1>5, <1>6, <2>1, <2>2, SumParts
<1>10. SumFunctionOnSet(h, History) = SumFunctionOnSet(f, Days) BY <1>3, <1>7, <1>8, HistorySum
<1>. QED BY <1>9, <1>10 DEF S

\* Totals(History), field by field, over the rows that have a day.
LEMMA TotalIs ==
    ASSUME FillInv, NEW field \in {"settled", "kept", "paid", "entitlement"}
    PROVE  /\ Total(field, History) = Sum(field, {r \in Owed : r.day # NoDay})
           /\ Total("owed", History) = Cardinality({r \in Owed : r.day # NoDay})
<1> DEFINE S == {r \in Owed : r.day # NoDay}
           w == [r \in Owed |-> r[field]]
           one == [r \in Owed |-> 1]
           v == [d \in History |-> d.row.figures[field]]
           n == [d \in History |-> d.row.figures["owed"]]
<1>1. IsFiniteSet(S) /\ IsFiniteSet(Owed) /\ \A y : IsFiniteSet(DayRows(y)) /\ DayRows(y) \subseteq Owed
  BY OwedFacts, FS_Subset DEF DayRows
<1>2. \A r \in Owed : w[r] = r[field] /\ w[r] \in Nat /\ one[r] = 1 BY OwedFacts, JoinedFacts
<1>3. ASSUME NEW d \in History
      PROVE  /\ v[d] = SumFunctionOnSet(w, DayRows(d.day))
             /\ n[d] = SumFunctionOnSet(one, DayRows(d.day))
  <2> DEFINE rows == DayRows(d.day)
  <2>1. d.row.figures = FiguresOf(rows) BY HistoryFacts
  <2>2. FiguresOf(rows)[field] = Sum(field, rows) /\ FiguresOf(rows)["owed"] = Cardinality(rows)
    BY DEF FiguresOf
  <2>3. IsFiniteSet(rows) /\ (\A r \in rows : w[r] = r[field]) /\ \A r \in rows : one[r] = 1 BY <1>1, <1>2
  <2>4. v[d] = Sum(field, rows) /\ n[d] = Cardinality(rows) BY <2>1, <2>2
  <2>. HIDE DEF rows, w, one, v, n
  <2>5. Sum(field, rows) = SumFunctionOnSet(w, rows) BY <2>3, FieldSum
  <2>6. SumFunctionOnSet(one, rows) = Cardinality(rows) BY <2>3, CountIsSum
  <2>. QED BY <2>4, <2>5, <2>6 DEF rows
<1>4. Total(field, History) = SumFunctionOnSet(v, History) /\ Total("owed", History) = SumFunctionOnSet(n, History)
  BY DEF Total, SumFunction
<1>5. \A r \in S : w[r] = r[field] /\ one[r] = 1 OBVIOUS
<1>. HIDE DEF S, w, one, v, n
<1>6. SumFunctionOnSet(v, History) = SumFunctionOnSet(w, S) BY <1>2, <1>3, DaysAddUp DEF S
<1>7. \A r \in Owed : one[r] \in Nat BY <1>2
<1>8. SumFunctionOnSet(n, History) = SumFunctionOnSet(one, S) BY <1>3, <1>7, DaysAddUp DEF S
<1>9. Sum(field, S) = SumFunctionOnSet(w, S) BY <1>1, <1>5, FieldSum
<1>10. SumFunctionOnSet(one, S) = Cardinality(S) BY <1>1, <1>5, CountIsSum
<1>. QED BY <1>4, <1>6, <1>8, <1>9, <1>10 DEF S

\* Once every owed epoch has its row, every row has a day.
LEMMA TotalsAgree ==
    ASSUME FillInv, Entitled # {}, Entitled \subseteq EpochRows
    PROVE  Totals(History) = Profile.verdict.all
<1>1. \A r \in Owed : r.day # NoDay
  <2>. SUFFICES ASSUME NEW r \in Owed PROVE r.day # NoDay OBVIOUS
  <2>1. r.epoch \in Entitled /\ r.day = CloseDay(r.epoch) BY OwedFacts, JoinedFacts
  <2>. QED BY <2>1, FigureFacts DEF NoDay
<1>2. {r \in Owed : r.day # NoDay} = Owed BY <1>1
<1>3. Owed # {} BY OwedFacts
<1>4. Profile.verdict.all = FiguresOf(Owed) BY <1>3 DEF Profile, Verdict, Verdicts
<1>5. /\ Total("settled", History) = Sum("settled", Owed) /\ Total("paid", History) = Sum("paid", Owed)
      /\ Total("kept", History) = Sum("kept", Owed) /\ Total("entitlement", History) = Sum("entitlement", Owed)
      /\ Total("owed", History) = Cardinality(Owed)
  BY <1>2, TotalIs
<1>. QED BY <1>4, <1>5 DEF Totals, FiguresOf

\* Every payment is in one row of one epoch, and of one participant.
LEMMA PaidAgrees ==
    ASSUME FillInv, {l.epoch : l \in Payouts} \subseteq Entitled \intersect EpochRows
    PROVE  Sum("total", PaidParticipants) = Total("paid", History)
<1> DEFINE All == SumFunctionOnSet(LineAmount, Payouts)
<1>0. /\ IsFiniteSet(Payouts) /\ Payouts \in SUBSET chain.lines
      /\ \A l \in Payouts : LineAmount[l] \in Nat
  <2>1. \A l \in chain.lines : l.amount \in Nat BY FigureBounds DEF FillInv, TablesTyped
  <2>. QED BY <2>1, FigureFacts DEF LineAmount
<1>1. Sum("total", PaidParticipants) = All
  <2> DEFINE R == Recipients(Payouts)
             part == [to \in R |-> {l \in Payouts : l.to = to}]
             f == [to \in R |-> SumFunctionOnSet(LineAmount, part[to])]
             g == [l \in Payouts |-> l.to]
             h == [p \in PaidParticipants |-> p.total]
             who == [p \in PaidParticipants |-> p.to]
  <2>1. IsFiniteSet(R)
    <3>1. [l \in Payouts |-> l.to] \in Surjection(Payouts, R) BY DEF Surjection, Recipients
    <3>. QED BY <1>0, <3>1, FS_Surjection
  <2>2. \A l \in Payouts : g[l] \in R BY DEF Recipients
  <2>3. \A to \in R : /\ f[to] = SumFunctionOnSet(LineAmount, part[to])
                      /\ \A l : l \in part[to] <=> l \in Payouts /\ g[l] = to
    OBVIOUS
  <2>4. ASSUME NEW to \in R
        PROVE  /\ Participant(to).to = to
               /\ Participant(to).total = f[to] /\ f[to] \in Nat
    <3> DEFINE lines == {l \in Payouts : l.to = to}
    <3>1. Participant(to).to = to /\ Participant(to).total = Amount(lines) BY DEF Participant
    <3>2. lines \in SUBSET chain.lines BY <1>0
    <3>3. part[to] = lines OBVIOUS
    <3>4. f[to] = SumFunctionOnSet(LineAmount, part[to]) BY <2>3
    <3>. HIDE DEF lines, f, part
    <3>5. f[to] = SumFunctionOnSet(LineAmount, lines) BY <3>3, <3>4, Zenon
    <3>. QED BY <3>1, <3>2, <3>5, AmountIs
  <2>5. \A p \in PaidParticipants : p.to \in R /\ p = Participant(p.to) BY <2>4 DEF PaidParticipants
  <2>6. IsFiniteSet(PaidParticipants)
    <3>1. [to \in R |-> Participant(to)] \in Surjection(R, PaidParticipants)
      BY DEF Surjection, PaidParticipants
    <3>. QED BY <2>1, <3>1, FS_Surjection
  <2>7. \A p \in PaidParticipants : who[p] \in R /\ h[p] = f[who[p]] /\ h[p] = p.total BY <2>4, <2>5
  <2>8. \A to \in R : \E p \in PaidParticipants : who[p] = to BY <2>4 DEF PaidParticipants
  <2>9. \A p, q \in PaidParticipants : who[p] = who[q] => p = q BY <2>5
  <2>10. \A to \in R : f[to] \in Nat BY <2>4
  <2>11. Sum("total", PaidParticipants) = SumFunctionOnSet(h, PaidParticipants)
    <3>1. \A p \in PaidParticipants : h[p] = p["total"] BY <2>7
    <3>. HIDE DEF h
    <3>. QED BY <2>6, <3>1, FieldSum
  <2>. HIDE DEF R, part, f, g, h, who
  <2>12. SumFunctionOnSet(h, PaidParticipants) = SumFunctionOnSet(f, R)
    BY ONLY <2>6, <2>7, <2>8, <2>9, <2>10, SumAlong
  <2>13. SumFunctionOnSet(f, R) = SumFunctionOnSet(LineAmount, Payouts)
    BY ONLY <1>0, <2>1, <2>2, <2>3, SumParts
  <2>. QED BY <2>11, <2>12, <2>13
<1>2. Total("paid", History) = All
  <2> DEFINE S == {r \in Owed : r.day # NoDay}
             E == {e \in Entitled : CloseDay(e) # NoDay}
             part == [e \in E |-> PayoutsOf(e)]
             f == [e \in E |-> SumFunctionOnSet(LineAmount, PayoutsOf(e))]
             g == [l \in Payouts |-> l.epoch]
             h == [r \in S |-> r.paid]
             which == [r \in S |-> r.epoch]
  <2>1. Total("paid", History) = Sum("paid", S) BY TotalIs
  <2>2. IsFiniteSet(S) /\ IsFiniteSet(E) BY OwedFacts, FigureFacts, FS_Subset
  <2>3. \A r \in S : which[r] \in E /\ h[r] = f[which[r]] /\ h[r] = r.paid BY OwedFacts, JoinedFacts
  <2>4. \A e \in E : \E r \in S : which[r] = e
    <3>. SUFFICES ASSUME NEW e \in E PROVE \E r \in S : which[r] = e OBVIOUS
    <3>1. Joined(e) \in S BY OwedFacts, JoinedFacts
    <3>2. which[Joined(e)] = e BY <3>1, OwedFacts
    <3>. QED BY <3>1, <3>2
  <2>5. \A r, q \in S : which[r] = which[q] => r = q BY OwedFacts
  <2>6. \A e \in E : f[e] \in Nat
    <3>. SUFFICES ASSUME NEW e \in E PROVE f[e] \in Nat OBVIOUS
    <3>1. f[e] = Joined(e).paid /\ Joined(e)["paid"] \in Nat BY JoinedFacts
    <3>. QED BY <3>1
  <2>7. \A l \in Payouts : g[l] \in E
    <3>. SUFFICES ASSUME NEW l \in Payouts PROVE l.epoch \in E OBVIOUS
    <3>1. l.epoch \in Entitled /\ l.epoch \in EpochRows OBVIOUS
    <3>. QED BY <3>1, FigureFacts DEF NoDay
  <2>8. \A e \in E : /\ f[e] = SumFunctionOnSet(LineAmount, part[e])
                     /\ \A l : l \in part[e] <=> l \in Payouts /\ g[l] = e
    BY DEF PayoutsOf
  <2>9. Sum("paid", S) = SumFunctionOnSet(h, S)
    <3>1. \A r \in S : h[r] = r["paid"] BY <2>3
    <3>. HIDE DEF h, S
    <3>. QED BY <2>2, <3>1, FieldSum
  <2>. HIDE DEF S, E, part, f, g, h, which
  <2>10. SumFunctionOnSet(h, S) = SumFunctionOnSet(f, E)
    BY ONLY <2>2, <2>3, <2>4, <2>5, <2>6, SumAlong
  <2>11. SumFunctionOnSet(f, E) = SumFunctionOnSet(LineAmount, Payouts)
    BY ONLY <1>0, <2>2, <2>7, <2>8, SumParts
  <2>. QED BY <2>1, <2>9, <2>10, <2>11
<1>. QED BY <1>1, <1>2

LEMMA LeastOf ==
    ASSUME NEW T, T \subseteq Nat, T # {}
    PROVE  \E m \in T : \A n \in T : m <= n
<1>1. IsWellFoundedOn({p \in Nat \X Nat : p[1] < p[2]}, Nat)
  BY NatLessThanWellFounded DEF OpToRel
<1>2. PICK m \in T : \A n \in T : <<n, m>> \notin {p \in Nat \X Nat : p[1] < p[2]}
  BY <1>1, WFMin
<1>3. ASSUME NEW n \in T PROVE m <= n
  <2>1. m \in Nat /\ n \in Nat /\ ~(n < m) BY <1>2
  <2>. QED BY <2>1
<1>. QED BY <1>3

\* A miner is new on one day, and not later than on any of his days.
LEMMA MinerFacts ==
    ASSUME FillInv
    PROVE  /\ \A y : /\ IsFiniteSet(MinersOn(y)) /\ NewMinersOn(y) \subseteq MinersOn(y)
                     /\ \A to : to \in MinersOn(y) <=> <<to, y>> \in MinersDays
           /\ \A to, y, z : to \in NewMinersOn(y) /\ to \in NewMinersOn(z) => y = z
           /\ \A to, y : to \in MinersOn(y) => \E z : to \in NewMinersOn(z) /\ z <= y
           /\ \A m \in MinersDays : \E l \in Payouts : /\ l.epoch \in EpochRows
                                                       /\ m = <<l.to, CloseDay(l.epoch)>>
<1> DEFINE from == {x \in Payouts : x.epoch \in EpochRows}
<1>1. ASSUME NEW m \in MinersDays
      PROVE  /\ \E l \in Payouts : l.epoch \in EpochRows /\ m = <<l.to, CloseDay(l.epoch)>>
             /\ m = <<m[1], m[2]>> /\ m[2] \in Nat
  <2>1. PICK l \in Payouts : l.epoch \in EpochRows /\ m = <<l.to, CloseDay(l.epoch)>> BY DEF MinersDays
  <2>2. CloseDay(l.epoch) \in Nat BY <2>1, FigureFacts
  <2>. QED BY <2>1, <2>2
<1>2. IsFiniteSet(MinersDays)
  <2>1. IsFiniteSet(from) BY FigureFacts, FS_Subset
  <2>2. [l \in from |-> <<l.to, CloseDay(l.epoch)>>] \in Surjection(from, MinersDays)
    BY DEF Surjection, MinersDays
  <2>. QED BY <2>1, <2>2, FS_Surjection
<1>3. ASSUME NEW y
      PROVE  /\ IsFiniteSet(MinersOn(y)) /\ NewMinersOn(y) \subseteq MinersOn(y)
             /\ \A to : to \in MinersOn(y) <=> <<to, y>> \in MinersDays
  <2> DEFINE at == {x \in MinersDays : x[2] = y}
  <2>1. IsFiniteSet(at) BY <1>2, FS_Subset
  <2>2. [m \in at |-> m[1]] \in Surjection(at, MinersOn(y)) BY DEF Surjection, MinersOn
  <2>3. IsFiniteSet(MinersOn(y)) BY <2>1, <2>2, FS_Surjection
  <2>4. \A to : to \in MinersOn(y) <=> <<to, y>> \in MinersDays BY <1>1 DEF MinersOn
  <2>. QED BY <2>3, <2>4 DEF NewMinersOn
<1>4. ASSUME NEW to, NEW y, to \in NewMinersOn(y)
      PROVE  y \in Nat /\ <<to, y>> \in MinersDays /\ \A m \in MinersDays : m[1] = to => y <= m[2]
  <2>1. <<to, y>> \in MinersDays BY <1>3, <1>4
  <2>2. <<to, y>>[2] \in Nat BY <1>1, <2>1
  <2>. QED BY <1>4, <2>1, <2>2 DEF NewMinersOn
<1>5. ASSUME NEW to, NEW y, NEW z, to \in NewMinersOn(y), to \in NewMinersOn(z) PROVE y = z
  <2>1. y \in Nat /\ z \in Nat /\ <<to, y>> \in MinersDays /\ <<to, z>> \in MinersDays BY <1>4, <1>5
  <2>2. y <= <<to, z>>[2] /\ z <= <<to, y>>[2] BY <1>4, <1>5, <2>1
  <2>. QED BY <2>1, <2>2
<1>6. ASSUME NEW to, NEW y, to \in MinersOn(y) PROVE \E z : to \in NewMinersOn(z) /\ z <= y
  <2> DEFINE T == {m[2] : m \in {x \in MinersDays : x[1] = to}}
  <2>1. <<to, y>> \in MinersDays /\ <<to, y>>[1] = to /\ <<to, y>>[2] = y BY <1>3, <1>6
  <2>2. y \in T BY <2>1
  <2>3. T \subseteq Nat BY <1>1
  <2>4. PICK z \in T : \A n \in T : z <= n BY <2>2, <2>3, LeastOf
  <2>5. PICK m \in MinersDays : m[1] = to /\ m[2] = z BY <2>4
  <2>6. <<to, z>> \in MinersDays BY <1>1, <2>5
  <2>7. to \in MinersOn(z) BY <1>3, <2>6
  <2>8. \A x \in MinersDays : x[1] = to => z <= x[2] BY <2>4
  <2>. QED BY <2>2, <2>4, <2>7, <2>8 DEF NewMinersOn
<1>. QED BY <1>1, <1>3, <1>5, <1>6

NewOf(Q) == UNION {NewMinersOn(y) : y \in Q}

\* Who was new on one of some days is counted once.
LEMMA NewAddUp ==
    ASSUME FillInv, NEW Q \in SUBSET Days, NEW H, H = {d \in History : d.day \in Q}
    PROVE  Miners(H) = Cardinality(NewOf(Q)) /\ IsFiniteSet(NewOf(Q))
<1> DEFINE U == NewOf(Q)
           part == [y \in Q |-> NewMinersOn(y)]
           f == [y \in Q |-> Cardinality(NewMinersOn(y))]
           one == [to \in U |-> 1]
           g == [to \in U |-> CHOOSE y \in Q : to \in NewMinersOn(y)]
           h == [d \in H |-> d.new]
<1>1. IsFiniteSet(Q) BY HistoryFacts, FS_Subset
<1>2. \A y \in Q : IsFiniteSet(NewMinersOn(y)) BY MinerFacts, FS_Subset
<1>3. IsFiniteSet(U)
  <2>1. IsFiniteSet({NewMinersOn(y) : y \in Q})
    <3>1. part \in Surjection(Q, {NewMinersOn(y) : y \in Q}) BY DEF Surjection
    <3>. QED BY <1>1, <3>1, FS_Surjection
  <2>. QED BY <1>2, <2>1, FS_UNION DEF NewOf
<1>4. \A to \in U : g[to] \in Q /\ to \in NewMinersOn(g[to]) BY DEF NewOf
<1>5. \A y \in Q : \A to : to \in part[y] <=> to \in U /\ g[to] = y
  <2>. SUFFICES ASSUME NEW y \in Q, NEW to PROVE to \in NewMinersOn(y) <=> to \in U /\ g[to] = y OBVIOUS
  <2>1. to \in NewMinersOn(y) => to \in U BY DEF NewOf
  <2>. HIDE DEF g, U
  <2>. QED BY <1>4, <2>1, MinerFacts
<1>6. ASSUME NEW y \in Q
      PROVE  f[y] = SumFunctionOnSet(one, part[y]) /\ f[y] \in Nat
  <2>1. part[y] = NewMinersOn(y) /\ f[y] = Cardinality(part[y]) OBVIOUS
  <2>2. IsFiniteSet(part[y]) BY <1>2, <2>1
  <2>3. \A to \in part[y] : one[to] = 1 BY <1>5
  <2>. HIDE DEF part, one, f
  <2>4. SumFunctionOnSet(one, part[y]) = Cardinality(part[y]) BY <2>2, <2>3, CountIsSum
  <2>. QED BY <2>1, <2>2, <2>4, FS_CardinalityType
<1>7. \A to \in U : one[to] = 1 /\ one[to] \in Nat OBVIOUS
<1>8. \A d \in H : h[d] = f[d.day] /\ h[d] = d["new"] BY HistoryFacts
<1>. HIDE DEF U, part, f, one, g, h
<1>9. SumFunctionOnSet(f, Q) = SumFunctionOnSet(one, U) BY ONLY <1>1, <1>3, <1>4, <1>5, <1>6, <1>7, SumParts
<1>10. SumFunctionOnSet(one, U) = Cardinality(U) BY <1>3, <1>7, CountIsSum
<1>11. SumFunctionOnSet(h, H) = SumFunctionOnSet(f, Q) /\ IsFiniteSet(H) BY <1>6, <1>8, HistorySum
<1>12. Sum("new", H) = SumFunctionOnSet(h, H) BY <1>8, <1>11, FieldSum
<1>. QED BY <1>3, <1>9, <1>10, <1>11, <1>12 DEF Miners, U

\* An epoch that paid was owed something, and was sampled when a later one was.
LEMMA PaidDayIsListed ==
    ASSUME FillInv, NEW l \in Payouts, l.epoch \in EpochRows,
           l.epoch \in Entitled \/ \E D \in Days : CloseDay(l.epoch) <= D
    PROVE  CloseDay(l.epoch) \in Days
<1> DEFINE e == l.epoch
           lines == {x \in chain.lines : x.epoch = e}
<1>1. /\ e \in Epochs /\ l \in chain.lines /\ chain \in Histories
      /\ CloseDay(e) = chain.day[chain.close[e]] /\ CloseDay(e) \in Nat \ {0} /\ chain.close[e] \in Heights
  BY FigureFacts DEF FillInv, TablesTyped
<1>2. chain.owed[e] > 0
  <2>1. chain.owed[e] = chain.kept[e] + SumFunction([x \in lines |-> x.amount]) BY <1>1, FigureBounds
  <2>2. Amount(lines) = SumFunctionOnSet(LineAmount, lines) /\ IsFiniteSet(lines) BY AmountIs
  <2>3. \A x \in chain.lines : LineAmount[x] \in Nat \ {0} BY <1>1, FigureBounds DEF LineAmount
  <2>4. l \in lines /\ lines \subseteq chain.lines BY <1>1
  <2>5. chain.kept[e] \in Nat BY <1>1, FigureBounds
  <2>6. SumFunctionOnSet(LineAmount, lines) = LineAmount[l] + SumFunctionOnSet(LineAmount, lines \ {l})
    <3>. HIDE DEF lines
    <3>. QED BY <2>2, <2>3, <2>4, SumTake
  <2>7. SumFunctionOnSet(LineAmount, lines \ {l}) \in Nat
    <3>1. IsFiniteSet(lines \ {l}) BY <2>2, FS_Subset
    <3>2. \A x \in lines \ {l} : LineAmount[x] \in Nat BY <2>3, <2>4
    <3>. HIDE DEF lines
    <3>. QED BY <3>1, <3>2, SumIsNat
  <2>8. LineAmount[l] \in Nat \ {0} BY <2>3, <2>4
  <2>. HIDE DEF lines
  <2>9. chain.owed[e] = chain.kept[e] + Amount(lines) BY <2>1 DEF Amount
  <2> DEFINE first == LineAmount[l]
             rest  == SumFunctionOnSet(LineAmount, lines \ {l})
             keeps == chain.kept[e]
  <2>10. chain.owed[e] = keeps + (first + rest) BY <2>2, <2>6, <2>9
  <2>11. first \in Nat \ {0} /\ rest \in Nat /\ keeps \in Nat BY <2>5, <2>7, <2>8
  <2>. HIDE DEF first, rest, keeps
  <2>12. keeps + (first + rest) > 0 BY <2>11
  <2>. QED BY <2>10, <2>12
<1>3. CASE e \in Entitled
  <2>1. Joined(e) \in Owed /\ Joined(e).day = CloseDay(e) BY <1>3, OwedFacts, JoinedFacts
  <2>. QED BY <1>1, <2>1 DEF Days, NoDay
<1>4. ASSUME NEW D \in Days, CloseDay(e) <= D, e \notin Entitled PROVE CloseDay(e) \in Days
  <2>1. PICK r \in Owed : r.day = D BY <1>4 DEF Days
  <2>2. r.epoch \in Entitled /\ D = CloseDay(r.epoch) /\ D \in Nat \ {0}
    BY <2>1, OwedFacts, JoinedFacts, HistoryFacts
  <2>3. r.epoch \in EpochRows BY <2>2, FigureFacts DEF NoDay
  <2>4. D = chain.day[chain.close[r.epoch]] /\ chain.close[r.epoch] \in Heights BY <2>2, <2>3, FigureFacts
  <2>5. chain.close[r.epoch] <= sampled /\ r.epoch \in Epochs BY <2>2 DEF Entitled
  <2>6. sampled < chain.close[e]
    <3>1. ~(chain.close[e] <= sampled) BY <1>1, <1>2, <1>4 DEF Entitled
    <3>. QED BY <1>1, <3>1 DEF FillInv, Heights
  <2>7. chain.close[r.epoch] <= chain.close[e] BY <1>1, <2>4, <2>5, <2>6 DEF FillInv, Heights
  <2>8. D <= CloseDay(e) BY <1>1, <2>4, <2>7, FigureBounds
  <2>9. D = CloseDay(e) BY <1>1, <1>4, <2>2, <2>8
  <2>. QED BY <1>4, <2>9
<1>. QED BY <1>3, <1>4

LEMMA MinersAgree ==
    ASSUME FillInv, {l.epoch : l \in Payouts} \subseteq Entitled \intersect EpochRows
    PROVE  /\ Miners(History) = Cardinality(Recipients(Payouts))
           /\ \A m \in MinersDays : m[2] \in Days
<1>1. \A l \in Payouts : l.epoch \in Entitled /\ l.epoch \in EpochRows OBVIOUS
<1>2. \A l \in Payouts : <<l.to, CloseDay(l.epoch)>> \in MinersDays /\ CloseDay(l.epoch) \in Days
  BY <1>1, PaidDayIsListed DEF MinersDays
<1>3. \A m \in MinersDays : m[2] \in Days /\ m[1] \in Recipients(Payouts)
  BY <1>2, MinerFacts DEF Recipients
<1>4. NewOf(Days) = Recipients(Payouts)
  <2>1. ASSUME NEW y \in Days, NEW to \in NewMinersOn(y) PROVE to \in Recipients(Payouts)
    <3>1. <<to, y>> \in MinersDays BY <2>1, MinerFacts
    <3>. QED BY <1>3, <3>1
  <2>2. ASSUME NEW l \in Payouts PROVE l.to \in NewOf(Days)
    <3>1. l.to \in MinersOn(CloseDay(l.epoch)) BY <1>2, MinerFacts
    <3>2. PICK z : l.to \in NewMinersOn(z) BY <3>1, MinerFacts
    <3>3. <<l.to, z>> \in MinersDays BY <3>2, MinerFacts
    <3>4. <<l.to, z>>[2] \in Days BY <1>3, <3>3
    <3>. QED BY <3>2, <3>4 DEF NewOf
  <2>. QED BY <2>1, <2>2 DEF NewOf, Recipients
<1>5. History = {d \in History : d.day \in Days} BY HistoryFacts
<1>6. Miners(History) = Cardinality(NewOf(Days)) BY <1>5, NewAddUp
<1>. QED BY <1>3, <1>4, <1>6

\* The chart's running total has everyone who was paid for the day.
LEMMA ChartHasAll ==
    ASSUME FillInv, NEW d \in History
    PROVE  d.active >= d.new /\ DistinctMiners(d.day) >= d.active
<1> DEFINE Q == {y \in Days : y <= d.day}
           H == {x \in History : x.day <= d.day}
<1>1. /\ d.day \in Days /\ d.active = Cardinality(MinersOn(d.day))
      /\ d.new = Cardinality(NewMinersOn(d.day))
  BY HistoryFacts
<1>2. d.active \in Nat /\ d.new \in Nat /\ d.new <= d.active
  BY <1>1, MinerFacts, FS_Subset, FS_CardinalityType
<1>3. H = {x \in History : x.day \in Q} BY HistoryFacts
<1>4. Miners(H) = Cardinality(NewOf(Q)) /\ IsFiniteSet(NewOf(Q))
  <2>1. Q \in SUBSET Days OBVIOUS
  <2>. HIDE DEF H, Q
  <2>. QED BY <1>3, <2>1, NewAddUp
<1>5. MinersOn(d.day) \subseteq NewOf(Q)
  <2>. SUFFICES ASSUME NEW to \in MinersOn(d.day) PROVE to \in NewOf(Q) OBVIOUS
  <2>1. PICK z : to \in NewMinersOn(z) /\ z <= d.day BY MinerFacts
  <2>2. <<to, z>> \in MinersDays BY <2>1, MinerFacts
  <2>3. PICK l \in Payouts : l.epoch \in EpochRows /\ <<to, z>> = <<l.to, CloseDay(l.epoch)>>
    BY <2>2, MinerFacts
  <2>4. z = CloseDay(l.epoch) BY <2>3
  <2>5. z \in Days BY <1>1, <2>1, <2>3, <2>4, PaidDayIsListed
  <2>. QED BY <2>1, <2>5 DEF NewOf
<1>6. Cardinality(MinersOn(d.day)) <= Cardinality(NewOf(Q)) /\ Cardinality(NewOf(Q)) \in Nat
  BY <1>4, <1>5, FS_Subset, FS_CardinalityType
<1>. QED BY <1>1, <1>2, <1>4, <1>6 DEF DistinctMiners

\* No two readers get two numbers (operators-repository.ts): however far the
\* tables have come, the days of the history add up to the verdict, the miners
\* that are new to those ever paid, and the participants' totals to what was paid.
THEOREM FiguresAgreeHolds == PageSpec => []FiguresAgree
<1>1. ASSUME FillInv PROVE FiguresAgree
  <2>1. CASE {l.epoch : l \in Payouts} \subseteq Entitled \intersect EpochRows
    <3>1. Miners(History) = Participants.paid.all
      BY <1>1, <2>1, MinersAgree DEF Participants, CountPaidParticipants
    <3>2. Sum("total", Participants.rows) = Totals(History).paid
      BY <1>1, <2>1, PaidAgrees DEF Participants, Totals
    <3>3. \A day \in {m[2] : m \in MinersDays} : day \in Days BY <1>1, <2>1, MinersAgree
    <3>. QED BY <1>1, <3>1, <3>2, <3>3, TotalsAgree, ChartHasAll DEF FiguresAgree
  <2>2. CASE ~({l.epoch : l \in Payouts} \subseteq Entitled \intersect EpochRows)
    BY <1>1, <2>2, TotalsAgree, ChartHasAll DEF FiguresAgree
  <2>. QED BY <2>1, <2>2
<1>. QED BY <1>1, FillInvHolds, PTL

=============================================================================
