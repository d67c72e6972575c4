----------------------------- MODULE BlockRows -----------------------------
(***************************************************************************)
(* What one height leaves in the generic tables: the readings of the node  *)
(* (packages/chain-client), the rows made of them (apps/indexer/mapper.ts, *)
(* packages/decoder) and their upserts (ingest-height.ts).  When heights   *)
(* are ingested, by how many workers and with which failures is            *)
(* IngestRange; here a height may be ingested again at any time.           *)
(*                                                                         *)
(* The transactions of a height come from a search over the node's         *)
(* transaction index, or, when the search fails, from the block, each one  *)
(* then looked up in the same index.  The two give different readings: the *)
(* node decodes the first, the explorer's own decoder the second.          *)
(***************************************************************************)
EXTENDS Integers, Sequences, FiniteSets

CONSTANTS
    Chain,        \* the blocks: Chain[h] = [txs, events]
    MaxTip,       \* bound: the node's head may lie beyond these blocks
    PageLimit,    \* external: transactions of one page of the node's search
    IndexLags     \* external: the node indexes transactions after their block

(***************************************************************************)
(* body and read tell whether the explorer's decoder can read a            *)
(* transaction and a message; an event names its message, or None.         *)
(***************************************************************************)
Transaction ==
    [hash : STRING, ok : BOOLEAN, body : BOOLEAN,
     msgs : Seq([type : STRING, read : BOOLEAN]), events : Seq([type : STRING, msg : Nat])]

Heights == 1..Len(Chain)

None == 0
BlockTx == "none"       \* the transaction of an event that has none

\* The hash of a transaction is its own.
ASSUME ChainAssumption ==
    /\ Chain \in Seq([txs : Seq(Transaction), events : Seq(STRING)])
    /\ \A h, k \in Heights : \A i \in DOMAIN Chain[h].txs, j \in DOMAIN Chain[k].txs :
          /\ Chain[h].txs[i].hash # BlockTx
          /\ Chain[h].txs[i].hash = Chain[k].txs[j].hash => h = k /\ i = j

ASSUME PageAssumption == PageLimit \in Nat

VARIABLES
    tip,            \* the node's latest block
    blocks,         \* Block: [height, txCount]
    txs,            \* ExplorerTransaction
    messages,       \* Message
    events,         \* Event
    unread          \* DecodeFailure: [tx, msg], msg = None for a whole body

rowVars == <<blocks, txs, messages, events, unread>>
blockVars == <<tip, rowVars>>

-----------------------------------------------------------------------------
(* The node. *)

Produce ==
    /\ tip < MaxTip
    /\ tip' = tip + 1
    /\ UNCHANGED rowVars

FirstPage(h) ==
    SubSeq(Chain[h].txs, 1, IF PageLimit < Len(Chain[h].txs) THEN PageLimit ELSE Len(Chain[h].txs))

\* txs?query=tx.height=h: a page in block order, or nothing yet.
SearchAnswers(h) == {FirstPage(h)} \union (IF IndexLags /\ h = tip THEN {<<>>} ELSE {})

-----------------------------------------------------------------------------
(* The rows. *)

BlockRow(h, found) == [height |-> h, txCount |-> Len(found)]

TxRow(h, i, tx) == [hash |-> tx.hash, height |-> h, index |-> i, ok |-> tx.ok]

\* inferModuleFromTypeUrl knows the chain's own modules.
OwnModule(type) == type # "foreign"

MessageRow(h, tx, m, decoded) ==
    [tx |-> tx.hash, height |-> h, index |-> m, type |-> tx.msgs[m].type, decoded |-> decoded]

\* The node's JSON is kept as the decoded message when its module is known.
SearchedMessages(h, tx) ==
    [m \in DOMAIN tx.msgs |-> MessageRow(h, tx, m, OwnModule(tx.msgs[m].type))]

\* decodeAnyMessages: a message it cannot read keeps its type.
LookedUpMessages(h, tx) ==
    IF tx.body THEN [m \in DOMAIN tx.msgs |-> MessageRow(h, tx, m, tx.msgs[m].read)] ELSE <<>>

DecodeFailuresOf(tx) ==
    {[tx |-> tx.hash, msg |-> m] :
        m \in IF tx.body THEN {x \in DOMAIN tx.msgs : ~tx.msgs[x].read} ELSE {None}}

TxEvent(h, tx, e) ==
    [height |-> h, tx |-> tx.hash, index |-> e, type |-> tx.events[e].type, msg |-> tx.events[e].msg]

BlockEvent(h, e) ==
    [height |-> h, tx |-> BlockTx, index |-> e, type |-> Chain[h].events[e], msg |-> None]

\* Block events first: ids grow in this order.
EventRows(h, found) ==
    [i \in {0} \union DOMAIN found |->
        IF i = 0 THEN [e \in DOMAIN Chain[h].events |-> BlockEvent(h, e)]
        ELSE [e \in DOMAIN found[i].events |-> TxEvent(h, found[i], e)]]

\* Mutant: the key of an event forgets its transaction.
PlaceFields == {"height", "index"}

EventFields == {"height", "tx", "index"}

EventKey(row) == <<row.height, row.tx, row.index>>

SameKey(key, a, b) == \A field \in key : a[field] = b[field]

\* Rows are written list after list, each list in its order.
Places(lists) == UNION {{i} \X DOMAIN lists[i] : i \in DOMAIN lists}

RowAt(lists, place) == lists[place[1]][place[2]]

After(p, q) == p[1] > q[1] \/ (p[1] = q[1] /\ p[2] > q[2])

\* A later row of the same key replaces an earlier one.
Upsert(table, lists, key) ==
    {r \in table : \A p \in Places(lists) : ~SameKey(key, RowAt(lists, p), r)}
        \union {RowAt(lists, p) : p \in {q \in Places(lists) :
                    \A l \in Places(lists) :
                        After(l, q) => ~SameKey(key, RowAt(lists, l), RowAt(lists, q))}}

\* The transaction of ingestHeight, for the transactions it was answered and
\* the messages made of each.
WriteRows(h, found, messagesOf) ==
    /\ blocks' = Upsert(blocks, <<<<BlockRow(h, found)>>>>, {"height"})
    /\ txs' = Upsert(txs, [i \in DOMAIN found |-> <<TxRow(h, i, found[i])>>], {"hash"})
    /\ messages' = Upsert(messages, messagesOf, {"tx", "index"})
    /\ events' = Upsert(events, EventRows(h, found), EventFields)

StoredHeights == {b.height : b \in blocks}

\* Heights arrive in order (IngestRange), and again after a halt.
Reachable(h) == h <= tip /\ h <= Cardinality(blocks) + 1

IngestSearched(h) ==
    /\ Reachable(h)
    /\ \E found \in SearchAnswers(h) :
          WriteRows(h, found, [i \in DOMAIN found |-> SearchedMessages(h, found[i])])
    /\ UNCHANGED <<tip, unread>>

\* The lookup of one transaction that is not indexed yet fails, and with it
\* the attempt; here they all succeed.
IngestLookedUp(h) ==
    /\ Reachable(h)
    /\ WriteRows(h, Chain[h].txs,
                 [i \in DOMAIN Chain[h].txs |-> LookedUpMessages(h, Chain[h].txs[i])])
    /\ unread' = unread \union UNION {DecodeFailuresOf(Chain[h].txs[i]) : i \in DOMAIN Chain[h].txs}
    /\ UNCHANGED tip

BlockInit ==
    /\ tip = 1
    /\ blocks = {}
    /\ txs = {} /\ messages = {} /\ events = {} /\ unread = {}

BlockNext ==
    \/ Produce
    \/ \E h \in Heights : IngestSearched(h) \/ IngestLookedUp(h)

-----------------------------------------------------------------------------
(* The indexer's watermark is documented as "everything at or below this   *)
(* is indexed": a stored height has each transaction of its block, with    *)
(* each message and each event, and a message of the chain's own modules   *)
(* is stored with its contents or reported as a decode failure.            *)
StoredBlockIsWhole ==
    \A h \in StoredHeights :
        /\ BlockRow(h, Chain[h].txs) \in blocks
        /\ \A i \in DOMAIN Chain[h].txs :
              LET tx == Chain[h].txs[i] IN
              /\ TxRow(h, i, tx) \in txs
              /\ \A m \in DOMAIN tx.msgs :
                    \/ [tx |-> tx.hash, msg |-> None] \in unread
                    \/ \E decoded \in BOOLEAN :
                          /\ MessageRow(h, tx, m, decoded) \in messages
                          /\ decoded \/ ~OwnModule(tx.msgs[m].type)
                                     \/ [tx |-> tx.hash, msg |-> m] \in unread
              /\ \A e \in DOMAIN tx.events : TxEvent(h, tx, e) \in events
        /\ \A e \in DOMAIN Chain[h].events : BlockEvent(h, e) \in events

\* What it takes: the search has the whole of a height when it is asked.
SearchIsWhole ==
    /\ ~IndexLags
    /\ \A h \in Heights : Len(Chain[h].txs) <= PageLimit
=============================================================================
