--------------------------- MODULE RewardsHistory ---------------------------
(***************************************************************************)
(* The rewards projection (projections/rewards-semantic.ts): the epochs,   *)
(* parameter changes, pauses and treasury payments of each height, read    *)
(* from the rows of BlockRows.  A height is one transaction; the CLI goes  *)
(* on from the cursor or from a height it is given.  One EndBlock may      *)
(* report what no message of its height asked for; a message is the proof  *)
(* of a change even without its event.                                     *)
(***************************************************************************)
EXTENDS BlockRows

VARIABLES
    cursor,       \* ProjectionCursor of rewards_semantic_v1
    epochs,       \* RewardEpochProjection: the event of each epoch
    changes,      \* RewardsParamsChange: [type, msg, event]
    payments,     \* RewardsTreasuryPayment: events
    failures      \* ProjectionFailure: [height, kind, of]

historyVars == <<cursor, epochs, changes, payments, failures>>

MessageTypes == {"update", "pause", "resume"}
EventTypes == {"epoch", "queued", "activated", "paused", "resumed", "treasury"}

NoMessage == <<BlockTx, 0>>
NoEvent == <<0, BlockTx, 0>>
MessageKey(m) == <<m.tx, m.index>>

-----------------------------------------------------------------------------
(* The rows of a height. *)

Successful(h) == {t.hash : t \in {x \in txs : x.height = h /\ x.ok}}

MessagesAt(h) ==
    {m \in messages : m.height = h /\ m.tx \in Successful(h) /\ m.type \in MessageTypes}

\* isFailedTxBound.
FromFailed(e) == e.tx # BlockTx /\ e.tx \notin Successful(e.height)

EventsAt(h) == {e \in events : e.height = h /\ ~FromFailed(e)}

OfType(rows, type) == {r \in rows : r.type = type}

\* Mutant: the message an event names is not looked at.
SameTx(e, m) == e.tx = m.tx

\* txEventMatches.
Confirms(e, m) == e.tx = m.tx /\ e.msg \in {None, m.index}

\* find: the first in the order of ids, which is that of the block.
FirstOf(type, m) ==
    CHOOSE e \in OfType(EventsAt(m.height), type) :
        /\ Confirms(e, m)
        /\ \A x \in OfType(EventsAt(m.height), type) : Confirms(x, m) => e.index <= x.index

Confirmed(type, m) == \E e \in OfType(EventsAt(m.height), type) : Confirms(e, m)

\* The type of event that confirms a message, if one does.
Confirmation(m) ==
    CASE m.type = "update" /\ Confirmed("queued", m)    -> "queued"
      [] m.type = "update" /\ ~Confirmed("queued", m)   -> "activated"
      [] m.type = "pause"                               -> "paused"
      [] m.type = "resume"                              -> "resumed"

IsConfirmed(m) == Confirmed(Confirmation(m), m)

ConfirmingEvent(m) ==
    IF IsConfirmed(m) THEN EventKey(FirstOf(Confirmation(m), m)) ELSE NoEvent

Change(type, msg, event) == [type |-> type, msg |-> msg, event |-> event]

\* projectParams and projectStateToggle: a row for each message ...
ChangeOf(m) ==
    Change(IF IsConfirmed(m) THEN Confirmation(m)
           ELSE IF m.type = "update" THEN "direct" ELSE m.type,
           MessageKey(m), ConfirmingEvent(m))

\* ... of two messages with one event the later keeps it, ...
Later(m, n) == m.tx = n.tx /\ n.index < m.index

MessageChanges(h) ==
    {ChangeOf(m) : m \in {x \in MessagesAt(h) :
        ~IsConfirmed(x) \/ ~\E y \in MessagesAt(h) : Later(y, x) /\ ConfirmingEvent(y) = ConfirmingEvent(x)}}

\* ... and a row for each event no message claimed.
Unclaimed(h) ==
    {e \in EventsAt(h) :
        /\ e.type \in {"queued", "activated", "paused", "resumed"}
        /\ \A m \in MessagesAt(h) : ConfirmingEvent(m) # EventKey(e)}

EventChanges(h) == {Change(e.type, NoMessage, EventKey(e)) : e \in Unclaimed(h)}

\* upsertParamsChange: found by its event, else by its message.
Replaces(new, old) ==
    IF new.event # NoEvent THEN old.event = new.event ELSE old.msg = new.msg

EpochsAt(h) == {EventKey(e) : e \in OfType(EventsAt(h), "epoch")}

PaymentsAt(h) == {EventKey(e) : e \in OfType(EventsAt(h), "treasury")}

Failure(h, kind, of) == [height |-> h, kind |-> kind, of |-> of]

FailuresAt(h) ==
    {Failure(h, "missing_event", MessageKey(m)) : m \in {x \in MessagesAt(h) : ~IsConfirmed(x)}}
        \union {Failure(h, "missing_message", EventKey(e)) : e \in OfType(Unclaimed(h), "queued")}
        \union {Failure(h, "unknown_type", EventKey(e)) : e \in OfType(EventsAt(h), "other")}

-----------------------------------------------------------------------------
(* The steps. *)

Highest == Cardinality(blocks)

ProjectHeight(h) ==
    /\ h \in 1..Highest /\ h <= cursor + 1
    /\ LET new == MessageChanges(h) \union EventChanges(h) IN
       changes' = {c \in changes : \A n \in new : ~Replaces(n, c)} \union new
    /\ epochs' = epochs \union EpochsAt(h)
    /\ payments' = payments \union PaymentsAt(h)
    /\ failures' = {f \in failures : f.height # h} \union FailuresAt(h)
    /\ cursor' = h
    /\ UNCHANGED blockVars

\* The part of resetRewardsProjections that is the history's.
ClearHistory ==
    /\ cursor' = 0
    /\ epochs' = {} /\ changes' = {} /\ payments' = {} /\ failures' = {}

HistoryInit ==
    /\ cursor = 0
    /\ epochs = {} /\ changes = {} /\ payments = {} /\ failures = {}

-----------------------------------------------------------------------------
(* What the chain did at a height, from its own record. *)

Accepted(h) == {i \in DOMAIN Chain[h].txs : Chain[h].txs[i].ok}

AcceptedTxs(h) == {Chain[h].txs[i] : i \in Accepted(h)}

AcceptedMessages(h) ==
    UNION {{<<tx.hash, m>> : m \in {x \in DOMAIN tx.msgs : tx.msgs[x].type \in MessageTypes}} :
              tx \in AcceptedTxs(h)}

EmittedEvents(h) ==
    {<<h, BlockTx, e>> : e \in {x \in DOMAIN Chain[h].events : Chain[h].events[x] \in EventTypes}}
        \union
    UNION {{<<h, tx.hash, e>> : e \in {x \in DOMAIN tx.events : tx.events[x].type \in EventTypes}} :
              tx \in AcceptedTxs(h)}

MessagesRecorded == {c.msg : c \in changes} \ {NoMessage}
EventsRecorded == epochs \union payments \union ({c.event : c \in changes} \ {NoEvent})

\* Each message the chain accepted up to the cursor has one row, unless its
\* transaction could not be decoded and is reported; each event the chain
\* emitted is in one row, and no row is of anything else.
HistoryIsTheChains ==
    /\ \A msg \in UNION {AcceptedMessages(h) : h \in 1..cursor} :
          msg \in MessagesRecorded \/ [tx |-> msg[1], msg |-> None] \in unread
    /\ UNION {EmittedEvents(h) : h \in 1..cursor} \subseteq EventsRecorded
    /\ MessagesRecorded \subseteq UNION {AcceptedMessages(h) : h \in StoredHeights}
    /\ EventsRecorded \subseteq UNION {EmittedEvents(h) : h \in StoredHeights}
    /\ \A c, d \in changes : c # d =>
          /\ c.msg = d.msg => c.msg = NoMessage
          /\ c.event = d.event => c.event = NoEvent

\* The types of event that may confirm a type of message.
AskedBy == [update |-> {"queued", "activated"}, pause |-> {"paused"}, resume |-> {"resumed"}]

\* What it takes: an event names its message wherever it could confirm two.
EventsNamed ==
    \A h \in Heights : \A tx \in AcceptedTxs(h) : \A e \in DOMAIN tx.events :
        tx.events[e].msg = None =>
            \A m, n \in {x \in DOMAIN tx.msgs : tx.msgs[x].type \in MessageTypes
                                 /\ tx.events[e].type \in AskedBy[tx.msgs[x].type]} : m = n
=============================================================================
