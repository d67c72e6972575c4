----------------------------- MODULE SlotEvents -----------------------------
(***************************************************************************)
(* How the CoreSlot projections pair a decoded message with the event that *)
(* confirms it (projections/coreslot-metadata.ts, -lifecycle.ts,           *)
(* -payout.ts, -params.ts, -structural.ts).  Message and event are rows of *)
(* two tables; what links them is the transaction, the event's msg_index   *)
(* attribute when the chain wrote one, the slot and the operator.          *)
(*                                                                         *)
(* A transaction is a record [hash, ok, msgs, events].  A message is       *)
(* [kind, slot, bad]: "bad" when its payload cannot be read.  An event is  *)
(* [kind, slot, index, named, bad, by]: index is the message it names (0   *)
(* when it names none), named tells whether it carries the operator, and   *)
(* by is the message that really emitted it (0 when none did), which the   *)
(* code cannot see.                                                        *)
(***************************************************************************)
EXTENDS Integers, Sequences, FiniteSets

Correlated == {"metadata", "lifecycle", "payout", "params"}

\* The message types and the events each projection reads.
Handles(p) ==
    CASE p = "lifecycle"  -> {"register", "status"}
      [] p = "structural" -> {"settlement", "policy"}
      [] p = "rotation"   -> {"rotation"}
      [] OTHER            -> {p}

MessagesOf(p, tx) == {m \in DOMAIN tx.msgs : tx.msgs[m].kind \in Handles(p)}

EventsOf(p, tx) == {e \in DOMAIN tx.events : tx.events[e].kind \in Handles(p)}

Readable(p, tx) == {m \in MessagesOf(p, tx) : ~tx.msgs[m].bad}

\* An event that names a message matches that message only.
NamesMessage(ev, m) == ev.index \in {0, m}

MetadataMatches(tx, e, m) ==
    /\ NamesMessage(tx.events[e], m)
    /\ tx.events[e].slot = tx.msgs[m].slot
    /\ tx.events[e].named

\* An event without an operator is taken to be the slot's operator's.
PayoutMatches(tx, e, m) ==
    /\ NamesMessage(tx.events[e], m)
    /\ tx.events[e].slot = tx.msgs[m].slot

\* Params are global: only the authority is compared, which is always the same.
ParamsMatches(tx, e, m) == NamesMessage(tx.events[e], m)

\* A registration does not know its slot yet; the event carries it.
LifecycleMatches(tx, e, m) ==
    /\ NamesMessage(tx.events[e], m)
    /\ tx.events[e].kind = tx.msgs[m].kind
    /\ tx.msgs[m].kind = "register" \/ tx.events[e].slot = tx.msgs[m].slot

Matches(p, tx, e, m) ==
    CASE p = "metadata"  -> MetadataMatches(tx, e, m)
      [] p = "payout"    -> PayoutMatches(tx, e, m)
      [] p = "params"    -> ParamsMatches(tx, e, m)
      [] OTHER           -> LifecycleMatches(tx, e, m)

\* matchingEvents of a message, and matchingMessages of an event.
EventsFor(p, tx, m) == {e \in EventsOf(p, tx) : Matches(p, tx, e, m)}
MessagesFor(p, tx, e) == {m \in Readable(p, tx) : Matches(p, tx, e, m)}

Only(p, tx, m, e) == EventsFor(p, tx, m) = {e}

Pair(m, e) == [m |-> m, e |-> e]

\* Metadata asks for one event per message; the other three also for one
\* message per event.
MetadataPairs(tx) ==
    {r \in [m : Readable("metadata", tx), e : EventsOf("metadata", tx)] :
        Only("metadata", tx, r.m, r.e)}

MutualPairs(p, tx) ==
    {r \in [m : Readable(p, tx), e : EventsOf(p, tx)] :
        /\ Only(p, tx, r.m, r.e)
        /\ MessagesFor(p, tx, r.e) = {r.m}}

\* An event the store has no message for still changed the slot: lifecycle
\* keeps it, and reads its fields from the event alone.
LifecyclePairs(tx) ==
    LET found == MutualPairs("lifecycle", tx) \union
                     {Pair(0, e) : e \in {x \in EventsOf("lifecycle", tx) :
                                             MessagesFor("lifecycle", tx, x) = {}}}
    IN  {r \in found : ~tx.events[r.e].bad}

\* correlateMessage of coreslot-structural.ts goes from the event: the message
\* it names, or the only one of its type.
CandidatesFor(tx, e) ==
    LET alike == {m \in DOMAIN tx.msgs : tx.msgs[m].kind = tx.events[e].kind}
    IN  IF tx.events[e].index # 0
        THEN alike \intersect {tx.events[e].index}
        ELSE IF Cardinality(alike) = 1 THEN alike ELSE {}

MessageFor(tx, e) ==
    IF CandidatesFor(tx, e) = {} THEN 0 ELSE CHOOSE m \in CandidatesFor(tx, e) : TRUE

StructuralPairs(tx) ==
    {Pair(MessageFor(tx, e), e) : e \in {x \in EventsOf("structural", tx) : ~tx.events[x].bad}}

\* A rotation that took effect at once; delayed ones are followed in TemporalMap.
RotationPairs(tx) ==
    {Pair(tx.events[e].index, e) : e \in {x \in EventsOf("rotation", tx) : ~tx.events[x].bad}}

Pairs(p, tx) ==
    CASE p = "metadata"         -> MetadataPairs(tx)
      [] p = "lifecycle"        -> LifecyclePairs(tx)
      [] p \in {"payout", "params"} -> MutualPairs(p, tx)
      [] p = "structural"       -> StructuralPairs(tx)
      [] OTHER                  -> RotationPairs(tx)

-----------------------------------------------------------------------------
(* ProjectionFailure rows: what could not be paired.                       *)

Failure(kind, m, e) == [kind |-> kind, m |-> m, e |-> e]

UnreadableMessages(p, tx) ==
    {Failure("unreadable", m, 0) : m \in MessagesOf(p, tx) \ Readable(p, tx)}

EventlessMessages(p, tx) ==
    {Failure("missing_event", m, 0) : m \in {x \in Readable(p, tx) : EventsFor(p, tx, x) = {}}}

Torn(p, tx) == {m \in Readable(p, tx) : Cardinality(EventsFor(p, tx, m)) > 1}

TornMessages(p, tx) == {Failure("ambiguous_event", m, 0) : m \in Torn(p, tx)}

\* Mutant: an event that no message matches is skipped.
MessagelessEventsNone(p, tx) == {}

MessagelessEvents(p, tx) ==
    {Failure("missing_message", 0, e) :
        e \in {x \in EventsOf(p, tx) :
                  /\ MessagesFor(p, tx, x) = {}
                  /\ p = "lifecycle" => ~tx.events[x].bad}}

Contested(p, tx) == {e \in EventsOf(p, tx) : Cardinality(MessagesFor(p, tx, e)) > 1}

\* Metadata reports an event with several messages only when it used it for
\* none; payout and params only when no earlier message was torn over it.
ContestedReported(p, tx) ==
    CASE p = "metadata" ->
             {e \in Contested(p, tx) : \A m \in Readable(p, tx) : ~Only(p, tx, m, e)}
      [] p = "lifecycle" -> Contested(p, tx)
      [] OTHER ->
             {e \in Contested(p, tx) :
                 \E m \in Readable(p, tx) :
                     /\ Only(p, tx, m, e)
                     /\ \A k \in Torn(p, tx) : k < m => e \notin EventsFor(p, tx, k)}

ContestedEvents(p, tx) ==
    {Failure("ambiguous_message", 0, e) : e \in ContestedReported(p, tx)}

\* Lifecycle, structural and rotation read the event's own fields; lifecycle
\* gets to them once it knows the event has at most one message of its own.
UnreadableEvents(p, tx) ==
    {Failure("unreadable_event", 0, e) :
        e \in {x \in EventsOf(p, tx) :
                  /\ tx.events[x].bad
                  /\ p = "lifecycle" =>
                        \/ MessagesFor(p, tx, x) = {}
                        \/ \E m \in Readable(p, tx) :
                               Only(p, tx, m, x) /\ MessagesFor(p, tx, x) = {m}}}

\* A settlement address is in the message only, so an event without a readable
\* one is a failure; a policy version is on the event.
UnknownSettlements(tx) ==
    {Failure("missing_message", 0, r.e) :
        r \in {x \in StructuralPairs(tx) :
                  /\ tx.events[x.e].kind = "settlement"
                  /\ x.m = 0 \/ tx.msgs[x.m].bad}}

Failures(p, tx) ==
    CASE p = "structural" -> UnknownSettlements(tx) \union UnreadableEvents(p, tx)
      [] p = "rotation"   -> UnreadableEvents(p, tx)
      [] OTHER ->
            UNION {UnreadableMessages(p, tx), EventlessMessages(p, tx), TornMessages(p, tx),
                   MessagelessEvents(p, tx), ContestedEvents(p, tx),
                   IF p = "lifecycle" THEN UnreadableEvents(p, tx) ELSE {}}
=============================================================================
