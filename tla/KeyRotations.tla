---------------------------- MODULE KeyRotations ----------------------------
(***************************************************************************)
(* CoreSlotConsensusKeyRotation rows: how coreslot-key-rotation.ts makes   *)
(* one row of a request and of what became of it, and how it does when a   *)
(* message was not decoded or an event lacks what identifies it.           *)
(*                                                                         *)
(* An event is a record with its id, <<height, place in the block>>, and   *)
(* "lost", what cannot be read of it: "message" (the transaction's message *)
(* was not decoded), "slot" (no slot id), "address" (an address that is    *)
(* no address), "old" and "new" (an address that is missing), or           *)
(* "nothing".  Each rotation message has a transaction of its own.         *)
(***************************************************************************)
EXTENDS Integers, SequencesExt, FiniteSets

CONSTANT NoKey

NoEvent == <<0, 0>> \* a null event id; its height is a null height

\* The addresses as extractRotationEventPayload yields them: a missing one is
\* null.
OldKey(e) == IF e.lost = "old" THEN NoKey ELSE e.old
NewKey(e) == IF e.lost = "new" THEN NoKey ELSE e.new

HasPayload(e) == e.lost # "address"

Book(rows, fails) == [rows |-> rows, fails |-> fails]

\* A ProjectionFailure row of the key rotation projection.
Drift(e, kind) == [height |-> e.id[1], slot |-> e.slot, of |-> e.type, kind |-> kind]

Report(b, e, kind) == Book(b.rows, b.fails \union {Drift(e, kind)})

Row(status, e, request, applied, cancelled) ==
    [status |-> status, slot |-> e.slot, old |-> OldKey(e), new |-> NewKey(e), due |-> e.due,
     request |-> request, applied |-> applied, cancelled |-> cancelled]

Insert(b, row) == Book(Append(b.rows, row), b.fails)

\* The rows of a set of places become what the event makes of them.
Rewrite(b, places, Become(_)) ==
    Book([i \in DOMAIN b.rows |-> IF i \in places THEN Become(b.rows[i]) ELSE b.rows[i]], b.fails)

\* A row with what an event says of the rotation itself.
Said(r, e) == [r EXCEPT !.old = OldKey(e), !.new = NewKey(e), !.due = e.due]

(***************************************************************************)
(* Requests                                                                *)
(***************************************************************************)
\* A row already made from the event keeps its status: what became of the
\* request is not undone by projecting its height again.
UpsertRequested(b, e) ==
    LET mine == {i \in DOMAIN b.rows : b.rows[i].request = e.id}
    IN  IF mine = {} THEN Insert(b, Row("requested", e, e.id, NoEvent, NoEvent))
        ELSE Rewrite(b, mine, LAMBDA r : Said(r, e))

UpsertImmediate(b, e) ==
    LET mine == {i \in DOMAIN b.rows : b.rows[i].applied = e.id}
    IN  IF mine = {} THEN Insert(b, Row("immediate_applied", e, NoEvent, e.id, NoEvent))
        ELSE Rewrite(b, mine, LAMBDA r : [Said(r, e) EXCEPT !.status = "immediate_applied"])

\* The event a message confirms: one that names no slot is taken to be about
\* the message's slot.  Only a message that was decoded confirms anything.
Consumed(e) == e.lost # "message" /\ HasPayload(e)

\* MsgRotateConsensusKey with the event of its transaction.
ProjectRotationMessage(b, e) ==
    IF e.lost = "message" THEN Report(b, e, "undecoded")
    ELSE IF ~HasPayload(e) THEN Report(b, e, "unreadable")
    ELSE IF e.type = "requested" THEN UpsertRequested(b, e)
    ELSE UpsertImmediate(b, e)

\* A request no message confirmed still makes a row.
ProjectOrphanRequest(b, e) ==
    IF ~HasPayload(e) THEN Report(b, e, "unreadable")
    ELSE Report(UpsertRequested(b, e), e, "missing_message")

(***************************************************************************)
(* What becomes of a request                                               *)
(***************************************************************************)
\* An applied event rewrites the addresses and the height the row is due at; a
\* cancelled one leaves them.
AsApplied(r, e) == [Said(r, e) EXCEPT !.status = "applied", !.applied = e.id]

AsCancelled(r, e) == [r EXCEPT !.status = "cancelled", !.cancelled = e.id]

MarkApplied(b, places, e) == Rewrite(b, places, LAMBDA r : AsApplied(r, e))

MarkCancelled(b, places, e) == Rewrite(b, places, LAMBDA r : AsCancelled(r, e))

\* The requested rows an event may be about.  A cancellation does not carry the
\* height the rotation was due at.
Matching(b, e) ==
    {i \in DOMAIN b.rows :
        /\ b.rows[i].status = "requested"
        /\ b.rows[i].slot = e.slot /\ b.rows[i].new = NewKey(e)
        /\ e.type # "cancelled" => b.rows[i].due = e.due}

Readable(e) == HasPayload(e) /\ e.lost # "slot"

\* The row the event made or marked before, when its height is projected again;
\* else the requested rows it may be about.
About(b, e, source) ==
    LET mine == {i \in DOMAIN b.rows : b.rows[i][source] = e.id}
    IN  IF mine # {} THEN mine ELSE Matching(b, e)

\* One row is marked; of several none is; without one a row is made from the
\* event.  The last two are reported.
ProjectApplied(b, e) ==
    LET rows == About(b, e, "applied")
    IN  IF ~Readable(e) THEN Report(b, e, "unreadable")
        ELSE IF rows = {} THEN Report(Insert(b, Row("applied", e, NoEvent, e.id, NoEvent)),
                                      e, "missing_request")
        ELSE IF Cardinality(rows) > 1 THEN Report(b, e, "ambiguous")
        ELSE MarkApplied(b, rows, e)

ProjectCancelled(b, e) ==
    LET rows == About(b, e, "cancelled")
    IN  IF ~Readable(e) THEN Report(b, e, "unreadable")
        ELSE IF rows = {} THEN Report(Insert(b, Row("cancelled", e, NoEvent, NoEvent, e.id)),
                                      e, "missing_request")
        ELSE IF Cardinality(rows) > 1 THEN Report(b, e, "ambiguous")
        ELSE MarkCancelled(b, rows, e)

(***************************************************************************)
(* A height: a pass over the messages, which come ordered by the hash of   *)
(* their transaction, then passes over the events in their order, for the  *)
(* requests and the applications no message confirmed, those of the end of *)
(* the block with the latter, and for the cancellations.                   *)
(***************************************************************************)
Messages == {"requested", "rotated_in_tx"}

\* The events a pass is about.
Takes(pass, e) ==
    \/ pass = "messages" /\ e.type \in Messages
    \/ pass = "requests" /\ e.type = "requested" /\ ~Consumed(e)
    \/ pass = "applied" /\ \/ e.type = "rotated"
                           \/ e.type = "rotated_in_tx" /\ ~Consumed(e)
    \/ pass = "cancelled" /\ e.type = "cancelled"

Project(pass, b, e) ==
    CASE pass = "messages"  -> ProjectRotationMessage(b, e)
      [] pass = "requests"  -> ProjectOrphanRequest(b, e)
      [] pass = "cancelled" -> ProjectCancelled(b, e)
      [] OTHER              -> ProjectApplied(b, e)

\* The books a pass goes through, one event after the other.
Passing(pass, b, events) ==
    LET book[n \in 0..Len(events)] ==
            IF n = 0 THEN b
            ELSE IF Takes(pass, events[n]) THEN Project(pass, book[n - 1], events[n])
            ELSE book[n - 1]
    IN  book

Pass(pass, b, events) == Passing(pass, b, events)[Len(events)]

ProjectRotationHeight(b, h, messages, events) ==
    LET cleared == Book(b.rows, {f \in b.fails : f.height # h})
        confirmed == Pass("messages", cleared, messages)
        requested == Pass("requests", confirmed, events)
        applied == Pass("applied", requested, events)
    IN  Pass("cancelled", applied, events)
=============================================================================
