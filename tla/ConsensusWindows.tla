-------------------------- MODULE ConsensusWindows --------------------------
(***************************************************************************)
(* CoreSlotConsensusWindow rows: a slot validates with a key from one      *)
(* height up to, not including, another.  The operators and the event      *)
(* handlers of projections/coreslot-temporal-map.ts that look them up,     *)
(* close and open them.  What a row says of its origin (opened by, closed  *)
(* by, raw JSON, power) is left out.                                       *)
(***************************************************************************)
EXTENDS Integers

NoEnd == 0 \* a null effectiveToHeight: the window is open

KeyWindow(s, k, from, to) == [slot |-> s, key |-> k, from |-> from, to |-> to]

Covers(w, h) == w.from <= h /\ (w.to = NoEnd \/ h < w.to)

OpenOf(W, s) == {w \in W : w.slot = s /\ w.to = NoEnd}

HasWindow(W, s, k, h) == \E w \in W : w.slot = s /\ w.key = k /\ Covers(w, h)

\* Mutant: the end is taken for the last height that is covered.
CloseAfter(W, closing, to) ==
    {IF w \in closing /\ w.from < to THEN KeyWindow(w.slot, w.key, w.from, to + 1) ELSE w : w \in W}

\* Each of the windows that can end at the height does.
Close(W, closing, to) ==
    {IF w \in closing /\ w.from < to THEN KeyWindow(w.slot, w.key, w.from, to) ELSE w : w \in W}

CanClose(closing, to) == \A w \in closing : w.from < to

\* The key is another slot's at that height.
Taken(W, s, k, h) == \E w \in W : w.slot # s /\ w.key = k /\ Covers(w, h)

\* Whether the window can be opened; when it cannot, a failure is recorded.
CanOpen(W, s, k, from) ==
    \/ HasWindow(W, s, k, from)
    \/ CanClose(OpenOf(W, s), from) /\ ~Taken(W, s, k, from)

Opened(W, s, k, from) == IF CanOpen(W, s, k, from) THEN {KeyWindow(s, k, from, NoEnd)} ELSE {}

\* The slot's open windows end where the new one begins, even when the new one
\* is then refused.
Open(W, s, k, from) ==
    IF HasWindow(W, s, k, from) THEN W
    ELSE Close(W, OpenOf(W, s), from) \union Opened(W, s, k, from)

(***************************************************************************)
(* The handlers work on the windows and on the ProjectionFailure rows.     *)
(***************************************************************************)
Map(W, F) == [windows |-> W, failures |-> F]

Failure(h, s) == [height |-> h, slot |-> s]

\* Mutant: a change of the validator set counts from the next block on.
MembershipHeightNext(h) == h + 1

\* A change of the validator set at height h counts from h + 2 on.
MembershipHeight(h) == h + 2

OpenActive(m, s, k, from, h) ==
    Map(Open(m.windows, s, k, from),
        m.failures \union IF CanOpen(m.windows, s, k, from) THEN {} ELSE {Failure(h, s)})

CloseActive(m, closing, to, h) ==
    Map(Close(m.windows, closing, to),
        m.failures \union {Failure(h, w.slot) : w \in {v \in closing : ~(v.from < to)}})

ProjectLifecycleEvent(m, e, h) ==
    IF e.type = "activated"
    THEN OpenActive(m, e.slot, e.new, MembershipHeight(h), h)
    ELSE CloseActive(m, OpenOf(m.windows, e.slot), MembershipHeight(h), h)

\* The window of the old key ends, unless the new key's window is there already.
Replaced(m, r, from) ==
    IF HasWindow(m.windows, r.slot, r.new, from) THEN {}
    ELSE {w \in OpenOf(m.windows, r.slot) : w.key = r.old}

\* A rotation counts with the status its row has now.
ProjectRotation(m, r) ==
    LET from == MembershipHeight(r.due)
        closing == Replaced(m, r, from)
        closed == CloseActive(m, closing, from, r.applied)
    IN  IF r.status \notin {"applied", "immediate_applied"} THEN m
        ELSE IF ~CanClose(closing, from) THEN closed
        ELSE OpenActive(closed, r.slot, r.new, from, r.applied)

-----------------------------------------------------------------------------
Disjoint(v, w) == \/ v.to # NoEnd /\ v.to <= w.from
                  \/ w.to # NoEnd /\ w.to <= v.from

Unique(W) == \A v, w \in W : v # w /\ (v.slot = w.slot \/ v.key = w.key) => Disjoint(v, w)

KeysAt(W, s, h) == {w.key : w \in {v \in W : v.slot = s /\ Covers(v, h)}}
=============================================================================
