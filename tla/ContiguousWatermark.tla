------------------------- MODULE ContiguousWatermark -------------------------
(***************************************************************************)
(* What ingestion promises to every reader of IndexerCursor: heights are   *)
(* stored one by one and never unstored, and the mark may be set to any    *)
(* height whose whole prefix is stored, never beyond a hole.               *)
(***************************************************************************)
EXTENDS Integers

CONSTANT MaxHeight

VARIABLES
    stored, \* heights with a Block row
    mark    \* IndexerCursor.lastIndexedHeight

Init == stored = {} /\ mark = 0

Store(h) ==
    /\ stored' = stored \union {h}
    /\ mark' = mark

Mark(m) ==
    /\ 1..m \subseteq stored
    /\ mark' = m
    /\ stored' = stored

Next ==
    \/ \E h \in 1..MaxHeight : Store(h)
    \/ \E m \in 0..MaxHeight : Mark(m)

Spec == Init /\ [][Next]_<<stored, mark>>
=============================================================================
