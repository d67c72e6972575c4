----------------------------- MODULE BlockStore -----------------------------
(***************************************************************************)
(* The canonical Block rows as the projections see them arrive: rows are   *)
(* only added, in an order that leaves fewer than Window holes below any   *)
(* row.  Window is INGEST_CONCURRENCY; IngestRange implements this         *)
(* specification with Window = Cardinality(Workers).                       *)
(***************************************************************************)
EXTENDS Integers, FiniteSets

CONSTANTS
    MaxHeight, \* bound: the highest height of the chain
    Window     \* heights that may be in flight at once

ASSUME BlockStoreAssumption == MaxHeight \in Nat \ {0} /\ Window \in Nat \ {0}

VARIABLE stored \* heights with a Block row

Heights == 1..MaxHeight

HolesBelow(h) == 1..(h - 1) \ stored

StoreInit == stored = {}

StoreBlock(h) ==
    /\ h \notin stored
    /\ Cardinality(HolesBelow(h)) < Window
    /\ stored' = stored \union {h}

StoreNext == \E h \in Heights : StoreBlock(h)

StoreSpec == StoreInit /\ [][StoreNext]_stored
=============================================================================
