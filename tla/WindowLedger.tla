---------------------------- MODULE WindowLedger ----------------------------
(***************************************************************************)
(* The temporal map fed with any events at all, not only those the chain   *)
(* of CoreSlotChain can emit: the handlers of projections/coreslot-        *)
(* temporal-map.ts, one event or rotation at a time, in height order.      *)
(***************************************************************************)
EXTENDS ConsensusWindows

CONSTANTS
    LedgerSlots, Keys,
    LastEvent \* bound: the highest height of an event

ASSUME LedgerAssumption == LastEvent \in Nat \ {0}

VARIABLES ledger, failures, height

ledgerVars == <<ledger, failures, height>>

\* The handlers add failures; the bound on heights makes them finite.
Write(m) == ledger' = m.windows /\ failures' = m.failures

ThisMap == Map(ledger, failures)

LedgerInit == ledger = {} /\ failures = {} /\ height = 1

Lifecycle(type, s, k) ==
    /\ Write(ProjectLifecycleEvent(ThisMap, [type |-> type, slot |-> s, new |-> k], height))
    /\ UNCHANGED height

\* A rotation that is applied at the height it is due.
Rotation(s, old, new) ==
    /\ Write(ProjectRotation(ThisMap, [status |-> "applied", slot |-> s, old |-> old,
                                       new |-> new, due |-> height, applied |-> height]))
    /\ UNCHANGED height

NextHeight == height < LastEvent /\ height' = height + 1 /\ UNCHANGED <<ledger, failures>>

LedgerNext ==
    \/ \E s \in LedgerSlots, k \in Keys :
          Lifecycle("activated", s, k) \/ Lifecycle("deactivated", s, k)
    \/ \E s \in LedgerSlots, old, new \in Keys : Rotation(s, old, new)
    \/ NextHeight

LedgerSpec == LedgerInit /\ [][LedgerNext]_ledgerVars

-----------------------------------------------------------------------------
WindowType == [slot : LedgerSlots, key : Keys, from : Nat \ {0}, to : Nat]

LedgerTypeOK ==
    /\ ledger \subseteq WindowType
    /\ \A w \in ledger : w.to # NoEnd => w.from < w.to
    /\ failures \subseteq [height : 1..LastEvent, slot : LedgerSlots]
    /\ height \in 1..LastEvent

\* A signature names one slot: at no height do two windows of one consensus
\* key, or of one slot, overlap, whatever the events say, so the first row a
\* lookup returns is the only one.
AttributionUnique == Unique(ledger)

\* Evidence is derived up to the map's cursor and never again: an event changes
\* only what the map says of heights from the event's membership height on.
PastIsFinal ==
    [][\A s \in LedgerSlots, h \in 1..(height + 1) :
          KeysAt(ledger', s, h) = KeysAt(ledger, s, h)]_ledgerVars

\* With the type, the part that makes the two inductive: no window begins or
\* ends later than an event of this height can make it.
NoneAhead == \A w \in ledger : w.from <= height + 2 /\ w.to <= height + 2

LedgerInv == LedgerTypeOK /\ NoneAhead /\ AttributionUnique
=============================================================================
