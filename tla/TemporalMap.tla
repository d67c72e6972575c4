---------------------------- MODULE TemporalMap ----------------------------
(***************************************************************************)
(* From the chain's events to the consensus windows: the key rotation      *)
(* projection (projections/coreslot-key-rotation.ts) turns events into     *)
(* CoreSlotConsensusKeyRotation rows, whose status later events change,    *)
(* and the temporal map (projections/coreslot-temporal-map.ts) turns       *)
(* lifecycle events and rotation rows into windows.  Both work a height at *)
(* a time, a transaction each; the map stays behind the rotations and      *)
(* reads their rows as they are by then.                                   *)
(*                                                                         *)
(* An event or a genesis entry may lack what the projections look for.     *)
(* The genesis seed is part of MapInit and ResetMap: what happens when a run  *)
(* ends right after it is in ProjectionPipeline.  Only events of           *)
(* transactions that succeeded are here.                                   *)
(***************************************************************************)
EXTENDS CoreSlotChain, ConsensusWindows

INSTANCE KeyRotations

CONSTANT MaxManual \* bound: re-runs with START_HEIGHT and resets of the key rotations

VARIABLES
    rotations, \* CoreSlotConsensusKeyRotation rows in the order of their ids
    drift,     \* ProjectionFailure rows of the key rotation projection
    rotated,   \* cursor of coreslot_key_rotation
    manual,    \* re-runs and resets so far
    windows,   \* CoreSlotConsensusWindow rows
    failures,  \* ProjectionFailure rows of the temporal map
    mapped     \* cursor of coreslot_temporal_map

rotationVars == <<rotations, drift, rotated, manual>>
mapVars == <<windows, failures, mapped>>
temporalVars == <<chainVars, rotationVars, mapVars>>

\* The Event rows of a height.
EventsAt(h) ==
    [i \in DOMAIN log[h] |->
        [id |-> <<h, i>>, type |-> log[h][i].type, slot |-> log[h][i].slot, old |-> log[h][i].old,
         new |-> log[h][i].new, due |-> log[h][i].due, lost |-> log[h][i].lost]]

(***************************************************************************)
(* Key rotations                                                           *)
(***************************************************************************)
\* The messages of a height in the order of their transactions' hashes, which
\* is any order.
MessagesAt(h) == Orders({e \in Range(EventsAt(h)) : e.type \in Messages})

\* The next height, or with START_HEIGHT one that was projected before; the
\* cursor goes to it.
ProjectRotations ==
    /\ \E h \in 1..Len(log) : \E messages \in MessagesAt(h) :
          /\ \/ h = rotated + 1 /\ UNCHANGED manual
             \/ h <= rotated /\ manual < MaxManual /\ manual' = manual + 1
          /\ LET after == ProjectRotationHeight(Book(rotations, drift), h, messages, EventsAt(h))
             IN  rotations' = after.rows /\ drift' = after.fails
          /\ rotated' = h
    /\ UNCHANGED <<chainVars, mapVars>>

\* RESET_PROJECTION of the key rotations; the map stays as it is.
ResetRotations ==
    /\ manual < MaxManual /\ manual' = manual + 1
    /\ rotations' = <<>> /\ drift' = {} /\ rotated' = 0
    /\ UNCHANGED <<chainVars, mapVars>>

(***************************************************************************)
(* The temporal map                                                        *)
(***************************************************************************)
\* Mutant: a rotation counts where it was requested only.
HeightRequested(r) == {r.request[1]}

\* The heights a rotation row counts at: where it was requested, applied or cancelled.
HeightsOf(r) == {r.request[1], r.applied[1], r.cancelled[1]}

\* An activation without an address opens nothing.
MapLifecycleEvent(m, e) ==
    IF e.type \notin {"activated", "deactivated"} THEN m
    ELSE IF e.type = "activated" /\ e.lost = "new"
    THEN Map(m.windows, m.failures \union {Failure(e.id[1], e.slot)})
    ELSE ProjectLifecycleEvent(m, e, e.id[1])

\* The map after each of a height's events.
MappingEvents(m, events) ==
    LET map[n \in 0..Len(events)] ==
            IF n = 0 THEN m ELSE MapLifecycleEvent(map[n - 1], events[n])
    IN  map

\* A rotation to no known key is refused.  One from no known key replaces the
\* slot's open window, whatever its key, and is refused when there is none.
MapRotation(m, r) ==
    LET open == OpenOf(m.windows, r.slot)
        opened == r.new # NoKey /\ HasWindow(m.windows, r.slot, r.new, MembershipHeight(r.due))
        refused == Map(m.windows, m.failures \union {Failure(r.applied[1], r.slot)})
        At(old) == [status |-> r.status, slot |-> r.slot, old |-> old, new |-> r.new,
                    due |-> r.due, applied |-> r.applied[1]]
    IN  IF r.status \notin {"applied", "immediate_applied"} THEN m
        ELSE IF r.new = NoKey THEN refused
        ELSE IF r.old # NoKey \/ opened THEN ProjectRotation(m, At(r.old))
        ELSE IF Cardinality(open) # 1 THEN refused
        ELSE ProjectRotation(m, At((CHOOSE w \in open : TRUE).key))

\* The map after each of the rotations that count at a height.
MappingRotations(m, h) ==
    LET map[n \in 0..Len(rotations)] ==
            IF n = 0 THEN m
            ELSE IF h \in HeightsOf(rotations[n]) THEN MapRotation(map[n - 1], rotations[n])
            ELSE map[n - 1]
    IN  map

\* The lifecycle events of the height in their order, then the rotations.
MapHeight ==
    /\ mapped < rotated
    /\ LET h == mapped + 1
           cleared == Map(windows, {f \in failures : f.height # h})
           afterEvents == MappingEvents(cleared, EventsAt(h))[Len(log[h])]
           after == MappingRotations(afterEvents, h)[Len(rotations)]
       IN  windows' = after.windows /\ failures' = after.failures /\ mapped' = h
    /\ UNCHANGED <<chainVars, rotationVars>>

\* Failures of the seed are kept at height 0, which no block has: projecting a
\* height deletes the failures of that height.
SeedFailureHeight == 0

\* The active slots of the genesis document validate from block 1; one without
\* a readable address has a failure instead of a window.
SeedGenesisSlot(m, s) ==
    IF s \in nameless
    THEN Map(m.windows, m.failures \union {Failure(SeedFailureHeight, s)})
    ELSE OpenActive(m, s, GenesisKey[s], 1, SeedFailureHeight)

\* The map after each of the genesis slots.
Seeding ==
    LET map[n \in 0..Cardinality(GenesisActive)] ==
            IF n = 0 THEN Map({}, {})
            ELSE SeedGenesisSlot(map[n - 1], AnOrder(GenesisActive)[n])
    IN  map

Seeded == Seeding[Cardinality(GenesisActive)]

\* RESET_PROJECTION of the map and the seed its next run begins with.
ResetMap ==
    /\ windows' = Seeded.windows /\ failures' = Seeded.failures /\ mapped' = 0
    /\ UNCHANGED <<chainVars, rotationVars>>

MapInit ==
    /\ ChainInit
    /\ rotations = <<>> /\ drift = {} /\ rotated = 0 /\ manual = 0
    /\ windows = Seeded.windows /\ failures = Seeded.failures /\ mapped = 0

Chain ==
    /\ ChainNext
    /\ UNCHANGED <<rotationVars, mapVars>>

MapNext == Chain \/ ProjectRotations \/ ResetRotations \/ MapHeight \/ ResetMap

MapSpec == MapInit /\ [][MapNext]_temporalVars

-----------------------------------------------------------------------------
MapTypeOK ==
    /\ windows \subseteq [slot : Slots, key : Keys, from : Nat \ {0}, to : Nat]
    /\ \A w \in windows : w.to # NoEnd => w.from < w.to
    /\ failures \subseteq [height : 0..MaxBlocks, slot : Slots]
    /\ {f.slot : f \in drift} \subseteq Slots
    /\ mapped \in 0..Len(log) /\ rotated \in 0..Len(log)

\* Slots with a failure to show for a wrong window.  A message that was not
\* decoded and a request that was lost are reported too, and no excuse: the
\* event of the application carries all the map needs.
Excused == {f \in drift : f.kind \in {"unreadable", "ambiguous"} /\ f.of \in {"rotated", "rotated_in_tx"}}

Reported == {f.slot : f \in Excused \union failures}

\* Heights whose windows are final once the map has reached its cursor.
Settled == 1..(mapped + 2)

\* The map says who validates: at every height it has settled, a slot has the
\* window of the key it validates with and no other, unless a failure was
\* recorded for the slot; whether the map followed the chain or was rebuilt
\* with the rotation rows far ahead of it.  Slots that change their key while
\* they are not active are the exception InactiveExcluded is about.
MapMatchesValidators ==
    mapped <= rotated => \A s \in Slots \ (Reported \union RotateInactive) : \A h \in Settled :
        KeysAt(windows, s, h) = {members[h][s]} \ {NoKey}

\* A signature names one slot: the lookups take the first covering window, so
\* windows of one key, or of one slot, must not overlap.  A slot that rotates
\* to a key and back in one block while it is not active leaves a window of a
\* moment, which may meet one of another slot that is there early.
AttributionUnique == Unique(windows)

\* Of the other slots none ever do, also while a rebuild opens a rotation's
\* window at the height of its request.
ActiveAttributionUnique == Unique({w \in windows : w.slot \notin RotateInactive})

\* Evidence is derived up to the map's cursor and never again, so a window that
\* a later height opens or closes must not change the past.
PastIsFinal ==
    [][mapped' > mapped =>
        \A s \in Slots, h \in Settled : KeysAt(windows', s, h) = KeysAt(windows, s, h)]_temporalVars

\* What the comment on findActiveCoreSlotWindowsAtHeight says: the windows of a
\* height are those of active slots, closed and inactive ones are excluded; a
\* slot for which a failure was recorded aside.
InactiveExcluded ==
    \A s \in Slots \ Reported, h \in Settled : members[h][s] = NoKey => KeysAt(windows, s, h) = {}
=============================================================================
