--------------------------- MODULE CoreSlotChain ---------------------------
(***************************************************************************)
(* The chain's x/coreslot module as the indexer sees it: an environment,   *)
(* not code of this repository.  A slot is an operator's seat; an active   *)
(* slot validates with one consensus key.  Each block carries events; a    *)
(* change of the validator set at height H is in force from H + 2.         *)
(*                                                                         *)
(* The rules are those docs/research/phase-ab-6-semantic-projection-       *)
(* design.md lists for messages and events (sections 4 and 5).  What the   *)
(* indexer cannot read of an event is settled when its block is stored.    *)
(***************************************************************************)
EXTENDS Integers, Sequences, FiniteSets, Functions

CONSTANTS
    Slots, Keys, NoKey,
    GenesisKey,     \* the key each slot has at genesis
    GenesisActive,  \* the slots that validate from block 1
    RotateInactive, \* workload: slots that change their key while not active
    Lossy,          \* workload: slots an event of which may not be read in full
    RotationDelay,  \* blocks between a request and the rotation of an active slot
    MaxBlocks,      \* bound: blocks
    MaxEvents,      \* bound: transactions' events per block
    MaxLost         \* bound: events and genesis entries that cannot be read in full

ASSUME ChainAssumption ==
    /\ IsFiniteSet(Slots) /\ GenesisKey \in [Slots -> Keys] /\ NoKey \notin Keys
    /\ GenesisActive \subseteq Slots /\ RotateInactive \subseteq Slots /\ Lossy \subseteq Slots
    /\ RotationDelay \in Nat \ {0} /\ MaxBlocks \in Nat /\ MaxEvents \in Nat
    /\ MaxLost \in Nat

VARIABLES
    slot,     \* state of each slot
    block,    \* events of the block being made
    log,      \* events of the blocks made so far
    members,  \* members[h][s]: the key s validates with at height h, or NoKey
    nameless  \* slots whose entry in the genesis document has no readable address

chainVars == <<slot, block, log, members, nameless>>

Now == Len(log) + 1

\* The sequences with each element of a finite set once.
Orders(S) == Bijection(1..Cardinality(S), S)

AnOrder(S) == CHOOSE order \in Orders(S) : TRUE

Event(type, s, old, new, due) ==
    [type |-> type, slot |-> s, old |-> old, new |-> new, due |-> due, lost |-> "nothing"]

\* What may be lost of an event: its message was not decoded, or an attribute
\* is missing ("slot", "old", "new") or malformed ("address": of an event
\* without a message that has the effect of a missing slot).
Losable(e) ==
    CASE e.type \in {"requested", "rotated_in_tx"} -> {"message", "slot", "address", "old", "new"}
      [] e.type = "rotated"   -> {"slot", "old", "new"}
      [] e.type = "cancelled" -> {"slot", "new"}
      [] e.type = "activated" -> {"new"}
      [] OTHER                -> {}

LostIn(blocks) ==
    UNION {{<<h, i>> : i \in {j \in DOMAIN blocks[h] : blocks[h][j].lost # "nothing"}} :
           h \in DOMAIN blocks}

\* The events of a block as they can be read.
Readings(events) ==
    {events} \union
    UNION {{[events EXCEPT ![i].lost = l] : l \in Losable(events[i])} :
           i \in {j \in DOMAIN events : events[j].slot \in Lossy}}

ValidatorSet(state) ==
    [s \in Slots |-> IF state[s].active THEN state[s].key ELSE NoKey]

ChainInit ==
    /\ slot = [s \in Slots |-> [active |-> s \in GenesisActive, key |-> GenesisKey[s],
                                next |-> NoKey, due |-> 0]]
    /\ block = <<>>
    /\ log = <<>>
    /\ members = <<ValidatorSet(slot), ValidatorSet(slot)>>
    /\ nameless \in SUBSET (GenesisActive \intersect Lossy)
    /\ Cardinality(nameless) <= MaxLost

Free(k) == \A s \in Slots : slot[s].key # k /\ slot[s].next # k

Emit(events) ==
    /\ Now <= MaxBlocks
    /\ block' = block \o events
    /\ Len(block') <= MaxEvents
    /\ UNCHANGED <<log, members, nameless>>

\* MsgActivateCoreSlot.
Activate(s) ==
    /\ ~slot[s].active
    /\ slot' = [slot EXCEPT ![s].active = TRUE]
    /\ Emit(<<Event("activated", s, slot[s].key, slot[s].key, Now)>>)

Cancelled(s) == Event("cancelled", s, slot[s].key, slot[s].next, slot[s].due)

\* MsgInactivateCoreSlot and MsgSuspendCoreSlot of an active slot: a pending
\* rotation is cancelled first (lifecycle_change).
Deactivate(s) ==
    /\ slot[s].active
    /\ slot' = [slot EXCEPT ![s].active = FALSE, ![s].next = NoKey, ![s].due = 0]
    /\ LET deactivated == <<Event("deactivated", s, slot[s].key, slot[s].key, Now)>>
       IN  Emit(IF slot[s].next = NoKey THEN deactivated
                ELSE <<Cancelled(s)>> \o deactivated)

\* MsgRotateConsensusKey of an active slot is delayed ...
RequestRotation(s, k) ==
    /\ slot[s].active /\ slot[s].next = NoKey /\ Free(k)
    /\ slot' = [slot EXCEPT ![s].next = k, ![s].due = Now + RotationDelay]
    /\ Emit(<<Event("requested", s, slot[s].key, k, Now + RotationDelay)>>)

\* ... and immediate for any other slot.
RotateNow(s, k) ==
    /\ s \in RotateInactive /\ ~slot[s].active /\ Free(k)
    /\ slot' = [slot EXCEPT ![s].key = k]
    /\ Emit(<<Event("rotated_in_tx", s, slot[s].key, k, Now)>>)

\* Rotations that are due are applied, or cancelled when the chain finds them
\* stale; then the validator set of two blocks later is known.
EndBlock ==
    /\ Now <= MaxBlocks
    /\ LET dueSlots == {s \in Slots : slot[s].next # NoKey /\ slot[s].due <= Now}
       IN  \E stale \in SUBSET dueSlots :
             LET Outcome(s) ==
                   IF s \in stale THEN Cancelled(s)
                   ELSE Event("rotated", s, slot[s].key, slot[s].next, slot[s].due)
                 order == AnOrder(dueSlots)
             IN  /\ slot' = [s \in Slots |->
                       IF s \in dueSlots
                       THEN [slot[s] EXCEPT !.key = IF s \in stale THEN @ ELSE slot[s].next,
                                            !.next = NoKey, !.due = 0]
                       ELSE slot[s]]
                 /\ \E seen \in Readings(block \o [i \in DOMAIN order |-> Outcome(order[i])]) :
                        log' = Append(log, seen)
    /\ Cardinality(LostIn(log')) + Cardinality(nameless) <= MaxLost
    /\ members' = Append(members, ValidatorSet(slot'))
    /\ block' = <<>>
    /\ UNCHANGED nameless

ChainNext ==
    \/ \E s \in Slots : Activate(s) \/ Deactivate(s)
    \/ \E s \in Slots, k \in Keys : RequestRotation(s, k) \/ RotateNow(s, k)
    \/ EndBlock
=============================================================================
