-------------------------- MODULE SlotRegistryProofs --------------------------
(***************************************************************************)
(* What holds of SlotRegistry for every number of slots, of heights, of    *)
(* manual interventions and for every history of blocks that satisfies     *)
(* RegistryAssumption: the change tables follow the chain, join a message  *)
(* with its own event only, and account for everything they read.          *)
(***************************************************************************)
EXTENDS SlotRegistry, FiniteSetTheorems, TLAPS

\* Rows of a change table come from the height they name, and a cursor is past
\* a height only when the rows and the failures of that height are there.
RowsInv ==
    /\ chain \in DOMAIN Chains
    /\ cursor \in [Projections -> 0..MaxHeight]
    /\ rows \in [Projections -> SUBSET UNION {RowsAt(p, h) : p \in Projections, h \in Heights}]
    /\ DOMAIN fails = Projections
    /\ \A p \in Projections : \A r \in rows[p] : r.h \in Heights /\ r \in RowsAt(p, r.h)
    /\ \A p \in Projections : \A f \in fails[p] : f.h \in Heights /\ f \in FailsAt(p, f.h)
    /\ \A p \in Projections : \A h \in 1..cursor[p] :
          RowsAt(p, h) \subseteq rows[p] /\ FailsAt(p, h) \subseteq fails[p]

\* The rows and failures of a height carry that height.
LEMMA HeightOfRows ==
    ASSUME chain \in DOMAIN Chains, NEW p \in Projections, NEW h \in Heights
    PROVE  /\ RowsAt(p, h) = RowsIn(Chains[chain], p, h)
           /\ FailsAt(p, h) = FailsIn(Chains[chain], p, h)
           /\ \A r \in RowsAt(p, h) : r.h = h
           /\ \A f \in FailsAt(p, h) : f.h = h
<1>1. /\ RowsAt(p, h) = RowsIn(Chains[chain], p, h)
      /\ FailsAt(p, h) = FailsIn(Chains[chain], p, h)
  BY DEF RowsAt, FailsAt, RowTable, FailTable
<1>2. \A r \in RowsIn(Chains[chain], p, h) : r.h = h
  BY DEF RowsIn, Row
<1>3. \A f \in FailsIn(Chains[chain], p, h) : f.h = h
  BY DEF FailsIn
<1>. QED BY <1>1, <1>2, <1>3

LEMMA InitRows == Init => RowsInv
  BY RegistryAssumption DEF Init, RowsInv, RegistryAssumption

\* One height of one projection.
LEMMA ProjectRows ==
    ASSUME RowsInv, NEW p \in Projections, NEW h \in Heights, NEW base, Project(p, h, base),
           h <= cursor[p] + 1
    PROVE  RowsInv'
<1>. USE DEF RowsInv
<1>1. chain' = chain /\ chain \in DOMAIN Chains BY DEF Project
<1>2. \A q, g : RowsAt(q, g)' = RowsAt(q, g) /\ FailsAt(q, g)' = FailsAt(q, g)
  BY <1>1 DEF RowsAt, FailsAt
<1>3. /\ rows' = [rows EXCEPT ![p] = @ \union RowsAt(p, h)]
      /\ fails' = [fails EXCEPT ![p] = RefreshedFails(p, h)]
      /\ cursor' = [cursor EXCEPT ![p] = h]
  BY DEF Project
<1>4. h \in 0..MaxHeight /\ MaxHeight \in Nat BY RegistryAssumption DEF Heights, RegistryAssumption
<1>5. cursor' \in [Projections -> 0..MaxHeight] BY <1>3, <1>4
<1>6. rows' \in [Projections -> SUBSET UNION {RowsAt(q, g) : q \in Projections, g \in Heights}]
  BY <1>3
<1>7. \A q \in Projections : \A r \in rows'[q] : r.h \in Heights /\ r \in RowsAt(q, r.h)
  <2>. SUFFICES ASSUME NEW q \in Projections, NEW r \in rows'[q]
                PROVE  r.h \in Heights /\ r \in RowsAt(q, r.h)
    OBVIOUS
  <2>1. CASE r \in rows[q] BY <2>1
  <2>2. CASE q = p /\ r \in RowsAt(p, h) BY <2>2, <1>1, HeightOfRows
  <2>. QED BY <1>3, <2>1, <2>2
<1>8. \A q \in Projections : \A f \in fails'[q] : f.h \in Heights /\ f \in FailsAt(q, f.h)
  <2>. SUFFICES ASSUME NEW q \in Projections, NEW f \in fails'[q]
                PROVE  f.h \in Heights /\ f \in FailsAt(q, f.h)
    OBVIOUS
  <2>1. CASE f \in fails[q] BY <2>1
  <2>2. CASE q = p /\ f \in FailsAt(p, h) BY <2>2, <1>1, HeightOfRows
  <2>. QED BY <1>3, <2>1, <2>2 DEF RefreshedFails
<1>9. \A q \in Projections : \A g \in 1..cursor'[q] :
         RowsAt(q, g) \subseteq rows'[q] /\ FailsAt(q, g) \subseteq fails'[q]
  <2>. SUFFICES ASSUME NEW q \in Projections, NEW g \in 1..cursor'[q]
                PROVE  RowsAt(q, g) \subseteq rows'[q] /\ FailsAt(q, g) \subseteq fails'[q]
    OBVIOUS
  <2>1. CASE q # p BY <1>3, <2>1
  <2>2. CASE q = p /\ g = h BY <1>3, <2>2 DEF RefreshedFails
  <2>3. CASE q = p /\ g # h
    <3>1. g \in 1..cursor[p] /\ g \in Heights BY <1>3, <1>4, <2>3 DEF Heights
    <3>2. RowsAt(p, g) \subseteq rows'[p] BY <3>1, <1>3
    <3>3. \A f \in FailsAt(p, g) : f.h = g /\ f \in fails[p] BY <3>1, <1>1, HeightOfRows
    <3>4. FailsAt(p, g) \subseteq fails'[p] BY <3>3, <1>3, <2>3 DEF RefreshedFails
    <3>. QED BY <3>2, <3>4, <2>3
  <2>. QED BY <2>1, <2>2, <2>3
<1>. QED BY <1>1, <1>2, <1>3, <1>5, <1>6, <1>7, <1>8, <1>9

\* A reset of any set of projections.
LEMMA ForgetKeepsRows ==
    ASSUME RowsInv, NEW P \in SUBSET Projections, Forget(P)
    PROVE  RowsInv'
<1>. USE DEF RowsInv
<1>1. chain' = chain BY DEF Forget
<1>2. \A q, g : RowsAt(q, g)' = RowsAt(q, g) /\ FailsAt(q, g)' = FailsAt(q, g)
  BY <1>1 DEF RowsAt, FailsAt
<1>3. /\ rows' = [p \in Projections |-> IF p \in P THEN {} ELSE rows[p]]
      /\ fails' = [p \in Projections |-> IF p \in P THEN {} ELSE fails[p]]
      /\ cursor' = [p \in Projections |-> IF p \in P THEN 0 ELSE cursor[p]]
  BY DEF Forget
<1>4. cursor' \in [Projections -> 0..MaxHeight]
  BY <1>3, RegistryAssumption DEF RegistryAssumption
<1>5. rows' \in [Projections -> SUBSET UNION {RowsAt(q, g) : q \in Projections, g \in Heights}]
  BY <1>3
<1>6. \A q \in Projections :
         /\ \A r \in rows'[q] : r.h \in Heights /\ r \in RowsAt(q, r.h)
         /\ \A f \in fails'[q] : f.h \in Heights /\ f \in FailsAt(q, f.h)
         /\ \A g \in 1..cursor'[q] : RowsAt(q, g) \subseteq rows'[q] /\ FailsAt(q, g) \subseteq fails'[q]
  <2>. SUFFICES ASSUME NEW q \in Projections
                PROVE  /\ \A r \in rows'[q] : r.h \in Heights /\ r \in RowsAt(q, r.h)
                       /\ \A f \in fails'[q] : f.h \in Heights /\ f \in FailsAt(q, f.h)
                       /\ \A g \in 1..cursor'[q] :
                             RowsAt(q, g) \subseteq rows'[q] /\ FailsAt(q, g) \subseteq fails'[q]
    OBVIOUS
  <2>1. CASE q \in P BY <1>3, <2>1
  <2>2. CASE q \notin P BY <1>3, <2>2
  <2>. QED BY <2>1, <2>2
<1>. QED BY <1>1, <1>2, <1>3, <1>4, <1>5, <1>6

LEMMA SameRows ==
    ASSUME RowsInv, UNCHANGED <<chain, cursor, rows, fails>>
    PROVE  RowsInv'
  BY DEF RowsInv, RowsAt, FailsAt

LEMMA NextRows == RowsInv /\ [Next]_vars => RowsInv'
<1>. SUFFICES ASSUME RowsInv, [Next]_vars PROVE RowsInv' OBVIOUS
<1>p. \A p \in Projections : \A h \in Heights : Reachable(p, h) => h <= cursor[p] + 1
  BY DEF Reachable, RowsInv, Heights
<1>1. CASE ProjectMetadata
  <2>1. PICK h \in Heights : Reachable("metadata", h)
              /\ Project("metadata", h, IF h = 1 THEN Seeded(GenesisSlots, slot) ELSE slot)
    BY <1>1 DEF ProjectMetadata
  <2>. QED BY <2>1, <1>p, ProjectRows DEF Projections
<1>2. CASE ProjectLifecycle
  <2>1. PICK h \in Heights : Reachable("lifecycle", h) /\ Project("lifecycle", h, slot)
    BY <1>2 DEF ProjectLifecycle
  <2>. QED BY <2>1, <1>p, ProjectRows DEF Projections
<1>3. CASE ProjectPayout
  <2>1. PICK h \in Heights : Reachable("payout", h) /\ Project("payout", h, slot)
    BY <1>3 DEF ProjectPayout
  <2>. QED BY <2>1, <1>p, ProjectRows DEF Projections
<1>4. CASE ProjectParams
  <2>1. PICK h \in Heights : Reachable("params", h) /\ Project("params", h, slot)
    BY <1>4 DEF ProjectParams
  <2>. QED BY <2>1, <1>p, ProjectRows DEF Projections
<1>5. CASE RotateKeys
  <2>1. PICK h \in Heights : Reachable("rotation", h) /\ Project("rotation", h, slot)
    BY <1>5 DEF RotateKeys
  <2>. QED BY <2>1, <1>p, ProjectRows DEF Projections
<1>6. CASE ProjectStructural
  <2>1. PICK h \in Heights : Reachable("structural", h) /\ Project("structural", h, slot)
    BY <1>6 DEF ProjectStructural
  <2>. QED BY <2>1, <1>p, ProjectRows DEF Projections
<1>7. CASE SeedGenesis BY <1>7, SameRows DEF SeedGenesis
<1>8. CASE RefreshRegistry BY <1>8, SameRows DEF RefreshRegistry
<1>9. ASSUME NEW p \in {"lifecycle", "payout", "params", "rotation", "structural"}, ResetOne(p)
      PROVE  RowsInv'
  BY <1>9, ForgetKeepsRows, {p} \in SUBSET Projections DEF ResetOne, Projections
<1>10. CASE ResetMetadata
  BY <1>10, ForgetKeepsRows, {"metadata"} \in SUBSET Projections DEF ResetMetadata, Projections
<1>11. CASE ResetSemantic
  BY <1>11, ForgetKeepsRows, Semantic \in SUBSET Projections DEF ResetSemantic, Projections, Semantic
<1>12. CASE UNCHANGED vars BY <1>12, SameRows DEF vars
<1>. QED
  BY <1>1, <1>2, <1>3, <1>4, <1>5, <1>6, <1>7, <1>8, <1>9, <1>10, <1>11, <1>12
  DEF Next, MetadataCli, LifecycleCli, PayoutCli, ParamsCli, KeyRotationCli, StructuralCli,
      RebuildCli

LEMMA RowsInvariant == Spec => []RowsInv
  BY InitRows, NextRows, PTL DEF Spec

\* The change tables and failures below a cursor are what one pass gives.
THEOREM HistoryFollowsChainHolds == Spec => []HistoryFollowsChain
<1>1. RowsInv => HistoryFollowsChain
  <2>. SUFFICES ASSUME RowsInv, NEW p \in Projections, NEW h \in 1..cursor[p]
                PROVE  /\ {r \in rows[p] : r.h = h} = RowsAt(p, h)
                       /\ {f \in fails[p] : f.h = h} = FailsAt(p, h)
    BY DEF HistoryFollowsChain
  <2>1. h \in Heights /\ chain \in DOMAIN Chains
    BY RegistryAssumption DEF RowsInv, Heights, RegistryAssumption
  <2>2. \A r \in RowsAt(p, h) : r.h = h BY <2>1, HeightOfRows
  <2>3. \A f \in FailsAt(p, h) : f.h = h BY <2>1, HeightOfRows
  <2>. QED BY <2>2, <2>3 DEF RowsInv
<1>. QED BY <1>1, RowsInvariant, PTL

\* A pair of the four correlated projections has a message the event matches,
\* and that message matches no other event.
LEMMA PairsAreMatches ==
    ASSUME NEW p \in Correlated, NEW tx, NEW r \in Pairs(p, tx), r.m # 0
    PROVE  r.m \in Readable(p, tx) /\ EventsFor(p, tx, r.m) = {r.e}
<1>1. CASE p = "metadata" BY <1>1 DEF Pairs, MetadataPairs, Only
<1>2. CASE p \in {"payout", "params"} BY <1>2 DEF Pairs, MutualPairs, Only
<1>3. CASE p = "lifecycle" BY <1>3 DEF Pairs, LifecyclePairs, MutualPairs, Only, Pair
<1>. QED BY <1>1, <1>2, <1>3 DEF Correlated

\* RegistryAssumption for one message.
LEMMA EmitterMatches ==
    ASSUME NEW c \in DOMAIN Chains, NEW h \in Heights, NEW t \in DOMAIN Chains[c][h],
           NEW p \in Correlated, NEW m \in Readable(p, Chains[c][h][t]),
           EventsFor(p, Chains[c][h][t], m) # {}
    PROVE  \E e \in EventsFor(p, Chains[c][h][t], m) : Chains[c][h][t].events[e].by = m
<1>1. WellFormed(Chains[c][h][t]) BY RegistryAssumption DEF RegistryAssumption, WellFormedBlock
<1>. QED BY <1>1 DEF WellFormed

\* No change row joins a message with another message's event.
THEOREM NeverGuessedHolds == Spec => []NeverGuessed
<1>1. RowsInv => NeverGuessed
  <2>. SUFFICES ASSUME RowsInv, NEW p \in Correlated, NEW r \in rows[p]
                PROVE  /\ Chains[chain][r.h][r.t].ok
                       /\ r.m # 0 => EventOf(Chains[chain], r).by = r.m
    BY DEF NeverGuessed
  <2>1. p \in Projections BY DEF Correlated, Projections
  <2>2. r.h \in Heights /\ chain \in DOMAIN Chains /\ r \in RowsIn(Chains[chain], p, r.h)
    BY <2>1, HeightOfRows DEF RowsInv
  <2>t. PICK t \in Applied(Chains[chain][r.h]) :
            \E q \in Pairs(p, Chains[chain][r.h][t]) : r = Row(r.h, t, q)
    BY <2>2 DEF RowsIn
  <2>3. PICK q \in Pairs(p, Chains[chain][r.h][t]) : r = Row(r.h, t, q)
    BY <2>t
  <2>4. r.t = t /\ r.m = q.m /\ r.e = q.e BY <2>3 DEF Row
  <2>5. Chains[chain][r.h][r.t].ok BY <2>t, <2>4 DEF Applied
  <2>6. ASSUME r.m # 0 PROVE EventOf(Chains[chain], r).by = r.m
    <3>. DEFINE tx == Chains[chain][r.h][t]
    <3>1. q.m \in Readable(p, tx) /\ EventsFor(p, tx, q.m) = {q.e}
      BY <2>3, <2>4, <2>6, PairsAreMatches
    <3>2. t \in DOMAIN Chains[chain][r.h] BY <2>t DEF Applied
    <3>3. \E e \in EventsFor(p, tx, q.m) : tx.events[e].by = q.m
      BY <3>1, <3>2, <2>2, EmitterMatches, {q.e} # {}
    <3>. QED BY <3>1, <3>3, <2>4 DEF EventOf
  <2>. QED BY <2>5, <2>6
<1>. QED BY <1>1, RowsInvariant, PTL

\* A finite set is empty, has one member, or has several.
LEMMA NoneOneOrSeveral ==
    ASSUME NEW S, IsFiniteSet(S), S # {}, ~(\E x : S = {x})
    PROVE  Cardinality(S) > 1
<1>1. PICK x : x \in S OBVIOUS
<1>2. S \ {x} # {} /\ IsFiniteSet(S \ {x}) BY <1>1, FS_RemoveElement
<1>3. Cardinality(S \ {x}) \in Nat /\ Cardinality(S \ {x}) # 0
  BY <1>2, FS_CardinalityType, FS_EmptySet
<1>4. Cardinality(S \ {x}) = Cardinality(S) - 1 /\ Cardinality(S) \in Nat
  BY <1>1, FS_RemoveElement, FS_CardinalityType
<1>. QED BY <1>3, <1>4

\* A message of a successful transaction is paired, or a failure explains it.
LEMMA MessagesAccounted ==
    ASSUME NEW p \in Correlated, NEW tx, NEW m \in MessagesOf(p, tx),
           IsFiniteSet(DOMAIN tx.msgs), IsFiniteSet(DOMAIN tx.events)
    PROVE  (\E r \in Pairs(p, tx) : r.m = m) \/ Explained(p, tx, m, Failures(p, tx))
<1>. DEFINE S == EventsFor(p, tx, m)
<1>f. /\ UnreadableMessages(p, tx) \subseteq Failures(p, tx)
      /\ EventlessMessages(p, tx) \subseteq Failures(p, tx)
      /\ TornMessages(p, tx) \subseteq Failures(p, tx)
      /\ ContestedEvents(p, tx) \subseteq Failures(p, tx)
      /\ p = "lifecycle" => UnreadableEvents(p, tx) \subseteq Failures(p, tx)
  BY DEF Failures, Correlated
<1>1. CASE m \notin Readable(p, tx)
  <2>1. Failure("unreadable", m, 0) \in UnreadableMessages(p, tx) BY <1>1 DEF UnreadableMessages
  <2>. QED BY <2>1, <1>f DEF Explained, Failure
<1>2. CASE m \in Readable(p, tx) /\ S = {}
  <2>1. Failure("missing_event", m, 0) \in EventlessMessages(p, tx) BY <1>2 DEF EventlessMessages
  <2>. QED BY <2>1, <1>f DEF Explained, Failure
<1>3. CASE m \in Readable(p, tx) /\ Cardinality(S) > 1
  <2>1. Failure("ambiguous_event", m, 0) \in TornMessages(p, tx) BY <1>3 DEF TornMessages, Torn
  <2>. QED BY <2>1, <1>f DEF Explained, Failure
<1>4. CASE m \in Readable(p, tx) /\ \E e : S = {e}
  <2>1. PICK e : S = {e} BY <1>4
  <2>2. Only(p, tx, m, e) /\ e \in EventsOf(p, tx) /\ e \in EventsFor(p, tx, m)
    BY <2>1 DEF Only, EventsFor
  <2>3. m \in MessagesFor(p, tx, e) BY <1>4, <2>2 DEF MessagesFor, EventsFor
  <2>p. Pair(m, e) \in [m : Readable(p, tx), e : EventsOf(p, tx)] /\ Pair(m, e).m = m /\ Pair(m, e).e = e
    BY <1>4, <2>2 DEF Pair
  <2>4. CASE p = "metadata"
    <3>1. Pair(m, e) \in Pairs(p, tx) BY <2>4, <2>2, <2>p DEF Pairs, MetadataPairs
    <3>. QED BY <3>1, <2>p
  <2>5. CASE p # "metadata" /\ MessagesFor(p, tx, e) = {m}
    <3>1. Pair(m, e) \in MutualPairs(p, tx) BY <2>5, <2>2, <2>p DEF MutualPairs
    <3>2. CASE p # "lifecycle"
      <4>1. p \in {"payout", "params"} BY <3>2, <2>5 DEF Correlated
      <4>2. Pairs(p, tx) = MutualPairs(p, tx) BY <4>1 DEF Pairs
      <4>. QED BY <4>2, <3>1, <2>p
    <3>3. CASE p = "lifecycle" /\ ~tx.events[e].bad
      <4>1. Pair(m, e) \in LifecyclePairs(tx) BY <3>1, <3>3, <2>p DEF LifecyclePairs
      <4>2. Pairs(p, tx) = LifecyclePairs(tx) BY <3>3 DEF Pairs
      <4>. QED BY <4>1, <4>2, <2>p
    <3>4. CASE p = "lifecycle" /\ tx.events[e].bad
      <4>1. Failure("unreadable_event", 0, e) \in UnreadableEvents(p, tx)
        BY <3>4, <2>2, <2>5, <1>4 DEF UnreadableEvents
      <4>2. Failure("unreadable_event", 0, e).e = e BY DEF Failure
      <4>. QED BY <4>1, <4>2, <1>f, <3>4, <2>2 DEF Explained
    <3>. QED BY <3>2, <3>3, <3>4
  <2>6. CASE p # "metadata" /\ MessagesFor(p, tx, e) # {m}
    <3>1. IsFiniteSet(MessagesFor(p, tx, e))
      BY FS_Subset DEF MessagesFor, Readable, MessagesOf
    <3>2. e \in Contested(p, tx)
      BY <3>1, <2>6, <2>3, <2>2, NoneOneOrSeveral DEF Contested
    <3>3. CASE e \in ContestedReported(p, tx)
      <4>1. Failure("ambiguous_message", 0, e) \in ContestedEvents(p, tx) BY <3>3 DEF ContestedEvents
      <4>2. Failure("ambiguous_message", 0, e).e = e BY DEF Failure
      <4>. QED BY <4>1, <4>2, <1>f, <2>2 DEF Explained
    <3>4. CASE e \notin ContestedReported(p, tx)
      <4>1. PICK k \in Torn(p, tx) : e \in EventsFor(p, tx, k)
        BY <3>2, <3>4, <2>2, <2>6, <1>4 DEF ContestedReported
      <4>2. k \in MessagesFor(p, tx, e) BY <4>1 DEF Torn, MessagesFor, EventsFor
      <4>3. Failure("ambiguous_event", k, 0) \in TornMessages(p, tx) BY <4>1 DEF TornMessages
      <4>4. Failure("ambiguous_event", k, 0).m = k BY DEF Failure
      <4>. QED BY <4>2, <4>3, <4>4, <1>f, <2>2 DEF Explained
    <3>. QED BY <3>3, <3>4
  <2>. QED BY <2>4, <2>5, <2>6
<1>5. IsFiniteSet(S) BY FS_Subset DEF EventsFor, EventsOf
<1>. QED BY <1>1, <1>2, <1>3, <1>4, <1>5, NoneOneOrSeveral

\* An event of a successful transaction is paired, or a failure names it or a
\* message it matches.
LEMMA EventsAccounted ==
    ASSUME NEW p \in Correlated, NEW tx, NEW e \in EventsOf(p, tx),
           IsFiniteSet(DOMAIN tx.msgs), IsFiniteSet(DOMAIN tx.events)
    PROVE  \/ \E r \in Pairs(p, tx) : r.e = e
           \/ \E f \in Failures(p, tx) : f.e = e
           \/ \E m \in MessagesFor(p, tx, e) : \E f \in Failures(p, tx) : f.m = m
<1>f. /\ TornMessages(p, tx) \subseteq Failures(p, tx)
      /\ MessagelessEvents(p, tx) \subseteq Failures(p, tx)
      /\ ContestedEvents(p, tx) \subseteq Failures(p, tx)
      /\ p = "lifecycle" => UnreadableEvents(p, tx) \subseteq Failures(p, tx)
  BY DEF Failures, Correlated
<1>1. CASE MessagesFor(p, tx, e) = {}
  <2>1. CASE p = "lifecycle" /\ tx.events[e].bad
    <3>1. Failure("unreadable_event", 0, e) \in UnreadableEvents(p, tx)
      BY <1>1, <2>1 DEF UnreadableEvents
    <3>. QED BY <3>1, <1>f, <2>1 DEF Failure
  <2>2. CASE ~(p = "lifecycle" /\ tx.events[e].bad)
    <3>1. Failure("missing_message", 0, e) \in MessagelessEvents(p, tx)
      BY <1>1, <2>2 DEF MessagelessEvents
    <3>. QED BY <3>1, <1>f DEF Failure
  <2>. QED BY <2>1, <2>2
<1>2. ASSUME NEW m \in MessagesFor(p, tx, e)
      PROVE  \/ \E r \in Pairs(p, tx) : r.e = e
             \/ \E f \in Failures(p, tx) : f.e = e
             \/ \E k \in MessagesFor(p, tx, e) : \E f \in Failures(p, tx) : f.m = k
  <2>1. m \in Readable(p, tx) /\ e \in EventsFor(p, tx, m) BY DEF MessagesFor, EventsFor
  <2>2. IsFiniteSet(EventsFor(p, tx, m)) /\ IsFiniteSet(MessagesFor(p, tx, e))
    BY FS_Subset DEF EventsFor, EventsOf, MessagesFor, Readable, MessagesOf
  <2>3. CASE EventsFor(p, tx, m) # {e}
    <3>1. m \in Torn(p, tx) BY <2>1, <2>2, <2>3, NoneOneOrSeveral DEF Torn
    <3>2. Failure("ambiguous_event", m, 0) \in TornMessages(p, tx) BY <3>1 DEF TornMessages
    <3>. QED BY <3>2, <1>f DEF Failure
  <2>4. CASE EventsFor(p, tx, m) = {e}
    <3>o. Only(p, tx, m, e) BY <2>4 DEF Only
    <3>p. Pair(m, e) \in [m : Readable(p, tx), e : EventsOf(p, tx)] /\ Pair(m, e).m = m /\ Pair(m, e).e = e
      BY <2>1 DEF Pair
    <3>1. CASE p = "metadata"
      <4>1. Pair(m, e) \in Pairs(p, tx) BY <3>1, <3>o, <3>p DEF Pairs, MetadataPairs
      <4>. QED BY <4>1, <3>p
    <3>2. CASE p # "metadata" /\ MessagesFor(p, tx, e) = {m}
      <4>1. Pair(m, e) \in MutualPairs(p, tx) BY <3>2, <3>o, <3>p DEF MutualPairs
      <4>2. CASE p # "lifecycle"
        <5>1. Pairs(p, tx) = MutualPairs(p, tx) BY <4>2, <3>2 DEF Pairs, Correlated
        <5>. QED BY <5>1, <4>1, <3>p
      <4>3. CASE p = "lifecycle" /\ ~tx.events[e].bad
        <5>1. Pair(m, e) \in LifecyclePairs(tx) BY <4>1, <4>3, <3>p DEF LifecyclePairs
        <5>2. Pairs(p, tx) = LifecyclePairs(tx) BY <4>3 DEF Pairs
        <5>. QED BY <5>1, <5>2, <3>p
      <4>4. CASE p = "lifecycle" /\ tx.events[e].bad
        <5>1. Failure("unreadable_event", 0, e) \in UnreadableEvents(p, tx)
          BY <4>4, <3>2, <3>o, <2>1 DEF UnreadableEvents
        <5>2. Failure("unreadable_event", 0, e).e = e BY DEF Failure
        <5>. QED BY <5>1, <5>2, <1>f, <4>4
      <4>. QED BY <4>2, <4>3, <4>4
    <3>3. CASE p # "metadata" /\ MessagesFor(p, tx, e) # {m}
      <4>1. e \in Contested(p, tx) BY <2>2, <3>3, NoneOneOrSeveral DEF Contested
      <4>2. CASE e \in ContestedReported(p, tx)
        <5>1. Failure("ambiguous_message", 0, e) \in ContestedEvents(p, tx)
          BY <4>2 DEF ContestedEvents
        <5>. QED BY <5>1, <1>f DEF Failure
      <4>3. CASE e \notin ContestedReported(p, tx)
        <5>1. PICK k \in Torn(p, tx) : e \in EventsFor(p, tx, k)
          BY <4>1, <4>3, <3>3, <3>o, <2>1 DEF ContestedReported
        <5>2. k \in MessagesFor(p, tx, e) BY <5>1 DEF Torn, MessagesFor, EventsFor
        <5>3. Failure("ambiguous_event", k, 0) \in TornMessages(p, tx) BY <5>1 DEF TornMessages
        <5>4. Failure("ambiguous_event", k, 0).m = k BY DEF Failure
        <5>. QED BY <5>2, <5>3, <5>4, <1>f
      <4>. QED BY <4>2, <4>3
    <3>. QED BY <3>1, <3>2, <3>3
  <2>. QED BY <2>3, <2>4
<1>. QED BY <1>1, <1>2

\* Below the cursor no message and no event is dropped in silence.
THEOREM NothingLostHolds == Spec => []NothingLost
<1>1. RowsInv => NothingLost
  <2>. SUFFICES ASSUME RowsInv, NEW p \in Correlated, NEW h \in 1..cursor[p],
                       NEW t \in DOMAIN Chains[chain][h], Chains[chain][h][t].ok
                PROVE  LET tx == Chains[chain][h][t]
                           R  == {r \in rows[p] : r.h = h /\ r.t = t}
                           F  == {f.f : f \in {g \in fails[p] : g.h = h /\ g.t = t}}
                       IN  /\ \A m \in MessagesOf(p, tx) :
                                 (\E r \in R : r.m = m) \/ Explained(p, tx, m, F)
                           /\ \A e \in EventsOf(p, tx) :
                                 \/ \E r \in R : r.e = e
                                 \/ \E f \in F : f.e = e
                                 \/ \E m \in MessagesFor(p, tx, e) : \E f \in F : f.m = m
    BY DEF NothingLost
  <2>. DEFINE tx == Chains[chain][h][t]
              R  == {r \in rows[p] : r.h = h /\ r.t = t}
              F  == {f.f : f \in {g \in fails[p] : g.h = h /\ g.t = t}}
  <2>1. p \in Projections /\ h \in Heights /\ chain \in DOMAIN Chains
    BY RegistryAssumption DEF RowsInv, Correlated, Projections, Heights, RegistryAssumption
  <2>2. IsFiniteSet(DOMAIN tx.msgs) /\ IsFiniteSet(DOMAIN tx.events)
    BY <2>1, RegistryAssumption DEF RegistryAssumption, WellFormedBlock, WellFormed
  <2>3. t \in Applied(Chains[chain][h]) BY DEF Applied
  <2>4. ASSUME NEW q \in Pairs(p, tx) PROVE \E r \in R : r.m = q.m /\ r.e = q.e
    <3>1. Row(h, t, q) \in RowsIn(Chains[chain], p, h) BY <2>3, <2>4 DEF RowsIn
    <3>2. Row(h, t, q) \in rows[p] BY <3>1, <2>1, HeightOfRows DEF RowsInv
    <3>. QED BY <3>2 DEF Row
  <2>5. Failures(p, tx) \subseteq F
    <3>. SUFFICES ASSUME NEW f \in Failures(p, tx) PROVE f \in F OBVIOUS
    <3>1. [h |-> h, t |-> t, f |-> f] \in FailsIn(Chains[chain], p, h) BY <2>3 DEF FailsIn
    <3>2. [h |-> h, t |-> t, f |-> f] \in fails[p] BY <3>1, <2>1, HeightOfRows DEF RowsInv
    <3>. QED BY <3>2
  <2>6. ASSUME NEW m \in MessagesOf(p, tx)
        PROVE  (\E r \in R : r.m = m) \/ Explained(p, tx, m, F)
    <3>1. (\E r \in Pairs(p, tx) : r.m = m) \/ Explained(p, tx, m, Failures(p, tx))
      BY <2>2, MessagesAccounted
    <3>2. Explained(p, tx, m, Failures(p, tx)) => Explained(p, tx, m, F) BY <2>5 DEF Explained
    <3>. QED BY <3>1, <3>2, <2>4
  <2>7. ASSUME NEW e \in EventsOf(p, tx)
        PROVE  \/ \E r \in R : r.e = e
               \/ \E f \in F : f.e = e
               \/ \E m \in MessagesFor(p, tx, e) : \E f \in F : f.m = m
    BY <2>2, <2>4, <2>5, EventsAccounted
  <2>. QED BY <2>6, <2>7
<1>. QED BY <1>1, RowsInvariant, PTL

-----------------------------------------------------------------------------
(***************************************************************************)
(* The order of writes.                                                    *)
(***************************************************************************)

\* What the constants are, for one block and one transaction of it.
LEMMA BlockFacts ==
    ASSUME NEW c \in DOMAIN Chains, NEW h \in Heights
    PROVE  /\ IsFiniteSet(DOMAIN Chains[c][h]) /\ DOMAIN Chains[c][h] \subseteq Nat
           /\ \A t, u \in DOMAIN Chains[c][h] : Chains[c][h][t].hash = Chains[c][h][u].hash => t = u
           /\ \A t \in DOMAIN Chains[c][h] :
                 /\ Chains[c][h][t].hash \in Nat
                 /\ WellFormed(Chains[c][h][t])
           /\ \A p \in Projections :
                 Null \notin RowsIn(Chains[c], p, h) /\ Genesis \notin RowsIn(Chains[c], p, h)
                     /\ Live \notin RowsIn(Chains[c], p, h)
  BY RegistryAssumption DEF RegistryAssumption, WellFormedBlock

\* The order on keys, spelled out.
LEMMA LowerOfThree ==
    ASSUME NEW a, NEW b, NEW c, NEW x, NEW y, NEW z
    PROVE  Lower(<<a, b, c>>, <<x, y, z>>) <=> a < x \/ (a = x /\ (b < y \/ (b = y /\ c < z)))
<1>. DEFINE u == <<a, b, c>>  v == <<x, y, z>>
<1>1. DOMAIN u = 1..3 /\ u[1] = a /\ u[2] = b /\ u[3] = c /\ v[1] = x /\ v[2] = y /\ v[3] = z
  OBVIOUS
<1>2. 1..(1 - 1) = {} /\ 1..(2 - 1) = {1} /\ 1..(3 - 1) = {1, 2} /\ 1..3 = {1, 2, 3}
  OBVIOUS
<1>. HIDE DEF u, v
<1>3. Lower(u, v) <=> \/ u[1] < v[1] /\ \A j \in 1..(1 - 1) : u[j] = v[j]
                      \/ u[2] < v[2] /\ \A j \in 1..(2 - 1) : u[j] = v[j]
                      \/ u[3] < v[3] /\ \A j \in 1..(3 - 1) : u[j] = v[j]
  BY <1>1, <1>2 DEF Lower
<1>4. Lower(u, v) <=> a < x \/ (b < y /\ a = x) \/ (c < z /\ a = x /\ b = y)
  BY <1>1, <1>2, <1>3
<1>. QED BY <1>4 DEF u, v

LEMMA LowerOfTwo ==
    ASSUME NEW a, NEW b, NEW x, NEW y
    PROVE  Lower(<<a, b>>, <<x, y>>) <=> a < x \/ (a = x /\ b < y)
<1>. DEFINE u == <<a, b>>  v == <<x, y>>
<1>1. DOMAIN u = 1..2 /\ u[1] = a /\ u[2] = b /\ v[1] = x /\ v[2] = y
  OBVIOUS
<1>2. 1..(1 - 1) = {} /\ 1..(2 - 1) = {1} /\ 1..2 = {1, 2}
  OBVIOUS
<1>. HIDE DEF u, v
<1>3. Lower(u, v) <=> \/ u[1] < v[1] /\ \A j \in 1..(1 - 1) : u[j] = v[j]
                      \/ u[2] < v[2] /\ \A j \in 1..(2 - 1) : u[j] = v[j]
  BY <1>1, <1>2 DEF Lower
<1>4. Lower(u, v) <=> a < x \/ (b < y /\ a = x)
  BY <1>1, <1>2, <1>3
<1>. QED BY <1>4 DEF u, v

\* A finite set that a relation orders strictly and totally has a greatest
\* element: take one with the fewest elements above it.
LEMMA GreatestExists ==
    ASSUME NEW S, IsFiniteSet(S), S # {}, NEW R,
           \A x \in S : <<x, x>> \notin R,
           \A x, y \in S : x # y => <<x, y>> \in R \/ <<y, x>> \in R,
           \A x, y, z \in S : <<x, y>> \in R /\ <<y, z>> \in R => <<x, z>> \in R
    PROVE  \E x \in S : \A y \in S \ {x} : <<y, x>> \in R
<1>. DEFINE Above(x) == {y \in S : <<x, y>> \in R}
            T == {Above(x) : x \in S}
<1>1. IsWellFoundedOn(StrictSubsetOrdering(S), FiniteSubsetsOf(S))
  BY FS_StrictSubsetOrderingWellFounded
<1>2. FiniteSubsetsOf(S) = SUBSET S BY FS_FiniteSubsetsOfFinite
<1>3. \A x \in S : Above(x) \in SUBSET S OBVIOUS
<1>4. \E X \in T : \A Y \in T : ~(<<Y, X>> \in StrictSubsetOrdering(S))
  <2>1. T \subseteq FiniteSubsetsOf(S) /\ T # {}
    <3>. HIDE DEF Above
    <3>. QED BY <1>2, <1>3
  <2>. HIDE DEF T
  <2>. QED BY <1>1, <2>1, WFMin
<1>5. PICK x \in S : \A y \in S : ~(<<Above(y), Above(x)>> \in StrictSubsetOrdering(S))
  <2>. HIDE DEF Above
  <2>. QED BY <1>4
<1>6. ASSUME NEW y \in S, y # x PROVE <<y, x>> \in R
  <2>1. SUFFICES ASSUME <<x, y>> \in R PROVE FALSE BY <1>6
  <2>2. Above(y) \subseteq Above(x) /\ y \in Above(x) /\ y \notin Above(y) BY <2>1
  <2>3. <<Above(y), Above(x)>> \in StrictSubsetOrdering(S)
    BY <2>2 DEF StrictSubsetOrdering
  <2>. QED BY <2>3, <1>5
<1>. QED BY <1>6

\* A pair is one of a message, or none, and an event of the projection.
LEMMA PairShape ==
    ASSUME NEW p \in Projections, NEW tx, WellFormed(tx), NEW r \in Pairs(p, tx)
    PROVE  /\ r = Pair(r.m, r.e)
           /\ r.e \in EventsOf(p, tx) /\ r.e \in DOMAIN tx.events
           /\ r.e \in Nat /\ r.m \in Nat
<1>1. DOMAIN tx.msgs \subseteq Nat \ {0} /\ DOMAIN tx.events \subseteq Nat
      /\ \A e \in DOMAIN tx.events : tx.events[e].index \in Nat
  BY DEF WellFormed
<1>2. Readable(p, tx) \subseteq DOMAIN tx.msgs /\ EventsOf(p, tx) \subseteq DOMAIN tx.events
  BY DEF Readable, MessagesOf, EventsOf
<1>. SUFFICES r = Pair(r.m, r.e) /\ r.e \in EventsOf(p, tx) /\ r.m \in Nat BY <1>1, <1>2
<1>3. ASSUME r \in [m : Readable(p, tx), e : EventsOf(p, tx)]
      PROVE  r = Pair(r.m, r.e) /\ r.e \in EventsOf(p, tx) /\ r.m \in Nat
  BY <1>1, <1>2, <1>3 DEF Pair
<1>4. ASSUME NEW m \in Nat, NEW e \in EventsOf(p, tx), r = Pair(m, e)
      PROVE  r = Pair(r.m, r.e) /\ r.e \in EventsOf(p, tx) /\ r.m \in Nat
  BY <1>4 DEF Pair
<1>5. CASE p = "metadata"
  <2>1. r \in MetadataPairs(tx) BY <1>5 DEF Pairs
  <2>. QED BY <2>1, <1>5, <1>3 DEF MetadataPairs
<1>6. CASE p \in {"payout", "params"}
  <2>1. r \in MutualPairs(p, tx) BY <1>6 DEF Pairs
  <2>. QED BY <2>1, <1>3 DEF MutualPairs
<1>7. CASE p = "lifecycle"
  <2>1. r \in LifecyclePairs(tx) BY <1>7 DEF Pairs
  <2>2. CASE r \in MutualPairs(p, tx) BY <2>2, <1>3 DEF MutualPairs
  <2>3. CASE \E e \in EventsOf(p, tx) : r = Pair(0, e) BY <2>3, <1>4
  <2>. QED BY <2>1, <2>2, <2>3, <1>7 DEF LifecyclePairs
<1>8. CASE p = "structural"
  <2>0. r \in StructuralPairs(tx) BY <1>8 DEF Pairs
  <2>1. PICK e \in EventsOf(p, tx) : r = Pair(MessageFor(tx, e), e)
    BY <2>0, <1>8 DEF StructuralPairs
  <2>2. CandidatesFor(tx, e) \subseteq DOMAIN tx.msgs BY DEF CandidatesFor
  <2>3. MessageFor(tx, e) \in Nat BY <2>2, <1>1 DEF MessageFor
  <2>. QED BY <2>1, <2>3, <1>4
<1>9. CASE p = "rotation"
  <2>1. PICK e \in EventsOf(p, tx) : r = Pair(tx.events[e].index, e)
    BY <1>9 DEF Pairs, RotationPairs
  <2>. QED BY <2>1, <1>1, <1>2, <1>4
<1>. QED BY <1>5, <1>6, <1>7, <1>8, <1>9 DEF Projections

\* An event is in one pair at most: two messages that both match it alone would
\* both have emitted it.
LEMMA OnePairPerEvent ==
    ASSUME NEW p \in Projections, NEW tx, WellFormed(tx),
           NEW q \in Pairs(p, tx), NEW r \in Pairs(p, tx), q.e = r.e
    PROVE  q = r
<1>1. q = Pair(q.m, q.e) /\ r = Pair(r.m, r.e) BY PairShape
<1>2. SUFFICES q.m = r.m BY <1>1
<1>3. CASE p \in Correlated
  <2>1. ASSUME NEW x \in Pairs(p, tx), x.m # 0
        PROVE  tx.events[x.e].by = x.m /\ x.m \in MessagesFor(p, tx, x.e)
    <3>1. x.m \in Readable(p, tx) /\ EventsFor(p, tx, x.m) = {x.e} BY <1>3, <2>1, PairsAreMatches
    <3>2. \E e \in EventsFor(p, tx, x.m) : tx.events[e].by = x.m BY <1>3, <3>1 DEF WellFormed
    <3>. QED BY <3>1, <3>2 DEF MessagesFor, EventsFor
  <2>2. ASSUME NEW x \in Pairs(p, tx), x.m = 0 PROVE MessagesFor(p, tx, x.e) = {}
    <3>0. 0 \notin Readable(p, tx) BY DEF WellFormed, Readable, MessagesOf
    <3>1. p = "lifecycle"
      BY <1>3, <2>2, <3>0 DEF Correlated, Pairs, MetadataPairs, MutualPairs
    <3>. QED BY <2>2, <3>0, <3>1 DEF Pairs, LifecyclePairs, MutualPairs, Pair
  <2>. QED BY <2>1, <2>2
<1>4. CASE p = "structural" BY <1>4 DEF Pairs, StructuralPairs, Pair
<1>5. CASE p = "rotation" BY <1>5 DEF Pairs, RotationPairs, Pair
<1>. QED BY <1>3, <1>4, <1>5 DEF Projections, Correlated

\* What a row that writes a column is.
LEMMA WriterFacts ==
    ASSUME NEW c \in DOMAIN Chains, NEW h \in Heights, NEW p \in Projections, NEW s, NEW col,
           NEW r \in Writers(Chains[c], p, h, s, col)
    PROVE  /\ r.h = h /\ r.t \in DOMAIN Chains[c][h] /\ r.t \in Nat
           /\ r = Row(h, r.t, Pair(r.m, r.e)) /\ Pair(r.m, r.e) \in Pairs(p, Chains[c][h][r.t])
           /\ r.e \in DOMAIN Chains[c][h][r.t].events
           /\ Chains[c][h][r.t].events[r.e].slot = s
           /\ r.e \in Nat /\ r.m \in Nat /\ Chains[c][h][r.t].hash \in Nat
<1>1. r \in RowsIn(Chains[c], p, h) /\ EventOf(Chains[c], r).slot = s BY DEF Writers
<1>2. PICK t \in Applied(Chains[c][h]) : \E q \in Pairs(p, Chains[c][h][t]) : r = Row(h, t, q)
  BY <1>1 DEF RowsIn
<1>3. PICK q \in Pairs(p, Chains[c][h][t]) : r = Row(h, t, q) BY <1>2
<1>4. r.h = h /\ r.t = t /\ r.m = q.m /\ r.e = q.e BY <1>3 DEF Row
<1>5. t \in DOMAIN Chains[c][h] /\ t \in Nat /\ WellFormed(Chains[c][h][t]) /\ Chains[c][h][t].hash \in Nat
  BY <1>2, BlockFacts DEF Applied
<1>6. q = Pair(q.m, q.e) /\ q.e \in DOMAIN Chains[c][h][t].events /\ q.e \in Nat /\ q.m \in Nat
  BY <1>5, PairShape
<1>. QED BY <1>1, <1>3, <1>4, <1>5, <1>6 DEF EventOf

\* A row is known by its transaction and event.
LEMMA WriterOfEvent ==
    ASSUME NEW c \in DOMAIN Chains, NEW h \in Heights, NEW p \in Projections, NEW s, NEW col,
           NEW q \in Writers(Chains[c], p, h, s, col), NEW r \in Writers(Chains[c], p, h, s, col),
           q.t = r.t, q.e = r.e
    PROVE  q = r
<1>1. WellFormed(Chains[c][h][q.t]) BY WriterFacts, BlockFacts
<1>2. Pair(q.m, q.e).e = Pair(r.m, r.e).e BY DEF Pair
<1>3. Pair(q.m, q.e) = Pair(r.m, r.e)
  BY <1>1, <1>2, WriterFacts, OnePairPerEvent
<1>. QED BY <1>3, WriterFacts

\* A height writes a column finitely often.
LEMMA WritersFinite ==
    ASSUME NEW c \in DOMAIN Chains, NEW h \in Heights, NEW p \in Projections, NEW s, NEW col
    PROVE  IsFiniteSet(Writers(Chains[c], p, h, s, col))
<1>. DEFINE W == Writers(Chains[c], p, h, s, col)
            T == DOMAIN Chains[c][h]
            Es == [t \in T |-> DOMAIN Chains[c][h][t].events]
            E == UNION {Es[t] : t \in T}
            f == [r \in W |-> <<r.t, r.e>>]
<1>1. IsFiniteSet(T) /\ \A t \in T : IsFiniteSet(Es[t])
  BY BlockFacts DEF WellFormed
<1>2. \A r \in W : r.t \in T /\ r.e \in Es[r.t] BY WriterFacts
<1>3. \A q, r \in W : q.t = r.t /\ q.e = r.e => q = r BY WriterOfEvent
<1>4. IsFiniteSet(E)
  <2>. DEFINE X == {Es[t] : t \in T}
              g == [t \in T |-> Es[t]]
  <2>1. g \in Surjection(T, X) BY DEF Surjection
  <2>. HIDE DEF g, Es
  <2>2. IsFiniteSet(X)
    <3>. HIDE DEF X
    <3>. QED BY <2>1, <1>1, FS_Surjection
  <2>3. \A Y \in X : IsFiniteSet(Y) BY <1>1
  <2>. QED BY <2>2, <2>3, FS_UNION
<1>5. f \in Injection(W, T \X E)
  <2>1. f \in [W -> T \X E] BY <1>2
  <2>2. \A q, r \in W : f[q] = f[r] => q = r BY <1>3
  <2>. QED BY <2>1, <2>2 DEF Injection, IsInjective
<1>6. IsFiniteSet(T \X E) BY <1>1, <1>4, FS_Product
<1>. QED BY <1>5, <1>6, FS_Injection

\* The order in which a height is applied, and the order of the chain in it.
Applied1st(blocks, p, q, r) == Lower(ApplyKey(blocks, p, q), ApplyKey(blocks, p, r))

Emitted1st(q, r) == q.t < r.t \/ (q.t = r.t /\ q.e < r.e)

\* In structural the two are one.
LEMMA StructuralOrder ==
    ASSUME NEW blocks, NEW q, NEW r
    PROVE  Applied1st(blocks, "structural", q, r) <=> Emitted1st(q, r)
  BY LowerOfTwo DEF Applied1st, ApplyKey, Emitted1st

\* In the others rows with a message come first, then it is the hash that
\* counts, then the message or event.
LEMMA HashOrder ==
    ASSUME NEW blocks, NEW p \in Projections \ {"structural"}, NEW q, NEW r
    PROVE  Applied1st(blocks, p, q, r) <=>
              \/ q.m # 0 /\ r.m = 0
              \/ /\ q.m = 0 <=> r.m = 0
                 /\ \/ blocks[q.h][q.t].hash < blocks[r.h][r.t].hash
                    \/ /\ blocks[q.h][q.t].hash = blocks[r.h][r.t].hash
                       /\ IF r.m = 0 THEN q.e < r.e ELSE q.m < r.m
<1>. DEFINE K1(x) == IF x.m = 0 THEN 1 ELSE 0
            K2(x) == blocks[x.h][x.t].hash
            K3(x) == IF x.m = 0 THEN x.e ELSE x.m
<1>1. ApplyKey(blocks, p, q) = <<K1(q), K2(q), K3(q)>> /\ ApplyKey(blocks, p, r) = <<K1(r), K2(r), K3(r)>>
  BY DEF ApplyKey
<1>2. Applied1st(blocks, p, q, r)
         <=> \/ K1(q) < K1(r)
             \/ K1(q) = K1(r) /\ (K2(q) < K2(r) \/ (K2(q) = K2(r) /\ K3(q) < K3(r)))
  <2>. HIDE DEF K1, K2, K3
  <2>. QED BY <1>1, LowerOfThree DEF Applied1st
<1>3. K1(q) < K1(r) <=> q.m # 0 /\ r.m = 0 OBVIOUS
<1>4. K1(q) = K1(r) <=> (q.m = 0 <=> r.m = 0) OBVIOUS
<1>5. K1(q) = K1(r) => (K3(q) < K3(r) <=> IF r.m = 0 THEN q.e < r.e ELSE q.m < r.m) OBVIOUS
<1>6. K2(q) = blocks[q.h][q.t].hash /\ K2(r) = blocks[r.h][r.t].hash OBVIOUS
<1>. HIDE DEF K1, K2, K3
<1>. QED BY <1>2, <1>3, <1>4, <1>5, <1>6

\* Two rows of one transaction are applied in the order of their events.
LEMMA SameTransaction ==
    ASSUME EventsInOrder, NEW c \in DOMAIN Chains, NEW h \in Heights, NEW p \in Projections, NEW s, NEW col,
           NEW q \in Writers(Chains[c], p, h, s, col), NEW r \in Writers(Chains[c], p, h, s, col),
           q.t = r.t, q.e < r.e
    PROVE  Applied1st(Chains[c], p, q, r)
<1>1. CASE p = "structural" BY <1>1, StructuralOrder DEF Emitted1st
<1>2. CASE p # "structural"
  <2>. DEFINE tx == Chains[c][h][q.t]
  <2>1. InOrder(p, tx) BY <1>2, WriterFacts DEF EventsInOrder
  <2>2. /\ Pair(q.m, q.e) \in Pairs(p, tx) /\ Pair(r.m, r.e) \in Pairs(p, tx)
        /\ tx.events[q.e].slot = tx.events[r.e].slot
        /\ q.h = h /\ r.h = h
    BY WriterFacts
  <2>3. r.m # 0 => q.m # 0 /\ q.m < r.m
    <3>. DEFINE a == Pair(q.m, q.e)  b == Pair(r.m, r.e)
    <3>1. a.m = q.m /\ a.e = q.e /\ b.m = r.m /\ b.e = r.e BY DEF Pair
    <3>. HIDE DEF a, b
    <3>2. a \in Pairs(p, tx) /\ b \in Pairs(p, tx) BY <2>2 DEF a, b
    <3>. QED BY <3>1, <3>2, <2>1, <2>2 DEF InOrder
  <2>4. Applied1st(Chains[c], p, q, r) <=>
              \/ q.m # 0 /\ r.m = 0
              \/ /\ q.m = 0 <=> r.m = 0
                 /\ \/ Chains[c][q.h][q.t].hash < Chains[c][r.h][r.t].hash
                    \/ /\ Chains[c][q.h][q.t].hash = Chains[c][r.h][r.t].hash
                       /\ IF r.m = 0 THEN q.e < r.e ELSE q.m < r.m
    BY <1>2, HashOrder
  <2>. QED BY <2>2, <2>3, <2>4
<1>. QED BY <1>1, <1>2

\* Rows that write one column at one height are applied one after the other.
LEMMA AppliedInTurn ==
    ASSUME EventsInOrder, NEW c \in DOMAIN Chains, NEW h \in Heights, NEW p \in Projections, NEW s, NEW col
    PROVE  LET W == Writers(Chains[c], p, h, s, col)
               Bef(q, r) == Applied1st(Chains[c], p, q, r)
           IN  /\ \A q \in W : ~Bef(q, q)
               /\ \A q, r \in W : q # r => Bef(q, r) \/ Bef(r, q)
               /\ \A q, r, x \in W : Bef(q, r) /\ Bef(r, x) => Bef(q, x)
<1>. DEFINE W == Writers(Chains[c], p, h, s, col)
            Bef(q, r) == Applied1st(Chains[c], p, q, r)
            Key(q) == Chains[c][h][q.t].hash
<1>1. \A q \in W : q.h = h /\ q.t \in DOMAIN Chains[c][h] /\ q.t \in Nat /\ q.e \in Nat /\ q.m \in Nat /\ Key(q) \in Nat
  BY WriterFacts
<1>2. \A q, r \in W : Key(q) = Key(r) => q.t = r.t BY <1>1, BlockFacts
<1>3. \A q, r \in W : q.t = r.t /\ q.e = r.e => q = r BY WriterOfEvent
<1>4. \A q, r \in W : q.t = r.t /\ q.e < r.e => Bef(q, r) BY SameTransaction
<1>5. CASE p = "structural"
  <2>1. \A q, r : Bef(q, r) <=> Emitted1st(q, r) BY <1>5, StructuralOrder
  <2>. HIDE DEF W, Bef, Key
  <2>2. \A q \in W : ~Bef(q, q) BY <2>1, <1>1 DEF Emitted1st
  <2>3. \A q, r \in W : q # r => Bef(q, r) \/ Bef(r, q)
    <3>. SUFFICES ASSUME NEW q \in W, NEW r \in W, q # r PROVE Bef(q, r) \/ Bef(r, q) OBVIOUS
    <3>1. q.t \in Nat /\ q.e \in Nat /\ r.t \in Nat /\ r.e \in Nat BY <1>1
    <3>2. q.t # r.t \/ q.e # r.e BY <1>3
    <3>3. Emitted1st(q, r) \/ Emitted1st(r, q) BY <3>1, <3>2 DEF Emitted1st
    <3>. QED BY <3>3, <2>1
  <2>4. \A q, r, x \in W : Bef(q, r) /\ Bef(r, x) => Bef(q, x) BY <2>1, <1>1 DEF Emitted1st
  <2>. QED BY <2>2, <2>3, <2>4 DEF W, Bef
<1>6. CASE p # "structural"
  <2>1. \A q, r \in W : Bef(q, r) <=>
              \/ q.m # 0 /\ r.m = 0
              \/ /\ q.m = 0 <=> r.m = 0
                 /\ \/ Key(q) < Key(r)
                    \/ /\ Key(q) = Key(r)
                       /\ IF r.m = 0 THEN q.e < r.e ELSE q.m < r.m
    BY <1>1, <1>6, HashOrder
  <2>. HIDE DEF W, Bef, Key
  <2>2. \A q \in W : ~Bef(q, q) BY <2>1, <1>1
  <2>3. \A q, r \in W : q # r => Bef(q, r) \/ Bef(r, q)
    <3>. SUFFICES ASSUME NEW q \in W, NEW r \in W, q # r PROVE Bef(q, r) \/ Bef(r, q) OBVIOUS
    <3>1. CASE Key(q) = Key(r) BY <3>1, <1>1, <1>2, <1>3, <1>4
    <3>2. CASE Key(q) # Key(r) BY <3>2, <1>1, <2>1
    <3>. QED BY <3>1, <3>2
  <2>4. \A q, r, x \in W : Bef(q, r) /\ Bef(r, x) => Bef(q, x) BY <2>1, <1>1
  <2>. QED BY <2>2, <2>3, <2>4 DEF W, Bef
<1>. QED BY <1>5, <1>6

\* What a height leaves in a column is nothing, when no row of it writes the
\* column, or the row that is applied after the others that do.
LEMMA ChangeIsLastApplied ==
    ASSUME EventsInOrder, NEW c \in DOMAIN Chains, NEW h \in Heights, NEW p \in Projections, NEW s, NEW col
    PROVE  LET W == Writers(Chains[c], p, h, s, col)
               v == Change(Chains[c], p, h, s, col)
           IN  /\ W = {} => v = Null
               /\ W # {} => v \in W /\ \A q \in W \ {v} : Applied1st(Chains[c], p, q, v)
<1>. DEFINE W == Writers(Chains[c], p, h, s, col)
            R == {x \in W \X W : Applied1st(Chains[c], p, x[1], x[2])}
            Last(r) == \A q \in W \ {r} : Lower(ApplyKey(Chains[c], p, q), ApplyKey(Chains[c], p, r))
<1>1. CASE W = {} BY <1>1 DEF Change
<1>2. CASE W # {}
  <2>1. IsFiniteSet(W) BY WritersFinite
  <2>2. /\ \A q \in W : ~Applied1st(Chains[c], p, q, q)
        /\ \A q, r \in W : q # r => Applied1st(Chains[c], p, q, r) \/ Applied1st(Chains[c], p, r, q)
        /\ \A q, r, x \in W : Applied1st(Chains[c], p, q, r) /\ Applied1st(Chains[c], p, r, x)
                                 => Applied1st(Chains[c], p, q, x)
    BY AppliedInTurn
  <2>3. \A x, y \in W : <<x, y>> \in R <=> Applied1st(Chains[c], p, x, y) OBVIOUS
  <2>4. \E r \in W : \A q \in W \ {r} : <<q, r>> \in R
    <3>. HIDE DEF W, R
    <3>. QED BY <1>2, <2>1, <2>2, <2>3, GreatestExists
  <2>5. \E r \in W : Last(r) BY <2>3, <2>4 DEF Applied1st
  <2>6. Change(Chains[c], p, h, s, col) = CHOOSE r \in W : Last(r) BY <1>2 DEF Change
  <2>. HIDE DEF W
  <2>7. Change(Chains[c], p, h, s, col) \in W /\ Last(Change(Chains[c], p, h, s, col))
    BY <2>5, <2>6
  <2>. QED BY <2>7, <1>2 DEF Applied1st, W
<1>. QED BY <1>1, <1>2

Filled == {Null, Genesis, Live}

Values == Filled \union UNION {RowsAt(p, h) : p \in Projections, h \in Heights}

\* What height h of p leaves in column c of slot s.
Left(p, h, s, c) == ChangeTable[chain][p][h][s][c]

\* A column that an event wrote holds what some height of a projection that owns
\* it left there, and that projection has left nothing in it since; and a column
\* an owner wrote below its cursor is not back to what no event set, unless the
\* table was emptied behind that owner.
ColumnInv ==
    /\ slot \in [Slots -> [seen : BOOLEAN, col : [Columns -> Values]]]
    /\ wiped \subseteq Projections
    /\ \A s \in Slots : \A c \in Columns :
          slot[s].col[c] \notin Filled =>
              \E p \in Owners(c) : \E g \in Heights :
                  /\ slot[s].col[c] = Left(p, g, s, c)
                  /\ Left(p, g, s, c) # Null
                  /\ \A k \in (g + 1)..cursor[p] : Left(p, k, s, c) = Null
    /\ \A s \in Slots : \A c \in Columns : \A p \in Owners(c) \ wiped : \A h \in 1..cursor[p] :
          Left(p, h, s, c) # Null => slot[s].col[c] \notin Filled

LEMMA OwnersProject == \A c : Owners(c) \subseteq Projections
  BY DEF Owners, Projections

\* A projection writes the columns it owns.
LEMMA WritersOwn ==
    ASSUME NEW blocks, NEW p \in Projections, NEW r, NEW c \in Writes(blocks, p, r)
    PROVE  p \in Owners(c)
<1>1. CASE p = "metadata" BY <1>1 DEF Writes, Owners
<1>2. CASE p = "payout" BY <1>2 DEF Writes, Owners
<1>3. CASE p = "rotation" BY <1>3 DEF Writes, Owners
<1>4. CASE p = "lifecycle"
  <2>1. c \in {"status", "address", "metadata", "payout", "power"} BY <1>4 DEF Writes
  <2>. QED BY <2>1, <1>4 DEF Owners
<1>5. CASE p = "structural"
  <2>1. c \in {"policy", "settlement"} BY <1>5 DEF Writes
  <2>. QED BY <2>1, <1>5 DEF Owners
<1>6. CASE p = "params" BY <1>6 DEF Writes
<1>. QED BY <1>1, <1>2, <1>3, <1>4, <1>5, <1>6 DEF Projections

LEMMA LeftFacts ==
    ASSUME EventsInOrder, chain \in DOMAIN Chains, NEW p \in Projections, NEW h \in Heights,
           NEW s \in Slots, NEW c \in Columns
    PROVE  LET W == Writers(Chains[chain], p, h, s, c)
               v == Left(p, h, s, c)
           IN  /\ W = {} => v = Null
               /\ W # {} => /\ v \in W /\ v \in RowsAt(p, h) /\ v \notin Filled /\ p \in Owners(c)
                            /\ \A q \in W \ {v} : Applied1st(Chains[chain], p, q, v)
<1>. DEFINE W == Writers(Chains[chain], p, h, s, c)
            v == Left(p, h, s, c)
<1>1. v = Change(Chains[chain], p, h, s, c) BY DEF Left, ChangeTable
<1>2. /\ W = {} => v = Null
      /\ W # {} => v \in W /\ \A q \in W \ {v} : Applied1st(Chains[chain], p, q, v)
  BY <1>1, ChangeIsLastApplied
<1>3. ASSUME NEW r \in W PROVE r \in RowsAt(p, h) /\ r \notin Filled /\ p \in Owners(c)
  <2>1. r \in RowsIn(Chains[chain], p, h) /\ c \in Writes(Chains[chain], p, r) BY DEF Writers
  <2>. QED BY <2>1, HeightOfRows, BlockFacts, WritersOwn DEF Filled
<1>. HIDE DEF W, v
<1>4. W # {} => v \in RowsAt(p, h) /\ v \notin Filled /\ p \in Owners(c) BY <1>2, <1>3
<1>. QED BY <1>2, <1>4 DEF W, v

LEMMA LeftValues ==
    ASSUME EventsInOrder, chain \in DOMAIN Chains, NEW p \in Projections, NEW h \in Heights,
           NEW s \in Slots, NEW c \in Columns
    PROVE  /\ Left(p, h, s, c) \in Values
           /\ Left(p, h, s, c) # Null => Left(p, h, s, c) \notin Filled /\ p \in Owners(c)
<1>1. CASE Writers(Chains[chain], p, h, s, c) = {} BY <1>1, LeftFacts DEF Values, Filled
<1>2. CASE Writers(Chains[chain], p, h, s, c) # {}
  <2>1. Left(p, h, s, c) \in RowsAt(p, h) /\ Left(p, h, s, c) \notin Filled /\ p \in Owners(c)
    BY <1>2, LeftFacts
  <2>. QED BY <2>1 DEF Values
<1>. QED BY <1>1, <1>2

LEMMA SameTables ==
    ASSUME chain' = chain
    PROVE  /\ Values' = Values
           /\ \A p, h, s, c : Left(p, h, s, c)' = Left(p, h, s, c)
  BY DEF Values, Left, RowsAt

\* A seed keeps what an event set, and sets nothing that an event would.
LEMMA SeedKeeps ==
    ASSUME NEW S, NEW was \in [Slots -> [seen : BOOLEAN, col : [Columns -> Values]]]
    PROVE  /\ Seeded(S, was) \in [Slots -> [seen : BOOLEAN, col : [Columns -> Values]]]
           /\ \A s \in Slots : \A c \in Columns :
                 /\ was[s].col[c] \in Filled => Seeded(S, was)[s].col[c] \in Filled
                 /\ was[s].col[c] \notin Filled => Seeded(S, was)[s].col[c] = was[s].col[c]
<1>. DEFINE now == Seeded(S, was)
            Kept(s) == /\ now[s] \in [seen : BOOLEAN, col : [Columns -> Values]]
                       /\ \A c \in Columns :
                             /\ was[s].col[c] \in Filled => now[s].col[c] \in Filled
                             /\ was[s].col[c] \notin Filled => now[s].col[c] = was[s].col[c]
<1>1. ASSUME NEW s \in Slots PROVE Kept(s)
  <2>1. was[s] \in [seen : BOOLEAN, col : [Columns -> Values]] OBVIOUS
  <2>2. Genesis \in Values /\ Genesis \in Filled /\ Null \in Filled BY DEF Values, Filled
  <2>3. CASE s \notin S
    <3>1. now[s] = was[s] BY <2>3 DEF Seeded
    <3>. QED BY <3>1, <2>1
  <2>4. CASE s \in S
    <3>1. now[s] = [seen |-> TRUE,
                    col |-> [c \in Columns |-> IF c \in Baseline /\ was[s].col[c] = Null
                                               THEN Genesis ELSE was[s].col[c]]]
      BY <2>4 DEF Seeded
    <3>. HIDE DEF now
    <3>. QED BY <3>1, <2>1, <2>2
  <2>. QED BY <2>3, <2>4
<1>2. now = [s \in Slots |-> now[s]] BY DEF Seeded
<1>. HIDE DEF now
<1>3. now \in [Slots -> [seen : BOOLEAN, col : [Columns -> Values]]] BY <1>1, <1>2
<1>. QED BY <1>1, <1>3 DEF now

LEMMA InitColumns == Init => ColumnInv
<1>. SUFFICES ASSUME Init PROVE ColumnInv OBVIOUS
<1>1. \A s \in Slots : slot[s] = NoSlotRow BY DEF Init
<1>2. \A c \in Columns : NoSlotRow.col[c] = Null BY DEF NoSlotRow
<1>3. NoSlotRow \in [seen : BOOLEAN, col : [Columns -> Values]]
  BY DEF NoSlotRow, Values, Filled
<1>4. slot \in [Slots -> [seen : BOOLEAN, col : [Columns -> Values]]] BY <1>3 DEF Init
<1>5. \A c : \A p \in Owners(c) : cursor[p] = 0 BY OwnersProject DEF Init
<1>. QED BY <1>1, <1>2, <1>4, <1>5 DEF Init, ColumnInv, Filled

\* One height of one projection.
LEMMA ProjectColumns ==
    ASSUME EventsInOrder, RowsInv, ColumnInv, NEW p \in Projections, NEW h \in Heights, NEW S,
           Project(p, h, Seeded(S, slot)), h <= cursor[p] + 1
    PROVE  /\ ColumnInv'
           /\ \A s \in Slots : \A c \in Columns :
                 slot[s].col[c] \notin Filled => slot'[s].col[c] \notin Filled
<1>. DEFINE base == Seeded(S, slot)
<1>1. /\ chain' = chain /\ chain \in DOMAIN Chains /\ wiped' = wiped
      /\ cursor' = [cursor EXCEPT ![p] = h]
      /\ slot' = Projected(p, h, base)
      /\ cursor \in [Projections -> 0..MaxHeight] /\ h \in Nat /\ MaxHeight \in Nat
  BY RegistryAssumption DEF Project, RowsInv, Heights, RegistryAssumption
<1>2. /\ Values' = Values /\ Filled' = Filled
      /\ \A q, g, s, c : Left(q, g, s, c)' = Left(q, g, s, c)
  BY <1>1, SameTables DEF Filled
<1>3. /\ base \in [Slots -> [seen : BOOLEAN, col : [Columns -> Values]]]
      /\ \A s \in Slots : \A c \in Columns :
            /\ slot[s].col[c] \in Filled => base[s].col[c] \in Filled
            /\ slot[s].col[c] \notin Filled => base[s].col[c] = slot[s].col[c]
  BY SeedKeeps DEF ColumnInv
<1>. HIDE DEF base
<1>. DEFINE New(s, c) == IF Left(p, h, s, c) = Null THEN base[s].col[c] ELSE Left(p, h, s, c)
            NewCols(s) == [c \in Columns |-> New(s, c)]
            NewSeen(s) == base[s].seen \/ \E c \in Columns : Left(p, h, s, c) # Null
<1>4. slot' = [s \in Slots |-> [seen |-> NewSeen(s), col |-> NewCols(s)]]
  BY <1>1 DEF Projected, Left
<1>5. \A s \in Slots : slot'[s].col = NewCols(s)
  <2>. HIDE DEF NewCols, NewSeen
  <2>. QED BY <1>4
<1>6. \A s \in Slots : \A c \in Columns :
         /\ slot'[s].col[c] = New(s, c)
         /\ Left(p, h, s, c) \in Values
         /\ Left(p, h, s, c) # Null => Left(p, h, s, c) \notin Filled /\ p \in Owners(c)
  BY <1>1, <1>5, LeftValues
<1>7. slot' \in [Slots -> [seen : BOOLEAN, col : [Columns -> Values]]]
  <2>1. \A s \in Slots : base[s].col \in [Columns -> Values] /\ base[s].seen \in BOOLEAN BY <1>3
  <2>2. \A s \in Slots : \A c \in Columns : New(s, c) \in Values BY <1>6, <2>1
  <2>3. \A s \in Slots : NewSeen(s) \in BOOLEAN BY <2>1
  <2>4. \A s \in Slots : NewCols(s) \in [Columns -> Values]
    <3>. HIDE DEF New
    <3>. QED BY <2>2
  <2>. HIDE DEF NewCols, NewSeen
  <2>. QED BY <1>4, <2>3, <2>4
<1>8. \A s \in Slots : \A c \in Columns :
         slot[s].col[c] \notin Filled => slot'[s].col[c] \notin Filled
  BY <1>3, <1>6
<1>9. ASSUME NEW s \in Slots, NEW c \in Columns, slot'[s].col[c] \notin Filled
      PROVE  \E q \in Owners(c) : \E g \in Heights :
                /\ slot'[s].col[c] = Left(q, g, s, c)
                /\ Left(q, g, s, c) # Null
                /\ \A k \in (g + 1)..cursor'[q] : Left(q, k, s, c) = Null
  <2>1. CASE Left(p, h, s, c) # Null
    <3>1. p \in Owners(c) /\ slot'[s].col[c] = Left(p, h, s, c) BY <2>1, <1>6
    <3>2. (h + 1)..cursor'[p] = {} BY <1>1
    <3>. QED BY <3>1, <3>2, <2>1
  <2>2. CASE Left(p, h, s, c) = Null
    <3>1. slot'[s].col[c] = base[s].col[c] BY <2>2, <1>6
    <3>2. slot[s].col[c] \notin Filled /\ slot'[s].col[c] = slot[s].col[c] BY <3>1, <1>3, <1>9
    <3>3. PICK q \in Owners(c), g \in Heights :
                /\ slot[s].col[c] = Left(q, g, s, c)
                /\ Left(q, g, s, c) # Null
                /\ \A k \in (g + 1)..cursor[q] : Left(q, k, s, c) = Null
      BY <3>2 DEF ColumnInv
    <3>4. ASSUME NEW k \in (g + 1)..cursor'[q] PROVE Left(q, k, s, c) = Null
      <4>0. q \in Projections /\ g \in Nat BY OwnersProject DEF Heights
      <4>1. CASE q # p BY <4>1, <4>0, <3>3, <1>1
      <4>2. CASE q = p /\ k = h BY <4>2, <2>2
      <4>3. CASE q = p /\ k # h
        <5>1. cursor'[q] = h /\ cursor[q] \in Nat /\ h <= cursor[q] + 1 BY <4>3, <1>1
        <5>2. k \in (g + 1)..cursor[q] BY <5>1, <4>3, <4>0, <1>1
        <5>. QED BY <5>2, <3>3
      <4>. QED BY <4>1, <4>2, <4>3
    <3>. QED BY <3>2, <3>3, <3>4
  <2>. QED BY <2>1, <2>2
<1>10. ASSUME NEW s \in Slots, NEW c \in Columns, NEW q \in Owners(c) \ wiped, NEW g \in 1..cursor'[q],
              Left(q, g, s, c) # Null
       PROVE  slot'[s].col[c] \notin Filled
  <2>0. q \in Projections BY OwnersProject
  <2>1. CASE q = p /\ g = h BY <2>1, <1>10, <1>6
  <2>2. CASE ~(q = p /\ g = h)
    <3>1. g \in 1..cursor[q] BY <2>0, <2>2, <1>1
    <3>2. slot[s].col[c] \notin Filled BY <3>1, <1>10 DEF ColumnInv
    <3>. QED BY <3>2, <1>8
  <2>. QED BY <2>1, <2>2
<1>11. ColumnInv'
  <2>1. wiped' \subseteq Projections BY <1>1 DEF ColumnInv
  <2>. QED BY <1>1, <1>2, <1>7, <1>9, <1>10, <2>1 DEF ColumnInv
<1>. QED BY <1>8, <1>11

\* Any step that takes cursors back to 0 or leaves them, keeps what events set
\* and lets a projection out of "wiped" only with its cursor at 0.
LEMMA KeptColumns ==
    ASSUME ColumnInv, chain' = chain, cursor \in [Projections -> 0..MaxHeight],
           \A p \in Projections : cursor'[p] \in {0, cursor[p]},
           wiped' \subseteq Projections,
           \A p \in Projections \ wiped' : p \notin wiped \/ cursor'[p] = 0,
           slot' \in [Slots -> [seen : BOOLEAN, col : [Columns -> Values]]],
           \A s \in Slots : \A c \in Columns :
              /\ slot[s].col[c] \in Filled => slot'[s].col[c] \in Filled
              /\ slot[s].col[c] \notin Filled => slot'[s].col[c] = slot[s].col[c]
    PROVE  ColumnInv'
<1>1. /\ Values' = Values /\ Filled' = Filled
      /\ \A q, g, s, c : Left(q, g, s, c)' = Left(q, g, s, c)
  BY SameTables DEF Filled
<1>2. \A p \in Projections : cursor[p] \in Nat /\ \A g \in Nat : g..cursor'[p] \subseteq (g..cursor[p]) \union (g..0)
  BY RegistryAssumption DEF RegistryAssumption
<1>3. ASSUME NEW s \in Slots, NEW c \in Columns, slot'[s].col[c] \notin Filled
      PROVE  \E q \in Owners(c) : \E g \in Heights :
                /\ slot'[s].col[c] = Left(q, g, s, c)
                /\ Left(q, g, s, c) # Null
                /\ \A k \in (g + 1)..cursor'[q] : Left(q, k, s, c) = Null
  <2>1. slot[s].col[c] \notin Filled /\ slot'[s].col[c] = slot[s].col[c] BY <1>3
  <2>2. PICK q \in Owners(c), g \in Heights :
                /\ slot[s].col[c] = Left(q, g, s, c)
                /\ Left(q, g, s, c) # Null
                /\ \A k \in (g + 1)..cursor[q] : Left(q, k, s, c) = Null
    BY <2>1 DEF ColumnInv
  <2>3. q \in Projections /\ g \in Nat /\ (g + 1)..0 = {} BY OwnersProject DEF Heights
  <2>4. (g + 1)..cursor'[q] \subseteq (g + 1)..cursor[q] BY <2>3, <1>2
  <2>. QED BY <2>1, <2>2, <2>4
<1>4. ASSUME NEW s \in Slots, NEW c \in Columns, NEW q \in Owners(c) \ wiped', NEW g \in 1..cursor'[q],
             Left(q, g, s, c) # Null
      PROVE  slot'[s].col[c] \notin Filled
  <2>1. q \in Projections /\ cursor'[q] # 0 BY OwnersProject
  <2>2. q \notin wiped /\ g \in 1..cursor[q] BY <2>1
  <2>. QED BY <2>2, <1>4 DEF ColumnInv
<1>. QED BY <1>1, <1>3, <1>4 DEF ColumnInv

\* The registry fills the columns nothing has set.
LEMMA RefreshKeeps ==
    ASSUME ColumnInv, RefreshRegistry
    PROVE  /\ slot' \in [Slots -> [seen : BOOLEAN, col : [Columns -> Values]]]
           /\ \A s \in Slots : \A c \in Columns :
                 /\ slot[s].col[c] \in Filled => slot'[s].col[c] \in Filled
                 /\ slot[s].col[c] \notin Filled => slot'[s].col[c] = slot[s].col[c]
<1>. DEFINE New(s, c) == IF slot[s].seen /\ c \in {"weight", "power"} /\ slot[s].col[c] = Null
                         THEN Live ELSE slot[s].col[c]
            NewCols(s) == [c \in Columns |-> New(s, c)]
<1>1. slot' = [s \in Slots |-> [slot[s] EXCEPT !.col = NewCols(s)]]
  BY DEF RefreshRegistry
<1>2. \A s \in Slots : slot[s] \in [seen : BOOLEAN, col : [Columns -> Values]] BY DEF ColumnInv
<1>3. \A s \in Slots : slot'[s] = [seen |-> slot[s].seen, col |-> NewCols(s)]
  <2>. SUFFICES ASSUME NEW s \in Slots PROVE slot'[s] = [seen |-> slot[s].seen, col |-> NewCols(s)]
    OBVIOUS
  <2>. DEFINE n == NewCols(s)  r == slot[s]
  <2>1. slot'[s] = [r EXCEPT !.col = n] BY <1>1
  <2>2. r \in [seen : BOOLEAN, col : [Columns -> Values]] BY <1>2
  <2>. HIDE DEF n, r
  <2>3. [r EXCEPT !.col = n] = [seen |-> r.seen, col |-> n] BY <2>2
  <2>. QED BY <2>1, <2>3 DEF n, r
<1>4. ASSUME NEW s \in Slots PROVE slot'[s].col = NewCols(s)
  <2>. DEFINE n == NewCols(s)
  <2>1. slot'[s] = [seen |-> slot[s].seen, col |-> n] BY <1>3
  <2>. HIDE DEF n
  <2>2. slot'[s].col = n BY <2>1
  <2>. QED BY <2>2 DEF n
<1>5. \A s \in Slots : \A c \in Columns :
         /\ New(s, c) \in Values
         /\ slot[s].col[c] \in Filled => New(s, c) \in Filled
         /\ slot[s].col[c] \notin Filled => New(s, c) = slot[s].col[c]
  <2>1. \A s \in Slots : \A c \in Columns : slot[s].col[c] \in Values BY <1>2
  <2>. QED BY <2>1 DEF Values, Filled
<1>6. \A s \in Slots : NewCols(s) \in [Columns -> Values] /\ \A c \in Columns : NewCols(s)[c] = New(s, c)
  <2>. HIDE DEF New
  <2>. QED BY <1>5
<1>7. slot' \in [Slots -> [seen : BOOLEAN, col : [Columns -> Values]]]
  <2>1. ASSUME NEW s \in Slots PROVE slot'[s] \in [seen : BOOLEAN, col : [Columns -> Values]]
    <3>. DEFINE n == NewCols(s)
    <3>1. slot'[s] = [seen |-> slot[s].seen, col |-> n] BY <1>3
    <3>2. slot[s].seen \in BOOLEAN /\ n \in [Columns -> Values] BY <1>2, <1>6
    <3>. HIDE DEF n
    <3>. QED BY <3>1, <3>2
  <2>2. slot' = [s \in Slots |-> slot'[s]] BY <1>1
  <2>. QED BY <2>1, <2>2
<1>8. \A s \in Slots : \A c \in Columns : slot'[s].col[c] = New(s, c) BY <1>4, <1>6
<1>. QED
  <2>. HIDE DEF New
  <2>. QED BY <1>5, <1>7, <1>8

\* What a step may do to the slot rows: a height is projected over a table that
\* may have been seeded first, or one of the others.
ProjectsHeight(p, h, S) == h <= cursor[p] + 1 /\ Project(p, h, Seeded(S, slot))

LEMMA StepsOfTheTable ==
    ASSUME RowsInv, ColumnInv, [Next]_vars
    PROVE  \/ \E p \in Projections : \E h \in Heights : \E S \in SUBSET GenesisSlots : ProjectsHeight(p, h, S)
           \/ SeedGenesis \/ RefreshRegistry
           \/ \E p \in Projections : ResetOne(p)
           \/ \E P \in SUBSET Projections : Forget(P) /\ EmptyTable(P)
           \/ UNCHANGED vars
<1>. DEFINE Projects == \E p \in Projections : \E h \in Heights : \E S \in SUBSET GenesisSlots :
                           ProjectsHeight(p, h, S)
<1>1. \A p \in Projections : \A h \in Heights : Reachable(p, h) => h <= cursor[p] + 1
  BY DEF Reachable, RowsInv, Heights
<1>2. Seeded({}, slot) = slot BY DEF Seeded, ColumnInv
<1>3. ASSUME NEW p \in Projections, NEW h \in Heights, Reachable(p, h), Project(p, h, slot)
      PROVE  Projects
  <2>1. ProjectsHeight(p, h, {}) BY <1>1, <1>2, <1>3 DEF ProjectsHeight
  <2>. QED BY <2>1
<1>4. ASSUME NEW h \in Heights, Reachable("metadata", h), Project("metadata", h, Seeded(GenesisSlots, slot))
      PROVE  Projects
  <2>1. "metadata" \in Projections BY DEF Projections
  <2>2. ProjectsHeight("metadata", h, GenesisSlots) BY <1>1, <1>4, <2>1 DEF ProjectsHeight
  <2>. QED BY <2>1, <2>2
<1>5. ProjectMetadata => Projects
  BY <1>3, <1>4, "metadata" \in Projections DEF ProjectMetadata, Projections
<1>6. \/ ProjectLifecycle \/ ProjectPayout \/ ProjectParams \/ RotateKeys \/ ProjectStructural
      => Projects
  <2>. HIDE DEF Projects
  <2>. QED BY <1>3 DEF Projections, ProjectLifecycle, ProjectPayout, ProjectParams, RotateKeys, ProjectStructural
<1>7. ResetMetadata => \E P \in SUBSET Projections : Forget(P) /\ EmptyTable(P)
  BY {"metadata"} \in SUBSET Projections DEF ResetMetadata, Projections
<1>8. ResetSemantic => \E P \in SUBSET Projections : Forget(P) /\ EmptyTable(P)
  BY Semantic \in SUBSET Projections DEF ResetSemantic, Semantic, Projections
<1>9. \A p \in {"lifecycle", "payout", "params", "rotation", "structural"} : p \in Projections
  BY DEF Projections
<1>. HIDE DEF Projects
<1>10. \/ Projects \/ SeedGenesis \/ RefreshRegistry
       \/ \E p \in Projections : ResetOne(p)
       \/ \E P \in SUBSET Projections : Forget(P) /\ EmptyTable(P)
       \/ UNCHANGED vars
  BY <1>5, <1>6, <1>7, <1>8, <1>9
  DEF Next, MetadataCli, LifecycleCli, PayoutCli, ParamsCli, KeyRotationCli, StructuralCli, RebuildCli
<1>. QED BY <1>10 DEF Projects

\* What no step does to a value an event gave.
Undone == \E s \in Slots : \E c \in Columns :
             slot[s].col[c] \notin Filled /\ slot'[s].col[c] \in {Genesis, Live}

LEMMA NextColumns ==
    ASSUME EventsInOrder, RowsInv, ColumnInv, [Next]_vars
    PROVE  ColumnInv' /\ ~Undone
<1>0. /\ cursor \in [Projections -> 0..MaxHeight]
      /\ wiped \subseteq Projections
      /\ slot \in [Slots -> [seen : BOOLEAN, col : [Columns -> Values]]]
      /\ Genesis \in Filled /\ Live \in Filled
  BY DEF RowsInv, ColumnInv, Filled
<1>1. ASSUME NEW p \in Projections, NEW h \in Heights, NEW S \in SUBSET GenesisSlots, ProjectsHeight(p, h, S)
      PROVE  ColumnInv' /\ ~Undone
  <2>1. /\ ColumnInv'
        /\ \A s \in Slots : \A c \in Columns :
              slot[s].col[c] \notin Filled => slot'[s].col[c] \notin Filled
    BY <1>1, ProjectColumns DEF ProjectsHeight
  <2>. QED BY <2>1, <1>0 DEF Undone
<1>2. CASE SeedGenesis
  <2>1. PICK S \in SUBSET GenesisSlots : slot' = Seeded(S, slot) BY <1>2 DEF SeedGenesis
  <2>2. /\ slot' \in [Slots -> [seen : BOOLEAN, col : [Columns -> Values]]]
        /\ \A s \in Slots : \A c \in Columns :
              /\ slot[s].col[c] \in Filled => slot'[s].col[c] \in Filled
              /\ slot[s].col[c] \notin Filled => slot'[s].col[c] = slot[s].col[c]
    BY <2>1, <1>0, SeedKeeps
  <2>3. UNCHANGED <<chain, cursor, wiped>> BY <1>2 DEF SeedGenesis
  <2>4. ColumnInv' BY <2>2, <2>3, <1>0, KeptColumns
  <2>. QED BY <2>2, <2>4, <1>0 DEF Undone
<1>3. CASE RefreshRegistry
  <2>1. /\ slot' \in [Slots -> [seen : BOOLEAN, col : [Columns -> Values]]]
        /\ \A s \in Slots : \A c \in Columns :
              /\ slot[s].col[c] \in Filled => slot'[s].col[c] \in Filled
              /\ slot[s].col[c] \notin Filled => slot'[s].col[c] = slot[s].col[c]
    BY <1>3, RefreshKeeps
  <2>2. UNCHANGED <<chain, cursor, wiped>> BY <1>3 DEF RefreshRegistry
  <2>3. ColumnInv' BY <2>1, <2>2, <1>0, KeptColumns
  <2>. QED BY <2>1, <2>3, <1>0 DEF Undone
<1>4. ASSUME NEW p \in Projections, ResetOne(p) PROVE ColumnInv' /\ ~Undone
  <2>1. /\ chain' = chain /\ slot' = slot /\ wiped' = wiped \ {p}
        /\ cursor' = [q \in Projections |-> IF q \in {p} THEN 0 ELSE cursor[q]]
    BY <1>4 DEF ResetOne, Forget
  <2>2. ColumnInv' BY <2>1, <1>0, KeptColumns
  <2>. QED BY <2>1, <2>2, <1>0 DEF Undone
<1>5. ASSUME NEW P \in SUBSET Projections, Forget(P), EmptyTable(P) PROVE ColumnInv' /\ ~Undone
  <2>1. /\ chain' = chain /\ slot' = [s \in Slots |-> NoSlotRow]
        /\ wiped' = {p \in Projections \ P : cursor[p] > 0 \/ p \in wiped}
        /\ cursor' = [q \in Projections |-> IF q \in P THEN 0 ELSE cursor[q]]
    BY <1>5 DEF Forget, EmptyTable
  <2>2. \A s \in Slots : \A c \in Columns : slot'[s].col[c] = Null BY <2>1 DEF NoSlotRow
  <2>3. \A c \in Columns : \A q \in Owners(c) \ wiped' : cursor'[q] = 0
    BY <2>1, <1>0, OwnersProject, RegistryAssumption DEF RegistryAssumption
  <2>4. slot' \in [Slots -> [seen : BOOLEAN, col : [Columns -> Values']]]
    <3>1. NoSlotRow \in [seen : BOOLEAN, col : [Columns -> Values']] BY DEF NoSlotRow, Values, Filled
    <3>. QED BY <3>1, <2>1
  <2>5. Filled' = Filled /\ Null \in Filled /\ \A p, h, s, c : Left(p, h, s, c)' = Left(p, h, s, c)
    BY <2>1, SameTables DEF Filled
  <2>6. ColumnInv'
    <3>1. wiped' \subseteq Projections BY <2>1
    <3>2. \A s \in Slots : \A c \in Columns : slot'[s].col[c] \in Filled' BY <2>2, <2>5
    <3>3. \A c \in Columns : \A q \in Owners(c) \ wiped' : 1..cursor'[q] = {} BY <2>3
    <3>. QED BY <2>4, <3>1, <3>2, <3>3 DEF ColumnInv
  <2>7. Null \notin {Genesis, Live} BY RegistryAssumption DEF RegistryAssumption
  <2>. QED BY <2>2, <2>6, <2>7 DEF Undone
<1>6. CASE UNCHANGED vars
  <2>1. UNCHANGED <<chain, cursor, slot, wiped>> BY <1>6 DEF vars
  <2>2. ColumnInv' BY <2>1, <1>0, KeptColumns
  <2>. QED BY <2>1, <2>2, <1>0 DEF Undone
<1>. QED BY <1>1, <1>2, <1>3, <1>4, <1>5, <1>6, StepsOfTheTable

LEMMA ColumnsInvariant == ASSUME EventsInOrder PROVE Spec => []ColumnInv
<1>1. RowsInv /\ ColumnInv /\ [Next]_vars => ColumnInv' BY NextColumns
<1>. QED BY <1>1, InitColumns, RowsInvariant, PTL DEF Spec

\* A value an event gave is never replaced by the genesis document's or the live
\* registry's.
THEOREM EventNeverUndoneHolds == ASSUME EventsInOrder PROVE Spec => EventNeverUndone
<1>. DEFINE Kept == \A s \in Slots : \A c \in Columns :
                       slot[s].col[c] \notin {Null, Genesis, Live} =>
                          slot'[s].col[c] \notin {Genesis, Live}
<1>1. RowsInv /\ ColumnInv /\ [Next]_vars => [Kept]_vars BY NextColumns DEF Undone, Filled
<1>2. Spec => [][Kept]_vars BY <1>1, RowsInvariant, ColumnsInvariant, PTL DEF Spec
<1>. QED BY <1>2 DEF EventNeverUndone

\* Of the rows a height wrote to a column the one applied last is the latest, or
\* the latest is one of another transaction of the block.
LEMMA LastAppliedIsLatest ==
    ASSUME EventsInOrder, NEW c \in DOMAIN Chains, NEW h \in Heights, NEW p \in Projections, NEW s, NEW col,
           NEW v \in Writers(Chains[c], p, h, s, col),
           \A q \in Writers(Chains[c], p, h, s, col) \ {v} : Applied1st(Chains[c], p, q, v)
    PROVE  \E r \in Writers(Chains[c], p, h, s, col) :
              /\ \A q \in Writers(Chains[c], p, h, s, col) \ {r} : Emitted1st(q, r)
              /\ r = v \/ (p # "structural" /\ r.t # v.t)
<1>. DEFINE W == Writers(Chains[c], p, h, s, col)
            R == {x \in W \X W : Emitted1st(x[1], x[2])}
<1>1. \A q \in W : q.t \in Nat /\ q.e \in Nat BY WriterFacts
<1>2. \A q, r \in W : q.t = r.t /\ q.e = r.e => q = r BY WriterOfEvent
<1>3. \A x, y \in W : <<x, y>> \in R <=> Emitted1st(x, y) OBVIOUS
<1>4. IsFiniteSet(W) /\ W # {} BY WritersFinite
<1>5. \E r \in W : \A q \in W \ {r} : <<q, r>> \in R
  <2>. HIDE DEF W, R
  <2>1. \A x \in W : ~Emitted1st(x, x) BY <1>1 DEF Emitted1st
  <2>2. \A x, y \in W : x # y => Emitted1st(x, y) \/ Emitted1st(y, x)
    <3>. SUFFICES ASSUME NEW x \in W, NEW y \in W, x # y PROVE Emitted1st(x, y) \/ Emitted1st(y, x) OBVIOUS
    <3>1. x.t # y.t \/ x.e # y.e BY <1>2
    <3>. QED BY <3>1, <1>1 DEF Emitted1st
  <2>3. \A x, y, z \in W : Emitted1st(x, y) /\ Emitted1st(y, z) => Emitted1st(x, z)
    BY <1>1 DEF Emitted1st
  <2>. QED BY <1>3, <1>4, <2>1, <2>2, <2>3, GreatestExists
<1>6. PICK r \in W : \A q \in W \ {r} : Emitted1st(q, r)
  <2>. HIDE DEF W, R
  <2>. QED BY <1>3, <1>5
<1>7. CASE r = v BY <1>6, <1>7
<1>8. CASE r # v
  <2>1. Emitted1st(v, r) /\ Applied1st(Chains[c], p, r, v) BY <1>6, <1>8
  <2>2. ~Applied1st(Chains[c], p, v, r) BY <2>1, AppliedInTurn
  <2>3. p # "structural" BY <2>1, <2>2, StructuralOrder
  <2>4. r.t # v.t
    <3>1. SUFFICES ASSUME r.t = v.t PROVE FALSE OBVIOUS
    <3>2. v.e < r.e BY <3>1, <2>1, <1>1 DEF Emitted1st
    <3>. QED BY <3>1, <3>2, <2>2, SameTransaction
  <2>. QED BY <1>6, <2>3, <2>4
<1>. QED BY <1>7, <1>8

\* With its projections at the last block a column holds the latest write of one
\* of them.
THEOREM ColumnsCurrentHolds == ASSUME EventsInOrder PROVE Spec => []ColumnsCurrent
<1>1. ASSUME RowsInv, ColumnInv, NEW s \in Slots, NEW c \in Columns,
             \A p \in Owners(c) : cursor[p] = MaxHeight /\ p \notin wiped
      PROVE  LET writing == {p \in Owners(c) : ColumnWrites(p, s, c) # {}}
                 value   == slot[s].col[c]
             IN  IF writing = {}
                 THEN value \in {Null, Genesis, Live}
                 ELSE \E p \in writing : LatestOf(p, value, ColumnWrites(p, s, c))
  <2>. DEFINE value == slot[s].col[c]
              W(p, h) == Writers(Chains[chain], p, h, s, c)
  <2>0. chain \in DOMAIN Chains /\ MaxHeight \in Nat BY <1>1, RegistryAssumption DEF RowsInv, RegistryAssumption
  <2>1. \A p \in Owners(c) : \A h \in Heights : W(p, h) # {} <=> Left(p, h, s, c) # Null
    BY <2>0, OwnersProject, LeftFacts DEF Filled
  <2>2. CASE value \in Filled
    <3>1. \A p \in Owners(c) : \A h \in Heights : Left(p, h, s, c) = Null
      BY <1>1, <2>2 DEF ColumnInv, Heights
    <3>2. \A p \in Owners(c) : ColumnWrites(p, s, c) = {} BY <3>1, <2>1 DEF ColumnWrites
    <3>. QED BY <2>2, <3>2 DEF Filled
  <2>3. CASE value \notin Filled
    <3>1. PICK p \in Owners(c), g \in Heights :
              /\ value = Left(p, g, s, c)
              /\ Left(p, g, s, c) # Null
              /\ \A k \in (g + 1)..cursor[p] : Left(p, k, s, c) = Null
      BY <1>1, <2>3 DEF ColumnInv
    <3>2. p \in Projections /\ cursor[p] = MaxHeight BY <1>1, OwnersProject
    <3>3. value \in W(p, g) /\ \A q \in W(p, g) \ {value} : Applied1st(Chains[chain], p, q, value)
      BY <2>0, <2>1, <3>1, <3>2, LeftFacts
    <3>4. \A k \in Heights : k > g => W(p, k) = {}
      BY <2>0, <2>1, <3>1, <3>2 DEF Heights
    <3>5. PICK r \in W(p, g) : /\ \A q \in W(p, g) \ {r} : Emitted1st(q, r)
                               /\ r = value \/ (p # "structural" /\ r.t # value.t)
      BY <2>0, <3>2, <3>3, LastAppliedIsLatest
    <3>6. \A q \in ColumnWrites(p, s, c) : q.h \in Heights /\ q \in W(p, q.h) /\ q.h <= g
      <4>1. ASSUME NEW h \in Heights, NEW q \in W(p, h) PROVE q.h = h /\ h <= g
        BY <4>1, <2>0, <3>2, <3>4, WriterFacts DEF Heights
      <4>. QED BY <4>1 DEF ColumnWrites
    <3>7. r.h = g /\ value.h = g /\ g \in Nat BY <2>0, <3>2, <3>3, <3>5, WriterFacts DEF Heights
    <3>8. \A q \in ColumnWrites(p, s, c) \ {r} : Lower(<<q.h, q.t, q.e>>, <<r.h, r.t, r.e>>)
      <4>. SUFFICES ASSUME NEW q \in ColumnWrites(p, s, c) \ {r}
                    PROVE  q.h < r.h \/ (q.h = r.h /\ (q.t < r.t \/ (q.t = r.t /\ q.e < r.e)))
        BY LowerOfThree
      <4>1. CASE q.h = g
        <5>1. Emitted1st(q, r) BY <4>1, <3>5, <3>6
        <5>. QED BY <5>1, <4>1, <3>7 DEF Emitted1st
      <4>2. CASE q.h # g BY <4>2, <3>6, <3>7 DEF Heights
      <4>. QED BY <4>1, <4>2
    <3>9. r \in ColumnWrites(p, s, c) /\ value \in ColumnWrites(p, s, c)
      BY <3>3, <3>5 DEF ColumnWrites
    <3>10. IsLatest(r, ColumnWrites(p, s, c)) BY <3>8, <3>9 DEF IsLatest
    <3>11. LatestOf(p, value, ColumnWrites(p, s, c)) BY <3>5, <3>7, <3>9, <3>10 DEF LatestOf
    <3>. QED BY <3>9, <3>11
  <2>. QED BY <2>2, <2>3
<1>2. RowsInv /\ ColumnInv => ColumnsCurrent BY <1>1 DEF ColumnsCurrent
<1>. QED BY <1>2, RowsInvariant, ColumnsInvariant, PTL

\* Resets and re-runs are counted up to their bound.
LEMMA ManualBounded == Spec => [](manual \in 0..MaxManual)
<1>1. Init => manual \in 0..MaxManual BY RegistryAssumption DEF Init, RegistryAssumption
<1>2. manual \in 0..MaxManual /\ [Next]_vars => (manual \in 0..MaxManual)'
  <2>. SUFFICES ASSUME manual \in 0..MaxManual, [Next]_vars PROVE manual' \in 0..MaxManual OBVIOUS
  <2>. DEFINE Counted == manual' = manual \/ (manual < MaxManual /\ manual' = manual + 1)
  <2>1. \A p : \A h : Reachable(p, h) => Counted BY DEF Reachable
  <2>2. \A P : Forget(P) => Counted BY DEF Forget
  <2>3. SeedGenesis \/ RefreshRegistry \/ UNCHANGED vars => Counted
    BY DEF SeedGenesis, RefreshRegistry, vars
  <2>. HIDE DEF Counted
  <2>4. ProjectMetadata \/ ProjectLifecycle \/ ProjectPayout \/ ProjectParams \/ RotateKeys
        \/ ProjectStructural => Counted
    BY <2>1 DEF ProjectMetadata, ProjectLifecycle, ProjectPayout, ProjectParams, RotateKeys, ProjectStructural
  <2>5. ResetOne("lifecycle") \/ ResetOne("payout") \/ ResetOne("params") \/ ResetOne("rotation")
        \/ ResetOne("structural") => Counted
    BY <2>2 DEF ResetOne
  <2>6. ResetMetadata \/ ResetSemantic => Counted BY <2>2 DEF ResetMetadata, ResetSemantic
  <2>7. Counted
    BY <2>3, <2>4, <2>5, <2>6
    DEF Next, MetadataCli, LifecycleCli, PayoutCli, ParamsCli, KeyRotationCli, StructuralCli, RebuildCli
  <2>. QED BY <2>7, RegistryAssumption DEF Counted, RegistryAssumption
<1>. QED BY <1>1, <1>2, PTL DEF Spec

\* Each variable holds what its table may hold; a column holds a row of a change
\* table of the chain, or what the genesis document or the live registry gave.
THEOREM RegistryTypeCorrect == ASSUME EventsInOrder PROVE Spec => []TypeOK
<1>1. RowsInv /\ ColumnInv /\ manual \in 0..MaxManual => TypeOK
  <2>. SUFFICES ASSUME RowsInv, ColumnInv, manual \in 0..MaxManual PROVE TypeOK OBVIOUS
  <2>1. \A s \in Slots : slot[s] \in [seen : BOOLEAN, col : [Columns -> Values]] BY DEF ColumnInv
  <2>2. \A s \in Slots : \A c \in Columns : slot[s].col[c] \in Values BY <2>1
  <2>. QED BY <2>2 DEF RowsInv, ColumnInv, TypeOK, Values, Filled
<1>. QED BY <1>1, RowsInvariant, ColumnsInvariant, ManualBounded, PTL
=============================================================================
