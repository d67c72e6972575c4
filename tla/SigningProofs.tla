------------------------- MODULE SigningProofs -------------------------
(***************************************************************************)
(* The temporal map keeps attribution unique and the past final for any    *)
(* slots, keys, heights and events.  Liveness rows are truthful, summaries *)
(* are those of all rows, and a normal network is one in which nobody was  *)
(* absent, for any votes and mistakes of the map.                          *)
(***************************************************************************)
EXTENDS WindowLedger, SigningHealth, FiniteSetTheorems, WellFoundedInduction, TLAPS

\* Windows of the right type that end after they begin.
Typed(W) == W \subseteq WindowType /\ \A w \in W : w.to # NoEnd => w.from < w.to

\* No window begins or ends after the height.
Within(W, h) == \A w \in W : w.from <= h /\ w.to <= h

Good(W, h) == Typed(W) /\ Within(W, h) /\ Unique(W)

\* What a set of windows says of the heights below one does not change.
SameBelow(V, W, h) == \A s \in LedgerSlots, x \in Nat : x < h => KeysAt(V, s, x) = KeysAt(W, s, x)

LEMMA MembershipHeightNat ==
    ASSUME NEW h \in 1..LastEvent
    PROVE  MembershipHeight(h) \in Nat /\ MembershipHeight(h) = h + 2 /\ MembershipHeight(h) > 1
BY LedgerAssumption DEF MembershipHeight, LedgerAssumption

\* Ending open windows of one slot at a height no other boundary exceeds.
LEMMA CloseKeepsGood ==
    ASSUME NEW W, NEW s, NEW closing \in SUBSET OpenOf(W, s), NEW h \in Nat,
           Good(W, h)
    PROVE  Good(Close(W, closing, h), h)
<1> DEFINE Ended(w) == IF w \in closing /\ w.from < h
                       THEN KeyWindow(w.slot, w.key, w.from, h) ELSE w
<1>0. Close(W, closing, h) = {Ended(w) : w \in W}
  BY DEF Close
<1>1. \A w \in W : /\ w \in WindowType /\ Ended(w) \in WindowType
                   /\ Ended(w).slot = w.slot /\ Ended(w).key = w.key /\ Ended(w).from = w.from
                   /\ \/ Ended(w) = w
                      \/ w.to = NoEnd /\ Ended(w).to = h /\ w.from < h
  BY DEF Good, Typed, WindowType, OpenOf, KeyWindow, NoEnd
<1>2. Typed({Ended(w) : w \in W})
  BY <1>1 DEF Good, Typed, NoEnd, WindowType
<1>3. Within({Ended(w) : w \in W}, h)
  BY <1>1 DEF Good, Within, WindowType
<1>4. Unique({Ended(w) : w \in W})
  <2> SUFFICES ASSUME NEW v \in W, NEW w \in W, Ended(v) # Ended(w),
                      v.slot = w.slot \/ v.key = w.key
               PROVE  Disjoint(Ended(v), Ended(w))
    BY <1>1 DEF Unique
  <2>1. Disjoint(v, w)
    BY DEF Good, Unique
  <2> QED BY <1>1, <2>1 DEF Disjoint, NoEnd, WindowType
<1> HIDE DEF Ended
<1> QED BY <1>0, <1>2, <1>3, <1>4 DEF Good

LEMMA CloseKeepsPast ==
    ASSUME NEW W, NEW s, NEW closing \in SUBSET OpenOf(W, s), NEW h \in Nat,
           Typed(W)
    PROVE  SameBelow(Close(W, closing, h), W, h)
<1> DEFINE Ended(w) == IF w \in closing /\ w.from < h
                       THEN KeyWindow(w.slot, w.key, w.from, h) ELSE w
<1>0. Close(W, closing, h) = {Ended(w) : w \in W}
  BY DEF Close
<1>1. \A w \in W : /\ w \in WindowType
                   /\ Ended(w).slot = w.slot /\ Ended(w).key = w.key /\ Ended(w).from = w.from
                   /\ \/ Ended(w) = w
                      \/ w.to = NoEnd /\ Ended(w).to = h /\ h > 0
  BY DEF Typed, WindowType, OpenOf, KeyWindow, NoEnd
<1>2. ASSUME NEW w \in W, NEW x \in Nat, x < h
      PROVE  Covers(Ended(w), x) <=> Covers(w, x)
  BY <1>1, <1>2 DEF Covers, NoEnd, WindowType
<1> HIDE DEF Ended
<1>3. ASSUME NEW t \in LedgerSlots, NEW x \in Nat, x < h
      PROVE  KeysAt({Ended(w) : w \in W}, t, x) = KeysAt(W, t, x)
  <2>1. \A k \in KeysAt({Ended(w) : w \in W}, t, x) : k \in KeysAt(W, t, x)
    BY <1>1, <1>2, <1>3 DEF KeysAt
  <2>2. \A k \in KeysAt(W, t, x) : k \in KeysAt({Ended(w) : w \in W}, t, x)
    <3> SUFFICES ASSUME NEW w \in W, w.slot = t, Covers(w, x)
                 PROVE  w.key \in KeysAt({Ended(v) : v \in W}, t, x)
      BY DEF KeysAt
    <3>1. Ended(w).slot = t /\ Ended(w).key = w.key /\ Covers(Ended(w), x)
      BY <1>1, <1>2, <1>3
    <3> QED BY <3>1 DEF KeysAt
  <2> QED BY <2>1, <2>2
<1> QED BY <1>0, <1>3 DEF SameBelow

LEMMA OpenKeepsGood ==
    ASSUME NEW W, NEW s \in LedgerSlots, NEW k \in Keys, NEW h \in Nat, h > 0,
           Good(W, h)
    PROVE  Good(Open(W, s, k, h), h)
<1>1. CASE HasWindow(W, s, k, h)
  BY <1>1 DEF Open
<1>2. CASE ~HasWindow(W, s, k, h)
  <2> DEFINE C == Close(W, OpenOf(W, s), h)
  <2>1. Good(C, h)
    BY CloseKeepsGood
  <2>2. CASE ~CanOpen(W, s, k, h)
    BY <1>2, <2>1, <2>2 DEF Open, Opened
  <2>3. CASE CanOpen(W, s, k, h)
    <3> DEFINE n == KeyWindow(s, k, h, NoEnd)
    <3>1. Open(W, s, k, h) = C \union {n}
      BY <1>2, <2>3 DEF Open, Opened
    <3>2. CanClose(OpenOf(W, s), h) /\ ~Taken(W, s, k, h)
      BY <1>2, <2>3 DEF CanOpen
    <3>3. n \in WindowType /\ n.slot = s /\ n.key = k /\ n.from = h /\ n.to = NoEnd
      BY DEF KeyWindow, WindowType, NoEnd
    <3>4. ASSUME NEW c \in C, c.slot = s \/ c.key = k
          PROVE  c.to # NoEnd /\ c.to <= h
      <4>1. PICK w \in W : c = IF w \in OpenOf(W, s) /\ w.from < h
                               THEN KeyWindow(w.slot, w.key, w.from, h) ELSE w
        BY DEF Close
      <4>2. w \in WindowType /\ w.from <= h /\ w.to <= h /\ c.slot = w.slot /\ c.key = w.key
        BY <4>1 DEF Good, Typed, Within, KeyWindow
      <4>3. CASE w.slot = s
        BY <3>2, <4>1, <4>2, <4>3 DEF OpenOf, CanClose, KeyWindow, NoEnd, WindowType
      <4>4. CASE w.slot # s
        <5>1. w.key = k /\ c = w /\ ~Covers(w, h)
          BY <3>2, <3>4, <4>1, <4>2, <4>4 DEF Taken, OpenOf
        <5> QED BY <4>2, <5>1 DEF Covers, NoEnd, WindowType
      <4> QED BY <4>3, <4>4
    <3>5. Typed(C \union {n}) /\ Within(C \union {n}, h)
      BY <2>1, <3>3 DEF Good, Typed, Within, NoEnd
    <3> HIDE DEF n, C
    <3>6. Unique(C \union {n})
      <4> SUFFICES ASSUME NEW v \in C \union {n}, NEW w \in C \union {n}, v # w,
                          v.slot = w.slot \/ v.key = w.key
                   PROVE  Disjoint(v, w)
        BY DEF Unique
      <4>1. CASE v \in C /\ w \in C
        BY <2>1, <4>1 DEF Good, Unique
      <4>2. CASE v = n /\ w \in C
        BY <3>3, <3>4, <4>2 DEF Disjoint
      <4>3. CASE w = n /\ v \in C
        BY <3>3, <3>4, <4>3 DEF Disjoint
      <4> QED BY <4>1, <4>2, <4>3
    <3> QED BY <3>1, <3>5, <3>6 DEF Good
  <2> QED BY <2>2, <2>3
<1> QED BY <1>1, <1>2

LEMMA OpenKeepsPast ==
    ASSUME NEW W, NEW s \in LedgerSlots, NEW k \in Keys, NEW h \in Nat, Typed(W)
    PROVE  SameBelow(Open(W, s, k, h), W, h)
<1>1. CASE HasWindow(W, s, k, h)
  BY <1>1 DEF Open, SameBelow
<1>2. CASE ~HasWindow(W, s, k, h)
  <2> DEFINE C == Close(W, OpenOf(W, s), h)
  <2>1. SameBelow(C, W, h)
    BY CloseKeepsPast
  <2>2. Open(W, s, k, h) = C \union Opened(W, s, k, h)
    BY <1>2 DEF Open
  <2> HIDE DEF C
  <2>3. ASSUME NEW t \in LedgerSlots, NEW x \in Nat, x < h
        PROVE  KeysAt(C \union Opened(W, s, k, h), t, x) = KeysAt(C, t, x)
    BY <2>3 DEF KeysAt, Opened, Covers, KeyWindow
  <2> QED BY <2>1, <2>2, <2>3 DEF SameBelow
<1> QED BY <1>1, <1>2

(***************************************************************************)
(* The handlers: one at a height h opens or closes windows at h + 2.       *)
(***************************************************************************)
\* What every handler does to the windows, and what it reports.
HandlerStep(V, F, W, G, h) ==
    /\ Good(V, h + 2)
    /\ SameBelow(V, W, h + 2)
    /\ G \subseteq F \union [height : {h}, slot : LedgerSlots]

LEMMA LifecycleHandler ==
    ASSUME NEW W, NEW F, NEW h \in 1..LastEvent, NEW type,
           NEW s \in LedgerSlots, NEW k \in Keys, Good(W, h + 2),
           NEW m, m = ProjectLifecycleEvent(Map(W, F),
                                            [type |-> type, slot |-> s, new |-> k], h)
    PROVE  HandlerStep(m.windows, F, W, m.failures, h)
<1>1. h \in Nat /\ MembershipHeight(h) = h + 2 /\ h + 2 \in Nat /\ h + 2 > 0
  BY LedgerAssumption DEF MembershipHeight, LedgerAssumption
<1>2. Typed(W)
  BY DEF Good
<1>3. CASE type = "activated"
  <2>1. m = OpenActive(Map(W, F), s, k, h + 2, h)
    BY <1>1, <1>3 DEF ProjectLifecycleEvent
  <2>2. m.windows = Open(W, s, k, h + 2)
        /\ m.failures \subseteq F \union {Failure(h, s)}
    BY <2>1 DEF OpenActive, Map
  <2>3. Failure(h, s) \in [height : {h}, slot : LedgerSlots]
    BY DEF Failure
  <2> QED BY <1>1, <1>2, <2>2, <2>3, OpenKeepsGood, OpenKeepsPast DEF HandlerStep
<1>4. CASE type # "activated"
  <2>1. m = CloseActive(Map(W, F), OpenOf(W, s), h + 2, h)
    BY <1>1, <1>4 DEF ProjectLifecycleEvent, Map
  <2>2. m.windows = Close(W, OpenOf(W, s), h + 2)
        /\ m.failures \subseteq F \union {Failure(h, w.slot) : w \in OpenOf(W, s)}
    BY <2>1 DEF CloseActive, Map
  <2>3. {Failure(h, w.slot) : w \in OpenOf(W, s)} \subseteq [height : {h}, slot : LedgerSlots]
    BY DEF Failure, OpenOf
  <2> QED BY <1>1, <1>2, <2>2, <2>3, CloseKeepsGood, CloseKeepsPast DEF HandlerStep
<1> QED BY <1>3, <1>4

LEMMA RotationHandler ==
    ASSUME NEW W, NEW F, NEW h \in 1..LastEvent,
           NEW s \in LedgerSlots, NEW old \in Keys, NEW new \in Keys, Good(W, h + 2),
           NEW r, r = [status |-> "applied", slot |-> s, old |-> old, new |-> new,
                       due |-> h, applied |-> h],
           NEW m, m = ProjectRotation(Map(W, F), r)
    PROVE  HandlerStep(m.windows, F, W, m.failures, h)
<1> DEFINE closing == Replaced(Map(W, F), r, h + 2)
           closed == CloseActive(Map(W, F), closing, h + 2, h)
           C == Close(W, closing, h + 2)
<1>1. h \in Nat /\ MembershipHeight(h) = h + 2 /\ h + 2 \in Nat /\ h + 2 > 0
  BY LedgerAssumption DEF MembershipHeight, LedgerAssumption
<1>2. closing \in SUBSET OpenOf(W, s)
  BY DEF Replaced, Map
<1>3. Good(C, h + 2) /\ SameBelow(C, W, h + 2) /\ Typed(C)
  BY <1>1, <1>2, CloseKeepsGood, CloseKeepsPast DEF Good
<1>4. /\ closed.windows = C
      /\ closed.failures \subseteq F \union {Failure(h, w.slot) : w \in closing}
      /\ closed = Map(C, closed.failures)
  BY DEF CloseActive, Map
<1>5. {Failure(h, w.slot) : w \in closing} \subseteq [height : {h}, slot : LedgerSlots]
  BY <1>2 DEF Failure, OpenOf
<1>6. m = IF ~CanClose(closing, h + 2) THEN closed
          ELSE OpenActive(closed, s, new, h + 2, h)
  BY <1>1 DEF ProjectRotation
<1>7. CASE ~CanClose(closing, h + 2)
  <2>1. m = closed
    BY <1>6, <1>7
  <2> HIDE DEF closed, C, closing
  <2> QED BY <1>3, <1>4, <1>5, <2>1 DEF HandlerStep
<1>8. CASE CanClose(closing, h + 2)
  <2>1. m = OpenActive(closed, s, new, h + 2, h)
    BY <1>6, <1>8
  <2>2. m.windows = Open(C, s, new, h + 2)
        /\ m.failures \subseteq closed.failures \union {Failure(h, s)}
    <3> HIDE DEF closed, C, closing
    <3> QED BY <1>4, <2>1 DEF OpenActive, Map
  <2>3. Failure(h, s) \in [height : {h}, slot : LedgerSlots]
    BY DEF Failure
  <2> HIDE DEF closed, C, closing
  <2>4. Good(Open(C, s, new, h + 2), h + 2) /\ SameBelow(Open(C, s, new, h + 2), C, h + 2)
    BY <1>1, <1>3, OpenKeepsGood, OpenKeepsPast
  <2>5. SameBelow(Open(C, s, new, h + 2), W, h + 2)
    BY <1>3, <2>4 DEF SameBelow
  <2> QED BY <1>4, <1>5, <2>2, <2>3, <2>4, <2>5 DEF HandlerStep
<1> QED BY <1>7, <1>8

(***************************************************************************)
(* The specification.                                                      *)
(***************************************************************************)
LEMMA GoodIsIInv ==
    ASSUME height \in 1..LastEvent, failures \subseteq [height : 1..LastEvent, slot : LedgerSlots]
    PROVE  LedgerInv <=> Good(ledger, height + 2)
BY DEF LedgerInv, LedgerTypeOK, NoneAhead, AttributionUnique, Good, Typed, Within

\* Every step of the ledger is a handler's or moves to the next height.
LEMMA LedgerStep ==
    ASSUME LedgerInv, [LedgerNext]_ledgerVars
    PROVE  LedgerInv' /\ \A s \in LedgerSlots, x \in 1..(height + 1) :
                       KeysAt(ledger', s, x) = KeysAt(ledger, s, x)
<1>0. /\ height \in 1..LastEvent /\ failures \subseteq [height : 1..LastEvent, slot : LedgerSlots]
      /\ Good(ledger, height + 2)
  BY GoodIsIInv DEF LedgerInv, LedgerTypeOK
<1>1. ASSUME height' = height,
             HandlerStep(ledger', failures, ledger, failures', height)
      PROVE  LedgerInv' /\ \A s \in LedgerSlots, x \in 1..(height + 1) :
                          KeysAt(ledger', s, x) = KeysAt(ledger, s, x)
  <2>1. Good(ledger', height' + 2)
    BY <1>1 DEF HandlerStep
  <2>2. height' \in 1..LastEvent /\ failures' \subseteq [height : 1..LastEvent, slot : LedgerSlots]
    BY <1>0, <1>1 DEF HandlerStep
  <2>3. LedgerInv'
    BY <2>1, <2>2 DEF LedgerInv, LedgerTypeOK, NoneAhead, AttributionUnique, Good, Typed, Within
  <2>4. \A x \in 1..(height + 1) : x \in Nat /\ x < height + 2
    BY <1>0
  <2> QED BY <1>1, <2>3, <2>4 DEF HandlerStep, SameBelow
<1>2. ASSUME NEW s \in LedgerSlots, NEW k \in Keys, NEW type, Lifecycle(type, s, k)
      PROVE  height' = height /\ HandlerStep(ledger', failures, ledger, failures', height)
  BY <1>0, <1>2, LifecycleHandler DEF Lifecycle, Write, ThisMap
<1>3. ASSUME NEW s \in LedgerSlots, NEW old \in Keys, NEW new \in Keys, Rotation(s, old, new)
      PROVE  height' = height /\ HandlerStep(ledger', failures, ledger, failures', height)
  BY <1>0, <1>3, RotationHandler DEF Rotation, Write, ThisMap
<1>4. CASE NextHeight
  BY <1>0, <1>4, LedgerAssumption
  DEF NextHeight, LedgerInv, LedgerTypeOK, NoneAhead, AttributionUnique, Good, Typed, Within,
      LedgerAssumption, WindowType
<1>5. CASE UNCHANGED ledgerVars
  BY <1>0, <1>5 DEF ledgerVars, LedgerInv, LedgerTypeOK, NoneAhead, AttributionUnique, Good, Typed, Within
<1> QED BY <1>1, <1>2, <1>3, <1>4, <1>5 DEF LedgerNext

LEMMA LedgerInitial == LedgerInit => LedgerInv
BY LedgerAssumption
DEF LedgerInit, LedgerInv, LedgerTypeOK, NoneAhead, AttributionUnique, Unique, LedgerAssumption

THEOREM LedgerInvariant == LedgerSpec => []LedgerInv
<1>1. LedgerInv /\ [LedgerNext]_ledgerVars => LedgerInv'
  BY LedgerStep
<1> QED BY <1>1, LedgerInitial, PTL DEF LedgerSpec

\* Windows end after they begin and failures name a slot and a height, for any
\* events (projectLifecycleEvent, projectRotation).
THEOREM LedgerTypeCorrect == LedgerSpec => []LedgerTypeOK
<1>1. LedgerInv => LedgerTypeOK
  BY DEF LedgerInv
<1> QED BY <1>1, LedgerInvariant, PTL

\* At no height do two windows of one key, or of one slot, overlap, for any
\* events (openActiveWindow, closeActiveWindows).
THEOREM LedgerAttribution == LedgerSpec => []AttributionUnique
<1>1. LedgerInv => AttributionUnique
  BY DEF LedgerInv
<1> QED BY <1>1, LedgerInvariant, PTL

\* An event changes nothing below its membership height, for any events
\* (membershipHeightFromValidatorUpdate and the writers below it).
THEOREM LedgerPast == LedgerSpec => PastIsFinal
<1>1. LedgerInv /\ [LedgerNext]_ledgerVars => [\A s \in LedgerSlots, h \in 1..(height + 1) :
                               KeysAt(ledger', s, h) = KeysAt(ledger, s, h)]_ledgerVars
  BY LedgerStep
<1> QED BY <1>1, LedgerInvariant, PTL DEF LedgerSpec, PastIsFinal

(***************************************************************************)
(* From the votes of a commit to liveness rows.                            *)
(***************************************************************************)
Voters(vote) == {s \in Slots : vote[s] \in {"commit", "nil"}}
Absentees(vote) == {s \in Slots : vote[s] = "absent"}

\* A commit holds one vote of each validator, in some shape, or none at all.
Cast(vote, cast) ==
    \E voters \in Injection(DOMAIN cast, Validators(vote)) :
        \A i \in DOMAIN cast : \E shape : cast[i] = Vote(voters[i], vote[voters[i]], shape)

AllWhole(vote, cast) ==
    \A s \in Validators(vote) : \E i \in DOMAIN cast : cast[i] = Vote(s, vote[s], "whole")

LEMMA SlotFacts ==
    /\ IsFiniteSet(Slots) /\ NoSlot \notin Slots
    /\ \A T \in SUBSET Slots : IsFiniteSet(T) /\ Cardinality(T) \in Nat
<1>1. NumSlots \in Nat BY SigningAssumption DEF SigningAssumption
<1>2. IsFiniteSet(Slots) BY <1>1, FS_Interval DEF Slots
<1>3. NoSlot \notin Slots BY <1>1 DEF NoSlot, Slots
<1>4. \A T \in SUBSET Slots : IsFiniteSet(T) /\ Cardinality(T) \in Nat BY <1>2, FS_Subset, FS_CardinalityType
<1>. QED BY <1>2, <1>3, <1>4

LEMMA OrderOf ==
    ASSUME NEW T \in SUBSET Slots
    PROVE  SetToSeq(T) \in Bijection(1..Cardinality(T), T)
<1>1. IsFiniteSet(T) BY SlotFacts
<1>2. ExistsBijection(1..Cardinality(T), T) BY <1>1, FS_NatBijection, FS_CountingElements
<1>3. PICK f : f \in Bijection(1..Cardinality(T), T) BY <1>2 DEF ExistsBijection
<1>4. f \in [1..Cardinality(T) -> T] /\ IsInjective(f)
  BY <1>3 DEF Bijection, Injection, IsInjective
<1>5. SetToSeq(T) \in [1..Cardinality(T) -> T] /\ IsInjective(SetToSeq(T)) BY <1>4 DEF SetToSeq
<1>6. SetToSeq(T) \in Injection(1..Cardinality(T), T) BY <1>5 DEF Injection
<1>7. Cardinality(1..Cardinality(T)) = Cardinality(T)
  <2>1. Cardinality(T) \in Nat BY SlotFacts
  <2>. QED BY <2>1, FS_Interval
<1>8. SetToSeq(T) \in Surjection(1..Cardinality(T), T) BY <1>1, <1>6, <1>7, FS_Injection
<1>. QED BY <1>6, <1>8 DEF Bijection

LEMMA CarriedIsCast ==
    ASSUME NEW vote \in [Slots -> Flags], NEW h, NEW stated, NEW s, NEW shape,
           NEW cast, cast = Carried(h, vote, stated, s, shape).votes
    PROVE  Cast(vote, cast) /\ (s = NoSlot => AllWhole(vote, cast))
<1> DEFINE V == Validators(vote)
           order == SetToSeq(V)
           shapes == [i \in DOMAIN order |-> IF order[i] = s THEN shape ELSE "whole"]
<1>1. V \in SUBSET Slots BY DEF Validators
<1>2. order \in Bijection(1..Cardinality(V), V) BY <1>1, OrderOf
<1>. HIDE DEF V
<1>3. /\ DOMAIN order = 1..Cardinality(V) /\ order \in Injection(DOMAIN order, V)
      /\ \A t \in V : \E i \in DOMAIN order : order[i] = t
      /\ \A i \in DOMAIN order : order[i] \in V
  BY <1>2 DEF Bijection, Injection, Surjection
<1>4. cast = [i \in DOMAIN order |-> Vote(order[i], vote[order[i]], IF order[i] = s THEN shape ELSE "whole")]
  BY DEF Carried, V
<1>. HIDE DEF order
<1>5. DOMAIN cast = DOMAIN order /\ \A i \in DOMAIN cast : cast[i] = Vote(order[i], vote[order[i]], shapes[i])
  BY <1>4
<1>6. Cast(vote, cast)
  <2>1. order \in Injection(DOMAIN cast, Validators(vote)) BY <1>3, <1>5 DEF V
  <2>2. ASSUME NEW i \in DOMAIN cast
        PROVE  \E x : cast[i] = Vote(order[i], vote[order[i]], x)
    BY <1>5
  <2>. QED BY <2>1, <2>2 DEF Cast
<1>7. ASSUME s = NoSlot PROVE AllWhole(vote, cast)
  <2>1. \A i \in DOMAIN order : shapes[i] = "whole"
    BY <1>1, <1>3, <1>7, SlotFacts
  <2>. QED BY <1>3, <1>5, <2>1 DEF AllWhole, V
<1>. QED BY <1>6, <1>7

\* What a commit has rows for.
LEMMA RowsOfCommit ==
    ASSUME NEW source, NEW c
    PROVE  ReadCommit(source, c).rows = SignatureRows(c.votes)
<1>1. CASE c.votes = <<>> BY <1>1 DEF ReadCommit, Read, SignatureRows
<1>2. CASE c.votes # <<>> BY <1>2 DEF ReadCommit, Read
<1>. QED BY <1>1, <1>2

\* Evidence names only who voted, and what he voted; absent votes are not more
\* than the absentees; and of an intact commit all voters are observed whom the
\* map knows.
LEMMA EvidenceFacts ==
    ASSUME NEW vote \in [Slots -> Flags], NEW source, NEW c, Cast(vote, c.votes), NEW w,
           NEW rows, rows = Attribute(w, ReadCommit(source, c))
    PROVE  /\ \A flag \in {"commit", "nil"} : \A s \in SlotsOf(Attributed(rows, flag)) :
                s \in Slots /\ vote[s] = flag
           /\ IsFiniteSet(Anonymous(rows))
           /\ Cardinality(Anonymous(rows)) <= Cardinality(Absentees(vote))
           /\ AllWhole(vote, c.votes) /\ Voters(vote) \subseteq w => Voters(vote) \subseteq Observed(rows)
<1> DEFINE cast == c.votes
           flaws == ReadCommit(source, c).flaws
           Sig(i) == BlockSignature(i, cast[i])
<1>1. PICK voters \in Injection(DOMAIN cast, Validators(vote)) :
           \A i \in DOMAIN cast : \E shape : cast[i] = Vote(voters[i], vote[voters[i]], shape)
  BY DEF Cast
<1>2. /\ \A i \in DOMAIN cast : voters[i] \in Slots /\ voters[i] # NoSlot
      /\ \A i, j \in DOMAIN cast : voters[i] = voters[j] => i = j
  BY SlotFacts DEF Injection, IsInjective, Validators
<1>3. rows = {Classify(w, sig, flaws) : sig \in SignatureRows(cast)} BY RowsOfCommit DEF Attribute
<1>4. SignatureRows(cast) = {Sig(i) : i \in {j \in DOMAIN cast : cast[j].shape # "scalar"}} BY DEF SignatureRows
<1>5. ASSUME NEW r \in rows
      PROVE  \E i \in DOMAIN cast : cast[i].shape # "scalar" /\ r = Classify(w, Sig(i), flaws)
  BY <1>3, <1>4
<1>6. ASSUME NEW i \in DOMAIN cast
      PROVE  /\ cast[i].slot = voters[i] /\ cast[i].flag = vote[voters[i]]
             /\ Sig(i).index = i
             /\ Sig(i).address # NoSlot => Sig(i).address = voters[i]
             /\ Sig(i).flag \in {"unknown", vote[voters[i]]}
  <2>1. PICK shape : cast[i] = Vote(voters[i], vote[voters[i]], shape) BY <1>1
  <2>2. cast[i] = [slot |-> voters[i], flag |-> vote[voters[i]], shape |-> shape] BY <2>1 DEF Vote
  <2>3. cast[i].slot = voters[i] /\ cast[i].flag = vote[voters[i]] BY <2>2
  <2>. HIDE DEF cast
  <2>4. Sig(i).index = i /\ Sig(i).address = Address(cast[i]) /\ Sig(i).flag = BlockIdFlag(cast[i])
    BY DEF BlockSignature
  <2>5. Address(cast[i]) # NoSlot => Address(cast[i]) = voters[i] BY <2>3 DEF Address
  <2>6. BlockIdFlag(cast[i]) \in {"unknown", vote[voters[i]]} BY <2>3 DEF BlockIdFlag
  <2>. QED BY <2>3, <2>4, <2>5, <2>6
<1>7. vote \in [Slots -> {"commit", "nil", "absent", "none"}] BY DEF Flags
<1>. HIDE DEF Sig, flaws, cast
<1>8. ASSUME NEW flag \in {"commit", "nil"}, NEW s \in SlotsOf(Attributed(rows, flag))
      PROVE  s \in Slots /\ vote[s] = flag
  <2>1. PICK r \in rows : r.status = "attributed" /\ r.flag = flag /\ r.slot = s
    BY <1>8 DEF SlotsOf, Attributed
  <2>2. PICK i \in DOMAIN cast : r = Classify(w, Sig(i), flaws) BY <1>5
  <2>3. Sig(i).address # NoSlot /\ s = Sig(i).address /\ Sig(i).flag = flag
    BY <2>1, <2>2 DEF Classify, Evidence
  <2>. QED BY <1>2, <1>6, <2>3
<1>9. ASSUME NEW r \in Anonymous(rows)
      PROVE  r.index \in DOMAIN cast /\ voters[r.index] \in Absentees(vote)
             /\ r = Evidence(r.index, NoSlot, "absent_no_validator", "absent")
  <2>1. r \in rows /\ r.status = "absent_no_validator" BY DEF Anonymous
  <2>2. PICK i \in DOMAIN cast : r = Classify(w, Sig(i), flaws) BY <1>5, <2>1
  <2>3. r = Evidence(i, NoSlot, "absent_no_validator", "absent") /\ Sig(i).flag = "absent"
    BY <1>6, <2>1, <2>2 DEF Classify, Evidence
  <2>4. r.index = i BY <2>3 DEF Evidence
  <2>5. vote[voters[i]] = "absent" BY <1>6, <2>3
  <2>. QED BY <1>2, <2>3, <2>4, <2>5 DEF Absentees
<1>10. /\ IsFiniteSet(Anonymous(rows))
       /\ Cardinality(Anonymous(rows)) <= Cardinality(Absentees(vote))
  <2> DEFINE named == [r \in Anonymous(rows) |-> voters[r.index]]
  <2>1. named \in [Anonymous(rows) -> Absentees(vote)] BY <1>9
  <2>2. ASSUME NEW a \in Anonymous(rows), NEW b \in Anonymous(rows), voters[a.index] = voters[b.index]
        PROVE  a = b
    <3>1. a.index = b.index BY <1>2, <1>9, <2>2
    <3>. QED BY <1>9, <3>1
  <2>3. named \in Injection(Anonymous(rows), Absentees(vote)) BY <2>1, <2>2 DEF Injection, IsInjective
  <2>4. IsFiniteSet(Absentees(vote)) BY SlotFacts DEF Absentees
  <2>. QED BY <2>3, <2>4, FS_Injection
<1>11. ASSUME AllWhole(vote, cast), Voters(vote) \subseteq w, NEW s \in Voters(vote)
       PROVE  s \in Observed(rows)
  <2>1. s \in Slots /\ vote[s] \in {"commit", "nil"} /\ s \in Validators(vote) /\ s # NoSlot /\ s \in w
    BY <1>11, SlotFacts DEF Voters, Validators
  <2>2. PICK i \in DOMAIN cast : cast[i] = Vote(s, vote[s], "whole") BY <1>11, <2>1 DEF AllWhole
  <2>3. Sig(i).address = s /\ Sig(i).flag = vote[s] /\ cast[i].shape # "scalar"
    BY <2>1, <2>2 DEF Sig, BlockSignature, Address, BlockIdFlag, Vote
  <2>4. Classify(w, Sig(i), flaws) \in rows BY <1>3, <1>4, <2>3
  <2>5. Classify(w, Sig(i), flaws) = Evidence(Sig(i).index, s, "attributed", vote[s])
    BY <2>1, <2>3 DEF Classify
  <2>6. PICK r \in rows : r.status = "attributed" /\ r.flag = vote[s] /\ r.slot = s
    BY <2>4, <2>5 DEF Evidence
  <2>. QED BY <2>1, <2>6 DEF Observed, SlotsOf, Attributed
<1>. QED BY <1>8, <1>10, <1>11 DEF cast

\* Rows are truthful when either all absentees are expected or all voters have
\* been observed: a slot too many or too few then changes the number of the
\* missing, which has to be that of the absent votes.
LEMMA EvaluatedTruthfully ==
    ASSUME NEW vote \in [Slots -> Flags], NEW expected \in SUBSET Slots, NEW rows,
           \A flag \in {"commit", "nil"} : \A s \in SlotsOf(Attributed(rows, flag)) : vote[s] = flag,
           Cardinality(Anonymous(rows)) <= Cardinality(Absentees(vote)),
           IsFiniteSet(Anonymous(rows)),
           \/ Absentees(vote) \subseteq expected
           \/ expected \subseteq Validators(vote) /\ Voters(vote) \subseteq Observed(rows)
    PROVE  \A s \in DOMAIN Evaluate(expected, rows) : Evaluate(expected, rows)[s] = Truth(vote[s])
<1>1. CASE ~CanEvaluate(expected, rows) BY <1>1 DEF Evaluate
<1>2. CASE CanEvaluate(expected, rows)
  <2> DEFINE missing == expected \ Observed(rows)
  <2>1. \A s \in Observed(rows) : vote[s] \in {"commit", "nil"} BY DEF Observed, SlotsOf
  <2>2. Cardinality(missing) = Cardinality(Anonymous(rows)) BY <1>2 DEF CanEvaluate
  <2>3. \A s \in missing : vote[s] = "absent"
    <3>1. CASE Absentees(vote) \subseteq expected
      <4>1. Absentees(vote) \subseteq missing BY <2>1, <3>1 DEF Absentees
      <4>2. /\ IsFiniteSet(missing) /\ Cardinality(missing) \in Nat
            /\ Cardinality(Absentees(vote)) \in Nat
        BY SlotFacts DEF Absentees
      <4>3. Cardinality(Absentees(vote)) <= Cardinality(missing) BY <4>1, <4>2, FS_Subset
      <4>4. Cardinality(Absentees(vote)) = Cardinality(missing) BY <2>2, <4>2, <4>3
      <4>5. Absentees(vote) = missing BY <4>1, <4>2, <4>4, FS_Subset
      <4>. QED BY <4>5 DEF Absentees
    <3>2. CASE expected \subseteq Validators(vote) /\ Voters(vote) \subseteq Observed(rows)
      BY <3>2 DEF Validators, Voters, Flags
    <3>. QED BY <3>1, <3>2
  <2>4. ASSUME NEW s \in expected PROVE Evaluate(expected, rows)[s] = Truth(vote[s])
    <3>1. Evaluate(expected, rows)[s] = IF s \in SlotsOf(Attributed(rows, "commit")) THEN "signed"
                                       ELSE IF s \in SlotsOf(Attributed(rows, "nil")) THEN "nil" ELSE "absent"
      BY <1>2 DEF Evaluate
    <3>2. CASE s \in SlotsOf(Attributed(rows, "commit")) BY <3>1, <3>2 DEF Truth
    <3>3. CASE s \notin SlotsOf(Attributed(rows, "commit")) /\ s \in SlotsOf(Attributed(rows, "nil"))
      BY <3>1, <3>3 DEF Truth
    <3>4. CASE s \notin SlotsOf(Attributed(rows, "commit")) /\ s \notin SlotsOf(Attributed(rows, "nil"))
      <4>1. s \in missing BY <3>4 DEF Observed, SlotsOf
      <4>. QED BY <2>3, <3>1, <3>4, <4>1 DEF Truth
    <3>. QED BY <3>2, <3>3, <3>4
  <2>5. DOMAIN Evaluate(expected, rows) = expected BY <1>2 DEF Evaluate
  <2>. QED BY <2>4, <2>5
<1>. QED BY <1>1, <1>2

(***************************************************************************)
(* The inductive invariant: of every height, what was read of its commit   *)
(* and the map's view of it are not both wrong (ReadRight), and so the     *)
(* evidence and that view give truthful rows, whenever they are judged     *)
(* (Sound), also after the map was rebuilt under evidence that is older.   *)
(***************************************************************************)
ReadRight(vote, expected, h, commit) ==
    \E c : /\ commit = ReadCommit(h + 1, c) /\ Cast(vote, c.votes)
           /\ \/ Absentees(vote) \subseteq expected
              \/ /\ AllWhole(vote, c.votes)
                 /\ Voters(vote) \subseteq expected /\ expected \subseteq Validators(vote)

Sound(vote, expected, rows) ==
    /\ \A flag \in {"commit", "nil"} : \A s \in SlotsOf(Attributed(rows, flag)) : vote[s] = flag
    /\ IsFiniteSet(Anonymous(rows))
    /\ Cardinality(Anonymous(rows)) <= Cardinality(Absentees(vote))
    /\ \/ Absentees(vote) \subseteq expected
       \/ expected \subseteq Validators(vote) /\ Voters(vote) \subseteq Observed(rows)

IsSeq(s) == \E S : s \in Seq(S)

Lengths ==
    /\ IsSeq(votes) /\ IsSeq(commits) /\ IsSeq(windows) /\ IsSeq(evidence) /\ IsSeq(liveness)
    /\ Len(commits) = Len(votes) /\ Len(windows) = Len(votes)
    /\ Len(evidence) <= Len(votes) /\ Len(liveness) <= Len(evidence)

HeightsRead ==
    \A h \in 1..Len(votes) :
        /\ votes[h] \in [Slots -> Flags] /\ windows[h] \subseteq Slots
        /\ ReadRight(votes[h], windows[h], h, commits[h])

EvidenceSound == \A h \in 1..Len(evidence) : Sound(votes[h], windows[h], evidence[h])

LivenessTruthful ==
    \A h \in 1..Len(liveness) : \A s \in DOMAIN liveness[h] : liveness[h][s] = Truth(votes[h][s])

SigningInv == Lengths /\ HeightsRead /\ EvidenceSound /\ LivenessTruthful

LEMMA Appended ==
    ASSUME NEW s, IsSeq(s), NEW e
    PROVE  /\ IsSeq(Append(s, e)) /\ Len(s) \in Nat /\ Len(Append(s, e)) = Len(s) + 1
           /\ DOMAIN s = 1..Len(s)
           /\ \A i \in 1..Len(s) : Append(s, e)[i] = s[i]
           /\ Append(s, e)[Len(s) + 1] = e
<1>1. PICK S : s \in Seq(S) BY DEF IsSeq
<1> DEFINE T == S \union {e}
<1>2. s \in Seq(T) /\ e \in T BY <1>1
<1>. HIDE DEF T
<1>3. Append(s, e) \in Seq(T) BY <1>2
<1>. QED BY <1>2, <1>3 DEF IsSeq

LEMMA WrongView ==
    ASSUME NEW vote \in [Slots -> Flags], NEW s \in Slots
    PROVE  /\ Wrong(vote, s) \subseteq Slots
           /\ \/ Absentees(vote) \subseteq Wrong(vote, s)
              \/ Voters(vote) \subseteq Wrong(vote, s) /\ Wrong(vote, s) \subseteq Validators(vote)
<1>1. Absentees(vote) \subseteq Validators(vote) /\ Voters(vote) \subseteq Validators(vote)
      /\ Validators(vote) \subseteq Slots
  BY DEF Absentees, Voters, Validators
<1>2. CASE vote[s] = "none" BY <1>1, <1>2 DEF Wrong
<1>3. CASE vote[s] = "absent" BY <1>1, <1>3 DEF Wrong, Voters
<1>4. CASE vote[s] \notin {"none", "absent"} BY <1>1, <1>4 DEF Wrong, Absentees
<1>. QED BY <1>2, <1>3, <1>4

LEMMA CommitsAreCast ==
    ASSUME NEW vote \in [Slots -> Flags], NEW h
    PROVE  /\ Cast(vote, Intact(h, vote).votes) /\ AllWhole(vote, Intact(h, vote).votes)
           /\ \A c \in Spoilt(h, vote) : Cast(vote, c.votes)
<1>1. Cast(vote, Intact(h, vote).votes) /\ AllWhole(vote, Intact(h, vote).votes)
  BY CarriedIsCast DEF Intact
<1>2. \A stated, s, shape : Cast(vote, Carried(h, vote, stated, s, shape).votes) BY CarriedIsCast
<1>3. Cast(vote, <<>>)
  <2> DEFINE nobody == [i \in {} |-> NoSlot]
  <2>1. nobody \in Injection(DOMAIN <<>>, Validators(vote)) BY DEF Injection, IsInjective
  <2>. QED BY <2>1 DEF Cast
<1>4. ASSUME NEW c \in Spoilt(h, vote) PROVE Cast(vote, c.votes)
  <2>1. (\E stated, s, shape : c = Carried(h, vote, stated, s, shape)) \/ c = NoCommit BY DEF Spoilt
  <2>. QED BY <1>2, <1>3, <2>1 DEF NoCommit
<1>. QED BY <1>1, <1>4

LEMMA ReadIsSound ==
    ASSUME NEW vote \in [Slots -> Flags], NEW expected, NEW h, NEW commit,
           ReadRight(vote, expected, h, commit)
    PROVE  Sound(vote, expected, Attribute(expected, commit))
<1>1. PICK c : /\ commit = ReadCommit(h + 1, c) /\ Cast(vote, c.votes)
               /\ \/ Absentees(vote) \subseteq expected
                  \/ /\ AllWhole(vote, c.votes)
                     /\ Voters(vote) \subseteq expected /\ expected \subseteq Validators(vote)
  BY DEF ReadRight
<1> DEFINE rows == Attribute(expected, commit)
<1>2. rows = Attribute(expected, ReadCommit(h + 1, c)) BY <1>1
<1>. HIDE DEF rows
<1>3. /\ \A flag \in {"commit", "nil"} : \A s \in SlotsOf(Attributed(rows, flag)) : vote[s] = flag
      /\ IsFiniteSet(Anonymous(rows)) /\ Cardinality(Anonymous(rows)) <= Cardinality(Absentees(vote))
      /\ AllWhole(vote, c.votes) /\ Voters(vote) \subseteq expected => Voters(vote) \subseteq Observed(rows)
  BY <1>1, <1>2, EvidenceFacts
<1>4. Sound(vote, expected, rows) BY <1>1, <1>3 DEF Sound
<1>. QED BY <1>4 DEF rows

\* The map set right is right about every height.
LEMMA RightView ==
    ASSUME NEW vote \in [Slots -> Flags], NEW expected
    PROVE  /\ Validators(vote) \subseteq Slots /\ Absentees(vote) \subseteq Validators(vote)
           /\ \A h, commit : ReadRight(vote, expected, h, commit)
                             => ReadRight(vote, Validators(vote), h, commit)
           /\ \A rows : Sound(vote, expected, rows) => Sound(vote, Validators(vote), rows)
<1>1. Validators(vote) \subseteq Slots /\ Absentees(vote) \subseteq Validators(vote)
  BY DEF Validators, Absentees
<1>. QED BY <1>1 DEF ReadRight, Sound

LEMMA SigningInitial == Init => SigningInv
<1>1. IsSeq(<<>>)
  <2>1. <<>> \in Seq({}) OBVIOUS
  <2>. QED BY <2>1 DEF IsSeq
<1>. QED BY <1>1 DEF Init, SigningInv, Lengths, HeightsRead, EvidenceSound, LivenessTruthful

LEMMA SignaturesKeep == SigningInv /\ ProjectSignatures => SigningInv'
<1>. SUFFICES ASSUME SigningInv, ProjectSignatures PROVE SigningInv' OBVIOUS
<1>. USE DEF SigningInv
<1> DEFINE n == Len(votes) + 1
<1>1. PICK vote \in [Slots -> Flags] :
        /\ votes' = Append(votes, vote)
        /\ \/ /\ windows' = Append(windows, Validators(vote))
              /\ commits' = Append(commits, ReadCommit(n + 1, Intact(n, vote)))
           \/ /\ commits' = Append(commits, ReadCommit(n + 1, Intact(n, vote)))
              /\ \E s \in Doubtful : windows' = Append(windows, Wrong(vote, s))
           \/ /\ windows' = Append(windows, Validators(vote))
              /\ \E commit \in Spoilt(n, vote) : commits' = Append(commits, ReadCommit(n + 1, commit))
  BY DEF ProjectSignatures
<1>2. UNCHANGED <<evidence, liveness>> BY DEF ProjectSignatures
<1>. HIDE DEF n
<1>3. PICK view, commit : /\ windows' = Append(windows, view) /\ commits' = Append(commits, commit)
                          /\ view \subseteq Slots /\ ReadRight(vote, view, n, commit)
  <2>0. Validators(vote) \subseteq Slots /\ Absentees(vote) \subseteq Validators(vote) BY RightView
  <2>1. CASE /\ windows' = Append(windows, Validators(vote))
             /\ commits' = Append(commits, ReadCommit(n + 1, Intact(n, vote)))
    <3>1. ReadRight(vote, Validators(vote), n, ReadCommit(n + 1, Intact(n, vote)))
      BY <2>0, CommitsAreCast DEF ReadRight
    <3>. QED BY <2>0, <2>1, <3>1
  <2>2. CASE /\ commits' = Append(commits, ReadCommit(n + 1, Intact(n, vote)))
             /\ \E s \in Doubtful : windows' = Append(windows, Wrong(vote, s))
    <3>1. PICK s \in Slots : windows' = Append(windows, Wrong(vote, s))
      BY <2>2, SigningAssumption DEF SigningAssumption
    <3>2. Wrong(vote, s) \subseteq Slots /\ ReadRight(vote, Wrong(vote, s), n, ReadCommit(n + 1, Intact(n, vote)))
      BY WrongView, CommitsAreCast DEF ReadRight
    <3>. QED BY <2>2, <3>1, <3>2
  <2>3. CASE /\ windows' = Append(windows, Validators(vote))
             /\ \E commit \in Spoilt(n, vote) : commits' = Append(commits, ReadCommit(n + 1, commit))
    <3>1. PICK c \in Spoilt(n, vote) : commits' = Append(commits, ReadCommit(n + 1, c)) BY <2>3
    <3>2. ReadRight(vote, Validators(vote), n, ReadCommit(n + 1, c))
      BY <2>0, CommitsAreCast DEF ReadRight
    <3>. QED BY <2>0, <2>3, <3>1, <3>2
  <2>. QED BY <1>1, <2>1, <2>2, <2>3
<1>4. /\ IsSeq(votes') /\ IsSeq(windows') /\ IsSeq(commits') /\ Len(votes) \in Nat
      /\ Len(votes') = n /\ Len(windows') = n /\ Len(commits') = n /\ n = Len(votes) + 1
      /\ votes'[n] = vote /\ windows'[n] = view /\ commits'[n] = commit
      /\ \A h \in 1..Len(votes) : votes'[h] = votes[h] /\ windows'[h] = windows[h] /\ commits'[h] = commits[h]
  BY <1>1, <1>3, Appended DEF Lengths, n
<1>5. Len(evidence) \in Nat /\ Len(liveness) \in Nat BY Appended DEF Lengths
<1>6. Lengths' BY <1>2, <1>4, <1>5 DEF Lengths
<1>7. HeightsRead' BY <1>1, <1>3, <1>4 DEF HeightsRead
<1>8. EvidenceSound'
  <2>1. \A h \in 1..Len(evidence) : h \in 1..Len(votes) BY <1>4, <1>5 DEF Lengths
  <2>. QED BY <1>2, <1>4, <2>1 DEF EvidenceSound
<1>9. LivenessTruthful'
  <2>1. \A h \in 1..Len(liveness) : h \in 1..Len(votes) BY <1>4, <1>5 DEF Lengths
  <2>. QED BY <1>2, <1>4, <2>1 DEF LivenessTruthful
<1>. QED BY <1>6, <1>7, <1>8, <1>9

LEMMA RebuildKeeps == SigningInv /\ RebuildMap => SigningInv'
<1>. SUFFICES ASSUME SigningInv, RebuildMap PROVE SigningInv' OBVIOUS
<1>1. /\ UNCHANGED <<votes, commits, evidence, liveness>>
      /\ windows' = [h \in DOMAIN votes |-> Validators(votes[h])]
  BY DEF RebuildMap
<1>2. /\ Len(votes) \in Nat /\ DOMAIN votes = 1..Len(votes) /\ Len(evidence) \in Nat
      /\ Len(evidence) <= Len(votes)
  BY Appended DEF SigningInv, Lengths
<1>3. \A h \in 1..Len(votes) : votes[h] \in [Slots -> Flags] BY DEF SigningInv, HeightsRead
<1>4. \A h \in 1..Len(votes) : windows'[h] = Validators(votes[h]) BY <1>1, <1>2
<1>5. windows' \in [1..Len(votes) -> SUBSET Slots]
  <2>1. \A h \in 1..Len(votes) : Validators(votes[h]) \subseteq Slots BY <1>3, RightView
  <2>. QED BY <1>1, <1>2, <2>1
<1>6. IsSeq(windows') /\ Len(windows') = Len(votes)
  <2>1. windows' \in Seq(SUBSET Slots) BY <1>2, <1>5
  <2>. QED BY <1>2, <1>5, <2>1 DEF IsSeq
<1>7. Lengths' BY <1>1, <1>6 DEF SigningInv, Lengths
<1>8. HeightsRead'
  <2>1. ASSUME NEW h \in 1..Len(votes)
        PROVE  windows'[h] \subseteq Slots /\ ReadRight(votes[h], windows'[h], h, commits[h])
    <3>1. ReadRight(votes[h], windows[h], h, commits[h]) BY DEF SigningInv, HeightsRead
    <3>. QED BY <1>3, <1>4, <3>1, RightView
  <2>. QED BY <1>1, <1>3, <2>1 DEF HeightsRead
<1>9. EvidenceSound'
  <2>1. ASSUME NEW h \in 1..Len(evidence) PROVE Sound(votes[h], windows'[h], evidence[h])
    <3>1. Sound(votes[h], windows[h], evidence[h]) BY DEF SigningInv, EvidenceSound
    <3>2. h \in 1..Len(votes) BY <1>2
    <3>. QED BY <1>3, <1>4, <3>1, <3>2, RightView
  <2>. QED BY <1>1, <2>1 DEF EvidenceSound
<1>10. LivenessTruthful' BY <1>1 DEF SigningInv, LivenessTruthful
<1>. QED BY <1>7, <1>8, <1>9, <1>10 DEF SigningInv

LEMMA EvidenceKeeps == SigningInv /\ ProjectEvidence => SigningInv'
<1>. SUFFICES ASSUME SigningInv, ProjectEvidence PROVE SigningInv' OBVIOUS
<1> DEFINE n == Len(evidence) + 1
           rows == Attribute(windows[n], commits[n])
<1>1. evidence' = Append(evidence, rows) /\ n <= Len(votes) /\ UNCHANGED <<votes, commits, windows, liveness>>
  BY DEF ProjectEvidence
<1>2. Len(votes) \in Nat /\ Len(evidence) \in Nat /\ Len(liveness) \in Nat
  BY Appended DEF SigningInv, Lengths
<1>. HIDE DEF rows
<1>3. /\ IsSeq(evidence') /\ Len(evidence') = n /\ evidence'[n] = rows
      /\ \A h \in 1..Len(evidence) : evidence'[h] = evidence[h]
  BY <1>1, Appended DEF SigningInv, Lengths
<1>4. Sound(votes[n], windows[n], rows)
  <2>1. n \in 1..Len(votes) BY <1>1, <1>2
  <2>2. votes[n] \in [Slots -> Flags] /\ ReadRight(votes[n], windows[n], n, commits[n])
    BY <2>1 DEF SigningInv, HeightsRead
  <2>. QED BY <2>2, ReadIsSound DEF rows
<1>5. Lengths' BY <1>1, <1>2, <1>3 DEF SigningInv, Lengths
<1>6. HeightsRead' BY <1>1 DEF SigningInv, HeightsRead
<1>7. EvidenceSound'
  <2>1. \A h \in 1..n : h = n \/ h \in 1..Len(evidence) BY <1>2
  <2>. QED BY <1>1, <1>3, <1>4, <2>1 DEF SigningInv, EvidenceSound
<1>8. LivenessTruthful' BY <1>1 DEF SigningInv, LivenessTruthful
<1>. QED BY <1>5, <1>6, <1>7, <1>8 DEF SigningInv

LEMMA LivenessKeeps == SigningInv /\ ProjectLiveness => SigningInv'
<1>. SUFFICES ASSUME SigningInv, ProjectLiveness PROVE SigningInv' OBVIOUS
<1> DEFINE n == Len(liveness) + 1
           rows == IF evidence[n] = {} THEN [s \in {} |-> NoRow] ELSE Evaluate(windows[n], evidence[n])
<1>1. liveness' = Append(liveness, rows) /\ n <= Len(evidence) /\ UNCHANGED <<votes, commits, windows, evidence>>
  BY DEF ProjectLiveness
<1>2. Len(votes) \in Nat /\ Len(evidence) \in Nat /\ Len(liveness) \in Nat
  BY Appended DEF SigningInv, Lengths
<1>3. \A s \in DOMAIN rows : rows[s] = Truth(votes[n][s])
  <2>1. n \in 1..Len(evidence) /\ n \in 1..Len(votes) BY <1>1, <1>2 DEF SigningInv, Lengths
  <2>2. /\ votes[n] \in [Slots -> Flags] /\ windows[n] \in SUBSET Slots
        /\ Sound(votes[n], windows[n], evidence[n])
    BY <2>1 DEF SigningInv, HeightsRead, EvidenceSound
  <2>3. \A s \in DOMAIN Evaluate(windows[n], evidence[n]) :
           Evaluate(windows[n], evidence[n])[s] = Truth(votes[n][s])
    <3>. HIDE DEF n
    <3>. QED BY <2>2, EvaluatedTruthfully DEF Sound
  <2>. QED BY <2>3
<1>. HIDE DEF rows
<1>4. /\ IsSeq(liveness') /\ Len(liveness') = n /\ liveness'[n] = rows
      /\ \A h \in 1..Len(liveness) : liveness'[h] = liveness[h]
  BY <1>1, Appended DEF SigningInv, Lengths
<1>5. Lengths' BY <1>1, <1>2, <1>4 DEF SigningInv, Lengths
<1>6. HeightsRead' BY <1>1 DEF SigningInv, HeightsRead
<1>7. EvidenceSound' BY <1>1 DEF SigningInv, EvidenceSound
<1>8. LivenessTruthful'
  <2>1. \A h \in 1..n : h = n \/ h \in 1..Len(liveness) BY <1>2
  <2>. QED BY <1>1, <1>3, <1>4, <2>1 DEF SigningInv, LivenessTruthful
<1>. QED BY <1>5, <1>6, <1>7, <1>8 DEF SigningInv

LEMMA SigningStep == SigningInv /\ [Next]_vars => SigningInv'
<1>. SUFFICES ASSUME SigningInv, [Next]_vars PROVE SigningInv' OBVIOUS
<1>1. CASE ResetLiveness
  <2>1. <<>> \in Seq({}) OBVIOUS
  <2>2. IsSeq(<<>>) BY <2>1 DEF IsSeq
  <2>3. Len(evidence) \in Nat BY Appended DEF SigningInv, Lengths
  <2>. QED BY <1>1, <2>2, <2>3
       DEF ResetLiveness, SigningInv, Lengths, HeightsRead, EvidenceSound, LivenessTruthful
<1>2. CASE UNCHANGED <<votes, commits, windows, evidence, liveness>>
  BY <1>2 DEF SigningInv, Lengths, HeightsRead, EvidenceSound, LivenessTruthful
<1>3. CASE StartSummary \/ WriteSummaries \/ AbandonScan \/ ProjectHealth \/ UNCHANGED vars
  BY <1>2, <1>3 DEF StartSummary, WriteSummaries, AbandonScan, ProjectHealth, vars
<1>4. CASE ReadChunk BY <1>2, <1>4, Zenon DEF ReadChunk
<1>. QED BY <1>1, <1>3, <1>4, SignaturesKeep, RebuildKeeps, EvidenceKeeps, LivenessKeeps DEF Next

\* No slot is ever said to have signed, voted nil or been absent when it did not,
\* for any slots, any votes of a height, one that the map is wrong about or whose
\* commit cannot be read in full, at however many heights (evaluateHeight).
THEOREM RowsTruthfulHolds == Spec => []RowsTruthful
<1>1. SigningInv => RowsTruthful
  <2>. SUFFICES ASSUME SigningInv PROVE RowsTruthful OBVIOUS
  <2>1. DOMAIN liveness = 1..Len(liveness) BY Appended DEF SigningInv, Lengths
  <2>. QED BY <2>1 DEF RowsTruthful, SigningInv, LivenessTruthful
<1>. QED BY <1>1, SigningInitial, SigningStep, PTL DEF Spec

(***************************************************************************)
(* A slot's rows and the state of the stream that has read them.           *)
(***************************************************************************)
RowSeq(P) ==
    /\ IsSeq(P)
    /\ \A i \in 1..Len(P) : P[i].height \in Nat \ {0} /\ P[i] # NoRow
    /\ \A i, j \in 1..Len(P) : i < j => P[i].height < P[j].height

CountsOf(st, P) ==
    /\ st.count = Len(P)
    /\ st.signed = Count(P, "signed") /\ st.absent = Count(P, "absent") /\ st.nil = Count(P, "nil")

EndsOf(st, P) ==
    /\ P = <<>> => st.first = NoHeight /\ st.last = NoRow
    /\ P # <<>> => st.first = P[1].height /\ st.last = P[Len(P)]

RunOf(st, P) ==
    /\ P = <<>> => st.run = 0
    /\ P # <<>> => /\ st.missed = Missed(P[Len(P)])
                   /\ st.run \in 1..Len(P)
                   /\ \A i \in 1..Len(P) : i > Len(P) - st.run => (Missed(P[i]) <=> Missed(P[Len(P)]))
                   /\ st.run < Len(P) => ~(Missed(P[Len(P) - st.run]) <=> Missed(P[Len(P)]))

MissOf(st, P) ==
    /\ st.latestMissed \in Nat
    /\ \A i \in 1..Len(P) : Missed(P[i]) => P[i].height <= st.latestMissed
    /\ st.latestMissed = NoHeight \/ \E i \in 1..Len(P) : Missed(P[i]) /\ P[i].height = st.latestMissed

\* Where the ring has the row that came n rows before the last.
Place(st, n) == IF st.pos > n + 1 THEN st.pos - 1 - n ELSE st.pos - 1 - n + RingSize

RingOf(st, P) ==
    /\ IsSeq(st.ring) /\ Len(st.ring) = RingSize /\ st.pos \in 1..RingSize
    /\ st.ringCount = IF Len(P) < RingSize THEN Len(P) ELSE RingSize
    /\ Len(P) < RingSize => st.pos = Len(P) + 1
    /\ \A n \in 0..(RingSize - 1) : n < Len(P) => st.ring[Place(st, n)] = P[Len(P) - n]

StateOf(st, P) == CountsOf(st, P) /\ EndsOf(st, P) /\ RunOf(st, P) /\ MissOf(st, P) /\ RingOf(st, P)

LEMMA RingBounds == RingSize \in Nat /\ RingSize >= 1 /\ Recent \in 1..RingSize
BY SigningAssumption

LEMMA CountType ==
    ASSUME NEW P, IsSeq(P), NEW status
    PROVE  Count(P, status) \in Nat /\ IsFiniteSet({i \in DOMAIN P : P[i].status = status})
<1>1. DOMAIN P = 1..Len(P) /\ Len(P) \in Nat BY DEF IsSeq
<1>2. IsFiniteSet(1..Len(P)) BY <1>1, FS_Interval
<1>3. IsFiniteSet({i \in DOMAIN P : P[i].status = status}) BY <1>1, <1>2, FS_Subset
<1>. QED BY <1>3, FS_CardinalityType DEF Count

LEMMA CountAppended ==
    ASSUME NEW P, IsSeq(P), NEW r, NEW status
    PROVE  Count(Append(P, r), status) = Count(P, status) + (IF r.status = status THEN 1 ELSE 0)
<1> DEFINE Q == Append(P, r)
           had == {i \in DOMAIN P : P[i].status = status}
           has == {i \in DOMAIN Q : Q[i].status = status}
<1>1. /\ IsSeq(Q) /\ Len(P) \in Nat /\ Len(Q) = Len(P) + 1 /\ DOMAIN P = 1..Len(P) /\ DOMAIN Q = 1..Len(Q)
      /\ \A i \in 1..Len(P) : Q[i] = P[i]
      /\ Q[Len(P) + 1] = r
  BY Appended
<1>2. IsFiniteSet(had) BY CountType
<1>3. Cardinality(had) \in Nat BY <1>2, FS_CardinalityType
<1>. HIDE DEF Q
<1>4. Count(Q, status) = Cardinality(has) /\ Count(P, status) = Cardinality(had) BY DEF Count
<1>5. CASE r.status = status
  <2>1. has = had \union {Len(P) + 1} /\ Len(P) + 1 \notin had BY <1>1, <1>5
  <2>. HIDE DEF had, has
  <2>2. Cardinality(has) = Cardinality(had) + 1 BY <1>2, <2>1, FS_AddElement
  <2>. QED BY <1>4, <1>5, <2>2 DEF Q
<1>6. CASE r.status # status
  <2>1. has = had BY <1>1, <1>6
  <2>. HIDE DEF had, has
  <2>. QED BY <1>3, <1>4, <1>6, <2>1 DEF Q
<1>. QED BY <1>5, <1>6

LEMMA NewStateOf == StateOf(NewState(RingSize), <<>>)
<1> DEFINE st == NewState(RingSize)
<1>1. IsSeq(<<>>) /\ Len(<<>>) = 0 /\ DOMAIN <<>> = {} BY DEF IsSeq
<1>2. \A status : Count(<<>>, status) = 0
  <2>1. ASSUME NEW status PROVE {i \in DOMAIN <<>> : <<>>[i].status = status} = {} BY <1>1
  <2>. QED BY <2>1, FS_EmptySet DEF Count
<1>3. CountsOf(st, <<>>) BY <1>1, <1>2 DEF CountsOf, NewState
<1>4. EndsOf(st, <<>>) /\ RunOf(st, <<>>) BY DEF EndsOf, RunOf, NewState
<1>5. MissOf(st, <<>>) BY <1>1 DEF MissOf, NewState, NoHeight
<1>6. RingOf(st, <<>>)
  <2> DEFINE ring == [i \in 1..RingSize |-> NoRow]
  <2>1. st.ring = ring /\ st.pos = 1 /\ st.ringCount = 0 BY DEF NewState
  <2>2. ring \in Seq({NoRow}) /\ Len(ring) = RingSize BY RingBounds
  <2>. HIDE DEF ring
  <2>3. IsSeq(ring) BY <2>2 DEF IsSeq
  <2>. QED BY <1>1, <2>1, <2>2, <2>3, RingBounds DEF RingOf
<1>. QED BY <1>3, <1>4, <1>5, <1>6 DEF StateOf

LEMMA Modulo == ASSUME NEW p \in 1..RingSize PROVE (p % RingSize) + 1 = IF p = RingSize THEN 1 ELSE p + 1
<1>1. RingSize \in Nat /\ RingSize >= 1 BY RingBounds
<1>2. CASE p < RingSize
  <2>1. p % RingSize = p BY <1>1, <1>2
  <2>. QED BY <1>2, <2>1
<1>3. CASE p = RingSize
  <2>1. p % RingSize = 0 BY <1>1, <1>3
  <2>. QED BY <1>3, <2>1
<1>. QED BY <1>1, <1>2, <1>3

LEMMA RingFed ==
    ASSUME NEW st, NEW P, IsSeq(P), RingOf(st, P), NEW r
    PROVE  RingOf(Feed(st, r), Append(P, r))
<1> DEFINE R == RingSize
           Q == Append(P, r)
           to == Feed(st, r)
<1>1. /\ IsSeq(Q) /\ Len(P) \in Nat /\ Len(Q) = Len(P) + 1
      /\ \A i \in 1..Len(P) : Q[i] = P[i]
      /\ Q[Len(P) + 1] = r
  BY Appended
<1>2. /\ IsSeq(st.ring) /\ Len(st.ring) = R /\ st.pos \in 1..R /\ R \in Nat /\ R >= 1
      /\ st.ringCount = IF Len(P) < R THEN Len(P) ELSE R
      /\ Len(P) < R => st.pos = Len(P) + 1
      /\ \A n \in 0..(R - 1) : n < Len(P) => st.ring[Place(st, n)] = P[Len(P) - n]
  BY RingBounds DEF RingOf
<1>3. /\ to.ring = [st.ring EXCEPT ![st.pos] = r]
      /\ to.pos = (st.pos % Len(st.ring)) + 1
      /\ to.ringCount = Min({Len(st.ring), st.ringCount + 1})
  BY DEF Feed
<1>. HIDE DEF Q, to
<1>4. IsSeq(to.ring) /\ Len(to.ring) = R /\ to.ring[st.pos] = r
      /\ \A i \in 1..R : i # st.pos => to.ring[i] = st.ring[i]
  <2>1. PICK T : st.ring \in Seq(T) BY <1>2 DEF IsSeq
  <2> DEFINE U == T \union {r}
             ring == [st.ring EXCEPT ![st.pos] = r]
  <2>2. st.ring \in Seq(U) /\ r \in U BY <2>1
  <2>. HIDE DEF U
  <2>3. DOMAIN st.ring = 1..R /\ \A i \in 1..R : st.ring[i] \in U BY <1>2, <2>2
  <2>4. ring \in [1..R -> U] /\ ring[st.pos] = r /\ \A i \in 1..R : i # st.pos => ring[i] = st.ring[i]
    BY <1>2, <2>2, <2>3
  <2>. HIDE DEF ring
  <2>5. ring \in Seq(U) /\ Len(ring) = R BY <1>2, <2>4
  <2>. QED BY <1>3, <2>4, <2>5 DEF IsSeq, ring
<1>5. to.pos = IF st.pos = R THEN 1 ELSE st.pos + 1 BY <1>2, <1>3, Modulo
<1>6. to.ringCount = IF Len(Q) < R THEN Len(Q) ELSE R
  <2>1. st.ringCount \in Nat BY <1>1, <1>2
  <2> DEFINE c == st.ringCount + 1
  <2>2. c \in Nat BY <2>1
  <2>3. Min({R, c}) = IF c < R THEN c ELSE R
    <3>. HIDE DEF c
    <3>1. Min({R, c}) \in {R, c} /\ \A y \in {R, c} : Min({R, c}) <= y
      <4>1. \E x \in {R, c} : \A y \in {R, c} : x <= y BY <1>2, <2>2
      <4>. QED BY <4>1 DEF Min
    <3>. QED BY <1>2, <2>2, <3>1
  <2>. QED BY <1>1, <1>2, <1>3, <2>3
<1>7. ASSUME NEW n \in 0..(R - 1), n < Len(Q) PROVE to.ring[Place(to, n)] = Q[Len(Q) - n]
  <2>1. CASE n = 0
    <3>1. Place(to, n) = st.pos BY <1>2, <1>5, <2>1 DEF Place
    <3>. QED BY <1>1, <1>4, <2>1, <3>1
  <2>2. CASE n # 0
    <3>1. n - 1 \in 0..(R - 1) /\ n - 1 < Len(P) BY <1>1, <1>2, <1>7, <2>2
    <3>2. Place(to, n) = Place(st, n - 1) BY <1>2, <1>5, <2>2 DEF Place
    <3>3. Place(st, n - 1) \in 1..R /\ Place(st, n - 1) # st.pos BY <1>2, <1>7, <2>2 DEF Place
    <3>4. st.ring[Place(st, n - 1)] = P[Len(P) - (n - 1)] BY <1>2, <3>1
    <3>5. Len(P) - (n - 1) = Len(Q) - n /\ Len(Q) - n \in 1..Len(P) BY <1>1, <1>7, <2>2
    <3>. QED BY <1>1, <1>4, <3>2, <3>3, <3>4, <3>5
  <2>. QED BY <2>1, <2>2
<1>8. to.pos \in 1..R /\ (Len(Q) < R => to.pos = Len(Q) + 1) BY <1>1, <1>2, <1>5
<1>. QED BY <1>4, <1>6, <1>7, <1>8 DEF RingOf, Q, to

LEMMA FeedKeeps ==
    ASSUME NEW P, RowSeq(P), NEW st, StateOf(st, P), NEW r,
           r.height \in Nat \ {0}, r # NoRow, \A i \in 1..Len(P) : P[i].height < r.height
    PROVE  RowSeq(Append(P, r)) /\ StateOf(Feed(st, r), Append(P, r))
<1> DEFINE Q == Append(P, r)
           to == Feed(st, r)
<1>1. /\ IsSeq(P) /\ IsSeq(Q) /\ Len(P) \in Nat /\ Len(Q) = Len(P) + 1
      /\ \A i \in 1..Len(P) : Q[i] = P[i]
      /\ Q[Len(P) + 1] = r
  BY Appended DEF RowSeq
<1>2. (P = <<>> <=> Len(P) = 0) /\ Q # <<>>
  <2>1. \A s : IsSeq(s) => (s = <<>> <=> Len(s) = 0) BY DEF IsSeq
  <2>. QED BY <1>1, <2>1
<1>3. \A i \in 1..Len(Q) : i \in 1..Len(P) \/ i = Len(P) + 1 BY <1>1
<1>4. RowSeq(Q)
  <2>1. \A i \in 1..Len(Q) : Q[i].height \in Nat \ {0} /\ Q[i] # NoRow BY <1>1, <1>3 DEF RowSeq
  <2>2. ASSUME NEW i \in 1..Len(Q), NEW j \in 1..Len(Q), i < j PROVE Q[i].height < Q[j].height
    <3>1. i \in 1..Len(P) BY <1>1, <2>2
    <3>. QED BY <1>1, <1>3, <2>2, <3>1 DEF RowSeq
  <2>. QED BY <1>1, <2>1, <2>2 DEF RowSeq
<1>5. CountsOf(to, Q)
  <2>1. \A x : Count(Q, x) = Count(P, x) + (IF r.status = x THEN 1 ELSE 0) BY <1>1, CountAppended
  <2>2. CountsOf(st, P) BY DEF StateOf
  <2>3. /\ to.count = st.count + 1
        /\ to.signed = st.signed + (IF r.status = "signed" THEN 1 ELSE 0)
        /\ to.absent = st.absent + (IF r.status = "absent" THEN 1 ELSE 0)
        /\ to.nil = st.nil + (IF r.status = "nil" THEN 1 ELSE 0)
    BY DEF Feed
  <2>. HIDE DEF Q, to
  <2>. QED BY <1>1, <2>1, <2>2, <2>3 DEF CountsOf
<1>6. EndsOf(to, Q)
  <2>1. EndsOf(st, P) BY DEF StateOf
  <2>2. to.first = (IF st.first = NoHeight THEN r.height ELSE st.first) /\ to.last = r BY DEF Feed
  <2>. HIDE DEF Q, to
  <2>3. to.first = Q[1].height
    <3>1. CASE P = <<>> BY <1>1, <1>2, <2>1, <2>2, <3>1 DEF EndsOf
    <3>2. CASE P # <<>>
      <4>1. 1 \in 1..Len(P) BY <1>1, <1>2, <3>2
      <4>2. st.first = P[1].height /\ P[1].height # NoHeight BY <2>1, <3>2, <4>1 DEF EndsOf, RowSeq, NoHeight
      <4>. QED BY <1>1, <2>2, <4>1, <4>2
    <3>. QED BY <3>1, <3>2
  <2>. QED BY <1>1, <1>2, <2>2, <2>3 DEF EndsOf
<1>7. RunOf(to, Q)
  <2>1. RunOf(st, P) BY DEF StateOf
  <2>2. to.missed = Missed(r) /\ to.run = IF st.run > 0 /\ st.missed = Missed(r) THEN st.run + 1 ELSE 1
    BY DEF Feed
  <2>. HIDE DEF Q, to
  <2>3. CASE P = <<>>
    <3>1. st.run = 0 /\ Len(P) = 0 BY <1>2, <2>1, <2>3 DEF RunOf
    <3>2. to.run = 1 /\ Len(Q) = 1 /\ Q[1] = r BY <1>1, <2>2, <3>1
    <3>. QED BY <1>2, <2>2, <3>2 DEF RunOf
  <2>4. CASE P # <<>> /\ st.missed = Missed(r)
    <3>1. /\ st.missed = Missed(P[Len(P)]) /\ st.run \in 1..Len(P)
          /\ \A i \in 1..Len(P) : i > Len(P) - st.run => (Missed(P[i]) <=> Missed(P[Len(P)]))
          /\ st.run < Len(P) => ~(Missed(P[Len(P) - st.run]) <=> Missed(P[Len(P)]))
      BY <2>1, <2>4 DEF RunOf
    <3>2. Missed(P[Len(P)]) <=> Missed(r) BY <2>4, <3>1
    <3>3. to.run = st.run + 1 BY <1>1, <2>2, <2>4, <3>1
    <3>4. to.run \in 1..Len(Q) /\ Len(Q) - to.run = Len(P) - st.run BY <1>1, <3>1, <3>3
    <3>5. \A i \in 1..Len(Q) : i > Len(Q) - to.run => (Missed(Q[i]) <=> Missed(r))
      BY <1>1, <1>3, <3>1, <3>2, <3>4
    <3>6. to.run < Len(Q) => ~(Missed(Q[Len(Q) - to.run]) <=> Missed(r))
      <4>1. ASSUME to.run < Len(Q) PROVE st.run < Len(P) /\ Len(P) - st.run \in 1..Len(P)
        BY <1>1, <3>1, <3>3, <4>1
      <4>. QED BY <1>1, <3>1, <3>2, <3>4, <4>1
    <3>. QED BY <1>1, <1>2, <2>2, <3>4, <3>5, <3>6 DEF RunOf
  <2>5. CASE P # <<>> /\ st.missed # Missed(r)
    <3>1. st.missed = Missed(P[Len(P)]) /\ Len(P) >= 1 BY <1>1, <1>2, <2>1, <2>5 DEF RunOf
    <3>2. ~(Missed(P[Len(P)]) <=> Missed(r)) BY <2>5, <3>1 DEF Missed
    <3>3. to.run = 1 BY <2>2, <2>5
    <3>4. Q[Len(Q) - 1] = P[Len(P)] /\ Len(Q) - 1 = Len(P) BY <1>1, <3>1
    <3>5. \A i \in 1..Len(Q) : i > Len(Q) - 1 => Q[i] = r BY <1>1
    <3>. QED BY <1>1, <1>2, <2>2, <3>1, <3>2, <3>3, <3>4, <3>5 DEF RunOf
  <2>. QED BY <2>3, <2>4, <2>5
<1>8. MissOf(to, Q)
  <2>1. MissOf(st, P) BY DEF StateOf
  <2>2. to.latestMissed = IF Missed(r) THEN r.height ELSE st.latestMissed BY DEF Feed
  <2>3. \A i \in 1..Len(P) : P[i].height \in Nat BY DEF RowSeq
  <2>. HIDE DEF Q, to
  <2>4. CASE Missed(r)
    <3>1. \A i \in 1..Len(Q) : Q[i].height <= r.height BY <1>1, <1>3, <2>3
    <3>2. Len(Q) \in 1..Len(Q) /\ Q[Len(Q)] = r BY <1>1
    <3>. QED BY <2>2, <2>4, <3>1, <3>2 DEF MissOf
  <2>5. CASE ~Missed(r)
    <3>1. \A i \in 1..Len(Q) : Missed(Q[i]) => Q[i].height <= st.latestMissed BY <1>1, <1>3, <2>1, <2>5 DEF MissOf
    <3>2. \A i \in 1..Len(P) : i \in 1..Len(Q) BY <1>1
    <3>3. st.latestMissed = NoHeight \/ \E i \in 1..Len(Q) : Missed(Q[i]) /\ Q[i].height = st.latestMissed
      BY <1>1, <2>1, <3>2 DEF MissOf
    <3>. QED BY <2>1, <2>2, <2>5, <3>1, <3>3 DEF MissOf
  <2>. QED BY <2>4, <2>5
<1>9. RingOf(to, Q) BY <1>1, RingFed DEF StateOf
<1>. QED BY <1>4, <1>5, <1>6, <1>7, <1>8, <1>9 DEF StateOf

LEMMA MaxIs ==
    ASSUME NEW S \in SUBSET Int, NEW m \in S, \A y \in S : y <= m
    PROVE  Max(S) = m
<1>1. \E x \in S : \A y \in S : x >= y OBVIOUS
<1> DEFINE M == Max(S)
<1>2. M \in S /\ \A y \in S : M >= y BY <1>1 DEF Max
<1>3. M \in Int /\ m \in Int BY <1>2
<1>4. M >= m /\ M <= m BY <1>2
<1>. HIDE DEF M
<1>5. M = m BY <1>3, <1>4
<1>. QED BY <1>5 DEF M

LEMMA SameSeq ==
    ASSUME NEW a, IsSeq(a), NEW b, IsSeq(b), Len(a) = Len(b), \A i \in 1..Len(a) : a[i] = b[i]
    PROVE  a = b
<1>1. a = [i \in 1..Len(a) |-> a[i]] /\ b = [i \in 1..Len(b) |-> b[i]] BY DEF IsSeq
<1>. QED BY <1>1

\* A part of a sequence.
LEMMA PartOf ==
    ASSUME NEW s, IsSeq(s), NEW m \in Nat \ {0}, NEW n \in 0..Len(s), m <= n + 1
    PROVE  /\ IsSeq(SubSeq(s, m, n)) /\ Len(SubSeq(s, m, n)) = n - m + 1
           /\ \A i \in 1..(n - m + 1) : SubSeq(s, m, n)[i] = s[m + i - 1]
<1>1. PICK T : s \in Seq(T) BY DEF IsSeq
<1>2. Len(s) \in Nat /\ DOMAIN s = 1..Len(s) /\ \A i \in 1..Len(s) : s[i] \in T BY <1>1
<1>3. SubSeq(s, m, n) = [i \in 1..(n - m + 1) |-> s[m + i - 1]] BY <1>2
<1>4. \A i \in 1..(n - m + 1) : m + i - 1 \in 1..Len(s) BY <1>2
<1> DEFINE part == [i \in 1..(n - m + 1) |-> s[m + i - 1]]
<1>5. part \in [1..(n - m + 1) -> T] BY <1>2, <1>4
<1>6. n - m + 1 \in Nat BY <1>2
<1>7. /\ DOMAIN part = 1..(n - m + 1) /\ \A i \in 1..(n - m + 1) : part[i] = s[m + i - 1]
  OBVIOUS
<1>. HIDE DEF part
<1>8. part \in Seq(T) /\ Len(part) = n - m + 1 BY <1>5, <1>6
<1>. QED BY <1>3, <1>7, <1>8 DEF IsSeq, part

LEMMA Joined ==
    ASSUME NEW a, IsSeq(a), NEW b, IsSeq(b)
    PROVE  /\ IsSeq(a \o b) /\ Len(a) \in Nat /\ Len(b) \in Nat /\ Len(a \o b) = Len(a) + Len(b)
           /\ \A i \in 1..Len(a) : (a \o b)[i] = a[i]
           /\ \A i \in 1..Len(b) : (a \o b)[Len(a) + i] = b[i]
<1>1. PICK S : a \in Seq(S) BY DEF IsSeq
<1>2. PICK T : b \in Seq(T) BY DEF IsSeq
<1> DEFINE U == S \union T
<1>3. a \in Seq(U) /\ b \in Seq(U) BY <1>1, <1>2
<1>. HIDE DEF U
<1>4. a \o b \in Seq(U) /\ Len(a) \in Nat /\ Len(b) \in Nat /\ Len(a \o b) = Len(a) + Len(b) BY <1>3
<1>5. \A i \in 1..Len(a) : (a \o b)[i] = a[i] BY <1>3, <1>4
<1>6. \A i \in 1..Len(b) : (a \o b)[Len(a) + i] = b[i] BY <1>3, <1>4
<1>. QED BY <1>4, <1>5, <1>6 DEF IsSeq

\* How many rows are before the trailing ones.
Skipped(P, n) == IF Len(P) > n THEN Len(P) - n ELSE 0

LEMMA TrailingFacts ==
    ASSUME NEW P, IsSeq(P), NEW n \in Nat \ {0}
    PROVE  /\ IsSeq(Trailing(P, n)) /\ Skipped(P, n) \in 0..Len(P) /\ Len(P) \in Nat
           /\ Len(Trailing(P, n)) = Len(P) - Skipped(P, n)
           /\ \A i \in 1..(Len(P) - Skipped(P, n)) : Trailing(P, n)[i] = P[Skipped(P, n) + i]
           /\ Len(P) > 0 => Skipped(P, n) < Len(P)
<1> DEFINE from == Skipped(P, n)
<1>1. Len(P) \in Nat BY DEF IsSeq
<1>2. from \in 0..Len(P) /\ (Len(P) > 0 => from < Len(P)) BY <1>1 DEF Skipped
<1>3. Max({1, Len(P) - n + 1}) = from + 1
  <2>1. from + 1 \in {1, Len(P) - n + 1} /\ \A y \in {1, Len(P) - n + 1} : y <= from + 1
    BY <1>1 DEF Skipped
  <2>2. {1, Len(P) - n + 1} \in SUBSET Int BY <1>1
  <2>. HIDE DEF from
  <2>. QED BY <2>1, <2>2, MaxIs
<1>4. Trailing(P, n) = SubSeq(P, from + 1, Len(P)) BY <1>3 DEF Trailing
<1>. HIDE DEF from
<1>5. /\ from + 1 \in Nat \ {0} /\ Len(P) \in 0..Len(P) /\ from + 1 <= Len(P) + 1
      /\ Len(P) - (from + 1) + 1 = Len(P) - from
  BY <1>1, <1>2
<1> DEFINE T == SubSeq(P, from + 1, Len(P))
           many == Len(P) - (from + 1) + 1
<1>6. IsSeq(T) /\ Len(T) = many /\ \A i \in 1..many : T[i] = P[from + 1 + i - 1]
  BY <1>5, PartOf
<1>7. \A i \in 1..(Len(P) - from) : from + 1 + i - 1 = from + i BY <1>1, <1>2
<1>. HIDE DEF T
<1>. QED BY <1>1, <1>2, <1>4, <1>5, <1>6, <1>7 DEF from, T

LEMMA RingIsTrailing ==
    ASSUME NEW P, IsSeq(P), NEW st, RingOf(st, P)
    PROVE  Trailing(MaterializeRing(st), Recent) = Trailing(P, Recent)
<1> DEFINE R == RingSize
           m == MaterializeRing(st)
<1>1. /\ IsSeq(st.ring) /\ Len(st.ring) = R /\ st.pos \in 1..R /\ R \in Nat /\ R >= 1 /\ Recent \in 1..R
      /\ st.ringCount = IF Len(P) < R THEN Len(P) ELSE R
      /\ Len(P) < R => st.pos = Len(P) + 1
      /\ \A n \in 0..(R - 1) : n < Len(P) => st.ring[Place(st, n)] = P[Len(P) - n]
      /\ Len(P) \in Nat
  BY RingBounds DEF RingOf, IsSeq
<1>2. CASE Len(P) < R
  <2>1. m = SubSeq(st.ring, 1, Len(P)) BY <1>1, <1>2 DEF MaterializeRing
  <2>2. IsSeq(m) /\ Len(m) = Len(P) /\ \A i \in 1..Len(P) : m[i] = st.ring[i]
    <3>1. Len(P) \in 0..Len(st.ring) /\ 1 \in Nat \ {0} /\ 1 <= Len(P) + 1 /\ Len(P) - 1 + 1 = Len(P)
      BY <1>1, <1>2
    <3>2. /\ IsSeq(SubSeq(st.ring, 1, Len(P))) /\ Len(SubSeq(st.ring, 1, Len(P))) = Len(P) - 1 + 1
          /\ \A i \in 1..(Len(P) - 1 + 1) : SubSeq(st.ring, 1, Len(P))[i] = st.ring[1 + i - 1]
      BY <1>1, <3>1, PartOf
    <3>. QED BY <2>1, <3>1, <3>2
  <2>3. ASSUME NEW i \in 1..Len(P) PROVE st.ring[i] = P[i]
    <3>1. Len(P) - i \in 0..(R - 1) /\ Len(P) - i < Len(P) /\ Len(P) - (Len(P) - i) = i BY <1>1, <1>2
    <3>2. Place(st, Len(P) - i) = i BY <1>1, <1>2 DEF Place
    <3>. QED BY <1>1, <3>1, <3>2
  <2>4. m = P BY <2>2, <2>3, SameSeq
  <2>. QED BY <2>4
<1>3. CASE ~(Len(P) < R)
  <2> DEFINE a == SubSeq(st.ring, st.pos, R)
             b == SubSeq(st.ring, 1, st.pos - 1)
             old == R - st.pos + 1
  <2>1. m = a \o b
    <3>1. ~(st.ringCount < Len(st.ring)) /\ Len(st.ring) = R BY <1>1, <1>3
    <3>. QED BY <3>1 DEF MaterializeRing
  <2>2. IsSeq(a) /\ Len(a) = old /\ \A i \in 1..old : a[i] = st.ring[st.pos + i - 1]
    <3>1. R \in 0..Len(st.ring) /\ st.pos \in Nat \ {0} /\ st.pos <= R + 1 BY <1>1
    <3>. QED BY <1>1, <3>1, PartOf
  <2>3. IsSeq(b) /\ Len(b) = st.pos - 1 /\ \A i \in 1..(st.pos - 1) : b[i] = st.ring[i]
    <3>1. st.pos - 1 \in 0..Len(st.ring) /\ 1 \in Nat \ {0} /\ 1 <= st.pos - 1 + 1 BY <1>1
    <3>2. /\ IsSeq(b) /\ Len(b) = st.pos - 1 - 1 + 1
          /\ \A i \in 1..(st.pos - 1 - 1 + 1) : b[i] = st.ring[1 + i - 1]
      BY <1>1, <3>1, PartOf
    <3>. QED BY <1>1, <3>2
  <2>. HIDE DEF a, b, m
  <2>4. /\ IsSeq(m) /\ Len(m) = R
        /\ \A i \in 1..old : m[i] = a[i]
        /\ \A i \in 1..(st.pos - 1) : m[old + i] = b[i]
    <3>1. Len(a) + Len(b) = R BY <1>1, <2>2, <2>3
    <3>2. /\ IsSeq(a \o b) /\ Len(a \o b) = Len(a) + Len(b)
          /\ \A i \in 1..Len(a) : (a \o b)[i] = a[i]
          /\ \A i \in 1..Len(b) : (a \o b)[Len(a) + i] = b[i]
      <4>1. IsSeq(a) /\ IsSeq(b) BY <2>2, <2>3
      <4>. QED BY ONLY <4>1, Joined
    <3>. QED BY <2>1, <2>2, <2>3, <3>1, <3>2
  <2>5. ASSUME NEW i \in 1..R PROVE m[i] = P[Len(P) - R + i]
    <3>0. /\ R - i \in 0..(R - 1) /\ R - i < Len(P) /\ Len(P) - (R - i) = Len(P) - R + i BY <1>1, <1>3
    <3>1. CASE i <= old
      <4>1. i \in 1..old /\ Place(st, R - i) = st.pos + i - 1 BY <1>1, <3>1 DEF Place
      <4>2. m[i] = st.ring[st.pos + i - 1] BY <2>2, <2>4, <4>1
      <4>. QED BY <1>1, <3>0, <4>1, <4>2
    <3>2. CASE i > old
      <4> DEFINE j == i - old
      <4>0. old + j = i /\ j = i - R + st.pos - 1 BY <1>1
      <4>1. j \in 1..(st.pos - 1) /\ Place(st, R - i) = j
        <5>1. j \in 1..(st.pos - 1) BY <1>1, <3>2
        <5>2. st.pos > R - i + 1 BY <1>1, <3>2
        <5>3. Place(st, R - i) = st.pos - 1 - (R - i) BY <5>2 DEF Place
        <5>. QED BY <1>1, <4>0, <5>1, <5>3
      <4>. HIDE DEF old, j
      <4>2. m[i] = st.ring[j] BY <2>3, <2>4, <4>0, <4>1
      <4>. QED BY <1>1, <3>0, <4>1, <4>2
    <3>. QED BY <1>1, <3>1, <3>2
  <2>6. Recent \in Nat \ {0} BY <1>1
  <2>7. Skipped(m, Recent) = R - Recent /\ Skipped(P, Recent) = Len(P) - Recent
    BY <1>1, <1>3, <2>4 DEF Skipped
  <2>8. /\ IsSeq(Trailing(m, Recent)) /\ Len(Trailing(m, Recent)) = Recent
        /\ \A i \in 1..Recent : Trailing(m, Recent)[i] = m[R - Recent + i]
    <3>1. Len(m) - Skipped(m, Recent) = Recent BY <1>1, <2>4, <2>7
    <3>2. /\ IsSeq(Trailing(m, Recent)) /\ Len(Trailing(m, Recent)) = Len(m) - Skipped(m, Recent)
          /\ \A i \in 1..(Len(m) - Skipped(m, Recent)) : Trailing(m, Recent)[i] = m[Skipped(m, Recent) + i]
      BY <2>4, <2>6, TrailingFacts
    <3>. QED BY <2>7, <3>1, <3>2
  <2>9. /\ IsSeq(Trailing(P, Recent)) /\ Len(Trailing(P, Recent)) = Recent
        /\ \A i \in 1..Recent : Trailing(P, Recent)[i] = P[Len(P) - Recent + i]
    <3>1. Len(P) - Skipped(P, Recent) = Recent BY <1>1, <2>7
    <3>. QED BY <2>6, <2>7, <3>1, TrailingFacts
  <2>10. ASSUME NEW i \in 1..Recent PROVE m[R - Recent + i] = P[Len(P) - Recent + i]
    <3>1. R - Recent + i \in 1..R /\ Len(P) - R + (R - Recent + i) = Len(P) - Recent + i BY <1>1
    <3>. QED BY <2>5, <3>1
  <2>11. Trailing(m, Recent) = Trailing(P, Recent) BY <2>8, <2>9, <2>10, SameSeq
  <2>. QED BY <2>11 DEF m
<1>. QED BY <1>2, <1>3

LEMMA StreakIs ==
    ASSUME NEW P, IsSeq(P), P # <<>>, NEW st, RunOf(st, P), NEW missed \in BOOLEAN
    PROVE  Streak(P, missed) = IF Missed(P[Len(P)]) <=> missed THEN st.run ELSE 0
<1> DEFINE run == {n \in 0..Len(P) :
                     \A i \in (Len(P) - n + 1)..Len(P) : Missed(P[i]) = missed}
<1>1. Streak(P, missed) = Max(run) BY DEF Streak
<1>2. /\ Len(P) \in Nat /\ st.run \in 1..Len(P)
      /\ \A i \in 1..Len(P) : i > Len(P) - st.run => (Missed(P[i]) <=> Missed(P[Len(P)]))
      /\ st.run < Len(P) => ~(Missed(P[Len(P) - st.run]) <=> Missed(P[Len(P)]))
  BY DEF RunOf, IsSeq
<1>3. \A i : Missed(P[i]) \in BOOLEAN BY DEF Missed
<1>4. CASE Missed(P[Len(P)]) <=> missed
  <2>1. st.run \in run
    <3>1. ASSUME NEW i \in (Len(P) - st.run + 1)..Len(P) PROVE Missed(P[i]) = missed
      <4>1. i \in 1..Len(P) /\ i > Len(P) - st.run BY <1>2
      <4>2. Missed(P[i]) <=> Missed(P[Len(P)]) BY <1>2, <4>1
      <4>. QED BY <1>3, <1>4, <4>2
    <3>. QED BY <1>2, <3>1
  <2>2. ASSUME NEW n \in run, n > st.run PROVE FALSE
    <3>1. st.run < Len(P) /\ Len(P) - st.run \in (Len(P) - n + 1)..Len(P) BY <1>2, <2>2
    <3>2. Missed(P[Len(P) - st.run]) = missed BY <3>1
    <3>3. ~(Missed(P[Len(P) - st.run]) <=> Missed(P[Len(P)])) BY <1>2, <3>1
    <3>. QED BY <1>3, <1>4, <3>2, <3>3
  <2>3. run \in SUBSET Int /\ \A n \in run : n <= st.run BY <1>2, <2>2
  <2>. HIDE DEF run
  <2>. QED BY <1>1, <1>4, <2>1, <2>3, MaxIs
<1>5. CASE ~(Missed(P[Len(P)]) <=> missed)
  <2>1. 0 \in run BY <1>2
  <2>2. ASSUME NEW n \in run, n > 0 PROVE FALSE
    <3>1. Len(P) \in (Len(P) - n + 1)..Len(P) BY <1>2, <2>2
    <3>2. Missed(P[Len(P)]) = missed BY <3>1
    <3>. QED BY <1>5, <3>2
  <2>3. run \in SUBSET Int /\ \A n \in run : n <= 0 BY <1>2, <2>2
  <2>. HIDE DEF run
  <2>. QED BY <1>1, <1>5, <2>1, <2>3, MaxIs
<1>. QED BY <1>4, <1>5

LEMMA StreamedIsBatch ==
    ASSUME NEW P, RowSeq(P), P # <<>>, NEW st, StateOf(st, P), NEW bad
    PROVE  /\ LifetimeSummary(st, bad) = BuildSummary(P, bad)
           /\ Trailing(MaterializeRing(st), Recent) = Trailing(P, Recent)
<1>1. IsSeq(P) /\ CountsOf(st, P) /\ EndsOf(st, P) /\ RunOf(st, P) /\ MissOf(st, P) /\ RingOf(st, P)
  BY DEF StateOf, RowSeq
<1>2. Head(P) = P[1] /\ Last(P) = P[Len(P)]
  <2>1. \E S : P \in Seq(S) BY <1>1 DEF IsSeq
  <2>. QED BY <2>1 DEF Last
<1>3. st.first = Head(P).height /\ st.last.height = Last(P).height BY <1>1, <1>2 DEF EndsOf
<1>4. /\ (IF st.missed THEN 0 ELSE st.run) = Streak(P, FALSE)
      /\ (IF st.missed THEN st.run ELSE 0) = Streak(P, TRUE)
  <2>1. st.missed = Missed(P[Len(P)]) BY <1>1 DEF RunOf
  <2>2. Streak(P, FALSE) = IF Missed(P[Len(P)]) <=> FALSE THEN st.run ELSE 0 BY <1>1, StreakIs
  <2>3. Streak(P, TRUE) = IF Missed(P[Len(P)]) <=> TRUE THEN st.run ELSE 0 BY <1>1, StreakIs
  <2>. QED BY <2>1, <2>2, <2>3
<1>5. st.latestMissed = LatestMissed(P)
  <2> DEFINE all == {P[i].height : i \in {j \in DOMAIN P : Missed(P[j])}} \union {NoHeight}
  <2>1. DOMAIN P = 1..Len(P) BY <1>1 DEF IsSeq
  <2>2. NoHeight \in Nat BY DEF NoHeight
  <2>3. all \in SUBSET Int BY <2>1, <2>2 DEF RowSeq
  <2>4. st.latestMissed \in all BY <1>1, <2>1 DEF MissOf
  <2>5. \A y \in all : y <= st.latestMissed BY <1>1, <2>1 DEF MissOf, NoHeight
  <2>. HIDE DEF all
  <2>6. Max(all) = st.latestMissed BY <2>3, <2>4, <2>5, MaxIs
  <2>. QED BY <2>6 DEF all, LatestMissed
<1>6. LifetimeSummary(st, bad) = BuildSummary(P, bad)
  BY <1>1, <1>3, <1>4, <1>5 DEF LifetimeSummary, BuildSummary, CountsOf
<1>7. Trailing(MaterializeRing(st), Recent) = Trailing(P, Recent) BY <1>1, RingIsTrailing
<1>. QED BY <1>6, <1>7

LEMMA CountingUp ==
    ASSUME NEW N \in Nat, NEW Shown, 0 \in Shown, \A n \in 0..(N - 1) : n \in Shown => n + 1 \in Shown
    PROVE  0..N \subseteq Shown
<1> DEFINE Bad == (0..N) \ Shown
           less == {p \in Nat \X Nat : p[1] < p[2]}
<1>1. IsWellFoundedOn(less, Nat)
  BY NatLessThanWellFounded DEF OpToRel
<1>2. SUFFICES ASSUME Bad # {} PROVE FALSE OBVIOUS
<1>3. PICK m \in Bad : \A k \in Bad : <<k, m>> \notin less
  <2>1. Bad \subseteq Nat OBVIOUS
  <2>. HIDE DEF Bad, less
  <2>. QED BY <1>1, <1>2, <2>1, WFMin
<1>4. m \in 0..N /\ m - 1 \in 0..(N - 1) BY <1>3
<1>5. m - 1 \in Shown
  <2>1. m - 1 < m /\ m - 1 \in Nat /\ m \in Nat /\ m - 1 \in 0..N BY <1>4
  <2>2. <<m - 1, m>> \in less BY <2>1
  <2>. QED BY <1>3, <2>1, <2>2
<1>6. m - 1 + 1 = m BY <1>4
<1>. QED BY <1>3, <1>4, <1>5, <1>6

LEMMA LivenessLength == ASSUME IsSeq(liveness) PROVE Len(liveness) \in Nat /\ DOMAIN liveness = 1..Len(liveness)
BY DEF IsSeq

\* The rows up to a height follow from those up to the height before.
LEMMA RowsFollow ==
    ASSUME IsSeq(liveness), NEW s
    PROVE  /\ RowsByHeight(s)[0] = <<>>
           /\ \A h \in 1..Len(liveness) :
                RowsByHeight(s)[h] = IF s \in DOMAIN liveness[h]
                                     THEN Append(RowsByHeight(s)[h - 1], RowAt(s, h))
                                     ELSE RowsByHeight(s)[h - 1]
<1> DEFINE N == Len(liveness)
           Body(g, h) == IF h = 0 THEN <<>>
                         ELSE IF s \in DOMAIN liveness[h] THEN Append(g[h - 1], RowAt(s, h))
                         ELSE g[h - 1]
           Shown == {n \in 0..N : \E g : g = [h \in 0..n |-> Body(g, h)]}
<1>1. N \in Nat BY LivenessLength
<1>. HIDE DEF N
<1>2. 0 \in Shown
  <2> DEFINE g == [h \in 0..0 |-> <<>>]
  <2>1. g = [h \in 0..0 |-> Body(g, h)] OBVIOUS
  <2>2. \E x : x = [h \in 0..0 |-> Body(x, h)] BY <2>1
  <2>. HIDE DEF Body
  <2>. QED BY <1>1, <2>2
<1>3. ASSUME NEW n \in 0..(N - 1), n \in Shown PROVE n + 1 \in Shown
  <2>1. PICK g : g = [h \in 0..n |-> Body(g, h)] BY <1>3
  <2> DEFINE next == [h \in 0..(n + 1) |-> Body(g, h)]
  <2>2. ASSUME NEW h \in 0..(n + 1), h # 0 PROVE next[h - 1] = g[h - 1]
    <3>1. h - 1 \in 0..n /\ h - 1 \in 0..(n + 1) BY <2>2
    <3>. HIDE DEF Body
    <3>. QED BY <2>1, <3>1
  <2>. HIDE DEF next
  <2>3. \A h \in 0..(n + 1) : Body(next, h) = Body(g, h) BY <2>2
  <2>4. next = [h \in 0..(n + 1) |-> Body(next, h)]
    <3>1. next = [h \in 0..(n + 1) |-> Body(g, h)] BY DEF next
    <3>. HIDE DEF Body
    <3>. QED BY <2>3, <3>1
  <2>5. \E x : x = [h \in 0..(n + 1) |-> Body(x, h)] BY <2>4
  <2>6. n + 1 \in 0..N BY <1>1, <1>3
  <2>. HIDE DEF Body
  <2>. QED BY <2>5, <2>6
<1>4. N \in Shown
  <2>. HIDE DEF Shown
  <2>1. 0..N \subseteq Shown BY <1>1, <1>2, <1>3, CountingUp
  <2>. QED BY <1>1, <2>1
<1>5. \E g : g = [h \in 0..N |-> Body(g, h)] BY <1>4
<1> DEFINE rows == RowsByHeight(s)
<1>6. rows = CHOOSE g : g = [h \in 0..N |-> Body(g, h)] BY DEF RowsByHeight, N
<1>7. rows = [h \in 0..N |-> Body(rows, h)]
  <2>. HIDE DEF Body, rows
  <2>. QED BY <1>5, <1>6
<1>. HIDE DEF rows
<1>8. \A h \in 0..N : rows[h] = Body(rows, h)
  <2>. HIDE DEF Body
  <2>. QED BY <1>7
<1>9. rows[0] = <<>> BY <1>1, <1>8
<1>10. ASSUME NEW h \in 1..N
       PROVE rows[h] = IF s \in DOMAIN liveness[h] THEN Append(rows[h - 1], RowAt(s, h)) ELSE rows[h - 1]
  BY <1>1, <1>8
<1>. QED BY <1>9, <1>10 DEF rows, N

\* So does the state of a slot.
LEMMA FeedingFollows ==
    ASSUME IsSeq(liveness), NEW s, NEW st, NEW chunk
    PROVE  /\ Feeding(st, s, chunk)[0] = st
           /\ \A h \in 1..Len(liveness) :
                Feeding(st, s, chunk)[h] = IF s \in DOMAIN liveness[h] /\ <<s, h>> \in chunk
                                           THEN Feed(Feeding(st, s, chunk)[h - 1], RowAt(s, h))
                                           ELSE Feeding(st, s, chunk)[h - 1]
<1> DEFINE N == Len(liveness)
           Body(g, h) == IF h = 0 THEN st
                         ELSE IF s \in DOMAIN liveness[h] /\ <<s, h>> \in chunk
                         THEN Feed(g[h - 1], RowAt(s, h))
                         ELSE g[h - 1]
           Shown == {n \in 0..N : \E g : g = [h \in 0..n |-> Body(g, h)]}
<1>1. N \in Nat BY LivenessLength
<1>. HIDE DEF N
<1>2. 0 \in Shown
  <2> DEFINE g == [h \in 0..0 |-> st]
  <2>1. g = [h \in 0..0 |-> Body(g, h)] OBVIOUS
  <2>2. \E x : x = [h \in 0..0 |-> Body(x, h)] BY <2>1
  <2>. HIDE DEF Body
  <2>. QED BY <1>1, <2>2
<1>3. ASSUME NEW n \in 0..(N - 1), n \in Shown PROVE n + 1 \in Shown
  <2>1. PICK g : g = [h \in 0..n |-> Body(g, h)] BY <1>3
  <2> DEFINE next == [h \in 0..(n + 1) |-> Body(g, h)]
  <2>2. ASSUME NEW h \in 0..(n + 1), h # 0 PROVE next[h - 1] = g[h - 1]
    <3>1. h - 1 \in 0..n /\ h - 1 \in 0..(n + 1) BY <2>2
    <3>. HIDE DEF Body
    <3>. QED BY <2>1, <3>1
  <2>. HIDE DEF next
  <2>3. \A h \in 0..(n + 1) : Body(next, h) = Body(g, h) BY <2>2
  <2>4. next = [h \in 0..(n + 1) |-> Body(next, h)]
    <3>1. next = [h \in 0..(n + 1) |-> Body(g, h)] BY DEF next
    <3>. HIDE DEF Body
    <3>. QED BY <2>3, <3>1
  <2>5. \E x : x = [h \in 0..(n + 1) |-> Body(x, h)] BY <2>4
  <2>6. n + 1 \in 0..N BY <1>1, <1>3
  <2>. HIDE DEF Body
  <2>. QED BY <2>5, <2>6
<1>4. N \in Shown
  <2>. HIDE DEF Shown
  <2>1. 0..N \subseteq Shown BY <1>1, <1>2, <1>3, CountingUp
  <2>. QED BY <1>1, <2>1
<1>5. \E g : g = [h \in 0..N |-> Body(g, h)] BY <1>4
<1> DEFINE fed == Feeding(st, s, chunk)
<1>6. fed = CHOOSE g : g = [h \in 0..N |-> Body(g, h)] BY DEF Feeding, N
<1>7. fed = [h \in 0..N |-> Body(fed, h)]
  <2>. HIDE DEF Body, fed
  <2>. QED BY <1>5, <1>6
<1>. HIDE DEF fed
<1>8. \A h \in 0..N : fed[h] = Body(fed, h)
  <2>. HIDE DEF Body
  <2>. QED BY <1>7
<1>9. fed[0] = st
  <2>1. 0 \in 0..N BY <1>1
  <2>2. fed[0] = Body(fed, 0) BY <1>8, <2>1
  <2>. QED BY <2>2
<1>10. ASSUME NEW h \in 1..N
       PROVE fed[h] = IF s \in DOMAIN liveness[h] /\ <<s, h>> \in chunk
                        THEN Feed(fed[h - 1], RowAt(s, h)) ELSE fed[h - 1]
  BY <1>1, <1>8
<1>. QED BY <1>9, <1>10 DEF fed, N

\* The rows of a slot up to a height: its rows, and no others.
RowsTo(s, h, P) ==
    /\ RowSeq(P)
    /\ \A i \in 1..Len(P) : \E g \in 1..h : s \in DOMAIN liveness[g] /\ P[i] = RowAt(s, g)
    /\ \A g \in 1..h : s \in DOMAIN liveness[g] => \E i \in 1..Len(P) : P[i] = RowAt(s, g)

LEMMA RowFields ==
    ASSUME NEW s \in Slots, NEW h \in Nat \ {0}
    PROVE  RowAt(s, h).height = h /\ RowAt(s, h).status = liveness[h][s] /\ RowAt(s, h) # NoRow
<1>1. NoHeight # h BY DEF NoHeight
<1>2. RowAt(s, h).height = h /\ RowAt(s, h).status = liveness[h][s] BY DEF RowAt, Row
<1>3. NoRow.height = NoHeight BY DEF NoRow, Row
<1>. QED BY <1>1, <1>2, <1>3

LEMMA RowsAre ==
    ASSUME IsSeq(liveness), NEW s \in Slots, NEW h \in 0..Len(liveness)
    PROVE  RowsTo(s, h, RowsByHeight(s)[h])
<1> DEFINE N == Len(liveness)
           rows == RowsByHeight(s)
           Shown == {n \in 0..N : RowsTo(s, n, rows[n])}
<1>1. N \in Nat BY LivenessLength
<1>2. /\ rows[0] = <<>>
      /\ \A n \in 1..N : rows[n] = IF s \in DOMAIN liveness[n] THEN Append(rows[n - 1], RowAt(s, n))
                                   ELSE rows[n - 1]
  BY RowsFollow
<1>. HIDE DEF N, rows
<1>3. 0 \in Shown
  <2>1. IsSeq(<<>>) /\ Len(<<>>) = 0 BY DEF IsSeq
  <2>2. RowsTo(s, 0, <<>>) BY <2>1 DEF RowsTo, RowSeq
  <2>. QED BY <1>1, <1>2, <2>2
<1>4. ASSUME NEW n \in 0..(N - 1), n \in Shown PROVE n + 1 \in Shown
  <2> DEFINE P == rows[n]
             Q == rows[n + 1]
             r == RowAt(s, n + 1)
  <2>1. RowsTo(s, n, P) /\ n \in Nat /\ n + 1 \in 0..N BY <1>1, <1>4
  <2>2. n + 1 \in 1..N /\ n + 1 - 1 = n BY <1>1
  <2>3. Q = IF s \in DOMAIN liveness[n + 1] THEN Append(P, r) ELSE P BY <1>2, <2>2
  <2>. HIDE DEF P, Q
  <2>4. CASE s \notin DOMAIN liveness[n + 1]
    <3>1. Q = P BY <2>3, <2>4
    <3>2. \A g \in 1..(n + 1) : g = n + 1 \/ g \in 1..n BY <2>1
    <3>3. \A g \in 1..n : g \in 1..(n + 1) BY <2>1
    <3>4. RowsTo(s, n + 1, Q) BY <2>1, <2>4, <3>1, <3>2, <3>3 DEF RowsTo
    <3>. QED BY <2>1, <3>4 DEF Q
  <2>5. CASE s \in DOMAIN liveness[n + 1]
    <3>1. Q = Append(P, r) BY <2>3, <2>5
    <3>2. RowSeq(P) /\ IsSeq(P) BY <2>1 DEF RowsTo, RowSeq
    <3>3. /\ IsSeq(Q) /\ Len(P) \in Nat /\ Len(Q) = Len(P) + 1
          /\ \A i \in 1..Len(P) : Q[i] = P[i]
          /\ Q[Len(P) + 1] = r
      BY <3>1, <3>2, Appended
    <3>4. r.height = n + 1 /\ r # NoRow BY <2>1, RowFields
    <3>5. \A i \in 1..Len(P) : P[i].height \in 1..n
      <4>1. \A i \in 1..Len(P) : \E g \in 1..n : P[i] = RowAt(s, g) BY <2>1 DEF RowsTo
      <4>2. \A g \in 1..n : RowAt(s, g).height = g BY <2>1, RowFields
      <4>. QED BY <4>1, <4>2
    <3>. HIDE DEF r
    <3>6. RowSeq(Q)
      <4>1. \A i \in 1..Len(Q) : i \in 1..Len(P) \/ i = Len(P) + 1 BY <3>3
      <4>2. \A i \in 1..Len(Q) : Q[i].height \in Nat \ {0} /\ Q[i] # NoRow
        BY <2>1, <3>2, <3>3, <3>4, <4>1 DEF RowSeq
      <4>3. ASSUME NEW i \in 1..Len(Q), NEW j \in 1..Len(Q), i < j PROVE Q[i].height < Q[j].height
        <5>1. i \in 1..Len(P) BY <3>3, <4>3
        <5>2. P[i].height < n + 1 BY <2>1, <3>5, <5>1
        <5>. QED BY <3>2, <3>3, <3>4, <4>1, <4>3, <5>1, <5>2 DEF RowSeq
      <4>. QED BY <3>3, <4>2, <4>3 DEF RowSeq
    <3>7. ASSUME NEW i \in 1..Len(Q)
          PROVE  \E g \in 1..(n + 1) : s \in DOMAIN liveness[g] /\ Q[i] = RowAt(s, g)
      <4>1. CASE i \in 1..Len(P)
        <5>1. PICK g \in 1..n : s \in DOMAIN liveness[g] /\ P[i] = RowAt(s, g) BY <2>1, <4>1 DEF RowsTo
        <5>2. g \in 1..(n + 1) BY <2>1
        <5>. QED BY <3>3, <4>1, <5>1, <5>2
      <4>2. CASE i = Len(P) + 1
        <5>1. n + 1 \in 1..(n + 1) BY <2>1
        <5>. QED BY <2>5, <3>3, <4>2, <5>1 DEF r
      <4>. QED BY <3>3, <4>1, <4>2
    <3>8. ASSUME NEW g \in 1..(n + 1), s \in DOMAIN liveness[g]
          PROVE  \E i \in 1..Len(Q) : Q[i] = RowAt(s, g)
      <4>1. CASE g = n + 1
        <5>1. Len(P) + 1 \in 1..Len(Q) BY <3>3
        <5>. QED BY <3>3, <4>1, <5>1 DEF r
      <4>2. CASE g \in 1..n
        <5>1. PICK i \in 1..Len(P) : P[i] = RowAt(s, g) BY <2>1, <3>8, <4>2 DEF RowsTo
        <5>2. i \in 1..Len(Q) BY <3>3
        <5>. QED BY <3>3, <5>1, <5>2
      <4>. QED BY <2>1, <4>1, <4>2
    <3>9. RowsTo(s, n + 1, Q) BY <3>6, <3>7, <3>8 DEF RowsTo
    <3>. QED BY <2>1, <3>9 DEF Q
  <2>. QED BY <2>4, <2>5
<1>5. 0..N \subseteq Shown
  <2>. HIDE DEF Shown
  <2>. QED BY <1>1, <1>3, <1>4, CountingUp
<1>. QED BY <1>5 DEF N, rows

\* A chunk that has the rows of a slot between two heights takes its state from
\* the rows up to the one to the rows up to the other.
LEMMA FeedingKeeps ==
    ASSUME IsSeq(liveness), NEW s \in Slots, NEW from \in 0..Len(liveness), NEW to \in from..Len(liveness),
           NEW st, StateOf(st, RowsByHeight(s)[from]), NEW chunk,
           \A h \in 1..Len(liveness) :
              s \in DOMAIN liveness[h] => (<<s, h>> \in chunk <=> from < h /\ h <= to)
    PROVE  StateOf(Feeding(st, s, chunk)[Len(liveness)], RowsByHeight(s)[to])
<1> DEFINE N == Len(liveness)
           rows == RowsByHeight(s)
           fed == Feeding(st, s, chunk)
           At(h) == IF h < from THEN from ELSE IF h > to THEN to ELSE h
           Shown == {h \in 0..N : StateOf(fed[h], rows[At(h)])}
<1>1. N \in Nat BY LivenessLength
<1>2. \A h \in 1..N : rows[h] = IF s \in DOMAIN liveness[h] THEN Append(rows[h - 1], RowAt(s, h))
                                ELSE rows[h - 1]
  BY RowsFollow
<1>3. /\ fed[0] = st
      /\ \A h \in 1..N : fed[h] = IF s \in DOMAIN liveness[h] /\ <<s, h>> \in chunk
                                  THEN Feed(fed[h - 1], RowAt(s, h)) ELSE fed[h - 1]
  BY FeedingFollows
<1>4. \A h \in 0..N : RowsTo(s, h, rows[h]) BY RowsAre
<1>5. from \in 0..N /\ to \in 0..N /\ from <= to /\ StateOf(st, rows[from])
      /\ \A h \in 1..N : s \in DOMAIN liveness[h] => (<<s, h>> \in chunk <=> from < h /\ h <= to)
  OBVIOUS
<1>. HIDE DEF N, rows, fed
<1>6. 0 \in Shown
  <2>1. At(0) = from BY <1>1, <1>5
  <2>. QED BY <1>1, <1>3, <1>5, <2>1
<1>7. ASSUME NEW n \in 0..(N - 1), n \in Shown PROVE n + 1 \in Shown
  <2>1. StateOf(fed[n], rows[At(n)]) BY <1>7
  <2>2. n + 1 \in 1..N /\ n + 1 - 1 = n /\ n \in Nat /\ n + 1 \in 0..N /\ n \in 0..N BY <1>1, <1>7
  <2> DEFINE fits == s \in DOMAIN liveness[n + 1] /\ <<s, n + 1>> \in chunk
  <2>3. fed[n + 1] = IF fits THEN Feed(fed[n], RowAt(s, n + 1)) ELSE fed[n]
    <3>1. fed[n + 1] = IF fits THEN Feed(fed[n + 1 - 1], RowAt(s, n + 1)) ELSE fed[n + 1 - 1] BY <1>3, <2>2
    <3>. QED BY <2>2, <3>1
  <2>4. rows[n + 1] = IF s \in DOMAIN liveness[n + 1] THEN Append(rows[n], RowAt(s, n + 1)) ELSE rows[n]
    <3>1. rows[n + 1] = IF s \in DOMAIN liveness[n + 1] THEN Append(rows[n + 1 - 1], RowAt(s, n + 1))
                        ELSE rows[n + 1 - 1]
      BY <1>2, <2>2
    <3>. QED BY <2>2, <3>1
  <2>5. fits <=> s \in DOMAIN liveness[n + 1] /\ from < n + 1 /\ n + 1 <= to BY <1>5, <2>2
  <2>. HIDE DEF fits
  <2>6. CASE s \in DOMAIN liveness[n + 1] /\ from < n + 1 /\ n + 1 <= to
    <3> DEFINE r == RowAt(s, n + 1)
    <3>1. fed[n + 1] = Feed(fed[n], r) BY <2>3, <2>5, <2>6
    <3>2. rows[n + 1] = Append(rows[n], r) BY <2>4, <2>6
    <3>3. At(n) = n /\ At(n + 1) = n + 1 BY <1>5, <2>2, <2>6
    <3>4. RowSeq(rows[n]) /\ \A i \in 1..Len(rows[n]) : \E g \in 1..n : rows[n][i] = RowAt(s, g)
      BY <1>4, <2>2 DEF RowsTo
    <3>5. \A g \in 1..(n + 1) : RowAt(s, g).height = g /\ RowAt(s, g) # NoRow BY <2>2, RowFields
    <3>6. r.height \in Nat \ {0} /\ r # NoRow /\ \A i \in 1..Len(rows[n]) : rows[n][i].height < r.height
      <4>1. n + 1 \in 1..(n + 1) /\ \A g \in 1..n : g \in 1..(n + 1) /\ g < n + 1 BY <2>2
      <4>. QED BY <2>2, <3>4, <3>5, <4>1
    <3>. HIDE DEF r
    <3>7. StateOf(fed[n], rows[n]) BY <2>1, <3>3
    <3>8. StateOf(Feed(fed[n], r), Append(rows[n], r)) BY <3>4, <3>6, <3>7, FeedKeeps
    <3>9. StateOf(fed[n + 1], rows[At(n + 1)]) BY <3>1, <3>2, <3>3, <3>8
    <3>. QED BY <2>2, <3>9
  <2>7. CASE ~(s \in DOMAIN liveness[n + 1] /\ from < n + 1 /\ n + 1 <= to)
    <3>1. fed[n + 1] = fed[n] BY <2>3, <2>5, <2>7
    <3>2. rows[At(n + 1)] = rows[At(n)]
      <4>1. CASE n + 1 <= from
        <5>1. At(n + 1) = from /\ At(n) = from BY <1>5, <2>2, <4>1
        <5>. QED BY <5>1
      <4>2. CASE n + 1 > to
        <5>1. At(n + 1) = to /\ At(n) = to BY <1>5, <2>2, <4>2
        <5>. QED BY <5>1
      <4>3. CASE from < n + 1 /\ n + 1 <= to
        <5>1. At(n + 1) = n + 1 /\ At(n) = n BY <1>5, <2>2, <4>3
        <5>2. rows[n + 1] = rows[n] BY <2>4, <2>7, <4>3
        <5>. QED BY <5>1, <5>2
      <4>. QED BY <1>5, <2>2, <4>1, <4>2, <4>3
    <3>3. StateOf(fed[n + 1], rows[At(n + 1)]) BY <2>1, <3>1, <3>2
    <3>. QED BY <2>2, <3>3
  <2>. QED BY <2>6, <2>7
<1>8. N \in Shown
  <2>. HIDE DEF Shown
  <2>1. 0..N \subseteq Shown BY <1>1, <1>6, <1>7, CountingUp
  <2>. QED BY <1>1, <2>1
<1>9. At(N) = to BY <1>1, <1>5
<1>. QED BY <1>8, <1>9 DEF N, rows, fed

(***************************************************************************)
(* The chunks.                                                             *)
(***************************************************************************)
\* The height up to which a slot is read when the last row read has key k.
ReadTo(s, k) == IF s < k[1] THEN Len(liveness) ELSE IF s = k[1] THEN k[2] ELSE 0

LivenessTyped ==
    /\ IsSeq(liveness) /\ IsFiniteSet(RowKeys)
    /\ \A h \in 1..Len(liveness) : DOMAIN liveness[h] \subseteq Slots

LEMMA KeyFacts ==
    ASSUME LivenessTyped
    PROVE  /\ RowKeys \subseteq Slots \X (1..Len(liveness))
           /\ \A s, h : <<s, h>> \in RowKeys <=> h \in 1..Len(liveness) /\ s \in DOMAIN liveness[h]
<1>1. DOMAIN liveness = 1..Len(liveness) BY LivenessLength DEF LivenessTyped
<1>2. \A k : k \in RowKeys <=> \E h \in 1..Len(liveness) : \E s \in DOMAIN liveness[h] : k = <<s, h>>
  BY <1>1 DEF RowKeys
<1>. QED BY <1>2 DEF LivenessTyped

LEMMA RowKeysFinite ==
    ASSUME IsSeq(liveness), \A h \in 1..Len(liveness) : DOMAIN liveness[h] \subseteq Slots
    PROVE  LivenessTyped
<1>1. Len(liveness) \in Nat /\ DOMAIN liveness = 1..Len(liveness) BY LivenessLength
<1>2. RowKeys \subseteq Slots \X (1..Len(liveness)) BY <1>1 DEF RowKeys
<1>3. IsFiniteSet(Slots \X (1..Len(liveness)))
  <2>1. IsFiniteSet(Slots) /\ IsFiniteSet(1..Len(liveness)) BY <1>1, SlotFacts, FS_Interval
  <2>. QED BY ONLY <2>1, FS_Product
<1>. QED BY <1>2, <1>3, FS_Subset DEF LivenessTyped

LEMMA LeastNat ==
    ASSUME NEW S \in SUBSET Nat, S # {}
    PROVE  \E m \in S : \A x \in S : m <= x
<1> DEFINE less == {p \in Nat \X Nat : p[1] < p[2]}
<1>1. IsWellFoundedOn(less, Nat) BY NatLessThanWellFounded DEF OpToRel
<1>2. PICK m \in S : \A k \in S : <<k, m>> \notin less
  <2>. HIDE DEF less
  <2>. QED BY <1>1, WFMin
<1>3. ASSUME NEW x \in S PROVE ~(x < m) BY <1>2
<1>. QED BY <1>3

LEMMA GreatestNat ==
    ASSUME NEW N \in Nat, NEW S \in SUBSET (0..N), S # {}
    PROVE  \E m \in S : \A x \in S : x <= m
<1> DEFINE T == {N - x : x \in S}
<1>1. T \in SUBSET Nat /\ T # {}
  <2>1. \A x \in S : x \in 0..N OBVIOUS
  <2>2. \A x \in S : N - x \in Nat BY <2>1
  <2>. QED BY <2>2
<1>2. PICK n \in T : \A y \in T : n <= y
  <2>. HIDE DEF T
  <2>. QED BY <1>1, LeastNat
<1>3. PICK m \in S : n = N - m BY <1>2
<1>4. ASSUME NEW x \in S PROVE x <= m
  <2>1. N - x \in T OBVIOUS
  <2>2. n <= N - x BY <1>2, <2>1
  <2>. QED BY <1>3, <2>2
<1>. QED BY <1>4

\* In the order of slot and height, j is no later than k.
Le(j, k) == j[1] < k[1] \/ (j[1] = k[1] /\ j[2] <= k[2])

LEMMA KeyOrder ==
    ASSUME NEW i \in Nat \X Nat, NEW j \in Nat \X Nat, NEW k \in Nat \X Nat
    PROVE  /\ Le(i, i)
           /\ Le(i, j) /\ Le(j, k) => Le(i, k)
           /\ Le(i, j) /\ Le(j, i) => i = j
           /\ Behind(i, j) <=> ~Le(i, j)
           /\ Behind(i, j) => Le(j, i)
<1>1. i[1] \in Nat /\ i[2] \in Nat /\ j[1] \in Nat /\ j[2] \in Nat /\ k[1] \in Nat /\ k[2] \in Nat
      /\ (i[1] = j[1] /\ i[2] = j[2] => i = j)
  OBVIOUS
<1>. QED BY <1>1 DEF Le, Behind

LEMMA FirstKey ==
    ASSUME NEW T \in SUBSET (Nat \X Nat), T # {}
    PROVE  \E k \in T : \A j \in T : Le(k, j)
<1>1. PICK a \in {j[1] : j \in T} : \A x \in {j[1] : j \in T} : a <= x
  <2>1. {j[1] : j \in T} \in SUBSET Nat /\ {j[1] : j \in T} # {} OBVIOUS
  <2>. QED BY <2>1, LeastNat
<1> DEFINE row == {j \in T : j[1] = a}
<1>2. PICK b \in {j[2] : j \in row} : \A x \in {j[2] : j \in row} : b <= x
  <2>1. {j[2] : j \in row} \in SUBSET Nat /\ {j[2] : j \in row} # {} BY <1>1
  <2>. HIDE DEF row
  <2>. QED BY <2>1, LeastNat
<1>3. PICK k \in row : k[2] = b BY <1>2
<1>4. ASSUME NEW j \in T PROVE Le(k, j)
  <2>1. j[1] \in Nat /\ a \in Nat /\ a <= j[1] BY <1>1
  <2>2. j[1] = a => b <= j[2] BY <1>2
  <2>. QED BY <1>3, <2>1, <2>2 DEF Le
<1>. QED BY <1>3, <1>4

LEMMA LastKey ==
    ASSUME NEW A \in Nat, NEW B \in Nat, NEW T \in SUBSET ((0..A) \X (0..B)), T # {}
    PROVE  \E k \in T : \A j \in T : Le(j, k)
<1>1. PICK a \in {j[1] : j \in T} : \A x \in {j[1] : j \in T} : x <= a
  <2>1. {j[1] : j \in T} \in SUBSET (0..A) /\ {j[1] : j \in T} # {} OBVIOUS
  <2>. QED BY <2>1, GreatestNat
<1> DEFINE row == {j \in T : j[1] = a}
<1>2. PICK b \in {j[2] : j \in row} : \A x \in {j[2] : j \in row} : x <= b
  <2>1. {j[2] : j \in row} \in SUBSET (0..B) /\ {j[2] : j \in row} # {} BY <1>1
  <2>. HIDE DEF row
  <2>. QED BY <2>1, GreatestNat
<1>3. PICK k \in row : k[2] = b BY <1>2
<1>4. ASSUME NEW j \in T PROVE Le(j, k)
  <2>1. j[1] \in Nat /\ a \in Nat /\ j[1] <= a BY <1>1
  <2>2. j[1] = a => j[2] <= b BY <1>2
  <2>. QED BY <1>3, <2>1, <2>2 DEF Le
<1>. QED BY <1>3, <1>4

\* The first rows of those left: if they are not as many as asked for, they are
\* all; and with a row come all before it.
LEMMA FirstRows ==
    ASSUME NEW A \in Nat, NEW B \in Nat, NEW left \in SUBSET ((0..A) \X (0..B)), IsFiniteSet(left),
           NEW chunk, chunk = {k \in left : Cardinality(UpTo(k, left)) <= ChunkSize}
    PROVE  /\ Cardinality(chunk) < ChunkSize => chunk = left
           /\ \A k \in chunk : \A j \in left : Le(j, k) => j \in chunk
<1>1. \A T \in SUBSET left : IsFiniteSet(T) /\ Cardinality(T) \in Nat BY FS_Subset, FS_CardinalityType
<1>2. \A k : UpTo(k, left) = {j \in left : Le(j, k)} BY DEF UpTo, Le
<1>3. left \in SUBSET (Nat \X Nat) OBVIOUS
<1>4. chunk \in SUBSET left /\ ChunkSize \in Nat BY SigningAssumption
<1>5. ASSUME Cardinality(chunk) < ChunkSize, chunk # left PROVE FALSE
  <2>1. left \ chunk \in SUBSET (Nat \X Nat) /\ left \ chunk # {} BY <1>3, <1>4, <1>5
  <2>2. PICK k \in left \ chunk : \A j \in left \ chunk : Le(k, j) BY <2>1, FirstKey
  <2>3. UpTo(k, left) \subseteq chunk \union {k}
    <3>1. ASSUME NEW j \in left, Le(j, k), j \notin chunk PROVE j = k
      <4>1. Le(k, j) BY <2>2, <3>1
      <4>. QED BY <1>3, <2>2, <3>1, <4>1, KeyOrder
    <3>. QED BY <1>2, <3>1
  <2>4. Cardinality(chunk \union {k}) = Cardinality(chunk) + 1
    <3>1. IsFiniteSet(chunk) /\ k \notin chunk BY <1>1, <1>4, <2>2
    <3>. QED BY ONLY <3>1, FS_AddElement
  <2>5. IsFiniteSet(chunk \union {k}) BY <1>1, <1>4, FS_AddElement
  <2>6. Cardinality(UpTo(k, left)) <= Cardinality(chunk \union {k}) BY <2>3, <2>5, FS_Subset
  <2>7. UpTo(k, left) \in SUBSET left BY <1>2
  <2>8. Cardinality(UpTo(k, left)) \in Nat /\ Cardinality(chunk) \in Nat BY <1>1, <1>4, <2>7
  <2>9. ~(Cardinality(UpTo(k, left)) <= ChunkSize) BY <2>2
  <2>. QED BY <1>4, <1>5, <2>4, <2>6, <2>8, <2>9
<1>6. ASSUME NEW k \in chunk, NEW j \in left, Le(j, k) PROVE j \in chunk
  <2>1. \A i \in left : Le(i, j) => Le(i, k) BY <1>3, <1>4, <1>6, KeyOrder
  <2>2. UpTo(j, left) \subseteq UpTo(k, left) BY <1>2, <2>1
  <2>3. UpTo(k, left) \in SUBSET left /\ UpTo(j, left) \in SUBSET left BY <1>2
  <2>4. Cardinality(UpTo(j, left)) <= Cardinality(UpTo(k, left)) BY <1>1, <2>2, <2>3, FS_Subset
  <2>5. Cardinality(UpTo(j, left)) \in Nat /\ Cardinality(UpTo(k, left)) \in Nat BY <1>1, <2>3
  <2>6. Cardinality(UpTo(k, left)) <= ChunkSize BY <1>6
  <2>7. Cardinality(UpTo(j, left)) <= ChunkSize BY <1>4, <2>4, <2>5, <2>6
  <2>. QED BY <2>7
<1>. QED BY <1>5, <1>6

(***************************************************************************)
(* The scan: the state of a slot is that of its rows up to the key after   *)
(* which the next chunk starts; after the last chunk there are no more.    *)
(***************************************************************************)
Reading(sc) ==
    /\ sc.after \in RowKeys \union {NoKey}
    /\ \A s \in Slots : StateOf(sc.states[s], RowsByHeight(s)[ReadTo(s, sc.after)])
    /\ sc.complete => \A s \in Slots, h \in 1..Len(liveness) :
                         s \in DOMAIN liveness[h] => h <= ReadTo(s, sc.after)

ScanInv == scan.active => Reading(scan)

LEMMA KeyTypes ==
    ASSUME LivenessTyped
    PROVE  /\ RowKeys \subseteq (0..NumSlots) \X (0..Len(liveness)) /\ NoKey \in (0..NumSlots) \X (0..Len(liveness))
           /\ NumSlots \in Nat /\ Len(liveness) \in Nat
           /\ \A k \in RowKeys : k # NoKey
<1>1. NumSlots \in Nat /\ Len(liveness) \in Nat BY SigningAssumption, LivenessLength DEF LivenessTyped
<1>2. Slots \subseteq 0..NumSlots /\ 0 \notin Slots BY <1>1 DEF Slots
<1>3. 1..Len(liveness) \subseteq 0..Len(liveness) BY <1>1
<1>4. \A k \in RowKeys : k[1] \in Slots /\ k[2] \in 1..Len(liveness) /\ k = <<k[1], k[2]>> BY KeyFacts
<1>5. \A k \in RowKeys : k # NoKey BY <1>2, <1>4 DEF NoKey
<1>6. NoKey \in (0..NumSlots) \X (0..Len(liveness)) BY <1>1 DEF NoKey
<1>. QED BY <1>1, <1>2, <1>3, <1>4, <1>5, <1>6

LEMMA ScanStarts ==
    ASSUME LivenessTyped,
           NEW sc, sc = [active |-> TRUE, after |-> NoKey, complete |-> FALSE,
                         states |-> [s \in Slots |-> NewState(RingSize)]]
    PROVE  Reading(sc)
<1>1. sc.after = NoKey /\ sc.complete = FALSE /\ \A s \in Slots : sc.states[s] = NewState(RingSize) OBVIOUS
<1>2. ASSUME NEW s \in Slots PROVE StateOf(sc.states[s], RowsByHeight(s)[ReadTo(s, sc.after)])
  <2>1. ReadTo(s, NoKey) = 0
    <3>1. s \in Nat /\ s >= 1 BY SigningAssumption DEF Slots
    <3>. QED BY <3>1 DEF ReadTo, NoKey
  <2>2. RowsByHeight(s)[0] = <<>> BY RowsFollow DEF LivenessTyped
  <2>. QED BY <1>1, <2>1, <2>2, NewStateOf
<1>. QED BY <1>1, <1>2 DEF Reading

LeftOf(sc) == {k \in RowKeys : Behind(k, sc.after)}

ChunkOf(sc) == {k \in LeftOf(sc) : Cardinality(UpTo(k, LeftOf(sc))) <= ChunkSize}

AfterChunk(sc) ==
    [active |-> TRUE,
     after  |-> IF ChunkOf(sc) = {} THEN sc.after
                ELSE CHOOSE k \in ChunkOf(sc) : UpTo(k, ChunkOf(sc)) = ChunkOf(sc),
     states |-> [s \in Slots |-> Feeding(sc.states[s], s, ChunkOf(sc))[Len(liveness)]],
     complete |-> Cardinality(ChunkOf(sc)) < ChunkSize]

LEMMA ChunkRead ==
    ASSUME LivenessTyped, NEW sc, Reading(sc)
    PROVE  Reading(AfterChunk(sc))
<1> DEFINE left == LeftOf(sc)
           chunk == ChunkOf(sc)
           next == AfterChunk(sc)
           N == Len(liveness)
           All == (0..NumSlots) \X (0..N)
           old == sc.after
           new == next.after
<1>1. /\ RowKeys \subseteq All /\ NoKey \in All /\ NumSlots \in Nat /\ N \in Nat
      /\ old \in RowKeys \union {NoKey} /\ old \in All
      /\ IsSeq(liveness) /\ IsFiniteSet(RowKeys)
  BY KeyTypes DEF Reading, LivenessTyped
<1>2. All \subseteq Nat \X Nat BY <1>1
<1>3. left \subseteq RowKeys /\ chunk \subseteq left /\ IsFiniteSet(left) /\ left \in SUBSET All
  BY <1>1, FS_Subset DEF LeftOf, ChunkOf
<1>4. /\ Cardinality(chunk) < ChunkSize => chunk = left
      /\ \A k \in chunk : \A j \in left : Le(j, k) => j \in chunk
  <2>1. NumSlots \in Nat /\ N \in Nat /\ left \in SUBSET ((0..NumSlots) \X (0..N)) /\ IsFiniteSet(left)
    BY <1>1, <1>3
  <2>2. chunk = {k \in left : Cardinality(UpTo(k, left)) <= ChunkSize} BY DEF ChunkOf
  <2>. HIDE DEF N
  <2>. QED BY ONLY <2>1, <2>2, FirstRows
<1>5. /\ new = IF chunk = {} THEN old ELSE CHOOSE k \in chunk : UpTo(k, chunk) = chunk
      /\ next.complete = (Cardinality(chunk) < ChunkSize)
      /\ \A s \in Slots : next.states[s] = Feeding(sc.states[s], s, chunk)[N]
  BY DEF AfterChunk
<1>. HIDE DEF N, old, new, left, chunk, next
<1>6. chunk # {} => new \in chunk /\ \A j \in chunk : Le(j, new)
  <2>1. \A k : UpTo(k, chunk) = {j \in chunk : Le(j, k)} BY DEF UpTo, Le
  <2>. SUFFICES ASSUME chunk # {} PROVE new \in chunk /\ \A j \in chunk : Le(j, new) OBVIOUS
  <2>2. chunk \in SUBSET All BY <1>3
  <2>3. PICK k \in chunk : \A j \in chunk : Le(j, k) BY <1>1, <2>2, LastKey
  <2>4. UpTo(k, chunk) = chunk BY <2>1, <2>3
  <2>5. new \in chunk /\ UpTo(new, chunk) = chunk BY <1>5, <2>4
  <2>. QED BY <2>1, <2>5
<1>7. new \in RowKeys \union {NoKey} /\ new \in All BY <1>1, <1>3, <1>5, <1>6
<1>8. Le(old, new)
  <2>1. CASE chunk = {} BY <1>1, <1>2, <1>5, <2>1, KeyOrder
  <2>2. CASE chunk # {}
    <3>1. new \in left /\ Behind(new, old) BY <1>3, <1>6, <2>2 DEF old, left, LeftOf
    <3>. QED BY <1>1, <1>2, <1>7, <3>1, KeyOrder
  <2>. QED BY <2>1, <2>2
<1>9. \A k \in RowKeys : k \in chunk <=> ~Le(k, old) /\ Le(k, new)
  <2>. TAKE k \in RowKeys
  <2>1. k \in All BY <1>1
  <2>2. k \in left <=> ~Le(k, old) BY <1>1, <1>2, <2>1, KeyOrder DEF old, left, LeftOf
  <2>3. CASE chunk = {}
    <3>1. new = old BY <1>5, <2>3
    <3>. QED BY <2>3, <3>1
  <2>4. CASE chunk # {} BY <1>3, <1>4, <1>6, <2>2, <2>4
  <2>. QED BY <2>3, <2>4
<1>10. ASSUME NEW s \in Slots, NEW k \in All
       PROVE  /\ ReadTo(s, k) \in 0..N
              /\ \A h \in 1..N : Le(<<s, h>>, k) <=> h <= ReadTo(s, k)
  <2>1. k[1] \in Nat /\ k[2] \in 0..N BY <1>1
  <2>2. s \in Nat BY DEF Slots
  <2>. QED BY <1>1, <2>1, <2>2 DEF ReadTo, Le, N
<1>11. ASSUME NEW s \in Slots
       PROVE  StateOf(next.states[s], RowsByHeight(s)[ReadTo(s, new)])
  <2> DEFINE from == ReadTo(s, old)
             to == ReadTo(s, new)
  <2>1. from \in 0..N /\ to \in 0..N BY <1>1, <1>7, <1>10
  <2>2. from <= to
    <3>1. old[1] \in Nat /\ old[2] \in 0..N /\ new[1] \in Nat /\ new[2] \in 0..N /\ s \in Nat
      BY <1>1, <1>7 DEF Slots
    <3>. QED BY <1>1, <1>8, <3>1 DEF Le, ReadTo, N
  <2>3. ASSUME NEW h \in 1..N, s \in DOMAIN liveness[h]
        PROVE  <<s, h>> \in chunk <=> from < h /\ h <= to
    <3>1. <<s, h>> \in RowKeys BY <2>3, KeyFacts DEF N
    <3>2. Le(<<s, h>>, old) <=> h <= from BY <1>1, <1>10
    <3>3. Le(<<s, h>>, new) <=> h <= to BY <1>7, <1>10
    <3>4. h \in Nat /\ from \in Nat BY <1>1, <2>1
    <3>. HIDE DEF from, to
    <3>. QED BY <1>9, <3>1, <3>2, <3>3, <3>4
  <2>4. StateOf(sc.states[s], RowsByHeight(s)[from]) BY DEF Reading, old
  <2>5. to \in from..N BY <1>1, <2>1, <2>2
  <2>. HIDE DEF from, to
  <2>6. StateOf(Feeding(sc.states[s], s, chunk)[N], RowsByHeight(s)[to])
    BY <1>1, <2>1, <2>3, <2>4, <2>5, FeedingKeeps DEF N
  <2>. QED BY <1>5, <2>6 DEF to
<1>12. ASSUME next.complete, NEW s \in Slots, NEW h \in 1..N, s \in DOMAIN liveness[h]
       PROVE  h <= ReadTo(s, new)
  <2>1. <<s, h>> \in RowKeys BY <1>12, KeyFacts DEF N
  <2>2. chunk = left BY <1>4, <1>5, <1>12
  <2>3. <<s, h>> \in All BY <1>1, <2>1
  <2>4. Le(<<s, h>>, new)
    <3>1. CASE Le(<<s, h>>, old) BY <1>1, <1>2, <1>7, <1>8, <2>3, <3>1, KeyOrder
    <3>2. CASE ~Le(<<s, h>>, old)
      <4>1. Behind(<<s, h>>, old) BY <1>1, <1>2, <2>3, <3>2, KeyOrder
      <4>2. <<s, h>> \in chunk BY <2>1, <2>2, <4>1 DEF old, left, LeftOf
      <4>. QED BY <1>9, <2>1, <4>2
    <3>. QED BY <3>1, <3>2
  <2>. QED BY <1>7, <1>10, <2>4
<1>. QED BY <1>7, <1>11, <1>12 DEF Reading, new, next, N

\* When there are no rows above a height, those up to it are all.
LEMMA RowsStay ==
    ASSUME IsSeq(liveness), NEW s, NEW from \in 0..Len(liveness),
           \A h \in 1..Len(liveness) : s \in DOMAIN liveness[h] => h <= from
    PROVE  RowsByHeight(s)[from] = RowsOf(s)
<1> DEFINE N == Len(liveness)
           rows == RowsByHeight(s)
           Shown == {h \in 0..N : h >= from => rows[h] = rows[from]}
<1>1. N \in Nat BY LivenessLength
<1>2. \A h \in 1..N : rows[h] = IF s \in DOMAIN liveness[h] THEN Append(rows[h - 1], RowAt(s, h))
                                ELSE rows[h - 1]
  BY RowsFollow
<1>3. from \in 0..N /\ \A h \in 1..N : s \in DOMAIN liveness[h] => h <= from OBVIOUS
<1>. HIDE DEF N, rows
<1>4. 0 \in Shown
  <2>1. 0 >= from => from = 0 BY <1>1, <1>3
  <2>. QED BY <1>1, <2>1
<1>5. ASSUME NEW n \in 0..(N - 1), n \in Shown PROVE n + 1 \in Shown
  <2>1. n + 1 \in 0..N /\ n + 1 \in 1..N /\ n + 1 - 1 = n BY <1>1
  <2>2. CASE n + 1 > from
    <3>1. n >= from BY <1>1, <1>3, <2>2
    <3>2. rows[n] = rows[from] BY <1>5, <3>1
    <3>3. s \notin DOMAIN liveness[n + 1] BY <1>1, <1>3, <2>1, <2>2
    <3>4. rows[n + 1] = rows[n + 1 - 1] BY <1>2, <2>1, <3>3
    <3>5. rows[n + 1] = rows[from] BY <2>1, <3>2, <3>4
    <3>. QED BY <2>1, <3>5
  <2>3. CASE ~(n + 1 > from)
    <3>1. n + 1 >= from => n + 1 = from BY <1>1, <1>3, <2>3
    <3>. QED BY <2>1, <3>1
  <2>. QED BY <2>2, <2>3
<1>6. N \in Shown
  <2>. HIDE DEF Shown
  <2>1. 0..N \subseteq Shown BY <1>1, <1>4, <1>5, CountingUp
  <2>. QED BY <1>1, <2>1
<1>7. N >= from BY <1>1, <1>3
<1>. QED BY <1>6, <1>7 DEF RowsOf, rows, N

Batch(s) == [lifetime |-> BuildSummary(RowsOf(s), invalid),
             recent |-> BuildSummary(Trailing(RowsOf(s), Recent), invalid)]

\* What is written when the scan is complete.
LEMMA ScanWritten ==
    ASSUME LivenessTyped, Reading(scan), scan.complete, WriteSummaries
    PROVE  summaries' = [s \in {t \in Slots : RowsOf(t) # <<>>} |-> Batch(s)]
<1>1. IsSeq(liveness) /\ Len(liveness) \in Nat BY LivenessLength DEF LivenessTyped
<1>2. ASSUME NEW s \in Slots PROVE StateOf(scan.states[s], RowsOf(s)) /\ RowSeq(RowsOf(s))
  <2>1. ReadTo(s, scan.after) \in 0..Len(liveness)
    <3>1. scan.after \in (0..NumSlots) \X (0..Len(liveness)) BY KeyTypes DEF Reading
    <3>. QED BY <1>1, <3>1 DEF ReadTo
  <2>2. \A h \in 1..Len(liveness) : s \in DOMAIN liveness[h] => h <= ReadTo(s, scan.after) BY DEF Reading
  <2>3. RowsByHeight(s)[ReadTo(s, scan.after)] = RowsOf(s) BY <1>1, <2>1, <2>2, RowsStay
  <2>4. Len(liveness) \in 0..Len(liveness) BY <1>1
  <2>5. RowSeq(RowsOf(s)) BY <1>1, <2>4, RowsAre DEF RowsTo, RowsOf
  <2>. QED BY <2>3, <2>5 DEF Reading
<1>3. ASSUME NEW s \in Slots PROVE scan.states[s].last # NoRow <=> RowsOf(s) # <<>>
  <2> DEFINE P == RowsOf(s)
  <2>1. RowSeq(P) /\ EndsOf(scan.states[s], P) BY <1>2 DEF StateOf
  <2>. HIDE DEF P
  <2>2. CASE P = <<>> BY <2>1, <2>2 DEF EndsOf, P
  <2>3. CASE P # <<>>
    <3>1. IsSeq(P) BY <2>1 DEF RowSeq
    <3>2. Len(P) \in 1..Len(P) BY <2>3, <3>1 DEF IsSeq
    <3>3. P[Len(P)] # NoRow BY <2>1, <3>2 DEF RowSeq
    <3>. QED BY <2>1, <2>3, <3>3 DEF EndsOf, P
  <2>. QED BY <2>2, <2>3
<1> DEFINE known == {t \in Slots : scan.states[t].last # NoRow}
           Streamed(s) == [lifetime |-> LifetimeSummary(scan.states[s], invalid),
                           recent |-> BuildSummary(Trailing(MaterializeRing(scan.states[s]), Recent), invalid)]
<1>4. summaries' = [s \in known |-> Streamed(s)] BY DEF WriteSummaries
<1>5. known = {t \in Slots : RowsOf(t) # <<>>} BY <1>3
<1>6. ASSUME NEW s \in known PROVE Streamed(s) = Batch(s)
  <2>1. RowSeq(RowsOf(s)) /\ RowsOf(s) # <<>> /\ StateOf(scan.states[s], RowsOf(s)) BY <1>2, <1>3
  <2>2. /\ LifetimeSummary(scan.states[s], invalid) = BuildSummary(RowsOf(s), invalid)
        /\ Trailing(MaterializeRing(scan.states[s]), Recent) = Trailing(RowsOf(s), Recent)
    BY <2>1, StreamedIsBatch
  <2>. QED BY <2>2 DEF Batch
<1>. HIDE DEF known, Streamed
<1>. QED BY <1>4, <1>5, <1>6

SlotsOnly == \A h \in 1..Len(liveness) : DOMAIN liveness[h] \subseteq Slots

LEMMA SameReading ==
    ASSUME liveness' = liveness, Reading(scan')
    PROVE  Reading(scan)'
<1>1. RowKeys' = RowKeys BY DEF RowKeys
<1>2. \A s : RowsByHeight(s)' = RowsByHeight(s) BY DEF RowsByHeight, RowAt
<1>3. \A s : ReadTo(s, scan.after)' = ReadTo(s, scan'.after) BY DEF ReadTo
<1>4. scan'.after \in RowKeys' \union {NoKey} BY <1>1 DEF Reading
<1>5. \A s \in Slots : StateOf(scan'.states[s], RowsByHeight(s)'[ReadTo(s, scan.after)'])
  BY <1>2, <1>3 DEF Reading
<1>6. scan'.complete => \A s \in Slots, h \in 1..Len(liveness') :
                         s \in DOMAIN liveness'[h] => h <= ReadTo(s, scan.after)'
  BY <1>3 DEF Reading
<1>. QED BY <1>4, <1>5, <1>6 DEF Reading, StateOf, CountsOf, EndsOf, RunOf, MissOf, RingOf, Place

LEMMA SlotsOnlyStep ==
    ASSUME SigningInv, SlotsOnly, [Next]_vars
    PROVE  SlotsOnly'
<1>1. IsSeq(liveness) /\ Len(liveness) \in Nat BY LivenessLength DEF SigningInv, Lengths
<1>2. CASE UNCHANGED liveness BY <1>2 DEF SlotsOnly
<1>3. CASE ProjectLiveness
  <2> DEFINE h == Len(liveness) + 1
             row == IF evidence[h] = {} THEN [s \in {} |-> NoRow] ELSE Evaluate(windows[h], evidence[h])
  <2>1. liveness' = Append(liveness, row) /\ h <= Len(evidence) BY <1>3 DEF ProjectLiveness
  <2>2. Len(liveness') = h /\ liveness'[h] = row /\ \A g \in 1..Len(liveness) : liveness'[g] = liveness[g]
    BY <1>1, <2>1, Appended
  <2>3. DOMAIN row \subseteq Slots
    <3>1. h \in 1..Len(votes) BY <1>1, <2>1 DEF SigningInv, Lengths, IsSeq
    <3>2. windows[h] \subseteq Slots BY <3>1 DEF SigningInv, HeightsRead
    <3>3. DOMAIN Evaluate(windows[h], evidence[h]) \subseteq windows[h] BY DEF Evaluate
    <3>. QED BY <3>2, <3>3
  <2>. HIDE DEF row
  <2>4. \A g \in 1..h : g \in 1..Len(liveness) \/ g = h BY <1>1
  <2>. QED BY <2>2, <2>3, <2>4 DEF SlotsOnly
<1>4. CASE ResetLiveness
  <2>1. liveness' = <<>> BY <1>4 DEF ResetLiveness
  <2>. QED BY <2>1 DEF SlotsOnly
<1>. QED BY <1>2, <1>3, <1>4
     DEF Next, vars, ProjectSignatures, RebuildMap, ProjectEvidence, StartSummary, ReadChunk, WriteSummaries,
         AbandonScan, ProjectHealth

LEMMA ScanStep ==
    ASSUME SigningInv, SlotsOnly, ScanInv, [Next]_vars
    PROVE  ScanInv'
<1>1. LivenessTyped BY RowKeysFinite DEF SigningInv, Lengths, SlotsOnly
<1>2. CASE StartSummary
  <2>1. Reading(scan') /\ liveness' = liveness BY <1>1, <1>2, ScanStarts DEF StartSummary
  <2>2. Reading(scan)' BY <2>1, SameReading
  <2>. QED BY <2>2 DEF ScanInv
<1>3. CASE ReadChunk
  <2>1. Reading(scan) /\ liveness' = liveness BY <1>3 DEF ReadChunk, ScanInv
  <2>2. scan' = AfterChunk(scan) BY <1>3 DEF ReadChunk, AfterChunk, RowsBehind, ChunkOf, LeftOf
  <2>3. Reading(scan') BY <1>1, <2>1, <2>2, ChunkRead
  <2>4. Reading(scan)' BY <2>1, <2>3, SameReading
  <2>. QED BY <2>4 DEF ScanInv
<1>4. CASE WriteSummaries \/ AbandonScan
  <2>1. scan' = NoScan BY <1>4 DEF WriteSummaries, AbandonScan
  <2>. QED BY <2>1 DEF NoScan, ScanInv
<1>5. CASE \/ ProjectSignatures \/ RebuildMap \/ ProjectEvidence \/ ProjectLiveness \/ ResetLiveness
           \/ ProjectHealth
  <2>1. ~scan.active /\ scan' = scan
    BY <1>5 DEF ProjectSignatures, RebuildMap, ProjectEvidence, ProjectLiveness, ResetLiveness, ProjectHealth
  <2>. QED BY <2>1 DEF ScanInv
<1>6. CASE UNCHANGED vars
  <2>1. liveness' = liveness /\ scan' = scan BY <1>6 DEF vars
  <2>2. CASE ~scan.active BY <2>1, <2>2 DEF ScanInv
  <2>3. CASE scan.active
    <3>1. Reading(scan') BY <2>1, <2>3 DEF ScanInv
    <3>2. Reading(scan)' BY <2>1, <3>1, SameReading
    <3>. QED BY <3>2 DEF ScanInv
  <2>. QED BY <2>2, <2>3
<1>. QED BY <1>2, <1>3, <1>4, <1>5, <1>6 DEF Next

SummaryInv == SigningInv /\ SlotsOnly /\ ScanInv

LEMMA SummaryInvHolds == Spec => []SummaryInv
<1>1. Init => SummaryInv
  <2>1. Init => SigningInv BY SigningInitial
  <2>2. Init => SlotsOnly /\ ScanInv BY DEF Init, SlotsOnly, ScanInv, NoScan
  <2>. QED BY <2>1, <2>2 DEF SummaryInv
<1>2. SummaryInv /\ [Next]_vars => SummaryInv'
  BY SigningStep, SlotsOnlyStep, ScanStep DEF SummaryInv
<1>. QED BY <1>1, <1>2, PTL DEF Spec

\* The summaries written are those of all rows there are, for any rows, chunk
\* size and ring (coreslot-liveness-summary.ts).
THEOREM SummariesMatchBatchHolds == Spec => SummariesMatchBatch
<1> DEFINE Match == summaries' # summaries =>
              /\ DOMAIN summaries' = {s \in Slots : RowsOf(s) # <<>>}
              /\ \A s \in DOMAIN summaries' :
                    summaries'[s] = [lifetime |-> BuildSummary(RowsOf(s), invalid),
                                     recent |-> BuildSummary(Trailing(RowsOf(s), Recent), invalid)]
<1>1. SummaryInv /\ [Next]_vars => Match
  <2>. SUFFICES ASSUME SummaryInv, [Next]_vars, summaries' # summaries PROVE Match OBVIOUS
  <2>1. WriteSummaries
    BY DEF Next, vars, ProjectSignatures, RebuildMap, ProjectEvidence, ProjectLiveness, ResetLiveness,
           StartSummary, ReadChunk, AbandonScan, ProjectHealth
  <2>2. LivenessTyped BY RowKeysFinite DEF SummaryInv, SigningInv, Lengths, SlotsOnly
  <2>3. Reading(scan) /\ scan.complete BY <2>1 DEF WriteSummaries, SummaryInv, ScanInv
  <2>4. summaries' = [s \in {t \in Slots : RowsOf(t) # <<>>} |-> Batch(s)] BY <2>1, <2>2, <2>3, ScanWritten
  <2>. QED BY <2>4 DEF Batch
<1>2. SummaryInv /\ [Next]_vars => [Match]_vars BY <1>1
<1>. QED BY <1>2, SummaryInvHolds, PTL DEF Spec, SummariesMatchBatch

(***************************************************************************)
(* No absence goes unnoticed.  When no block lacks its commit, a height    *)
(* with an absentee leaves evidence, and its anonymous votes, or the map,  *)
(* tell that he is missing: the height gives him a row or is invalid.      *)
(***************************************************************************)
LEMMA AnonymousCounted ==
    ASSUME NEW vote \in [Slots -> Flags], NEW source, NEW c, Cast(vote, c.votes), AllWhole(vote, c.votes), NEW w,
           NEW rows, rows = Attribute(w, ReadCommit(source, c))
    PROVE  Cardinality(Anonymous(rows)) = Cardinality(Absentees(vote))
<1> DEFINE cast == c.votes
           flaws == ReadCommit(source, c).flaws
           Gap(i) == Evidence(i, NoSlot, "absent_no_validator", "absent")
           Seat(s) == CHOOSE i \in DOMAIN cast : cast[i] = Vote(s, "absent", "whole")
           seats == [s \in Absentees(vote) |-> Gap(Seat(s))]
<1>1. /\ IsFiniteSet(Anonymous(rows)) /\ Cardinality(Anonymous(rows)) <= Cardinality(Absentees(vote))
  BY EvidenceFacts
<1>2. rows = {Classify(w, sig, flaws) : sig \in SignatureRows(cast)} BY RowsOfCommit DEF Attribute
<1>3. ASSUME NEW s \in Absentees(vote)
      PROVE  Seat(s) \in DOMAIN cast /\ cast[Seat(s)] = Vote(s, "absent", "whole")
  <2>1. s \in Validators(vote) /\ vote[s] = "absent" BY DEF Absentees, Validators
  <2>2. \E i \in DOMAIN cast : cast[i] = Vote(s, "absent", "whole") BY <2>1 DEF AllWhole
  <2>. QED BY <2>2
<1>. HIDE DEF Seat, flaws
<1>4. ASSUME NEW s \in Absentees(vote) PROVE Gap(Seat(s)) \in Anonymous(rows)
  <2> DEFINE i == Seat(s)
             sig == BlockSignature(i, cast[i])
  <2>1. i \in DOMAIN cast /\ cast[i] = Vote(s, "absent", "whole") BY <1>3
  <2>. HIDE DEF i
  <2>2. cast[i].flag = "absent" /\ cast[i].shape = "whole" BY <2>1 DEF Vote
  <2>3. sig.index = i /\ sig.address = NoSlot /\ sig.flag = "absent"
    BY <2>2 DEF BlockSignature, Address, BlockIdFlag
  <2>4. sig \in SignatureRows(cast) BY <2>1, <2>2 DEF SignatureRows
  <2>. HIDE DEF sig
  <2>5. Classify(w, sig, flaws) = Gap(i) BY <2>3 DEF Classify
  <2>6. Gap(i) \in rows BY <1>2, <2>4, <2>5
  <2>. QED BY <2>6 DEF Anonymous, Evidence, i
<1>5. ASSUME NEW s \in Absentees(vote), NEW t \in Absentees(vote), Gap(Seat(s)) = Gap(Seat(t)) PROVE s = t
  <2>1. Seat(s) = Seat(t) BY <1>5 DEF Evidence
  <2>2. Vote(s, "absent", "whole") = Vote(t, "absent", "whole") BY <1>3, <2>1
  <2>. QED BY <2>2 DEF Vote
<1>6. seats \in Injection(Absentees(vote), Anonymous(rows)) BY <1>4, <1>5 DEF Injection, IsInjective
<1>. HIDE DEF seats
<1>7. Cardinality(Absentees(vote)) <= Cardinality(Anonymous(rows)) BY <1>1, <1>6, FS_Injection
<1>8. Cardinality(Absentees(vote)) \in Nat /\ Cardinality(Anonymous(rows)) \in Nat
  <2>1. Absentees(vote) \in SUBSET Slots BY DEF Absentees
  <2>. QED BY <1>1, <2>1, SlotFacts, FS_CardinalityType
<1>. QED BY <1>1, <1>7, <1>8

\* Of two voters only one may have left no row.
LEMMA RowsAreKept ==
    ASSUME NEW vote \in [Slots -> Flags], HasQuorum(vote), Absentees(vote) # {},
           NEW h, NEW stated, NEW s, NEW shape, NEW source
    PROVE  ReadCommit(source, Carried(h, vote, stated, s, shape)).rows # {}
<1> DEFINE V == Validators(vote)
           order == SetToSeq(V)
           cast == Carried(h, vote, stated, s, shape).votes
           signers == {t \in DOMAIN vote : vote[t] = "commit"}
<1>1. PICK a \in Slots : vote[a] = "absent" BY DEF Absentees
<1>2. PICK k \in Slots : vote[k] = "commit"
  <2>. SUFFICES ASSUME signers = {} PROVE FALSE OBVIOUS
  <2>1. Cardinality(signers) = 0 BY FS_EmptySet
  <2>2. V \in SUBSET Slots BY DEF Validators
  <2>3. Cardinality(V) \in Nat BY <2>2, SlotFacts
  <2>4. 3 * Cardinality(signers) > 2 * Cardinality(V) BY DEF HasQuorum
  <2>. HIDE DEF signers, V
  <2>. QED BY <2>1, <2>3, <2>4
<1>3. PICK t \in Slots : t # s /\ t \in V
  <2>1. a # k /\ a \in V /\ k \in V BY <1>1, <1>2 DEF Validators
  <2>. QED BY <2>1
<1>4. PICK i \in DOMAIN order : order[i] = t
  <2>1. V \in SUBSET Slots BY DEF Validators
  <2>2. order \in Bijection(1..Cardinality(V), V) BY <2>1, OrderOf
  <2>. HIDE DEF V, order
  <2>. QED BY <1>3, <2>2 DEF Bijection, Surjection
<1>5. cast = [j \in DOMAIN order |-> Vote(order[j], vote[order[j]], IF order[j] = s THEN shape ELSE "whole")]
  BY DEF Carried
<1>6. i \in DOMAIN cast /\ cast[i].shape # "scalar"
  <2>1. i \in DOMAIN cast BY <1>4, <1>5
  <2>2. cast[i] = Vote(t, vote[t], "whole") BY <1>3, <1>4, <1>5
  <2>3. cast[i].shape = "whole" BY <2>2 DEF Vote
  <2>. QED BY <2>1, <2>3
<1>7. BlockSignature(i, cast[i]) \in SignatureRows(cast) BY <1>6 DEF SignatureRows
<1>. QED BY <1>7, RowsOfCommit

Seen(vote, expected, rows) ==
    Absentees(vote) # {} =>
        /\ rows # {}
        /\ \/ Absentees(vote) \subseteq expected
           \/ /\ expected \subseteq Validators(vote) /\ Voters(vote) \subseteq Observed(rows)
              /\ Cardinality(Anonymous(rows)) = Cardinality(Absentees(vote))

LEMMA ReadIsSeen ==
    ASSUME NEW vote \in [Slots -> Flags], NEW expected, NEW h, NEW commit,
           ReadRight(vote, expected, h, commit), Absentees(vote) # {} => commit.rows # {}
    PROVE  Seen(vote, expected, Attribute(expected, commit))
<1>1. PICK c : /\ commit = ReadCommit(h + 1, c) /\ Cast(vote, c.votes)
               /\ \/ Absentees(vote) \subseteq expected
                  \/ /\ AllWhole(vote, c.votes)
                     /\ Voters(vote) \subseteq expected /\ expected \subseteq Validators(vote)
  BY DEF ReadRight
<1> DEFINE rows == Attribute(expected, commit)
<1>2. rows = Attribute(expected, ReadCommit(h + 1, c)) BY <1>1
<1>3. Absentees(vote) # {} => rows # {} BY DEF Attribute
<1>. HIDE DEF rows
<1>4. CASE Absentees(vote) \subseteq expected BY <1>3, <1>4 DEF Seen, rows
<1>5. CASE AllWhole(vote, c.votes) /\ Voters(vote) \subseteq expected /\ expected \subseteq Validators(vote)
  <2>1. Voters(vote) \subseteq Observed(rows) BY <1>1, <1>2, <1>5, EvidenceFacts
  <2>2. Cardinality(Anonymous(rows)) = Cardinality(Absentees(vote)) BY <1>1, <1>2, <1>5, AnonymousCounted
  <2>. QED BY <1>3, <1>5, <2>1, <2>2 DEF Seen, rows
<1>. QED BY <1>1, <1>4, <1>5

\* Whoever was absent is expected at a height that is evaluated.
LEMMA AbsentIsExpected ==
    ASSUME NEW vote \in [Slots -> Flags], NEW expected \in SUBSET Slots, NEW rows, Sound(vote, expected, rows),
           Seen(vote, expected, rows), CanEvaluate(expected, rows), NEW s \in Absentees(vote)
    PROVE  s \in expected
<1>1. CASE Absentees(vote) \subseteq expected BY <1>1
<1>2. CASE /\ expected \subseteq Validators(vote) /\ Voters(vote) \subseteq Observed(rows)
           /\ Cardinality(Anonymous(rows)) = Cardinality(Absentees(vote))
  <2> DEFINE missing == expected \ Observed(rows)
  <2>1. Cardinality(missing) = Cardinality(Absentees(vote)) BY <1>2 DEF CanEvaluate
  <2>2. missing \subseteq Absentees(vote) BY <1>2 DEF Validators, Voters, Absentees, Flags
  <2>3. IsFiniteSet(Absentees(vote)) BY SlotFacts DEF Absentees
  <2>. HIDE DEF missing
  <2>4. missing = Absentees(vote) BY <2>1, <2>2, <2>3, FS_Subset
  <2>. QED BY <2>4 DEF missing
<1>. QED BY <1>1, <1>2 DEF Seen

RowsKept == \A h \in 1..Len(votes) : Absentees(votes[h]) # {} => commits[h].rows # {}

EvidenceSeen == \A h \in 1..Len(evidence) : Seen(votes[h], windows[h], evidence[h])

LivenessFull ==
    \A h \in 1..Len(liveness) : \A s \in Absentees(votes[h]) : h \in invalid \/ s \in DOMAIN liveness[h]

NoticedInv == RowsKept /\ EvidenceSeen /\ LivenessFull /\ IsFiniteSet(invalid)

LEMMA LengthsAre ==
    ASSUME SigningInv
    PROVE  /\ Len(votes) \in Nat /\ Len(evidence) \in 0..Len(votes) /\ Len(liveness) \in 0..Len(evidence)
           /\ Len(commits) = Len(votes) /\ Len(windows) = Len(votes)
<1>1. Len(votes) \in Nat /\ Len(evidence) \in Nat /\ Len(liveness) \in Nat BY Appended DEF SigningInv, Lengths
<1>. QED BY <1>1 DEF SigningInv, Lengths

\* A new height changes nothing about the heights before it.
LEMMA EarlierStay ==
    ASSUME SigningInv, ProjectSignatures
    PROVE  /\ Len(votes') = Len(votes) + 1
           /\ \A h \in 1..Len(votes) : votes'[h] = votes[h] /\ windows'[h] = windows[h] /\ commits'[h] = commits[h]
<1>1. \E vote : votes' = Append(votes, vote) BY DEF ProjectSignatures
<1>2. \E view : windows' = Append(windows, view) BY DEF ProjectSignatures
<1>3. \E commit : commits' = Append(commits, commit) BY DEF ProjectSignatures
<1>4. /\ IsSeq(votes) /\ IsSeq(windows) /\ IsSeq(commits) /\ Len(windows) = Len(votes) /\ Len(commits) = Len(votes)
  BY DEF SigningInv, Lengths
<1>5. Len(votes') = Len(votes) + 1 /\ \A h \in 1..Len(votes) : votes'[h] = votes[h] BY <1>1, <1>4, Appended
<1>6. \A h \in 1..Len(votes) : windows'[h] = windows[h] BY <1>2, <1>4, Appended
<1>7. \A h \in 1..Len(votes) : commits'[h] = commits[h] BY <1>3, <1>4, Appended
<1>. QED BY <1>5, <1>6, <1>7

LEMMA RowsKeptStep ==
    ASSUME ~Commitless, SigningInv, RowsKept, [Next]_vars
    PROVE  RowsKept'
<1>1. CASE ProjectSignatures
  <2> DEFINE n == Len(votes) + 1
  <2>1. PICK vote \in [Slots -> Flags] :
          /\ HasQuorum(vote) /\ votes' = Append(votes, vote)
          /\ \/ commits' = Append(commits, ReadCommit(n + 1, Intact(n, vote)))
             \/ \E c \in Spoilt(n, vote) : commits' = Append(commits, ReadCommit(n + 1, c))
    BY <1>1 DEF ProjectSignatures
  <2>2. PICK stated, s, shape : commits' = Append(commits, ReadCommit(n + 1, Carried(n, vote, stated, s, shape)))
    <3>. HIDE DEF n
    <3>1. \A c \in Spoilt(n, vote) : \E stated, s, shape : c = Carried(n, vote, stated, s, shape) BY DEF Spoilt
    <3>. QED BY <2>1, <3>1 DEF Intact
  <2> DEFINE commit == ReadCommit(n + 1, Carried(n, vote, stated, s, shape))
  <2>3. Absentees(vote) # {} => commit.rows # {} BY <2>1, RowsAreKept
  <2>4. commits' = Append(commits, commit) BY <2>2
  <2>. HIDE DEF commit
  <2>5. Len(votes) \in Nat /\ Len(commits) = Len(votes) BY LengthsAre
  <2>6. votes'[n] = vote /\ commits'[n] = commit BY <2>1, <2>4, <2>5, Appended DEF SigningInv, Lengths
  <2>7. /\ Len(votes') = n
        /\ \A h \in 1..Len(votes) : votes'[h] = votes[h] /\ commits'[h] = commits[h]
    BY <1>1, EarlierStay
  <2>8. \A h \in 1..n : h = n \/ h \in 1..Len(votes) BY <2>5
  <2>. HIDE DEF n
  <2>. QED BY <2>3, <2>6, <2>7, <2>8 DEF RowsKept
<1>2. CASE UNCHANGED <<votes, commits>> BY <1>2 DEF RowsKept
<1>3. CASE RebuildMap BY <1>2, <1>3 DEF RebuildMap
<1>. QED
  BY <1>1, <1>2, <1>3
  DEF Next, vars, ProjectEvidence, ProjectLiveness, ResetLiveness, StartSummary, ReadChunk, WriteSummaries,
      AbandonScan, ProjectHealth

LEMMA EvidenceSeenStep ==
    ASSUME SigningInv, RowsKept, EvidenceSeen, [Next]_vars
    PROVE  EvidenceSeen'
<1>1. Len(votes) \in Nat /\ Len(evidence) \in 0..Len(votes) BY LengthsAre
<1>2. \A h \in 1..Len(evidence) : h \in 1..Len(votes) BY <1>1
<1>3. CASE ProjectSignatures
  <2>1. evidence' = evidence BY <1>3 DEF ProjectSignatures
  <2>. QED BY <1>2, <1>3, <2>1, EarlierStay DEF EvidenceSeen
<1>4. CASE RebuildMap
  <2>1. /\ UNCHANGED <<votes, evidence>>
        /\ windows' = [h \in DOMAIN votes |-> Validators(votes[h])]
    BY <1>4 DEF RebuildMap
  <2>2. DOMAIN votes = 1..Len(votes) BY Appended DEF SigningInv, Lengths
  <2>3. ASSUME NEW h \in 1..Len(evidence) PROVE Seen(votes[h], windows'[h], evidence[h])
    <3>1. Seen(votes[h], windows[h], evidence[h]) BY DEF EvidenceSeen
    <3>2. windows'[h] = Validators(votes[h]) BY <1>2, <2>1, <2>2
    <3>3. Absentees(votes[h]) \subseteq Validators(votes[h])
      BY <1>2, RightView DEF SigningInv, HeightsRead
    <3>. QED BY <3>1, <3>2, <3>3 DEF Seen
  <2>. QED BY <2>1, <2>3 DEF EvidenceSeen
<1>5. CASE ProjectEvidence
  <2> DEFINE n == Len(evidence) + 1
             rows == Attribute(windows[n], commits[n])
  <2>1. evidence' = Append(evidence, rows) /\ n <= Len(votes) /\ UNCHANGED <<votes, windows>>
    BY <1>5 DEF ProjectEvidence
  <2>2. n \in 1..Len(votes) BY <1>1, <2>1
  <2>3. Seen(votes[n], windows[n], rows)
    <3>1. /\ votes[n] \in [Slots -> Flags] /\ ReadRight(votes[n], windows[n], n, commits[n])
          /\ Absentees(votes[n]) # {} => commits[n].rows # {}
      BY <2>2 DEF SigningInv, HeightsRead, RowsKept
    <3>. HIDE DEF n
    <3>. QED BY <3>1, ReadIsSeen
  <2>. HIDE DEF rows
  <2>4. Len(evidence') = n /\ evidence'[n] = rows /\ \A h \in 1..Len(evidence) : evidence'[h] = evidence[h]
    BY <2>1, Appended DEF SigningInv, Lengths
  <2>5. \A h \in 1..n : h = n \/ h \in 1..Len(evidence) BY <1>1
  <2>. HIDE DEF n
  <2>. QED BY <2>1, <2>3, <2>4, <2>5 DEF EvidenceSeen
<1>6. CASE UNCHANGED <<votes, windows, evidence>> BY <1>6 DEF EvidenceSeen
<1>. QED
  BY <1>3, <1>4, <1>5, <1>6
  DEF Next, vars, ProjectLiveness, ResetLiveness, StartSummary, ReadChunk, WriteSummaries, AbandonScan,
      ProjectHealth

LEMMA LivenessFullStep ==
    ASSUME SigningInv, EvidenceSeen, LivenessFull, [Next]_vars
    PROVE  LivenessFull'
<1>1. Len(votes) \in Nat /\ Len(evidence) \in 0..Len(votes) /\ Len(liveness) \in 0..Len(evidence) BY LengthsAre
<1>2. CASE ProjectSignatures
  <2>1. UNCHANGED <<liveness, invalid>> BY <1>2 DEF ProjectSignatures
  <2>2. \A h \in 1..Len(liveness) : h \in 1..Len(votes) BY <1>1
  <2>. QED BY <1>2, <2>1, <2>2, EarlierStay DEF LivenessFull
<1>3. CASE ProjectLiveness
  <2> DEFINE n == Len(liveness) + 1
             none == [s \in {} |-> NoRow]
             fits == CanEvaluate(windows[n], evidence[n])
             rows == IF evidence[n] = {} THEN none ELSE Evaluate(windows[n], evidence[n])
  <2>1. /\ liveness' = Append(liveness, rows) /\ n <= Len(evidence) /\ votes' = votes
        /\ invalid' = IF evidence[n] = {} \/ fits THEN invalid ELSE invalid \union {n}
    BY <1>3 DEF ProjectLiveness
  <2>2. n \in 1..Len(votes) /\ n \in 1..Len(evidence) BY <1>1, <2>1
  <2>3. ASSUME NEW s \in Absentees(votes[n]) PROVE n \in invalid' \/ s \in DOMAIN rows
    <3>1. /\ votes[n] \in [Slots -> Flags] /\ windows[n] \in SUBSET Slots
          /\ Sound(votes[n], windows[n], evidence[n]) /\ Seen(votes[n], windows[n], evidence[n])
      BY <2>2 DEF SigningInv, HeightsRead, EvidenceSound, EvidenceSeen
    <3>2. evidence[n] # {} BY <3>1, <2>3 DEF Seen
    <3>3. CASE ~fits BY <2>1, <3>2, <3>3
    <3>4. CASE fits
      <4>1. DOMAIN rows = windows[n] BY <3>2, <3>4 DEF Evaluate
      <4>2. s \in windows[n]
        <5>. HIDE DEF n
        <5>. QED BY <2>3, <3>1, <3>4, AbsentIsExpected
      <4>. QED BY <4>1, <4>2
    <3>. QED BY <3>3, <3>4
  <2>. HIDE DEF rows, fits
  <2>4. Len(liveness') = n /\ liveness'[n] = rows /\ \A h \in 1..Len(liveness) : liveness'[h] = liveness[h]
    BY <2>1, Appended DEF SigningInv, Lengths
  <2>5. \A h \in 1..n : h = n \/ h \in 1..Len(liveness) BY <1>1
  <2>6. invalid \subseteq invalid' BY <2>1
  <2>. HIDE DEF n
  <2>. QED BY <2>1, <2>3, <2>4, <2>5, <2>6 DEF LivenessFull
<1>4. CASE ResetLiveness
  <2>1. Len(liveness') = 0 BY <1>4 DEF ResetLiveness
  <2>. QED BY <2>1 DEF LivenessFull
<1>5. CASE UNCHANGED <<votes, liveness, invalid>> BY <1>5 DEF LivenessFull
<1>6. CASE RebuildMap \/ ProjectEvidence BY <1>5, <1>6 DEF RebuildMap, ProjectEvidence
<1>. QED
  BY <1>2, <1>3, <1>4, <1>5, <1>6
  DEF Next, vars, StartSummary, ReadChunk, WriteSummaries, AbandonScan, ProjectHealth

LEMMA InvalidFiniteStep ==
    ASSUME IsFiniteSet(invalid), [Next]_vars
    PROVE  IsFiniteSet(invalid')
<1>1. CASE invalid' = invalid BY <1>1
<1>2. CASE ProjectLiveness
  <2>1. invalid' = invalid \/ \E h : invalid' = invalid \union {h} BY <1>2 DEF ProjectLiveness
  <2>. QED BY <2>1, FS_AddElement
<1>3. CASE ResetLiveness BY <1>3, FS_EmptySet DEF ResetLiveness
<1>. QED
  BY <1>1, <1>2, <1>3
  DEF Next, vars, ProjectSignatures, RebuildMap, ProjectEvidence, StartSummary, ReadChunk, WriteSummaries,
      AbandonScan, ProjectHealth

LEMMA NoticedStep ==
    ASSUME ~Commitless, SigningInv, NoticedInv, [Next]_vars
    PROVE  NoticedInv'
BY RowsKeptStep, EvidenceSeenStep, LivenessFullStep, InvalidFiniteStep DEF NoticedInv

\* A window without invalid heights and absent rows is one without absences.
Earned(s, sum) ==
    /\ sum.last \in 1..Len(votes) /\ sum.first \in 1..sum.last
    /\ sum.invalidCount \in Nat /\ sum.absent \in Nat /\ sum.nil \in Nat
    /\ sum.invalidCount = 0 /\ sum.absent = 0 =>
          \A h \in sum.first..sum.last : votes[h][s] # "absent"

SummariesEarned == \A s \in DOMAIN summaries : Earned(s, summaries[s].recent)

HealthEarned ==
    health.level = "normal" =>
        \A s \in DOMAIN health.rows :
            /\ health.rows[s].last \in 1..Len(votes)
            /\ health.rows[s].first \in 1..health.rows[s].last
            /\ \A h \in health.rows[s].first..health.rows[s].last : votes[h][s] # "absent"

LEMMA BatchEarned ==
    ASSUME SigningInv, NoticedInv, NEW s \in Slots, RowsOf(s) # <<>>
    PROVE  Earned(s, Batch(s).recent)
<1> DEFINE P == RowsOf(s)
           N == Len(liveness)
           T == Trailing(P, Recent)
           k == Skipped(P, Recent)
           sum == BuildSummary(T, invalid)
           lost == {h \in invalid : sum.first <= h /\ h <= sum.last}
           missed == {i \in DOMAIN T : T[i].status = "absent"}
<1>1. Len(votes) \in Nat /\ N \in 0..Len(votes) /\ N \in Nat BY LengthsAre
<1>2. RowsTo(s, N, P)
  <2>1. IsSeq(liveness) /\ N \in 0..N BY <1>1 DEF SigningInv, Lengths
  <2>. QED BY <2>1, RowsAre DEF RowsOf
<1>3. Batch(s).recent = sum BY DEF Batch
<1>4. P # <<>> OBVIOUS
<1>. HIDE DEF P, N
<1>5. IsSeq(P) /\ Len(P) \in Nat /\ Len(P) >= 1
  <2>1. IsSeq(P) BY <1>2 DEF RowsTo, RowSeq
  <2>. QED BY <1>4, <2>1 DEF IsSeq
<1>6. /\ IsSeq(T) /\ k \in 0..Len(P) /\ k < Len(P) /\ Len(T) = Len(P) - k
      /\ \A i \in 1..(Len(P) - k) : T[i] = P[k + i]
  <2>1. Recent \in Nat \ {0} BY RingBounds
  <2>2. IsSeq(P) BY <1>5
  <2>3. /\ IsSeq(T) /\ k \in 0..Len(P) /\ Len(T) = Len(P) - k
        /\ \A i \in 1..(Len(P) - k) : T[i] = P[k + i]
        /\ Len(P) > 0 => k < Len(P)
    BY ONLY <2>1, <2>2, TrailingFacts
  <2>. HIDE DEF T, k
  <2>. QED BY <1>5, <2>3
<1>. HIDE DEF T, k
<1>7. ASSUME NEW i \in 1..Len(P)
      PROVE  \E h \in 1..N : P[i] = RowAt(s, h) /\ P[i].height = h
  <2>1. PICK h \in 1..N : P[i] = RowAt(s, h) BY <1>2 DEF RowsTo
  <2>2. h \in Nat \ {0} BY <1>1
  <2>3. RowAt(s, h).height = h BY <2>2, RowFields
  <2>. QED BY <2>1, <2>3
<1>8. sum.first = P[k + 1].height /\ sum.last = P[Len(P)].height
  <2>1. Head(T) = T[1] /\ Last(T) = T[Len(T)] /\ Len(T) \in 1..(Len(P) - k) /\ 1 \in 1..(Len(P) - k)
    <3>1. \E S : T \in Seq(S) BY <1>6 DEF IsSeq
    <3>. QED BY <1>5, <1>6, <3>1 DEF Last
  <2>2. T[1] = P[k + 1] /\ T[Len(T)] = P[Len(P)]
    <3>1. k + Len(T) = Len(P) BY <1>5, <1>6
    <3>. QED BY <1>6, <2>1, <3>1
  <2>. QED BY <2>1, <2>2 DEF BuildSummary, Summary
<1>9. sum.absent = Count(T, "absent") /\ sum.nil = Count(T, "nil") /\ sum.invalidCount = Cardinality(lost)
  BY DEF BuildSummary, Summary
<1>. HIDE DEF sum
<1>10. sum.last \in 1..N /\ sum.first \in 1..sum.last
  <2>1. k + 1 \in 1..Len(P) /\ Len(P) \in 1..Len(P) BY <1>5, <1>6
  <2>2. sum.first \in 1..N /\ sum.last \in 1..N BY <1>7, <1>8, <2>1
  <2>3. k + 1 < Len(P) => sum.first < sum.last BY <1>2, <1>8, <2>1 DEF RowsTo, RowSeq
  <2>4. k + 1 = Len(P) => sum.first = sum.last BY <1>8
  <2>. QED BY <1>1, <1>5, <1>6, <2>2, <2>3, <2>4
<1>11. IsFiniteSet(lost) /\ Cardinality(lost) \in Nat BY FS_Subset, FS_CardinalityType DEF NoticedInv
<1>12. Count(T, "absent") \in Nat /\ Count(T, "nil") \in Nat /\ IsFiniteSet(missed) BY <1>6, CountType
<1>13. ASSUME sum.invalidCount = 0, sum.absent = 0,
              NEW h \in sum.first..sum.last, votes[h][s] = "absent"
       PROVE  FALSE
  <2>1. h \in 1..N /\ h \in 1..Len(votes) /\ h \in Nat \ {0} BY <1>1, <1>10
  <2>2. s \in Absentees(votes[h]) BY <1>13 DEF Absentees
  <2>3. h \notin invalid
    <3>1. lost = {} BY <1>9, <1>11, <1>13, FS_EmptySet
    <3>2. sum.first <= h /\ h <= sum.last BY <1>10, <1>1
    <3>. QED BY <3>1, <3>2
  <2>4. s \in DOMAIN liveness[h] BY <2>1, <2>2, <2>3 DEF NoticedInv, LivenessFull, N
  <2>5. PICK i \in 1..Len(P) : P[i] = RowAt(s, h) BY <1>2, <2>1, <2>4 DEF RowsTo
  <2>6. P[i].height = h /\ P[i].status = "absent"
    <3>1. liveness[h][s] = Truth(votes[h][s]) BY <2>1, <2>4 DEF SigningInv, LivenessTruthful, N
    <3>. QED BY <1>13, <2>1, <2>5, <3>1, RowFields DEF Truth
  <2>7. i >= k + 1
    <3>1. k + 1 \in 1..Len(P) BY <1>5, <1>6
    <3>2. i < k + 1 => P[i].height < P[k + 1].height BY <1>2, <3>1 DEF RowsTo, RowSeq
    <3>3. P[k + 1].height <= h BY <1>1, <1>8, <1>10
    <3>4. P[k + 1].height \in Nat BY <1>2, <3>1 DEF RowsTo, RowSeq
    <3>. QED BY <2>1, <2>6, <3>1, <3>2, <3>3, <3>4
  <2>8. i - k \in 1..(Len(P) - k) /\ k + (i - k) = i BY <1>5, <1>6, <2>7
  <2>9. T[i - k].status = "absent"
    <3>1. T[i - k] = P[k + (i - k)] BY <1>6, <2>8
    <3>. QED BY <2>6, <2>8, <3>1
  <2>10. i - k \in missed
    <3>1. DOMAIN T = 1..(Len(P) - k) BY <1>6 DEF IsSeq
    <3>. QED BY <2>8, <2>9, <3>1
  <2>11. Cardinality(missed) = 0 BY <1>9, <1>13 DEF Count
  <2>12. missed = {} BY <1>12, <2>11, FS_EmptySet
  <2>. QED BY <2>10, <2>12
<1>14. sum.last \in 1..Len(votes) BY <1>1, <1>10
<1>15. Earned(s, sum) BY <1>9, <1>10, <1>11, <1>12, <1>13, <1>14 DEF Earned
<1>. QED BY <1>3, <1>15

LEMMA EarnedStays ==
    ASSUME SigningInv, ProjectSignatures, NEW first, NEW last \in 1..Len(votes), first \in 1..last
    PROVE  /\ last \in 1..Len(votes')
           /\ \A h \in first..last : votes'[h] = votes[h]
<1>1. Len(votes) \in Nat /\ Len(votes') = Len(votes) + 1 /\ \A h \in 1..Len(votes) : votes'[h] = votes[h]
  BY LengthsAre, EarlierStay
<1>2. \A h \in first..last : h \in 1..Len(votes) BY <1>1
<1>. QED BY <1>1, <1>2

LEMMA SummariesEarnedStep ==
    ASSUME SummaryInv, NoticedInv, SummariesEarned, [Next]_vars
    PROVE  SummariesEarned'
<1>1. SigningInv BY DEF SummaryInv
<1>2. CASE WriteSummaries
  <2>1. LivenessTyped BY RowKeysFinite DEF SummaryInv, SigningInv, Lengths, SlotsOnly
  <2>2. Reading(scan) /\ scan.complete /\ votes' = votes BY <1>2 DEF WriteSummaries, SummaryInv, ScanInv
  <2>3. summaries' = [s \in {t \in Slots : RowsOf(t) # <<>>} |-> Batch(s)] BY <1>2, <2>1, <2>2, ScanWritten
  <2>4. ASSUME NEW s \in DOMAIN summaries' PROVE Earned(s, summaries'[s].recent)
    <3>1. s \in Slots /\ RowsOf(s) # <<>> /\ summaries'[s] = Batch(s) BY <2>3
    <3>. QED BY <1>1, <3>1, BatchEarned
  <2>. QED BY <2>2, <2>4 DEF SummariesEarned, Earned
<1>3. CASE ProjectSignatures
  <2>1. summaries' = summaries BY <1>3 DEF ProjectSignatures
  <2>2. ASSUME NEW s \in DOMAIN summaries PROVE Earned(s, summaries[s].recent)'
    <3> DEFINE sum == summaries[s].recent
    <3>1. Earned(s, sum) BY DEF SummariesEarned
    <3>2. summaries'[s].recent = sum BY <2>1
    <3>. HIDE DEF sum
    <3>3. /\ sum.last \in 1..Len(votes')
          /\ \A h \in sum.first..sum.last : votes'[h] = votes[h]
      BY <1>1, <1>3, <3>1, EarnedStays DEF Earned
    <3>. QED BY <3>1, <3>2, <3>3 DEF Earned
  <2>. QED BY <2>1, <2>2 DEF SummariesEarned
<1>4. CASE UNCHANGED <<votes, summaries>> BY <1>4 DEF SummariesEarned, Earned
<1>5. CASE RebuildMap BY <1>4, <1>5 DEF RebuildMap
<1>. QED
  BY <1>2, <1>3, <1>4, <1>5
  DEF Next, vars, ProjectEvidence, ProjectLiveness, ResetLiveness, StartSummary, ReadChunk, AbandonScan,
      ProjectHealth

\* A normal network is one of slots that are neither unknown nor in trouble.
LEMMA NormalIsHealthy ==
    ASSUME NEW rows, IsFiniteSet(DOMAIN rows), RiskLevel(rows) = "normal", NEW s \in DOMAIN rows
    PROVE  rows[s].status \notin {"incomplete", "unknown", "down", "degraded"}
<1>1. ~(CountStatus(rows, {"incomplete", "unknown"}) > 0) /\ ~(CountStatus(rows, {"down", "degraded"}) > 0)
  BY DEF RiskLevel
<1>2. ASSUME NEW kinds, ~(CountStatus(rows, kinds) > 0) PROVE rows[s].status \notin kinds
  <2> DEFINE those == {t \in DOMAIN rows : rows[t].status \in kinds}
  <2>1. IsFiniteSet(those) BY FS_Subset
  <2>2. Cardinality(those) \in Nat BY <2>1, FS_CardinalityType
  <2>3. ~(Cardinality(those) > 0) BY <1>2 DEF CountStatus
  <2>4. Cardinality(those) = 0 BY <2>2, <2>3
  <2>5. those = {} BY <2>1, <2>4, FS_EmptySet
  <2>. QED BY <2>5
<1>. QED BY <1>1, <1>2

LEMMA LatestHeightIs ==
    ASSUME SigningInv, SummariesEarned
    PROVE  NetworkLatestHeight \in 0..Len(votes)
<1> DEFINE S == {summaries[s].recent.last : s \in DOMAIN summaries} \union {NoHeight}
<1>1. Len(votes) \in Nat BY LengthsAre
<1>2. \A s \in DOMAIN summaries : summaries[s].recent.last \in 1..Len(votes) BY DEF SummariesEarned, Earned
<1>3. S \in SUBSET (0..Len(votes)) /\ S # {} BY <1>1, <1>2 DEF NoHeight
<1>4. NetworkLatestHeight = Max(S) BY DEF NetworkLatestHeight
<1>. HIDE DEF S
<1>5. PICK m \in S : \A x \in S : x <= m BY <1>1, <1>3, GreatestNat
<1>6. S \in SUBSET Int BY <1>3
<1>7. Max(S) = m BY ONLY <1>5, <1>6, MaxIs
<1>. QED BY <1>3, <1>4, <1>7

LEMMA HealthEarnedStep ==
    ASSUME SigningInv, SummariesEarned, HealthEarned, [Next]_vars
    PROVE  HealthEarned'
<1>1. CASE ProjectHealth
  <2> DEFINE active == IF NetworkLatestHeight = NoHeight THEN {} ELSE windows[NetworkLatestHeight]
             rows == [s \in active |-> Snapshot(s)]
  <2>1. health' = Risk(NetworkLatestHeight, rows, RiskLevel(rows)) /\ votes' = votes
    BY <1>1 DEF ProjectHealth
  <2>2. IsFiniteSet(active)
    <3>1. NetworkLatestHeight \in 0..Len(votes) /\ Len(votes) \in Nat BY LatestHeightIs, LengthsAre
    <3>2. NetworkLatestHeight # NoHeight => NetworkLatestHeight \in 1..Len(votes) BY <3>1 DEF NoHeight
    <3>3. active \in SUBSET Slots BY <3>2 DEF SigningInv, HeightsRead
    <3>. QED BY <3>3, SlotFacts
  <2>. HIDE DEF active
  <2>3. DOMAIN rows = active /\ \A s \in active : rows[s] = Snapshot(s) OBVIOUS
  <2>. HIDE DEF rows
  <2>4. health'.level = RiskLevel(rows) /\ health'.rows = rows BY <2>1 DEF Risk
  <2>5. ASSUME RiskLevel(rows) = "normal", NEW s \in active
        PROVE  /\ rows[s].last \in 1..Len(votes) /\ rows[s].first \in 1..rows[s].last
               /\ \A h \in rows[s].first..rows[s].last : votes[h][s] # "absent"
    <3> DEFINE sum == summaries[s].recent
    <3>1. rows[s].status \notin {"incomplete", "unknown", "down", "degraded"}
      BY <2>2, <2>3, <2>5, NormalIsHealthy
    <3>2. s \in DOMAIN summaries /\ ~CorruptSummary(sum)
      BY <2>3, <3>1 DEF Snapshot, HealthRow
    <3>3. rows[s] = HealthRow(ClassifyHealth(sum), sum.first, sum.last) BY <2>3, <3>2 DEF Snapshot
    <3>4. Earned(s, sum) BY <3>2 DEF SummariesEarned
    <3>. HIDE DEF sum
    <3>5. rows[s].first = sum.first /\ rows[s].last = sum.last /\ rows[s].status = ClassifyHealth(sum)
      BY <3>3 DEF HealthRow
    <3>6. ~(sum.invalidCount > 0) /\ ~(sum.absent + sum.nil > 0) BY <3>1, <3>5 DEF ClassifyHealth
    <3>7. sum.invalidCount = 0 /\ sum.absent = 0
      <4>1. sum.invalidCount \in Nat /\ sum.absent \in Nat /\ sum.nil \in Nat BY <3>4 DEF Earned
      <4>. QED BY <3>6, <4>1
    <3>. QED BY <3>4, <3>5, <3>7 DEF Earned
  <2>. QED BY <2>1, <2>3, <2>4, <2>5 DEF HealthEarned
<1>2. CASE ProjectSignatures
  <2>1. health' = health BY <1>2 DEF ProjectSignatures
  <2>2. ASSUME health.level = "normal", NEW s \in DOMAIN health.rows
        PROVE  /\ health.rows[s].last \in 1..Len(votes')
               /\ health.rows[s].first \in 1..health.rows[s].last
               /\ \A h \in health.rows[s].first..health.rows[s].last : votes'[h][s] # "absent"
    <3> DEFINE row == health.rows[s]
    <3>1. /\ row.last \in 1..Len(votes) /\ row.first \in 1..row.last
          /\ \A h \in row.first..row.last : votes[h][s] # "absent"
      BY <2>2 DEF HealthEarned
    <3>. HIDE DEF row
    <3>2. row.last \in 1..Len(votes') /\ \A h \in row.first..row.last : votes'[h] = votes[h]
      BY <1>2, <3>1, EarnedStays
    <3>3. \A h \in row.first..row.last : votes'[h][s] # "absent" BY <3>1, <3>2
    <3>. QED BY <3>1, <3>2, <3>3 DEF row
  <2>. QED BY <2>1, <2>2 DEF HealthEarned
<1>3. CASE UNCHANGED <<votes, health>> BY <1>3 DEF HealthEarned
<1>4. CASE RebuildMap BY <1>3, <1>4 DEF RebuildMap
<1>. QED
  BY <1>1, <1>2, <1>3, <1>4
  DEF Next, vars, ProjectEvidence, ProjectLiveness, ResetLiveness, StartSummary, ReadChunk, WriteSummaries,
      AbandonScan

LEMMA EarnedInitial ==
    ASSUME Init
    PROVE  NoticedInv /\ SummariesEarned /\ HealthEarned
<1>1. Len(votes) = 0 /\ Len(evidence) = 0 /\ Len(liveness) = 0 BY DEF Init
<1>2. IsFiniteSet(invalid) BY FS_EmptySet DEF Init
<1>3. NoticedInv BY <1>1, <1>2 DEF NoticedInv, RowsKept, EvidenceSeen, LivenessFull
<1>4. SummariesEarned BY DEF Init, NoSummaries, SummariesEarned
<1>5. HealthEarned BY DEF Init, Risk, HealthEarned
<1>. QED BY <1>3, <1>4, <1>5

\* When every block has its last_commit, "normal" is never said of a network in
\* which an active slot was absent at a height its recent window spans
\* (coreslot-health.ts): no such absence is without a row or an invalid height.
THEOREM NormalIsEarnedHolds ==
    ASSUME ~Commitless
    PROVE  Spec => []NormalIsEarned
<1> DEFINE EarnedInv == SigningInv /\ NoticedInv /\ SummariesEarned /\ HealthEarned
<1>1. Init => EarnedInv BY SigningInitial, EarnedInitial
<1>2. SummaryInv /\ EarnedInv /\ [Next]_vars => EarnedInv'
  BY SigningStep, NoticedStep, SummariesEarnedStep, HealthEarnedStep
<1>3. EarnedInv => NormalIsEarned BY DEF HealthEarned, NormalIsEarned
<1>. QED BY <1>1, <1>2, <1>3, SummaryInvHolds, PTL DEF Spec

=============================================================================
