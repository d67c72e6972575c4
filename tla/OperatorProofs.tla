--------------------------- MODULE OperatorProofs ---------------------------
(***************************************************************************)
(* What an operator publishes, sampled and judged.                         *)
(*                                                                         *)
(* OperatorFeed: samples only advance, and no draw is given up early, for  *)
(* any number of epochs, any budgets and backoff, any broken fetches and   *)
(* any kills.  Sampled is what links the three: an epoch sampled settled   *)
(* has settled, so it is drawn no more, and an attempt counts as late only *)
(* against such a sample.                                                  *)
(*                                                                         *)
(* DrawVerdict: a verdict is green exactly for an honest draw, for any     *)
(* chains, records and lotteries and any number of resets, as long as the  *)
(* policy projection stands still between its two reads.  Winners with the *)
(* same rank are the same, so the first K are who the beacon says; a       *)
(* window that misses no height is the chain's own, so the beacon is.      *)
(***************************************************************************)
EXTENDS OperatorFeed, DrawVerdict, FiniteSetTheorems, WellFoundedInduction, TLAPS


Sampled ==
    \A e \in Epochs : /\ epochs[e] = "settled" => feed[e] = "settled"
                      /\ epochs[e] = "open" => feed[e] # "none"
                      /\ draws[e].late => epochs[e] = "settled"

Inv == TypeOK /\ Sampled /\ NoDrawGivenUpEarly

\* What the steps of the run do to the samples of one epoch.
LEMMA StoringKeeps ==
    ASSUME Inv, NEW e \in Epochs, epochs[e] # "settled",
           NEW ok \in BOOLEAN, ok => EpochServed(e), StoreEpoch(e, ok),
           UNCHANGED <<server, discovery>>
    PROVE  /\ epochs' \in [Epochs -> States] /\ draws' \in [Epochs -> Attempts]
           /\ \A d \in Epochs : draws'[d].state = draws[d].state
           /\ Sampled' /\ NoDrawGivenUpEarly'
  <1> USE DEF Inv, TypeOK
  <1>1. /\ epochs' \in [Epochs -> States] /\ draws' \in [Epochs -> Attempts]
        /\ \A d \in Epochs : draws'[d].state = draws[d].state
    BY DEF StoreEpoch, States, Attempts
  <1>2. \A d \in Epochs \ {e} : epochs'[d] = epochs[d] /\ draws'[d] = draws[d]
    BY DEF StoreEpoch, Attempts
  <1>3. epochs'[e] = epochs[e] \/ epochs'[e] = feed[e]
    BY DEF StoreEpoch
  <1>4. draws'[e].late => draws[e].late
    BY DEF StoreEpoch, Attempts
  <1>5. ~draws[e].late
    BY DEF Sampled
  <1>6. ok => feed[e] # "none"
    BY DEF EpochServed, Opened
  <1>7. epochs'[e] = epochs[e] \/ (ok /\ epochs'[e] = feed[e])
    BY DEF StoreEpoch
  <1>8. Sampled'
    BY <1>2, <1>4, <1>5, <1>6, <1>7 DEF Sampled, server
  <1>9. NoDrawGivenUpEarly'
    BY <1>2, <1>4, <1>5 DEF NoDrawGivenUpEarly, Terminal, server
  <1> QED
    BY <1>1, <1>8, <1>9

LEMMA InvInit == Init => Inv
  <1> SUFFICES ASSUME Init PROVE Inv
    OBVIOUS
  <1> USE Bounds DEF Init
  <1>1. Untried \in Attempts /\ Untried.state = "none" /\ Untried.late = FALSE
    BY DEF Untried, Attempts
  <1>2. /\ feed \in [Epochs -> States] /\ epochs \in [Epochs -> States]
        /\ drawn \in [Epochs -> BOOLEAN] /\ draws \in [Epochs -> Attempts]
        /\ \A e \in Epochs : draws[e].state = "none"
    BY <1>1 DEF States
  <1>3. used \in [epoch : 0..EpochBudget, draw : 0..DrawBudget]
    OBVIOUS
  <1>4. TypeOK
    <2>1. discovery \in BOOLEAN /\ \A e \in Epochs : draws[e].state # "none" => discovery
      BY <1>2, Zenon
    <2>2. entitled \in 0..Last /\ at \in 0..entitled /\ stops \in 0..MaxStops
      OBVIOUS
    <2>3. final \subseteq Epochs /\ pc \in {"idle", "current", "epoch", "draw"}
      OBVIOUS
    <2> QED
      BY <1>2, <1>3, <2>1, <2>2, <2>3, Zenon DEF TypeOK
  <1>5. Sampled /\ NoDrawGivenUpEarly
    BY <1>1 DEF Sampled, NoDrawGivenUpEarly, Terminal
  <1> QED
    BY <1>4, <1>5 DEF Inv

\* Every step of the server, the index and the run keeps the invariant.
LEMMA InvStep == Inv /\ [Next]_vars => Inv'
  <1> SUFFICES ASSUME Inv, [Next]_vars PROVE Inv'
    OBVIOUS
  <1> USE Bounds DEF Inv, TypeOK
  <1>1. CASE OpenEpoch \/ SettleEpoch
    BY <1>1 DEF OpenEpoch, SettleEpoch, Opened, Sampled, NoDrawGivenUpEarly, Terminal, States,
                server, index, samples
  <1>2. CASE PublishDraw
    BY <1>2 DEF PublishDraw, Opened, Sampled, NoDrawGivenUpEarly, Terminal, server, index, samples
  <1>3. CASE IndexEntitlement \/ IndexFinalization
    <2>1. /\ UNCHANGED <<server, samples, pc, at, used, stops>>
          /\ entitled' \in entitled..Last
      BY <1>3 DEF IndexEntitlement, IndexFinalization
    <2>2. final' \subseteq Epochs
      <3>1. CASE IndexEntitlement
        BY <3>1 DEF IndexEntitlement
      <3>2. CASE IndexFinalization
        <4>1. PICK e \in 1..entitled : final' = final \union {e}
          BY <3>2 DEF IndexFinalization
        <4>2. e \in Epochs
          BY <4>1 DEF Epochs
        <4> QED
          BY <4>1, <4>2
      <3> QED
        BY <1>3, <3>1, <3>2
    <2> QED
      BY <2>1, <2>2 DEF Sampled, NoDrawGivenUpEarly, Terminal, server, samples
  <1>4. ASSUME NEW hears \in BOOLEAN, StartRun(hears) PROVE Inv'
    <2>1. \A e \in Epochs : /\ Older(draws[e]) \in Attempts
                            /\ Older(draws[e]).state = draws[e].state
                            /\ Older(draws[e]).late = draws[e].late
      BY DEF Older, Attempts
    <2> QED
      BY <1>4, <2>1 DEF StartRun, Sampled, NoDrawGivenUpEarly, Terminal, server, index
  <1>5. ASSUME NEW ok \in BOOLEAN, NEW e \in Epochs, FetchCurrent(e, ok) PROVE Inv'
    <2>1. StoreEpoch(e, ok) /\ epochs[e] # "settled" /\ (ok => EpochServed(e))
      BY <1>5 DEF FetchCurrent
    <2>2. UNCHANGED <<server, discovery, index, used, stops>> /\ pc' = "epoch" /\ at' = entitled
      BY <1>5 DEF FetchCurrent, Loop
    <2> QED
      BY <2>1, <2>2, StoringKeeps DEF server, index
  <1>6. ASSUME NEW ok \in BOOLEAN, FetchEpoch(ok) PROVE Inv'
    <2>1. at \in Epochs /\ epochs[at] # "settled" /\ used.epoch < EpochBudget
      BY <1>6 DEF FetchEpoch, Reaches, WantsEpoch, NeedEpoch, EpochBudgetLeft, Epochs
    <2>2. StoreEpoch(at, ok) /\ (ok => EpochServed(at))
      BY <1>6 DEF FetchEpoch
    <2>3. /\ UNCHANGED <<server, discovery, index, at, stops>>
          /\ pc' = "draw" /\ used' = [used EXCEPT !.epoch = @ + 1]
      BY <1>6 DEF FetchEpoch
    <2>4. Sampled' /\ NoDrawGivenUpEarly'
      BY <2>1, <2>2, <2>3, StoringKeeps
    <2>5. /\ epochs' \in [Epochs -> States] /\ draws' \in [Epochs -> Attempts]
          /\ \A d \in Epochs : draws'[d].state = draws[d].state
      BY <2>1, <2>2, <2>3, StoringKeeps
    <2> QED
      BY <2>1, <2>3, <2>4, <2>5 DEF server, index
  <1>7. ASSUME NEW state \in {"stored", "missing", "failed"}, FetchDraw(state) PROVE Inv'
    <2>1. at \in Epochs /\ discovery /\ used.draw < DrawBudget
      BY <1>7 DEF FetchDraw, AtDraw, Reaches, WantsDraw, NeedDraw, DrawBudgetLeft, Epochs
    <2>2. state = "missing" => ~drawn[at]
      BY <1>7 DEF FetchDraw, DrawAnswers
    <2>3. /\ draws' \in [Epochs -> Attempts]
          /\ \A e \in Epochs \ {at} : draws'[e] = draws[e]
          /\ draws'[at].state = state
          /\ draws'[at].late => epochs[at] = "settled"
      <3> DEFINE new == IF state = "stored"
                        THEN [Untried EXCEPT !.state = "stored"]
                        ELSE [state |-> state, age |-> 0, late |-> epochs[at] = "settled"]
      <3>1. new \in Attempts /\ new.state = state /\ (new.late => epochs[at] = "settled")
        <4>1. CASE state = "stored"
          <5>1. new = [Untried EXCEPT !.state = "stored"]
            BY <4>1, Zenon
          <5> HIDE DEF new
          <5>2. new = [state |-> "stored", age |-> Backoff, late |-> FALSE]
            BY <5>1 DEF Untried
          <5> QED
            BY <4>1, <5>2, Bounds DEF Attempts
        <4>2. CASE state # "stored" /\ epochs[at] = "settled"
          <5>1. (epochs[at] = "settled") = TRUE
            BY <4>2, Zenon
          <5>2. new = [state |-> state, age |-> 0, late |-> TRUE]
            BY <4>2, <5>1, Zenon
          <5> QED
            BY <4>2, <5>2 DEF Attempts
        <4>3. CASE state # "stored" /\ epochs[at] # "settled"
          <5>1. (epochs[at] = "settled") = FALSE
            BY <4>3, Zenon
          <5>2. new = [state |-> state, age |-> 0, late |-> FALSE]
            BY <4>3, <5>1, Zenon
          <5> HIDE DEF new
          <5> QED
            BY <5>2 DEF Attempts
        <4> QED
          BY <4>1, <4>2, <4>3
      <3>2. draws' = [draws EXCEPT ![at] = new]
        BY <1>7 DEF FetchDraw, StoreDraw
      <3> HIDE DEF new
      <3> QED
        BY <3>1, <3>2, <2>1
    <2>4. /\ UNCHANGED <<server, index, discovery, epochs, stops>>
          /\ pc' = "epoch" /\ at' = at - 1 /\ used' = [used EXCEPT !.draw = @ + 1]
      BY <1>7 DEF FetchDraw
    <2>5. Sampled' /\ NoDrawGivenUpEarly'
      BY <2>1, <2>2, <2>3, <2>4 DEF Sampled, NoDrawGivenUpEarly, Terminal, server
    <2> QED
      <3>1. used' \in [epoch : 0..EpochBudget, draw : 0..DrawBudget]
        BY <2>1, <2>4
      <3>2. at' \in 0..entitled'
        BY <2>1, <2>4 DEF index, Epochs
      <3> QED
        BY <2>1, <2>3, <2>4, <2>5, <3>1, <3>2 DEF server, index
  <1>8. CASE SkipCurrent
    BY <1>8 DEF SkipCurrent, Loop, Sampled, NoDrawGivenUpEarly, Terminal, server, index, samples
  <1>9. CASE NextEpoch
    BY <1>9 DEF NextEpoch, AtDraw, Reaches, Sampled, NoDrawGivenUpEarly, Terminal, server, index,
                samples
  <1>10. CASE EndRun \/ Stop
    BY <1>10 DEF EndRun, Stop, Idle, Sampled, NoDrawGivenUpEarly, Terminal, server, index, samples
  <1>11. CASE UNCHANGED vars
    BY <1>11 DEF vars, Sampled, NoDrawGivenUpEarly, Terminal, server, index, samples
  <1> QED
    BY <1>1, <1>2, <1>3, <1>4, <1>5, <1>6, <1>7, <1>8, <1>9, <1>10, <1>11 DEF Next, Run

LEMMA InvHolds == Spec => []Inv
  BY InvInit, InvStep, PTL DEF Spec

\* TypeOK of OperatorFeed, for every value of its constants.
THEOREM FeedTypeCorrect == Spec => []TypeOK
  BY InvHolds, PTL DEF Inv

\* NoDrawGivenUpEarly of OperatorFeed: an epoch whose draw is no longer asked for
\* has none, whatever the budgets, failures, kills and the operator's timing.
THEOREM NoDrawGivenUpEarlyHolds == Spec => []NoDrawGivenUpEarly
  BY InvHolds, PTL DEF Inv

\* One step replaces a sample only by a later one.
LEMMA AdvanceStep ==
    ASSUME Inv, [Next]_vars
    PROVE  \A e \in Epochs : /\ Rank(epochs[e]) <= Rank(epochs'[e])
                             /\ draws[e].state = "stored" => draws'[e].state = "stored"
  <1> USE DEF Inv, TypeOK
  <1>1. \A s \in States : Rank(s) <= Rank(s)
    BY DEF Rank, States
  <1>2. ASSUME NEW e \in Epochs, epochs[e] # "settled", NEW ok \in BOOLEAN,
               ok => EpochServed(e), StoreEpoch(e, ok), UNCHANGED <<server, discovery>>
        PROVE  \A d \in Epochs : /\ Rank(epochs[d]) <= Rank(epochs'[d])
                                 /\ draws[d].state = "stored" => draws'[d].state = "stored"
    <2>1. \A d \in Epochs : draws'[d].state = draws[d].state
      BY <1>2, StoringKeeps
    <2>2. \A d \in Epochs : epochs'[d] = epochs[d] \/ (d = e /\ ok /\ epochs'[d] = feed[d])
      BY <1>2 DEF StoreEpoch
    <2>3. ok => Rank(epochs[e]) <= Rank(feed[e])
      BY <1>2 DEF EpochServed, Opened, Rank, States
    <2> QED
      BY <2>1, <2>2, <2>3, <1>1
  <1>3. ASSUME NEW ok \in BOOLEAN, NEW e \in Epochs, FetchCurrent(e, ok)
        PROVE  \A d \in Epochs : /\ Rank(epochs[d]) <= Rank(epochs'[d])
                                 /\ draws[d].state = "stored" => draws'[d].state = "stored"
    BY <1>2, <1>3 DEF FetchCurrent
  <1>4. ASSUME NEW ok \in BOOLEAN, FetchEpoch(ok)
        PROVE  \A d \in Epochs : /\ Rank(epochs[d]) <= Rank(epochs'[d])
                                 /\ draws[d].state = "stored" => draws'[d].state = "stored"
    <2>1. at \in Epochs /\ epochs[at] # "settled"
      BY <1>4, Bounds DEF FetchEpoch, Reaches, WantsEpoch, NeedEpoch, Epochs
    <2> QED
      BY <1>2, <1>4, <2>1 DEF FetchEpoch
  <1>5. ASSUME NEW state \in {"stored", "missing", "failed"}, FetchDraw(state)
        PROVE  /\ UNCHANGED epochs
               /\ \A d \in Epochs : draws[d].state = "stored" => draws'[d].state = "stored"
    BY <1>5 DEF FetchDraw, StoreDraw, WantsDraw, NeedDraw, Attempts
  <1>6. ASSUME NEW hears \in BOOLEAN, StartRun(hears)
        PROVE  /\ UNCHANGED epochs
               /\ \A d \in Epochs : draws[d].state = "stored" => draws'[d].state = "stored"
    BY <1>6 DEF StartRun, Older, Attempts
  <1>7. ASSUME UNCHANGED samples
        PROVE  /\ UNCHANGED epochs
               /\ \A d \in Epochs : draws[d].state = "stored" => draws'[d].state = "stored"
    BY <1>7 DEF samples
  <1>8. \/ \E ok \in BOOLEAN : FetchEpoch(ok) \/ \E e \in Epochs : FetchCurrent(e, ok)
        \/ \E state \in {"stored", "missing", "failed"} : FetchDraw(state)
        \/ \E hears \in BOOLEAN : StartRun(hears)
        \/ UNCHANGED samples
    BY DEF Next, Run, vars, OpenEpoch, SettleEpoch, PublishDraw, IndexEntitlement,
           IndexFinalization, SkipCurrent, NextEpoch, EndRun, Stop
  <1> QED
    BY <1>1, <1>3, <1>4, <1>5, <1>6, <1>7, <1>8

\* SamplesOnlyAdvance of OperatorFeed: no failed or refused fetch, no kill and no
\* order of fetches loses a good payload or replaces it by an older one.
THEOREM SamplesOnlyAdvanceHolds == Spec => SamplesOnlyAdvance
  <1>1. Inv /\ [Next]_vars =>
            [\A e \in Epochs : /\ Rank(epochs[e]) <= Rank(epochs'[e])
                               /\ draws[e].state = "stored" => draws'[e].state = "stored"]_vars
    BY AdvanceStep
  <1> QED
    BY <1>1, InvHolds, PTL DEF Spec, SamplesOnlyAdvance


-----------------------------------------------------------------------------
(* A ranking: candidates before a beacon.                                  *)

Standing(ids, beacon, x) == Cardinality({y \in ids : Before(beacon, y, x)})

Ranked(ids, beacon) ==
    /\ IsFiniteSet(ids) /\ ids \subseteq Nat
    /\ \A x \in ids : Ticket(beacon, x) \in Int

\* An earlier candidate has a lower rank.
LEMMA RankFollowsOrder ==
    ASSUME NEW ids, NEW beacon, Ranked(ids, beacon), NEW x \in ids
    PROVE  /\ Standing(ids, beacon, x) \in 0..(Cardinality(ids) - 1)
           /\ \A y \in ids : Before(beacon, x, y) => Standing(ids, beacon, x) < Standing(ids, beacon, y)
           /\ \A y \in ids : Standing(ids, beacon, x) < Standing(ids, beacon, y) <=> Before(beacon, x, y)
           /\ \A y \in ids : Standing(ids, beacon, x) = Standing(ids, beacon, y) => x = y
<1>0. /\ IsFiniteSet(ids)
      /\ \A y \in ids : ~Before(beacon, y, y)
      /\ \A y, z \in ids : y = z \/ Before(beacon, y, z) \/ Before(beacon, z, y)
      /\ \A w, y, z \in ids : Before(beacon, w, y) /\ Before(beacon, y, z) => Before(beacon, w, z)
  BY DEF Ranked, Before
<1>c. Cardinality(ids) \in Int BY <1>0, FS_CardinalityType
<1>1. ASSUME NEW y \in ids
      PROVE  /\ IsFiniteSet({z \in ids : Before(beacon, z, y)})
             /\ Standing(ids, beacon, y) \in 0..(Cardinality(ids) - 1)
  <2>1. {z \in ids : Before(beacon, z, y)} \in SUBSET (ids \ {y}) BY <1>0
  <2>2. IsFiniteSet(ids \ {y}) /\ Cardinality(ids \ {y}) = Cardinality(ids) - 1
    BY <1>0, FS_RemoveElement
  <2>3. /\ IsFiniteSet({z \in ids : Before(beacon, z, y)})
        /\ Cardinality({z \in ids : Before(beacon, z, y)}) <= Cardinality(ids) - 1
    BY <2>1, <2>2, FS_Subset
  <2>4. Standing(ids, beacon, y) \in Nat BY <2>3, FS_CardinalityType DEF Standing
  <2>. QED BY <2>3, <2>4, <1>c DEF Standing
<1>r. \A y \in ids : Standing(ids, beacon, y) \in 0..(Cardinality(ids) - 1) BY <1>1
<1>i. \A y \in ids : Standing(ids, beacon, y) \in Int BY <1>r, <1>c
<1>2. ASSUME NEW v \in ids, NEW y \in ids, Before(beacon, v, y)
      PROVE  Standing(ids, beacon, v) < Standing(ids, beacon, y)
  <2> DEFINE below == {z \in ids : Before(beacon, z, y)}
  <2>1. {z \in ids : Before(beacon, z, v)} \in SUBSET (below \ {v}) BY <1>0, <1>2
  <2>2. v \in below BY <1>2
  <2>3. IsFiniteSet(below) /\ Standing(ids, beacon, y) = Cardinality(below) BY <1>1 DEF Standing
  <2>. HIDE DEF below
  <2>4. IsFiniteSet(below \ {v}) /\ Cardinality(below \ {v}) = Cardinality(below) - 1
    BY <2>2, <2>3, FS_RemoveElement
  <2>5. Cardinality({z \in ids : Before(beacon, z, v)}) <= Cardinality(below \ {v})
    BY <2>1, <2>4, FS_Subset
  <2>6. Standing(ids, beacon, v) <= Cardinality(below) - 1 BY <2>4, <2>5 DEF Standing
  <2>7. Standing(ids, beacon, v) \in Int /\ Standing(ids, beacon, y) \in Int BY <1>i
  <2>. QED BY <2>3, <2>6, <2>7
<1>3. \A y \in ids : Before(beacon, x, y) => Standing(ids, beacon, x) < Standing(ids, beacon, y) BY <1>2
<1>4. \A y \in ids : Before(beacon, y, x) => Standing(ids, beacon, y) < Standing(ids, beacon, x) BY <1>2
<1>. QED BY <1>0, <1>r, <1>i, <1>3, <1>4

\* Every rank is somebody's.
LEMMA RankIsTaken ==
    ASSUME NEW ids, NEW beacon, Ranked(ids, beacon), NEW n \in 0..(Cardinality(ids) - 1)
    PROVE  \E x \in ids : Standing(ids, beacon, x) = n
<1> DEFINE ranks == 0..(Cardinality(ids) - 1)
           rank  == [x \in ids |-> Standing(ids, beacon, x)]
<1>1. IsFiniteSet(ids) /\ Cardinality(ids) \in Nat BY FS_CardinalityType DEF Ranked
<1>2. IsFiniteSet(ranks) /\ Cardinality(ranks) = Cardinality(ids) BY <1>1, FS_Interval
<1>3. rank \in Injection(ids, ranks)
  BY RankFollowsOrder DEF Injection, IsInjective
<1>4. rank \in Surjection(ids, ranks) BY <1>1, <1>2, <1>3, FS_Injection
<1>. QED BY <1>4 DEF Surjection

\* A list in strict order holds as many candidates as it is long.
LEMMA ListOfCandidates ==
    ASSUME NEW c \in Seq(Nat), \A i \in DOMAIN c : i > 1 => c[i - 1] < c[i]
    PROVE  /\ IsFiniteSet(Elements(c)) /\ Elements(c) \subseteq Nat
           /\ Cardinality(Elements(c)) = Len(c)
<1>1. DOMAIN c = 1..Len(c) /\ Len(c) \in Nat /\ \A i \in DOMAIN c : c[i] \in Nat OBVIOUS
<1>2. ASSUME NEW i \in DOMAIN c, NEW j \in DOMAIN c, i < j PROVE c[i] < c[j]
  <2> DEFINE wrong == {k \in DOMAIN c : i < k /\ ~(c[i] < c[k])}
  <2>1. SUFFICES ASSUME wrong # {} PROVE FALSE BY <1>2
  <2>2. wrong \in SUBSET Nat BY <1>1
  <2>3. PICK k \in wrong : \A l \in wrong : ~(l < k)
    <3>1. IsWellFoundedOn(OpToRel(<, Nat), Nat) BY NatLessThanWellFounded
    <3>. HIDE DEF wrong
    <3>2. PICK k \in wrong : \A l \in wrong : ~(<<l, k>> \in OpToRel(<, Nat)) BY <2>1, <2>2, <3>1, WFMin
    <3>. QED BY <2>2, <3>2 DEF OpToRel
  <2>4. k \in DOMAIN c /\ i < k /\ ~(c[i] < c[k]) OBVIOUS
  <2>5. c[k - 1] < c[k] BY <1>1, <2>4
  <2>6. CASE k - 1 = i BY <2>4, <2>5, <2>6
  <2>7. CASE i < k - 1
    <3>1. k - 1 \in DOMAIN c BY <1>1, <2>4, <2>7
    <3>2. k - 1 \notin wrong BY <1>1, <2>3, <2>4
    <3>3. c[i] < c[k - 1] BY <2>7, <3>1, <3>2
    <3>. QED BY <1>1, <2>4, <2>5, <3>1, <3>3
  <2>. QED BY <1>1, <2>4, <2>6, <2>7
<1> DEFINE place == [i \in 1..Len(c) |-> c[i]]
<1>3. place \in Bijection(1..Len(c), Elements(c))
  <2>1. place \in [1..Len(c) -> Elements(c)] BY <1>1 DEF Elements
  <2>2. \A i, j \in 1..Len(c) : c[i] = c[j] => i = j
    <3>1. SUFFICES ASSUME NEW i \in 1..Len(c), NEW j \in 1..Len(c), i < j PROVE c[i] # c[j] OBVIOUS
    <3>. QED BY <1>1, <1>2, <3>1
  <2>3. IsInjective(place) BY <2>2 DEF IsInjective
  <2>4. \A x \in Elements(c) : \E i \in 1..Len(c) : place[i] = x BY <1>1 DEF Elements
  <2>. QED BY <2>1, <2>3, <2>4 DEF Bijection, Injection, Surjection
<1>4. IsFiniteSet(1..Len(c)) /\ Cardinality(1..Len(c)) = Len(c)
  <2>1. Len(c) \in Int /\ Len(c) >= 0 BY <1>1
  <2>2. IsFiniteSet(1..Len(c)) /\ Cardinality(1..Len(c)) = IF 1 > Len(c) THEN 0 ELSE Len(c) - 1 + 1
    BY <2>1, FS_Interval
  <2>. QED BY <2>1, <2>2
<1>5. ExistsBijection(1..Len(c), Elements(c)) BY <1>3 DEF ExistsBijection
<1>. QED BY <1>1, <1>4, <1>5, FS_Bijection DEF Elements

\* In the order of a beacon, the winners are those who rank first.
FirstIn(ids, beacon, w) ==
    /\ Elements(w) \subseteq ids
    /\ \A i, j \in DOMAIN w : i < j => Before(beacon, w[i], w[j])
    /\ \A i \in DOMAIN w : \A x \in ids \ Elements(w) : Before(beacon, w[i], x)

\* Whom Winners chooses for a place has the rank of that place.
LEMMA WinnersRank ==
    ASSUME NEW c, NEW beacon, Ranked(Elements(c), beacon),
           NEW k \in Nat, k <= Cardinality(Elements(c)), NEW i \in 1..k
    PROVE  /\ Winners(c, beacon, k)[i] \in Elements(c)
           /\ Standing(Elements(c), beacon, Winners(c, beacon, k)[i]) = i - 1
<1>1. Cardinality(Elements(c)) \in Nat BY FS_CardinalityType DEF Ranked
<1>2. i - 1 \in 0..(Cardinality(Elements(c)) - 1) BY <1>1
<1>3. \E x \in Elements(c) : Standing(Elements(c), beacon, x) = i - 1 BY <1>2, RankIsTaken
<1>. QED BY <1>3 DEF Winners, Standing

\* Winners takes the first k, in order.
LEMMA WinnersAreFirst ==
    ASSUME NEW c, NEW beacon, Ranked(Elements(c), beacon),
           NEW k \in Nat, k <= Cardinality(Elements(c))
    PROVE  /\ Winners(c, beacon, k) \in Seq(Nat) /\ Len(Winners(c, beacon, k)) = k
           /\ FirstIn(Elements(c), beacon, Winners(c, beacon, k))
<1> DEFINE w == Winners(c, beacon, k)
           ids == Elements(c)
<1>1. DOMAIN w = 1..k BY DEF Winners
<1>2. \A i \in 1..k : w[i] \in ids /\ Standing(ids, beacon, w[i]) = i - 1 BY WinnersRank
<1>3. w \in [1..k -> Nat]
  <2>1. w = [i \in 1..k |-> w[i]] BY DEF Winners
  <2>2. \A i \in 1..k : w[i] \in Nat BY <1>2 DEF Ranked
  <2>. HIDE DEF w
  <2>. QED BY <2>1, <2>2
<1>4. w \in Seq(Nat) /\ Len(w) = k
  <2>. HIDE DEF w
  <2>. QED BY <1>1, <1>3
<1>c. Cardinality(ids) \in Int BY FS_CardinalityType DEF Ranked
<1>r. \A x \in ids : Standing(ids, beacon, x) \in 0..(Cardinality(ids) - 1) BY RankFollowsOrder
<1>n. \A x \in ids : Standing(ids, beacon, x) \in Nat BY <1>c, <1>r
<1>5. \A x, y \in ids : Standing(ids, beacon, x) < Standing(ids, beacon, y) <=> Before(beacon, x, y)
  BY RankFollowsOrder
<1>6. \A x, y \in ids : Standing(ids, beacon, x) = Standing(ids, beacon, y) => x = y BY RankFollowsOrder
<1>. HIDE DEF w, ids
<1>7. Elements(w) \subseteq ids BY <1>1, <1>2 DEF Elements
<1>8. \A i, j \in DOMAIN w : i < j => Before(beacon, w[i], w[j])
  <2>1. \A i, j \in 1..k : i < j => Standing(ids, beacon, w[i]) < Standing(ids, beacon, w[j]) BY <1>2
  <2>. QED BY <2>1, <1>1, <1>2, <1>5
<1>9. ASSUME NEW i \in DOMAIN w, NEW x \in ids \ Elements(w) PROVE Before(beacon, w[i], x)
  <2>1. Standing(ids, beacon, x) \in Nat BY <1>n
  <2>2. ~(Standing(ids, beacon, x) < k)
    <3>1. SUFFICES ASSUME Standing(ids, beacon, x) + 1 \in 1..k PROVE FALSE BY <2>1
    <3>2. Standing(ids, beacon, w[Standing(ids, beacon, x) + 1]) = Standing(ids, beacon, x) BY <1>2, <2>1, <3>1
    <3>3. w[Standing(ids, beacon, x) + 1] = x BY <1>2, <1>6, <3>1, <3>2
    <3>. QED BY <1>1, <3>1, <3>3 DEF Elements
  <2>3. Standing(ids, beacon, w[i]) < Standing(ids, beacon, x) BY <1>1, <1>2, <2>1, <2>2
  <2>. QED BY <1>1, <1>2, <1>5, <2>3
<1>. QED BY <1>4, <1>7, <1>8, <1>9 DEF FirstIn, w, ids

\* And nobody else can be the first k in order.
LEMMA FirstAreWinners ==
    ASSUME NEW c, NEW beacon, Ranked(Elements(c), beacon), NEW w \in Seq(Nat),
           Len(w) <= Cardinality(Elements(c)), FirstIn(Elements(c), beacon, w)
    PROVE  w = Winners(c, beacon, Len(w))
<1> DEFINE ids == Elements(c)
<1>1. DOMAIN w = 1..Len(w) /\ Len(w) \in Nat OBVIOUS
<1>2. /\ \A y \in ids : ~Before(beacon, y, y)
      /\ \A y, z \in ids : ~(Before(beacon, y, z) /\ Before(beacon, z, y))
  BY DEF Ranked, Before
<1>3. Elements(w) \subseteq ids /\ \A i \in DOMAIN w : w[i] \in ids BY DEF FirstIn, Elements
<1>4. \A x, y \in ids : Standing(ids, beacon, x) = Standing(ids, beacon, y) => x = y BY RankFollowsOrder
<1>5. ASSUME NEW i \in 1..Len(w) PROVE Standing(ids, beacon, w[i]) = i - 1
  <2> DEFINE earlier == {w[j] : j \in 1..(i - 1)}
             place == [j \in 1..(i - 1) |-> w[j]]
  <2>1. \A j \in 1..(i - 1) : j \in DOMAIN w /\ j < i BY <1>1
  <2>2. earlier \subseteq {y \in ids : Before(beacon, y, w[i])} BY <1>1, <1>3, <2>1 DEF FirstIn
  <2>3. ASSUME NEW y \in ids, Before(beacon, y, w[i]) PROVE y \in earlier
    <3>1. y \in Elements(w) BY <1>1, <1>2, <1>3, <2>3 DEF FirstIn
    <3>2. PICK j \in DOMAIN w : y = w[j] BY <3>1 DEF Elements
    <3>3. j < i
      <4>1. j # i BY <1>2, <2>3, <3>2
      <4>2. ~(i < j) BY <1>1, <1>2, <1>3, <2>3, <3>2 DEF FirstIn
      <4>. QED BY <1>1, <4>1, <4>2
    <3>. QED BY <1>1, <3>2, <3>3
  <2>4. {y \in ids : Before(beacon, y, w[i])} = earlier BY <2>2, <2>3
  <2>5. place \in Bijection(1..(i - 1), earlier)
    <3>1. place \in [1..(i - 1) -> earlier] OBVIOUS
    <3>2. \A j, l \in 1..(i - 1) : j < l => w[j] # w[l]
      <4>. TAKE j, l \in 1..(i - 1)
      <4>. HAVE j < l
      <4>1. Before(beacon, w[j], w[l]) BY <2>1 DEF FirstIn
      <4>. QED BY <4>1, <1>2, <1>3, <2>1
    <3>3. \A j, l \in 1..(i - 1) : w[j] = w[l] => j = l BY <3>2
    <3>4. IsInjective(place) BY <3>3 DEF IsInjective
    <3>. QED BY <3>1, <3>4 DEF Bijection, Injection, Surjection
  <2>6. IsFiniteSet(1..(i - 1)) /\ Cardinality(1..(i - 1)) = i - 1
    <3>1. i - 1 \in Int /\ i - 1 >= 0 BY <1>1
    <3>2. /\ IsFiniteSet(1..(i - 1))
          /\ Cardinality(1..(i - 1)) = IF 1 > i - 1 THEN 0 ELSE i - 1 - 1 + 1
      BY <3>1, FS_Interval
    <3>. QED BY <3>1, <3>2
  <2>7. ExistsBijection(1..(i - 1), earlier) BY <2>5 DEF ExistsBijection
  <2>8. Cardinality(earlier) = Cardinality(1..(i - 1)) BY <2>6, <2>7, FS_Bijection
  <2>. HIDE DEF earlier
  <2>. QED BY <2>4, <2>6, <2>8 DEF Standing
<1>6. ASSUME NEW i \in 1..Len(w) PROVE Winners(c, beacon, Len(w))[i] = w[i]
  <2>1. /\ Winners(c, beacon, Len(w))[i] \in ids
        /\ Standing(ids, beacon, Winners(c, beacon, Len(w))[i]) = i - 1
    BY <1>1, WinnersRank
  <2>2. w[i] \in ids BY <1>1, <1>3
  <2>. HIDE DEF ids
  <2>. QED BY <1>4, <1>5, <2>1, <2>2
<1> DEFINE pick(i) ==
        CHOOSE x \in ids : Cardinality({y \in ids : Before(beacon, y, x)}) = i - 1
<1>7. \A k : Winners(c, beacon, k) = [i \in 1..k |-> pick(i)] BY DEF Winners
<1>. HIDE DEF pick
<1>8. \A i \in 1..Len(w) : pick(i) = w[i] BY <1>6, <1>7
<1>9. w = [i \in 1..Len(w) |-> w[i]] BY <1>1
<1>. QED BY <1>7, <1>8, <1>9

-----------------------------------------------------------------------------
(* K: what Quota bounds from both sides is one number, winnerCount's.      *)

\* The quota's bounds leave one K.
LEMMA QuotaIsK ==
    ASSUME NEW c \in Nat, c >= 2, NEW rate \in Nat, NEW max \in Nat, NEW per \in Nat, max > 0, per > 0,
           NEW k \in Nat, NEW r, Len(r.candidates) = c,
           r.params.rate = rate, r.params.max = max, r.params.perSelection = per
    PROVE  k = WinnerCount(c, rate, max, per) <=> Quota(r, k)
<1> DEFINE whole == c \div 10000
           rest  == c % 10000
           share == whole * rate + (rest * rate) \div 10000
           one   == IF share < 1 THEN 1 ELSE share
           half  == c \div 2
           four  == {one, max, per, half}
<1>1. whole \in Nat /\ rest \in Nat /\ c = 10000 * whole + rest /\ half \in Nat /\ half >= 1
      /\ 2 * half <= c /\ 2 * (half + 1) > c
  OBVIOUS
<1>2. \A n \in Nat : n \div 10000 \in Nat /\ 10000 * (n \div 10000) <= n /\ n < 10000 * (n \div 10000 + 1)
  OBVIOUS
<1>3. \A q, s, t \in Nat : /\ (10000 * q + s) * t = 10000 * (q * t) + s * t
                         /\ q * t \in Nat /\ s * t \in Nat
  OBVIOUS
<1>4. share \in Nat /\ 10000 * share <= c * rate /\ c * rate < 10000 * (share + 1) /\ c * rate \in Nat
  <2>. HIDE DEF whole, rest
  <2>1. c * rate = 10000 * (whole * rate) + rest * rate /\ whole * rate \in Nat /\ rest * rate \in Nat
    BY <1>1, <1>3
  <2>. DEFINE lots == whole * rate
              odds == rest * rate
              part == odds \div 10000
  <2>2. share = lots + part BY DEF share
  <2>3. c * rate = 10000 * lots + odds /\ lots \in Nat /\ odds \in Nat BY <2>1
  <2>. HIDE DEF lots, odds, share
  <2>4. part \in Nat /\ 10000 * part <= odds /\ odds < 10000 * (part + 1) BY <1>2, <2>3
  <2>. HIDE DEF part
  <2>. QED BY <2>2, <2>3, <2>4
<1>5. WinnerCount(c, rate, max, per) = Least(four) BY DEF WinnerCount
<1>. HIDE DEF share, half
<1>6. one \in Nat /\ one >= 1 /\ (one = 1 \/ 10000 * one <= c * rate) /\ c * rate < 10000 * (one + 1) BY <1>4
<1>. HIDE DEF one
<1>7. Least(four) \in four /\ \A n \in four : Least(four) <= n
  <2>1. \E n \in four : \A l \in four : n <= l BY <1>1, <1>6
  <2>. QED BY <2>1 DEF Least
<1> DEFINE Within(n) == /\ 2 * n <= c
                        /\ n <= max /\ n <= per
                        /\ n = 1 \/ 10000 * n <= c * rate
<1>8. k = Least(four) <=> Within(k) /\ ~Within(k + 1) /\ k > 0 BY <1>1, <1>4, <1>6, <1>7
<1>9. Quota(r, k) <=> Within(k) /\ ~Within(k + 1) /\ k > 0 BY DEF Quota
<1>. QED BY <1>5, <1>8, <1>9

-----------------------------------------------------------------------------
(* A window none of whose heights is missing is the chain's own.           *)

Row(proposers, h) == [height |-> h, proposer |-> proposers[h]]

\* One row for each height.
LEMMA RowsOfHeights ==
    ASSUME NEW proposers, NEW heights, IsFiniteSet(heights)
    PROVE  /\ IsFiniteSet({Row(proposers, h) : h \in heights})
           /\ Cardinality({Row(proposers, h) : h \in heights}) = Cardinality(heights)
<1> DEFINE rows == {Row(proposers, h) : h \in heights}
           row == [h \in heights |-> Row(proposers, h)]
<1>1. row \in [heights -> rows] OBVIOUS
<1>2. \A h, l \in heights : row[h] = row[l] => h = l BY DEF Row
<1>3. \A x \in rows : \E h \in heights : row[h] = x OBVIOUS
<1>4. row \in Bijection(heights, rows)
  <2>. HIDE DEF row, rows
  <2>. QED BY <1>1, <1>2, <1>3, DOMAIN row = heights DEF Bijection, Injection, Surjection, IsInjective
<1>5. ExistsBijection(heights, rows) BY <1>4 DEF ExistsBijection
<1>. HIDE DEF rows
<1>6. IsFiniteSet(rows) /\ Cardinality(rows) = Cardinality(heights) BY <1>5, FS_Bijection
<1>. QED BY <1>6 DEF rows

\* Rows that are the chain's, as many as heights: all of them.
LEMMA WholeWindow ==
    ASSUME NEW from \in Int, NEW to \in Int, from <= to, NEW blocks,
           \A b \in blocks : \E h \in Nat : b = Row(chain.proposers, h),
           Missing(blocks, from, to) = 0,
           NEW external, external = {h \in from..to : chain.proposers[h] # Slot}
    PROVE  /\ Cardinality(Window(blocks, from, to)) = to - from + 1
           /\ Usable(blocks, from, to) = {Row(chain.proposers, h) : h \in external}
           /\ IsFiniteSet(external)
<1> DEFINE rows == {Row(chain.proposers, h) : h \in from..to}
           found == Window(blocks, from, to)
<1>1. IsFiniteSet(from..to) /\ Cardinality(from..to) = to - from + 1 BY FS_Interval
<1>2. IsFiniteSet(rows) /\ Cardinality(rows) = to - from + 1 BY <1>1, RowsOfHeights
<1>3. \A h : Row(chain.proposers, h).height = h /\ Row(chain.proposers, h).proposer = chain.proposers[h] BY DEF Row
<1>4. found \in SUBSET rows BY <1>3 DEF Window
<1>5. IsFiniteSet(found) /\ Cardinality(found) \in Nat BY <1>2, <1>4, FS_Subset, FS_CardinalityType
<1>6. Cardinality(found) = to - from + 1 BY <1>5 DEF Missing
<1>7. found = rows
  <2>. HIDE DEF found, rows
  <2>. QED BY <1>2, <1>4, <1>6, FS_Subset
<1>8. Usable(blocks, from, to) = {Row(chain.proposers, h) : h \in external} BY <1>3, <1>7 DEF Usable
<1>9. external \in SUBSET (from..to) OBVIOUS
<1>10. IsFiniteSet(external) BY <1>1, <1>9, FS_Subset
<1>. QED BY <1>6, <1>8, <1>10

-----------------------------------------------------------------------------
(* The verdict.                                                            *)

OneCase == \E i \in DOMAIN Cases : chain = Cases[i].chain /\ record = Cases[i].record

\* What a request knows is what the chain did, or nothing.
TrueContext(ctx) ==
    /\ ctx.anchor \in {None, chain.anchor}
    /\ \A b \in ctx.blocks : \E h \in Nat : b = Row(chain.proposers, h)

PolicyAgrees(ctx) ==
    ctx.policy # None => /\ ctx.policy.version = record.params.policyVersion
                         /\ ctx.policy.rate = record.params.rate
                         /\ ctx.policy.max = record.params.max

\* What is parsed of the case at hand.
LEMMA CaseFacts ==
    ASSUME OneCase
    PROVE  /\ chain.height \in Nat
           /\ chain.anchor # None /\ chain.anchor.height \in Nat
           /\ \A p \in chain.policies : p # None /\ p.height \in Nat
           /\ \A f \in Numbers : record.params[f] \in Nat
           /\ record.candidates \in Seq(Nat) /\ record.winners \in Seq(Nat) /\ record.k \in Nat
           /\ record.confirmed \in Nat
           /\ record.beacon # None => record.beacon.start \in Nat /\ record.beacon.end \in Nat
           /\ record.beacon # None =>
                \A external \in SUBSET {Row(chain.proposers, h) : h \in record.beacon.start..record.beacon.end} :
                    \A x \in Elements(record.candidates) :
                        Ticket(BeaconHash(record.candidates, record.beacon.start, record.beacon.end, external), x) \in Int
<1>1. PICK i \in DOMAIN Cases : chain = Cases[i].chain /\ record = Cases[i].record BY DEF OneCase
<1>2. Parsed(chain, record) BY <1>1, CaseAssumption
<1>. QED BY <1>2 DEF Parsed, Row

\* The quantities of the draw.
LEMMA CaseNumbers ==
    ASSUME OneCase
    PROVE  /\ Len(record.candidates) \in Nat
           /\ record.params.rate \in Nat
           /\ record.params.max \in Nat /\ record.params.perSelection \in Nat
           /\ record.params.offset \in Nat /\ record.params.window \in Nat
<1>1. \A f \in Numbers : record.params[f] \in Nat BY CaseFacts
<1>2. record.candidates \in Seq(Nat) BY CaseFacts
<1>3. Len(record.candidates) \in Nat BY <1>2
<1>. QED BY <1>1, <1>3 DEF Numbers

\* What the checks that rest on nothing but the anchor establish.
LEMMA GreenFoundation ==
    ASSUME OneCase, NEW ctx, TrueContext(ctx), Verify(record, ctx) = "verified"
    PROVE  /\ "fails" \notin Checks(record, ctx) /\ "open" \notin Checks(record, ctx)
           /\ HasSet(record) /\ Committed(record)
           /\ ctx.anchor = chain.anchor
           /\ ~ctx.behind /\ PolicyAgrees(ctx)
           /\ {BeaconPlacement(record), BeaconRecomputed(record, ctx), OutcomeRederived(record, ctx),
               WinnersRedrawn(record, ctx), SelectedDigest(record, ctx)}
                 \intersect {"fails", "open"} = {}
<1>1. "fails" \notin Checks(record, ctx) /\ "open" \notin Checks(record, ctx) BY DEF Verify
<1>2. {RecordShape(record), ParamsValid(record.params), ParametersHash(record),
       CandidatesCanonical(record), CandidateSetHash(record), AnchorCommitment(record, ctx)}
         \intersect {"fails", "open"} = {}
  BY <1>1 DEF Checks
<1>3. record.version = 1 /\ record.slot = Slot /\ record.epoch = Epoch
  BY <1>2 DEF RecordShape, Judge
<1>4. Sound(record)
  <2>1. ParamsValid(record.params) \in {"open", "fails", "holds"} BY DEF ParamsValid
  <2>. QED BY <2>1, <1>2 DEF Sound
<1>5. record.committedParams = record.params BY <1>2, <1>4 DEF ParametersHash, Judge
<1>6. HasSet(record) BY <1>2, <1>4 DEF CandidatesCanonical, HasSet, Judge
<1>7. record.setHash = SetHash(record.candidates) /\ record.committedSet = SetHash(record.candidates)
  BY <1>2, <1>6 DEF CandidateSetHash, Judge
<1>8. ctx.anchor # None BY <1>2 DEF AnchorCommitment
<1>9. ctx.anchor = chain.anchor BY <1>8 DEF TrueContext
<1>10. /\ chain.anchor.memo # None
       /\ chain.anchor.memo.slot = Slot /\ chain.anchor.memo.epoch = Epoch
       /\ chain.anchor.memo.set = SetHash(record.candidates)
       /\ chain.anchor.memo.params = record.params
       /\ record.confirmed = chain.anchor.height
  BY <1>2, <1>4, <1>6, <1>8, <1>9 DEF AnchorCommitment, Judge
<1>11. Committed(record) BY <1>3, <1>5, <1>7, <1>10 DEF Committed
<1>12. PolicyMatch(record, ctx) \notin {"fails", "open"} BY <1>1, <1>4 DEF Checks
<1>13. ~ctx.behind /\ PolicyAgrees(ctx)
  <2>1. ~ctx.behind BY <1>12 DEF PolicyMatch
  <2>. QED BY <1>12, <2>1 DEF PolicyMatch, PolicyAgrees, Judge
<1>14. "fails" \notin Foundation(record, ctx) BY <1>2 DEF Foundation
<1>. QED BY <1>1, <1>6, <1>9, <1>11, <1>13, <1>14 DEF Checks

\* With the set hashed, committed and placed, an assessed window is the chain's.
LEMMA AssessedWindow ==
    ASSUME OneCase, NEW ctx, TrueContext(ctx), record.beacon # None, Committed(record),
           WindowPlaced(record), Missing(ctx.blocks, record.beacon.start, record.beacon.end) = 0
    PROVE  /\ record.beacon.start..record.beacon.end = DrawWindow(record)
           /\ IsFiniteSet(External(record))
           /\ Cardinality(Window(ctx.blocks, record.beacon.start, record.beacon.end)) = record.params.window
           /\ Cardinality(Usable(ctx.blocks, record.beacon.start, record.beacon.end))
                = Cardinality(External(record))
           /\ Distinct(ctx.blocks, record.beacon.start, record.beacon.end) = Cardinality(Proposers(record))
           /\ WindowAdmissible(record, ctx) <=> Enough(record)
           /\ OurBeacon(record, ctx) = DrawHash(record)
           /\ \A x \in Elements(record.candidates) : Ticket(DrawHash(record), x) \in Int
<1> DEFINE from == record.beacon.start
           to   == record.beacon.end
<1>1. /\ from \in Int /\ to \in Int /\ from <= to /\ to - from + 1 = record.params.window
      /\ from = chain.anchor.height + record.params.offset
      /\ to = chain.anchor.height + record.params.offset + record.params.window - 1
  <2>1. /\ record.beacon.start \in Nat /\ record.beacon.end \in Nat
        /\ chain.anchor.height \in Nat
        /\ record.params.offset \in Nat /\ record.params.window \in Nat
    BY CaseFacts, CaseNumbers
  <2>. QED BY <2>1 DEF WindowPlaced, Committed
<1>. DEFINE external == {h \in from..to : chain.proposers[h] # Slot}
<1>2. DrawWindow(record) = from..to BY <1>1 DEF DrawWindow
<1>3. external = External(record) BY <1>2 DEF External
<1>4. /\ Cardinality(Window(ctx.blocks, from, to)) = to - from + 1
      /\ Usable(ctx.blocks, from, to) = {Row(chain.proposers, h) : h \in external}
      /\ IsFiniteSet(external)
      /\ Cardinality(Usable(ctx.blocks, from, to)) = Cardinality(external)
      /\ Distinct(ctx.blocks, from, to) = Cardinality({chain.proposers[h] : h \in external})
  <2>1. Missing(ctx.blocks, from, to) = 0 OBVIOUS
  <2>2. \A b \in ctx.blocks : \E h \in Nat : b = Row(chain.proposers, h) BY DEF TrueContext
  <2>3. external = {h \in from..to : chain.proposers[h] # Slot} OBVIOUS
  <2>. HIDE DEF from, to, external
  <2>4. from \in Int /\ to \in Int /\ from <= to BY <1>1
  <2>5. Cardinality(Window(ctx.blocks, from, to)) = to - from + 1 BY <2>1, <2>2, <2>3, <2>4, WholeWindow
  <2>6. IsFiniteSet(external) BY <2>1, <2>2, <2>3, <2>4, WholeWindow
  <2>7. Usable(ctx.blocks, from, to) = {Row(chain.proposers, h) : h \in external} BY <2>1, <2>2, <2>3, <2>4, WholeWindow
  <2>8. Cardinality(Usable(ctx.blocks, from, to)) = Cardinality(external)
    BY <2>6, <2>7, RowsOfHeights
  <2>9. Distinct(ctx.blocks, from, to) = Cardinality({chain.proposers[h] : h \in external})
    <3>1. \A h : Row(chain.proposers, h).proposer = chain.proposers[h] BY DEF Row
    <3>2. {x.proposer : x \in Usable(ctx.blocks, from, to)} = {chain.proposers[h] : h \in external}
      BY <2>7, <3>1
    <3>. QED BY <3>2 DEF Distinct
  <2>. QED BY <2>5, <2>6, <2>7, <2>8, <2>9
<1>5. Proposers(record) = {chain.proposers[h] : h \in external} BY <1>3 DEF Proposers
<1>6. DrawHash(record) = BeaconHash(record.candidates, from, to, {Row(chain.proposers, h) : h \in external})
  BY <1>1, <1>3 DEF DrawHash, Row
<1>7. OurBeacon(record, ctx) = DrawHash(record) BY <1>4, <1>6 DEF OurBeacon
<1>8. \A x \in Elements(record.candidates) : Ticket(DrawHash(record), x) \in Int
  <2>1. {Row(chain.proposers, h) : h \in external} \in SUBSET {Row(chain.proposers, h) : h \in from..to}
    OBVIOUS
  <2>. QED BY <1>6, <2>1, CaseFacts
<1>9. WindowAdmissible(record, ctx) <=> Enough(record)
  BY <1>3, <1>4, <1>5 DEF WindowAdmissible, Admissible, Enough
<1>. QED BY <1>1, <1>2, <1>3, <1>4, <1>5, <1>7, <1>8, <1>9

\* RankedFirst is FirstIn for this draw.
LEMMA DrawnFirst ==
    ASSUME NEW w
    PROVE  RankedFirst(record, w) <=> FirstIn(Elements(record.candidates), DrawHash(record), w)
BY DEF RankedFirst, FirstIn

\* A canonical candidate list can be ranked, and counts who is in it.
LEMMA CandidatesRanked ==
    ASSUME OneCase, Canonical(record.candidates, record.params),
           \A x \in Elements(record.candidates) : Ticket(DrawHash(record), x) \in Int
    PROVE  /\ Ranked(Elements(record.candidates), DrawHash(record))
           /\ Cardinality(Elements(record.candidates)) = Len(record.candidates)
<1>1. record.candidates \in Seq(Nat) BY CaseFacts
<1>2. \A i \in DOMAIN record.candidates : i > 1 => record.candidates[i - 1] < record.candidates[i]
  BY DEF Canonical
<1>. QED BY <1>1, <1>2, ListOfCandidates DEF Ranked

\* A green verdict is the draw: nobody, the only candidate, or the K first.
LEMMA GreenMeansDrawn ==
    ASSUME OneCase, NEW ctx, TrueContext(ctx), Verify(record, ctx) = "verified"
    PROVE  TheDraw(record)
<1> DEFINE C == Len(record.candidates)
           beacon == record.beacon
<1>1. /\ HasSet(record) /\ Committed(record)
      /\ BeaconPlacement(record) \notin {"fails", "open"}
      /\ BeaconRecomputed(record, ctx) \notin {"fails", "open"}
      /\ OutcomeRederived(record, ctx) \notin {"fails", "open"}
      /\ WinnersRedrawn(record, ctx) \notin {"fails", "open"}
      /\ SelectedDigest(record, ctx) \notin {"fails", "open"}
  <2>1. {BeaconPlacement(record), BeaconRecomputed(record, ctx), OutcomeRederived(record, ctx),
         WinnersRedrawn(record, ctx), SelectedDigest(record, ctx)} \intersect {"fails", "open"} = {}
    BY GreenFoundation
  <2>. QED BY <2>1, GreenFoundation
<1>2. /\ record.candidates \in Seq(Nat) /\ C \in Nat
      /\ record.params.rate \in Nat /\ record.params.max \in Nat
      /\ record.params.perSelection \in Nat
  BY CaseFacts, CaseNumbers
<1>9. (C = 0 \/ C = 1 \/ C >= 2) /\ (C >= 2 => C # 0 /\ C # 1)
  <2>1. \A n \in Nat : (n = 0 \/ n = 1 \/ n >= 2) /\ (n >= 2 => n # 0 /\ n # 1) OBVIOUS
  <2>. QED BY <1>2, <2>1
<1>3. Sound(record) /\ Canonical(record.candidates, record.params) BY <1>1 DEF HasSet
<1>4. record.params.max > 0 /\ record.params.perSelection > 0
  <2>1. DrawableParams(record.params) BY <1>3 DEF Sound, ParamsValid
  <2>. QED BY <2>1 DEF DrawableParams
<1>5. ASSUME Expected(record, ctx) # None
      PROVE  /\ record.outcome = Expected(record, ctx)
             /\ record.k = ExpectedK(record, ctx)
             /\ Drawn(record, ctx)
             /\ record.winners = Redrawn(record, ctx)
             /\ record.selectedHash = SelectedHash(record.winners)
  <2>1. record.outcome = Expected(record, ctx) BY <1>1, <1>5 DEF OutcomeRederived, Judge
  <2>2. record.k = ExpectedK(record, ctx) BY <1>1, <1>5 DEF WinnersRedrawn
  <2>3. Drawn(record, ctx) BY <1>1, <1>5, <2>2 DEF WinnersRedrawn
  <2>4. record.winners = Redrawn(record, ctx) BY <1>1, <1>5, <2>2, <2>3 DEF WinnersRedrawn, Judge
  <2>. QED BY <1>1, <1>5, <2>1, <2>2, <2>3, <2>4 DEF SelectedDigest, Judge
<1>6. CASE C = 0
  <2>1. Expected(record, ctx) = "NO_CANDIDATES" BY <1>1, <1>6 DEF Expected
  <2>2. Expected(record, ctx) # None BY <2>1, NoneAssumption
  <2>3. beacon = None BY <1>1, <1>6 DEF BeaconRecomputed
  <2>4. record.k = 0 /\ record.winners = <<>> BY <1>5, <2>1, <2>2 DEF ExpectedK, Redrawn
  <2>5. Outcome(record) BY <1>5, <1>6, <2>1, <2>2, <2>3, <2>4 DEF Outcome
  <2>. QED BY <1>1, <1>5, <2>2, <2>5 DEF TheDraw
<1>7. CASE C = 1
  <2>1. Expected(record, ctx) = "SUCCESS" BY <1>1, <1>7 DEF Expected
  <2>2. Expected(record, ctx) # None BY <2>1, NoneAssumption
  <2>3. beacon = None BY <1>1, <1>7 DEF BeaconRecomputed
  <2>4. record.k = 1 BY <1>5, <1>7, <2>1, <2>2 DEF ExpectedK, WinnerCount
  <2>5. record.winners = record.candidates BY <1>5, <1>7, <2>1, <2>2 DEF Redrawn
  <2>6. Outcome(record) BY <1>5, <1>7, <2>1, <2>2, <2>3, <2>4, <2>5 DEF Outcome
  <2>. QED BY <1>1, <1>5, <2>2, <2>6 DEF TheDraw
<1>8. CASE C >= 2
  <2>1. beacon # None BY <1>1, <1>8 DEF BeaconRecomputed
  <2>2. WindowPlaced(record) BY <1>1, <1>3, <2>1 DEF BeaconPlacement, Judge
  <2>3. Assessable(record, ctx) BY <1>1, <1>2, <1>8, <2>1, <2>2 DEF BeaconRecomputed
  <2>4. BeaconCounts(record, ctx) /\ BeaconHashMatches(record, ctx)
    BY <1>1, <1>2, <1>8, <2>1, <2>2, <2>3 DEF BeaconRecomputed, Judge
  <2>5. Missing(ctx.blocks, beacon.start, beacon.end) = 0 BY <2>3 DEF Assessable
  <2>6. /\ beacon.start..beacon.end = DrawWindow(record)
        /\ IsFiniteSet(External(record))
        /\ Cardinality(Window(ctx.blocks, beacon.start, beacon.end)) = record.params.window
        /\ Cardinality(Usable(ctx.blocks, beacon.start, beacon.end)) = Cardinality(External(record))
        /\ Distinct(ctx.blocks, beacon.start, beacon.end) = Cardinality(Proposers(record))
        /\ WindowAdmissible(record, ctx) <=> Enough(record)
        /\ OurBeacon(record, ctx) = DrawHash(record)
        /\ \A x \in Elements(record.candidates) : Ticket(DrawHash(record), x) \in Int
    BY <1>1, <2>1, <2>2, <2>5, AssessedWindow
  <2>7. /\ beacon.usable = Cardinality(External(record))
        /\ beacon.excluded = record.params.window - Cardinality(External(record))
        /\ beacon.distinct = Cardinality(Proposers(record))
        /\ beacon.unattributable = 0
        /\ beacon.admissible = Enough(record)
    <3>1. /\ beacon.usable = Cardinality(Usable(ctx.blocks, beacon.start, beacon.end))
          /\ beacon.excluded = Cardinality(Window(ctx.blocks, beacon.start, beacon.end)) - beacon.usable
          /\ beacon.unattributable = 0
          /\ beacon.distinct = Distinct(ctx.blocks, beacon.start, beacon.end)
      BY <2>4 DEF BeaconCounts
    <3>2. beacon.admissible = WindowAdmissible(record, ctx) BY <2>4 DEF BeaconCounts
    <3>3. WindowAdmissible(record, ctx) = Enough(record) BY <2>6 DEF WindowAdmissible, Admissible, Enough
    <3>4. beacon.admissible = Enough(record) BY <3>2, <3>3, Zenon
    <3>. QED BY <2>6, <3>1, <3>4
  <2>8. beacon.hash = IF Enough(record) THEN DrawHash(record) ELSE None
    BY <2>4, <2>6 DEF BeaconHashMatches
  <2>9. Expected(record, ctx) = IF Enough(record) THEN "SUCCESS" ELSE "NO_VALID_BEACON"
    <3>1. C # 0 /\ C # 1 BY <1>8, <1>9
    <3>. QED BY <1>1, <2>3, <2>6, <3>1 DEF Expected
  <2>10. Expected(record, ctx) # None BY <2>9, NoneAssumption
  <2>11. record.k = WinnerCount(C, record.params.rate, record.params.max, record.params.perSelection)
    BY <1>5, <2>9, <2>10 DEF ExpectedK
  <2>12. Quota(record, record.k)
    <3>1. record.k \in Nat BY CaseFacts
    <3>. DEFINE rate == record.params.rate
                max == record.params.max
                per == record.params.perSelection
    <3>2. C \in Nat /\ C >= 2 /\ rate \in Nat /\ max \in Nat /\ per \in Nat /\ max > 0 /\ per > 0
      BY <1>2, <1>4, <1>8
    <3>3. record.k = WinnerCount(C, rate, max, per) BY <2>11
    <3>. HIDE DEF C, rate, max, per
    <3>4. Len(record.candidates) = C /\ record.params.rate = rate /\ record.params.max = max
          /\ record.params.perSelection = per
      BY DEF C, rate, max, per
    <3>. QED BY <3>1, <3>2, <3>3, <3>4, QuotaIsK
  <2>13. IF Enough(record) THEN Len(record.winners) = record.k /\ RankedFirst(record, record.winners)
                           ELSE record.winners = <<>>
    <3>1. CASE Enough(record)
      <4>1. record.winners = Winners(record.candidates, DrawHash(record), record.k)
        <5>1. C # 1 BY <1>8, <1>9
        <5>2. Expected(record, ctx) = "SUCCESS" BY <2>9, <3>1
        <5>3. Redrawn(record, ctx) = Winners(record.candidates, OurBeacon(record, ctx), ExpectedK(record, ctx))
          BY <5>1, <5>2 DEF Redrawn
        <5>. QED BY <1>5, <2>6, <2>10, <5>3
      <4>2. Ranked(Elements(record.candidates), DrawHash(record)) /\ Cardinality(Elements(record.candidates)) = C
        BY <1>3, <2>6, CandidatesRanked
      <4>3. record.k \in Nat /\ record.k <= C
        <5>1. record.k \in Nat BY CaseFacts
        <5>2. 2 * record.k <= C BY <2>12 DEF Quota
        <5>. QED BY <1>2, <5>1, <5>2
      <4>4. /\ Len(Winners(record.candidates, DrawHash(record), record.k)) = record.k
            /\ FirstIn(Elements(record.candidates), DrawHash(record),
                       Winners(record.candidates, DrawHash(record), record.k))
        BY <4>2, <4>3, WinnersAreFirst
      <4>. QED BY <3>1, <4>1, <4>4, DrawnFirst
    <3>2. CASE ~Enough(record)
      BY <1>5, <2>9, <2>10, <3>2 DEF Redrawn
    <3>. QED BY <3>1, <3>2
  <2>14. Outcome(record)
    <3>1. C # 0 /\ C # 1 BY <1>8, <1>9
    <3>2. record.outcome = IF Enough(record) THEN "SUCCESS" ELSE "NO_VALID_BEACON" BY <1>5, <2>9, <2>10
    <3>. QED BY <2>1, <2>6, <2>7, <2>8, <2>12, <2>13, <3>1, <3>2 DEF Outcome
  <2>. QED BY <1>1, <1>5, <2>10, <2>14 DEF TheDraw
<1>. QED BY <1>6, <1>7, <1>8, <1>9

\* The window of the draw is where the record places it.
LEMMA DrawPlaced ==
    ASSUME OneCase, TheDraw(record), Sound(record), record.beacon # None
    PROVE  /\ Len(record.candidates) \notin {0, 1}
           /\ WindowPlaced(record)
<1> DEFINE C == Len(record.candidates)
<1>1. C # 0 /\ C # 1 BY DEF TheDraw, Outcome
<1>2. record.beacon.start..record.beacon.end = DrawWindow(record) BY <1>1 DEF TheDraw, Outcome
<1>3. record.confirmed = chain.anchor.height BY DEF TheDraw, Committed
<1>4. DrawableParams(record.params) BY DEF Sound, ParamsValid
<1>5. record.params.offset > 0 /\ record.params.window > 0 BY <1>4 DEF DrawableParams
<1>6. /\ record.beacon.start \in Nat /\ record.beacon.end \in Nat /\ chain.anchor.height \in Nat
      /\ record.params.offset \in Nat /\ record.params.window \in Nat
  BY CaseFacts, CaseNumbers
<1>7. \A a, b, x, y \in Int : x <= y /\ a..b = x..y => a = x /\ b = y
  <2>. SUFFICES ASSUME NEW a \in Int, NEW b \in Int, NEW x \in Int, NEW y \in Int, x <= y, a..b = x..y
       PROVE  a = x /\ b = y
    OBVIOUS
  <2>1. x \in a..b /\ y \in a..b OBVIOUS
  <2>2. a \in x..y /\ b \in x..y BY <2>1
  <2>. QED BY <2>1, <2>2
<1>8. /\ record.beacon.start = chain.anchor.height + record.params.offset
      /\ record.beacon.end = chain.anchor.height + record.params.offset + record.params.window - 1
  <2> DEFINE from == chain.anchor.height + record.params.offset
             to == chain.anchor.height + record.params.offset + record.params.window - 1
  <2>1. from \in Int /\ to \in Int /\ from <= to BY <1>5, <1>6
  <2>2. record.beacon.start..record.beacon.end = from..to BY <1>2 DEF DrawWindow
  <2>. HIDE DEF from, to
  <2>3. record.beacon.start = from /\ record.beacon.end = to BY <1>6, <1>7, <2>1, <2>2
  <2>. QED BY <2>3 DEF from, to
<1>9. WindowPlaced(record) BY <1>3, <1>5, <1>6, <1>8 DEF WindowPlaced
<1>. QED BY <1>1, <1>9

\* No check contradicts an honest record, whatever else could not be made.
LEMMA HonestUncontradicted ==
    ASSUME OneCase, NEW ctx, TrueContext(ctx), TheDraw(record),
           ParamsValid(record.params) # "fails", Canonical(record.candidates, record.params),
           ctx.behind \/ PolicyAgrees(ctx)
    PROVE  "fails" \notin Checks(record, ctx)
<1> DEFINE C == Len(record.candidates)
           beacon == record.beacon
<1>1. Committed(record) /\ Outcome(record) /\ record.selectedHash = SelectedHash(record.winners)
  BY DEF TheDraw
<1>2. /\ record.candidates \in Seq(Nat) /\ C \in Nat
      /\ record.k \in Nat /\ record.winners \in Seq(Nat)
      /\ record.params.rate \in Nat /\ record.params.max \in Nat
      /\ record.params.perSelection \in Nat
  BY CaseFacts, CaseNumbers
<1>3. (C = 0 \/ C = 1 \/ C >= 2) /\ (C >= 2 <=> C # 0 /\ C # 1) /\ (C < 2 <=> C = 0 \/ C = 1)
  <2>1. \A n \in Nat : /\ n = 0 \/ n = 1 \/ n >= 2
                       /\ n >= 2 <=> n # 0 /\ n # 1
                       /\ n < 2 <=> n = 0 \/ n = 1
    OBVIOUS
  <2>. QED BY <1>2, <2>1
<1>4. "fails" \notin {RecordShape(record), ParamsValid(record.params), ParametersHash(record),
                      CandidatesCanonical(record), CandidateSetHash(record)}
  BY <1>1 DEF Committed, RecordShape, ParametersHash, CandidatesCanonical, CandidateSetHash, Judge
<1>5. AnchorCommitment(record, ctx) # "fails"
  <2>1. ctx.anchor # None => ctx.anchor = chain.anchor BY DEF TrueContext
  <2>. QED BY <1>1, <2>1 DEF Committed, AnchorCommitment, Judge
<1>6. PolicyMatch(record, ctx) # "fails" BY DEF PolicyMatch, PolicyAgrees, Judge
<1>7. BeaconPlacement(record) # "fails" BY DrawPlaced DEF BeaconPlacement, Judge
<1>8. CASE ~HasSet(record)
  <2>1. Expected(record, ctx) = None BY <1>8 DEF Expected
  <2>. QED BY <1>4, <1>5, <1>6, <1>7, <1>8, <2>1
         DEF Checks, BeaconRecomputed, OutcomeRederived, WinnersRedrawn, SelectedDigest
<1>9. CASE HasSet(record) /\ C < 2
  <2>1. beacon = None BY <1>1, <1>3, <1>9 DEF Outcome
  <2>2. Expected(record, ctx) = IF C = 0 THEN "NO_CANDIDATES" ELSE "SUCCESS" BY <1>3, <1>9 DEF Expected
  <2>3. record.outcome = Expected(record, ctx)
    <3>1. CASE C = 0 BY <1>1, <2>2, <3>1 DEF Outcome
    <3>2. CASE C = 1 BY <1>1, <2>2, <3>2 DEF Outcome
    <3>. QED BY <1>3, <1>9, <3>1, <3>2
  <2>4. record.k = ExpectedK(record, ctx)
    <3>1. CASE C = 0 BY <1>1, <2>2, <3>1 DEF Outcome, ExpectedK
    <3>2. CASE C = 1 BY <1>1, <2>2, <3>2 DEF Outcome, ExpectedK, WinnerCount
    <3>. QED BY <1>3, <1>9, <3>1, <3>2
  <2>5. record.winners = Redrawn(record, ctx)
    <3>1. CASE C = 0 BY <1>1, <2>2, <3>1 DEF Outcome, Redrawn
    <3>2. CASE C = 1 BY <1>1, <2>2, <3>2 DEF Outcome, Redrawn
    <3>. QED BY <1>3, <1>9, <3>1, <3>2
  <2>6. /\ BeaconRecomputed(record, ctx) # "fails" /\ OutcomeRederived(record, ctx) # "fails"
        /\ WinnersRedrawn(record, ctx) # "fails" /\ SelectedDigest(record, ctx) # "fails"
    BY <1>1, <1>9, <2>1, <2>3, <2>4, <2>5
       DEF BeaconRecomputed, OutcomeRederived, WinnersRedrawn, SelectedDigest, Judge
  <2>. QED BY <1>4, <1>5, <1>6, <1>7, <2>6 DEF Checks
<1>10. CASE HasSet(record) /\ C >= 2 /\ ~Assessable(record, ctx)
  <2>1. beacon # None /\ C # 0 /\ C # 1 BY <1>1, <1>3, <1>10 DEF Outcome
  <2>2. Expected(record, ctx) = None BY <1>10, <2>1 DEF Expected
  <2>3. ~(C < 2) BY <1>3, <2>1
  <2>4. BeaconRecomputed(record, ctx) # "fails" BY <1>10, <2>1, <2>3 DEF BeaconRecomputed
  <2>. QED BY <1>4, <1>5, <1>6, <1>7, <2>2, <2>4
         DEF Checks, OutcomeRederived, WinnersRedrawn, SelectedDigest
<1>11. CASE HasSet(record) /\ C >= 2 /\ Assessable(record, ctx)
  <2>1. beacon # None /\ C # 0 /\ C # 1 /\ ~(C < 2) BY <1>1, <1>3, <1>11 DEF Outcome
  <2>2. WindowPlaced(record) /\ Missing(ctx.blocks, beacon.start, beacon.end) = 0 BY <1>11 DEF Assessable
  <2>3. /\ Cardinality(Window(ctx.blocks, beacon.start, beacon.end)) = record.params.window
        /\ Cardinality(Usable(ctx.blocks, beacon.start, beacon.end)) = Cardinality(External(record))
        /\ Distinct(ctx.blocks, beacon.start, beacon.end) = Cardinality(Proposers(record))
        /\ WindowAdmissible(record, ctx) <=> Enough(record)
        /\ OurBeacon(record, ctx) = DrawHash(record)
        /\ \A x \in Elements(record.candidates) : Ticket(DrawHash(record), x) \in Int
    BY <1>1, <2>1, <2>2, AssessedWindow
  <2>4. /\ beacon.usable = Cardinality(External(record))
        /\ beacon.excluded = record.params.window - Cardinality(External(record))
        /\ beacon.distinct = Cardinality(Proposers(record))
        /\ beacon.unattributable = 0
        /\ beacon.hash = IF Enough(record) THEN DrawHash(record) ELSE None
        /\ record.outcome = IF Enough(record) THEN "SUCCESS" ELSE "NO_VALID_BEACON"
        /\ Quota(record, record.k)
        /\ Enough(record) => Len(record.winners) = record.k /\ RankedFirst(record, record.winners)
        /\ ~Enough(record) => record.winners = <<>>
    BY <1>1, <2>1 DEF Outcome
  <2>5. beacon.admissible = Enough(record) BY <1>1, <2>1 DEF Outcome
  <2>6. BeaconCounts(record, ctx)
    <3>1. WindowAdmissible(record, ctx) = Enough(record) BY <2>3 DEF WindowAdmissible, Admissible, Enough
    <3>2. beacon.admissible = WindowAdmissible(record, ctx) BY <2>5, <3>1, Zenon
    <3>. QED BY <2>3, <2>4, <3>2 DEF BeaconCounts
  <2>7. BeaconHashMatches(record, ctx) BY <2>3, <2>4 DEF BeaconHashMatches
  <2>8. Expected(record, ctx) = IF Enough(record) THEN "SUCCESS" ELSE "NO_VALID_BEACON"
    BY <1>11, <2>1, <2>3 DEF Expected
  <2>9. record.k = ExpectedK(record, ctx)
    <3> DEFINE rate == record.params.rate
               max == record.params.max
               per == record.params.perSelection
    <3>1. DrawableParams(record.params) BY <1>11 DEF HasSet, Sound, ParamsValid
    <3>2. max > 0 /\ per > 0 BY <3>1 DEF DrawableParams
    <3>3. C \in Nat /\ C >= 2 /\ rate \in Nat /\ max \in Nat /\ per \in Nat /\ record.k \in Nat
      BY <1>2, <1>11
    <3>4. ExpectedK(record, ctx) = WinnerCount(C, rate, max, per) BY <2>8 DEF ExpectedK
    <3>5. Len(record.candidates) = C /\ record.params.rate = rate /\ record.params.max = max
          /\ record.params.perSelection = per
      OBVIOUS
    <3>. HIDE DEF C, rate, max, per
    <3>6. record.k = WinnerCount(C, rate, max, per) BY <2>4, <3>2, <3>3, <3>5, QuotaIsK
    <3>. QED BY <3>4, <3>6
  <2>10. record.winners = Redrawn(record, ctx)
    <3>1. CASE Enough(record)
      <4>1. Ranked(Elements(record.candidates), DrawHash(record)) /\ Cardinality(Elements(record.candidates)) = C
        BY <2>3, CandidatesRanked
      <4>2. Len(record.winners) = record.k /\ FirstIn(Elements(record.candidates), DrawHash(record), record.winners)
        BY <2>4, <3>1, DrawnFirst
      <4>3. 2 * record.k <= C BY <2>4 DEF Quota
      <4>4. Len(record.winners) <= Cardinality(Elements(record.candidates)) BY <1>2, <4>1, <4>2, <4>3
      <4>5. record.winners = Winners(record.candidates, DrawHash(record), record.k)
        BY <1>2, <4>1, <4>2, <4>4, FirstAreWinners
      <4>6. Redrawn(record, ctx) = Winners(record.candidates, OurBeacon(record, ctx), ExpectedK(record, ctx))
        BY <2>1, <2>8, <3>1 DEF Redrawn
      <4>. QED BY <2>3, <2>9, <4>5, <4>6
    <3>2. CASE ~Enough(record) BY <2>4, <2>8, <3>2 DEF Redrawn
    <3>. QED BY <3>1, <3>2
  <2>11. record.outcome = Expected(record, ctx) BY <2>4, <2>8
  <2>12. /\ BeaconRecomputed(record, ctx) # "fails" /\ OutcomeRederived(record, ctx) # "fails"
         /\ WinnersRedrawn(record, ctx) # "fails" /\ SelectedDigest(record, ctx) # "fails"
    BY <1>1, <1>11, <2>1, <2>2, <2>6, <2>7, <2>9, <2>10, <2>11
       DEF BeaconRecomputed, OutcomeRederived, WinnersRedrawn, SelectedDigest, Judge
  <2>. QED BY <1>4, <1>5, <1>6, <1>7, <2>12 DEF Checks
<1>. QED BY <1>3, <1>8, <1>9, <1>10, <1>11

-----------------------------------------------------------------------------
(* The request beside the indexer.                                         *)

Tables ==
    /\ tip \in Nat /\ structural \in Nat /\ attributed \in Nat
    /\ structural <= tip /\ tip <= chain.height
    /\ straddled \in BOOLEAN

\* What has been read is true of the chain, and the policy read is the one in
\* force, if nothing moved before the cursor that vouches for it was read.
ReadsInv ==
    /\ DOMAIN reads = DOMAIN Nothing
    /\ TrueContext(reads) /\ reads.behind \in BOOLEAN
    /\ awaits \in {"structural", "verify"} /\ reads.anchor = None => reads.policy = None
    /\ awaits = "structural" /\ ~straddled /\ reads.anchor # None =>
            reads.policy = PolicyBelow(chain.anchor.height, structural)
    /\ awaits = "verify" /\ ~straddled /\ reads.anchor # None /\ ~reads.behind =>
            reads.policy = Policy

VerdictInv == OneCase /\ Tables /\ ReadsInv /\ GreenIsTheDraw

LEMMA VerdictInvInit == VerdictInit => VerdictInv
<1>. SUFFICES ASSUME VerdictInit PROVE VerdictInv OBVIOUS
<1>1. OneCase BY DEF VerdictInit, OneCase
<1>2. Tables
  <2>1. chain.height \in Nat BY <1>1, CaseFacts
  <2>2. tip = 0 /\ structural = 0 /\ attributed = 0 BY DEF VerdictInit
  <2>3. tip \in Nat /\ structural \in Nat /\ attributed \in Nat /\ structural <= tip BY <2>2
  <2>6. straddled \in BOOLEAN BY Zenon DEF VerdictInit
  <2>4. \A n \in Nat : 0 <= n OBVIOUS
  <2>5. tip <= chain.height BY <2>1, <2>2, <2>4
  <2>. QED BY <2>3, <2>5, <2>6 DEF Tables
<1>3. ReadsInv BY DEF VerdictInit, ReadsInv, Nothing, TrueContext
<1>4. GreenIsTheDraw BY NoneAssumption DEF VerdictInit, GreenIsTheDraw
<1>. QED BY <1>1, <1>2, <1>3, <1>4 DEF VerdictInv

\* The draw of a record depends on nothing that moves.
LEMMA DrawStays ==
    ASSUME UNCHANGED <<chain, record>>
    PROVE  /\ OneCase => OneCase'
           /\ TheDraw(record) => TheDraw(record)'
           /\ Policy = Policy'
           /\ \A ctx : TrueContext(ctx) => TrueContext(ctx)'
<1>1. chain' = chain /\ record' = record OBVIOUS
<1>2. OneCase => OneCase' BY <1>1 DEF OneCase
<1>3. TheDraw(record) => TheDraw(record)'
  BY <1>1 DEF TheDraw, Committed, Outcome, DrawWindow, External, Proposers, Enough, DrawHash, RankedFirst, Quota
<1>4. Policy = Policy' BY <1>1 DEF Policy, PolicyBelow
<1>5. \A ctx : TrueContext(ctx) => TrueContext(ctx)' BY <1>1 DEF TrueContext
<1>. QED BY <1>2, <1>3, <1>4, <1>5

LEMMA VerdictInvStep == VerdictInv /\ [VerdictNext]_verdictVars => VerdictInv'
<1>. SUFFICES ASSUME VerdictInv, [VerdictNext]_verdictVars PROVE VerdictInv' OBVIOUS
<1>. USE DEF VerdictInv
<1>1. chain' = chain /\ record' = record
  BY DEF VerdictNext, IngestBlock, ProjectStructural, ResetStructural, MoveStructural, AttributeBlock,
         ResetAttribution, Request, ReadCursor, ReadAnchor, ReadBlocks, ReadPolicy, ReadStructural,
         Judgement, Expire, verdictVars
<1>2. OneCase' BY <1>1, DrawStays
<1>3. chain.height \in Nat /\ chain.anchor # None /\ chain.anchor.height \in Nat
      /\ \A p \in chain.policies : p.height \in Nat
  BY CaseFacts
<1>4. TrueContext(reads)' \/ reads' # reads BY <1>1, DrawStays DEF ReadsInv
<1>5. CASE IngestBlock
  <2>1. Tables' BY <1>1, <1>3, <1>5 DEF IngestBlock, Tables
  <2>2. ReadsInv'
    BY <1>1, <1>5, DrawStays DEF IngestBlock, ReadsInv, PolicyBelow
  <2>3. GreenIsTheDraw' BY <1>1, <1>5, DrawStays DEF IngestBlock, GreenIsTheDraw
  <2>. QED BY <1>2, <2>1, <2>2, <2>3
<1>6. ASSUME NEW to \in Nat, MoveStructural(to), to <= tip PROVE VerdictInv'
  <2>1. Tables' BY <1>1, <1>3, <1>6 DEF MoveStructural, Tables
  <2>2. ReadsInv'
    <3>1. /\ straddled' = (straddled \/ awaits = "structural")
          /\ awaits' = awaits /\ reads' = reads
      BY <1>6 DEF MoveStructural
    <3>2. straddled \in BOOLEAN BY DEF Tables
    <3>3. ~straddled' => ~straddled /\ awaits' # "structural" BY <3>1, <3>2
    <3>4. Policy' = Policy BY <1>1, DrawStays
    <3>5. TrueContext(reads)' BY <1>1, <3>1 DEF ReadsInv, TrueContext
    <3>. QED BY <1>1, <3>1, <3>3, <3>4, <3>5 DEF ReadsInv
  <2>3. GreenIsTheDraw' BY <1>1, <1>6, DrawStays DEF MoveStructural, GreenIsTheDraw
  <2>. QED BY <1>2, <2>1, <2>2, <2>3
<1>7. CASE ProjectStructural
  BY <1>6, <1>7 DEF ProjectStructural, Tables
<1>8. CASE ResetStructural
  BY <1>6, <1>8 DEF ResetStructural, Tables
<1>9. CASE AttributeBlock \/ ResetAttribution
  <2>1. Tables' BY <1>1, <1>3, <1>9 DEF AttributeBlock, ResetAttribution, Tables
  <2>2. ReadsInv'
    BY <1>1, <1>9, DrawStays DEF AttributeBlock, ResetAttribution, ReadsInv, PolicyBelow
  <2>3. GreenIsTheDraw' BY <1>1, <1>9, DrawStays DEF AttributeBlock, ResetAttribution, GreenIsTheDraw
  <2>. QED BY <1>2, <2>1, <2>2, <2>3
<1>10. CASE ReadCursor
  <2>1. Tables' BY <1>1, <1>10 DEF ReadCursor, Tables, indexed
  <2>2. ReadsInv'
    <3>1. /\ reads' = [Nothing EXCEPT !.chain = tip > 0] /\ awaits' = "anchor"
      BY <1>10 DEF ReadCursor, Goto
    <3>2. DOMAIN reads' = DOMAIN Nothing /\ reads'.anchor = None /\ reads'.blocks = {} /\ reads'.behind = FALSE
      BY <3>1 DEF Nothing
    <3>. QED BY <3>1, <3>2 DEF ReadsInv, TrueContext
  <2>3. GreenIsTheDraw' BY <1>1, <1>10, DrawStays DEF ReadCursor, GreenIsTheDraw
  <2>. QED BY <1>2, <2>1, <2>2, <2>3
<1>11. CASE ReadAnchor
  <2>1. Tables' BY <1>1, <1>11 DEF ReadAnchor, Tables, indexed
  <2>2. ReadsInv'
    <3>1. /\ reads' = [reads EXCEPT !.anchor = AnchorRow] /\ awaits' = "blocks"
      BY <1>11 DEF ReadAnchor, Goto
    <3>2. /\ DOMAIN reads' = DOMAIN Nothing /\ reads'.anchor \in {None, chain.anchor}
          /\ reads'.blocks = reads.blocks /\ reads'.behind = reads.behind
      BY <3>1 DEF Nothing, ReadsInv, AnchorRow
    <3>. QED BY <1>1, <3>1, <3>2 DEF ReadsInv, TrueContext
  <2>3. GreenIsTheDraw' BY <1>1, <1>11, DrawStays DEF ReadAnchor, GreenIsTheDraw
  <2>. QED BY <1>2, <2>1, <2>2, <2>3
<1>12. CASE ReadBlocks
  <2>1. Tables' BY <1>1, <1>12 DEF ReadBlocks, Tables, indexed
  <2>2. ReadsInv'
    <3>1. /\ reads' = [reads EXCEPT !.blocks = IF record.beacon = None THEN {} ELSE BlockRows]
          /\ awaits' = "policy"
      BY <1>12 DEF ReadBlocks, Goto
    <3>2. ASSUME NEW b \in BlockRows PROVE \E h \in Nat : b = Row(chain.proposers, h)
      <4>1. PICK h \in {g \in 1..attributed : Final(g)} :
                b = [height |-> h, proposer |-> ClassifyProposer(h).slot]
        BY <3>2 DEF BlockRows
      <4>2. h \in Nat /\ Final(h) BY <4>1 DEF Tables
      <4>3. ClassifyProposer(h).slot = chain.proposers[h]
        <5>1. ClassifyProposer(h).status = "attributed" BY <4>2 DEF Final
        <5>2. chain.addresses[h] # "missing" /\ chain.addresses[h] # "malformed"
          BY <5>1 DEF ClassifyProposer, Attribution
        <5>3. ClassifyProposer(h) =
                 IF chain.proposers[h] \in chain.windows[h]
                 THEN Attribution("attributed", chain.proposers[h])
                 ELSE Attribution(IF chain.windows[h] # {} THEN "unmapped_validator"
                                  ELSE "no_consensus_window", None)
          BY <5>2 DEF ClassifyProposer
        <5>. QED BY <5>1, <5>3 DEF Attribution
      <4>. QED BY <4>1, <4>2, <4>3 DEF Row
    <3>3. /\ DOMAIN reads' = DOMAIN Nothing /\ reads'.anchor = reads.anchor
          /\ reads'.behind = reads.behind
          /\ reads'.blocks = IF record.beacon = None THEN {} ELSE BlockRows
      BY <3>1 DEF Nothing, ReadsInv
    <3>4. \A b \in reads'.blocks : \E h \in Nat : b = Row(chain.proposers, h) BY <3>2, <3>3
    <3>. QED BY <1>1, <3>1, <3>3, <3>4 DEF ReadsInv, TrueContext
  <2>3. GreenIsTheDraw' BY <1>1, <1>12, DrawStays DEF ReadBlocks, GreenIsTheDraw
  <2>. QED BY <1>2, <2>1, <2>2, <2>3
<1>13. CASE ReadPolicy
  <2>1. Tables' BY <1>1, <1>13 DEF ReadPolicy, Tables, indexed
  <2>2. ReadsInv'
    <3> DEFINE found == IF reads.anchor = None
                        THEN None
                        ELSE PolicyBelow(reads.anchor.height, structural)
    <3>1. /\ reads' = [reads EXCEPT !.policy = found] /\ awaits' = "structural"
          /\ structural' = structural
      BY <1>13 DEF ReadPolicy, Goto, indexed
    <3>2. /\ DOMAIN reads' = DOMAIN Nothing /\ reads'.anchor = reads.anchor
          /\ reads'.behind = reads.behind /\ reads'.blocks = reads.blocks /\ reads'.policy = found
      BY <3>1 DEF Nothing, ReadsInv
    <3>3. reads.anchor # None => reads.anchor = chain.anchor BY DEF ReadsInv, TrueContext
    <3>4. PolicyBelow(chain.anchor.height, structural)' = PolicyBelow(chain.anchor.height, structural)
      BY <1>1, <3>1 DEF PolicyBelow
    <3>. QED BY <1>1, <3>1, <3>2, <3>3, <3>4 DEF ReadsInv, TrueContext
  <2>3. GreenIsTheDraw' BY <1>1, <1>13, DrawStays DEF ReadPolicy, GreenIsTheDraw
  <2>. QED BY <1>2, <2>1, <2>2, <2>3
<1>14. CASE ReadStructural
  <2>1. Tables' BY <1>1, <1>14 DEF ReadStructural, Tables, indexed
  <2>2. ReadsInv'
    <3> DEFINE late == reads.anchor # None /\ structural < reads.anchor.height
    <3>1. /\ reads' = [reads EXCEPT !.behind = late] /\ awaits = "structural" /\ awaits' = "verify"
          /\ straddled' = straddled
      BY <1>14 DEF ReadStructural, Goto
    <3>2. /\ DOMAIN reads' = DOMAIN Nothing /\ reads'.anchor = reads.anchor
          /\ reads'.behind = late /\ reads'.blocks = reads.blocks /\ reads'.policy = reads.policy
      BY <3>1 DEF Nothing, ReadsInv
    <3>3. ASSUME ~straddled, reads.anchor # None, ~late PROVE reads.policy = Policy
      <4>1. reads.anchor = chain.anchor BY <3>3 DEF ReadsInv, TrueContext
      <4>2. chain.anchor.height <= structural BY <1>3, <3>3, <4>1 DEF Tables
      <4>3. \A p \in chain.policies : p.height < chain.anchor.height =>
                p.height <= structural /\ p.height <= chain.height
        BY <1>3, <4>2 DEF Tables
      <4>4. {p \in chain.policies : p.height < chain.anchor.height /\ p.height <= structural}
              = {p \in chain.policies : p.height < chain.anchor.height /\ p.height <= chain.height}
        BY <4>3
      <4>5. PolicyBelow(chain.anchor.height, structural) = Policy BY <4>4, Zenon DEF PolicyBelow, Policy
      <4>. QED BY <3>1, <3>3, <4>5 DEF ReadsInv
    <3>4. Policy' = Policy BY <1>1, DrawStays
    <3>5. TrueContext(reads)' BY <1>1, <3>2 DEF ReadsInv, TrueContext
    <3>6. reads'.behind \in BOOLEAN BY <3>2
    <3>. QED BY <1>1, <3>1, <3>2, <3>3, <3>4, <3>5, <3>6 DEF ReadsInv
  <2>3. GreenIsTheDraw' BY <1>1, <1>14, DrawStays DEF ReadStructural, GreenIsTheDraw
  <2>. QED BY <1>2, <2>1, <2>2, <2>3
<1>15. CASE Judgement
  <2>1. Tables' BY <1>1, <1>15 DEF Judgement, Tables, indexed
  <2>2. ReadsInv'
    <3>1. reads' = Nothing /\ awaits' = "idle" BY <1>15 DEF Judgement, Goto
    <3>. QED BY <1>1, <3>1 DEF ReadsInv, TrueContext, Nothing
  <2>3. GreenIsTheDraw'
    <3>1. cache' = Verify(record, reads) BY <1>15 DEF Judgement
    <3>2. Verify(record, reads) = "verified" => TheDraw(record) BY GreenMeansDrawn DEF ReadsInv
    <3>. QED BY <1>1, <3>1, <3>2, DrawStays DEF GreenIsTheDraw
  <2>. QED BY <1>2, <2>1, <2>2, <2>3
<1>16. CASE Expire
  <2>1. Tables' BY <1>1, <1>16 DEF Expire, Tables, indexed
  <2>2. ReadsInv'
    BY <1>1, <1>16, DrawStays DEF Expire, ReadsInv, PolicyBelow, indexed
  <2>3. GreenIsTheDraw' BY <1>16, NoneAssumption DEF Expire, GreenIsTheDraw
  <2>. QED BY <1>2, <2>1, <2>2, <2>3
<1>17. CASE UNCHANGED verdictVars
  <2>1. Tables' BY <1>1, <1>17 DEF Tables, verdictVars, indexed
  <2>2. ReadsInv'
    BY <1>1, <1>17, DrawStays DEF ReadsInv, PolicyBelow, verdictVars, indexed
  <2>3. GreenIsTheDraw' BY <1>1, <1>17, DrawStays DEF GreenIsTheDraw, verdictVars
  <2>. QED BY <1>2, <2>1, <2>2, <2>3
<1>. QED
  BY <1>5, <1>7, <1>8, <1>9, <1>10, <1>11, <1>12, <1>13, <1>14, <1>15, <1>16, <1>17
     DEF VerdictNext, Request

LEMMA VerdictInvHolds == VerdictSpec => []VerdictInv
<1>1. VerdictInit => VerdictInv BY VerdictInvInit
<1>2. VerdictInv /\ [VerdictNext]_verdictVars => VerdictInv' BY VerdictInvStep
<1>. QED BY <1>1, <1>2, PTL DEF VerdictSpec

\* A request that answers verified (verifyDraw, cached by the route) has found
\* the draw: the chain anchored it, and its beacon leads to these winners.
THEOREM GreenIsTheDrawHolds == VerdictSpec => []GreenIsTheDraw
<1>1. VerdictInv => GreenIsTheDraw BY DEF VerdictInv
<1>. QED BY <1>1, VerdictInvHolds, PTL

\* verifyDraw on what a request has read never calls an honest record a mismatch
\* nor another one verified, unless the policy projection moved between the
\* route's two reads of it (operators.ts:609 and 620).
THEOREM RightUnlessStraddledHolds == VerdictSpec => []RightUnlessStraddled
<1>1. ASSUME VerdictInv PROVE RightUnlessStraddled
  <2>. SUFFICES ASSUME awaits = "verify", ~straddled
       PROVE  IF Honest THEN Verify(record, reads) # "mismatch" ELSE Verify(record, reads) # "verified"
    BY DEF RightUnlessStraddled
  <2>1. OneCase /\ TrueContext(reads) /\ reads.behind \in BOOLEAN BY <1>1 DEF VerdictInv, ReadsInv
  <2>2. reads.anchor = None => reads.policy = None BY <1>1 DEF VerdictInv, ReadsInv
  <2>3. reads.anchor # None /\ ~reads.behind => reads.policy = Policy BY <1>1 DEF VerdictInv, ReadsInv
  <2>4. CASE Honest
    <3>1. TheDraw(record) /\ ParamsValid(record.params) # "fails" /\ Canonical(record.candidates, record.params)
      BY <2>4 DEF Honest
    <3>2. reads.behind \/ PolicyAgrees(reads) BY <2>2, <2>3, <2>4 DEF Honest, Lawful, PolicyAgrees
    <3>3. "fails" \notin Checks(record, reads) BY <2>1, <3>1, <3>2, HonestUncontradicted
    <3>. QED BY <2>4, <3>3 DEF Verify
  <2>5. CASE Verify(record, reads) = "verified"
    <3>1. TheDraw(record) BY <2>1, <2>5, GreenMeansDrawn
    <3>2. HasSet(record) /\ reads.anchor = chain.anchor /\ ~reads.behind /\ PolicyAgrees(reads)
      BY <2>1, <2>5, GreenFoundation
    <3>3. chain.anchor # None BY <2>1, CaseFacts
    <3>4. Lawful(record) BY <2>3, <3>2, <3>3 DEF Lawful, PolicyAgrees
    <3>5. Honest BY <3>1, <3>2, <3>4 DEF Honest, HasSet, Sound
    <3>. QED BY <2>5, <3>5
  <2>. QED BY <2>4, <2>5
<1>. QED BY <1>1, VerdictInvHolds, PTL
=============================================================================
