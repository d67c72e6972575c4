------------------------- MODULE StateSamplesProofs -------------------------
(***************************************************************************)
(* What the samplers leave in the tables is of one height, for any chain   *)
(* and node, however their reads, failures and resets interleave with      *)
(* ingestion; for balances this takes samples of the newest height only.   *)
(* The rows of a stored height are the chain's, for a search that has all  *)
(* of it, and the rewards history read from them is the chain's too, when  *)
(* events name their messages.                                             *)
(***************************************************************************)
EXTENDS StateSamples, FiniteSetTheorems, SequenceTheorems, WellFoundedInduction, TLAPS

Both(h) == {Sample(h, "module_balance", h), Sample(h, "cumulative_emitted", h)}

\* All that was read is of the height the run was started for, and what it
\* has written is there until its cursor says so: resets wait for the lock.
ReadingInv ==
    /\ reading \in [job : Jobs \union {"none"}, height : Nat, got : Seq(Nat), written : BOOLEAN]
    /\ reading # Idle => reading.height \in Heights
    /\ \A i \in DOMAIN reading.got : reading.got[i] = reading.height
    /\ reading.written /\ reading.job = "rewards" => Both(reading.height) \subseteq samples
    /\ sampled \in [Jobs -> Nat]

SamplesInv == ReadingInv /\ RewardSamplesAreWhole

\* Blocks are counted by their heights, and none goes.
BlocksInv ==
    /\ IsFiniteSet(blocks)
    /\ \A a, b \in blocks : a.height = b.height => a = b

\* The newest sample of the address is no newer than the run under way.
BalancesInv ==
    /\ balances \in [Denoms -> [at : Nat, amount : Nat]]
    /\ \A d \in Denoms : balances[d].at <= Highest
    /\ reading # Idle =>
          reading.height <= Highest /\ \A d \in Denoms : balances[d].at <= reading.height
    /\ \E top \in Denoms : \A d \in Denoms : balances[d].at <= balances[top].at
    /\ \A d \in Denoms : balances[d].at > 0 =>
          /\ balances[d].at \in Heights
          /\ d \in Held[balances[d].at] /\ balances[d].amount = balances[d].at
    /\ \A top \in Denoms :
          balances[top].at > 0 /\ (\A d \in Denoms : balances[d].at <= balances[top].at)
              => \A d \in Held[balances[top].at] : balances[d].at = balances[top].at

NewestInv == SamplesInv /\ BlocksInv /\ BalancesInv

-----------------------------------------------------------------------------
(* Samples. *)

LEMMA JobsAre == Jobs = {"rewards", "balances"}
BY DEF Jobs, Reads

LEMMA HeightsArePositive == \A h \in Heights : h \in Nat /\ h > 0
BY ChainAssumption DEF Heights

LEMMA IdleIs ==
    /\ Idle.job = "none" /\ Idle.height = 0 /\ Idle.got = <<>> /\ Idle.written = FALSE
    /\ Idle.job \notin Jobs
BY JobsAre DEF Idle

\* A run of the rewards sampler puts both amounts of its height in place.
LEMMA WrittenRewards ==
    ASSUME ReadingInv, Len(reading.got) = 2, WriteRewards
    PROVE  samples' = PutSamples(Both(reading.height))
<1>1. reading.got[1] = reading.height /\ reading.got[2] = reading.height
  <2>1. 1 \in DOMAIN reading.got /\ 2 \in DOMAIN reading.got BY DEF ReadingInv
  <2>. QED BY <2>1 DEF ReadingInv
<1>2. Reads.rewards[1] = "module_balance" /\ Reads.rewards[2] = "cumulative_emitted" BY DEF Reads
<1>3. {Sample(reading.height, Reads.rewards[i], reading.got[i]) : i \in 1..2} = Both(reading.height)
  <2>1. 1..2 = {1, 2} OBVIOUS
  <2>. QED BY <1>1, <1>2, <2>1 DEF Both
<1>. QED BY <1>3 DEF WriteRewards

LEMMA PutBothIsWhole ==
    ASSUME RewardSamplesAreWhole, NEW h \in Heights, samples' = PutSamples(Both(h)),
           sampled' = sampled
    PROVE  RewardSamplesAreWhole' /\ Both(h) \subseteq samples'
<1>. USE DEF Both, PutSamples, Sample, RewardSamplesAreWhole
<1>1. Both(h) \subseteq samples' OBVIOUS
<1>2. \A s \in samples' : s.amount = s.height OBVIOUS
<1>3. ASSUME NEW k \in Heights
      PROVE  Sample(k, "module_balance", k) \in samples' <=> Sample(k, "cumulative_emitted", k) \in samples'
  <2>1. CASE k = h BY <1>1, <2>1
  <2>2. CASE k # h
    <3>1. \A kind : Sample(k, kind, k) \in samples' <=> Sample(k, kind, k) \in samples BY <2>2
    <3>. QED BY <3>1
  <2>. QED BY <2>1, <2>2
<1>4. sampled'["rewards"] # 0 =>
         Sample(sampled'["rewards"], "module_balance", sampled'["rewards"]) \in samples'
  BY <1>1
<1>. QED BY <1>1, <1>2, <1>3, <1>4

\* The supply of a height is nobody else's row.
LEMMA PutSupplyIsWhole ==
    ASSUME RewardSamplesAreWhole, NEW h \in Heights, samples' = PutSamples({Sample(h, "supply", h)}),
           sampled' = sampled
    PROVE  RewardSamplesAreWhole'
<1>. USE DEF PutSamples, Sample, RewardSamplesAreWhole
<1>1. \A s \in samples' : s.amount = s.height OBVIOUS
<1>2. \A k, kind : kind # "supply" => (Sample(k, kind, k) \in samples' <=> Sample(k, kind, k) \in samples)
  OBVIOUS
<1>. QED BY <1>1, <1>2

LEMMA SamplesInit == Init => SamplesInv
<1>. SUFFICES ASSUME Init PROVE SamplesInv
  OBVIOUS
<1>1. ReadingInv
  <2>1. Idle \in [job : Jobs \union {"none"}, height : Nat, got : Seq(Nat), written : BOOLEAN]
    BY DEF Idle
  <2>2. DOMAIN Idle.got = {} BY IdleIs
  <2>. QED BY <2>1, <2>2, IdleIs, JobsAre DEF Init, ReadingInv
<1>2. RewardSamplesAreWhole BY JobsAre DEF Init, RewardSamplesAreWhole
<1>. QED BY <1>1, <1>2 DEF SamplesInv


LEMMA ReadKeeps ==
    ASSUME SamplesInv, Read
    PROVE  SamplesInv'
<1>. USE DEF SamplesInv
<1>1. reading # Idle /\ reading' = [reading EXCEPT !.got = Append(@, reading.height)]
      /\ UNCHANGED <<sampled, samples>>
  BY DEF Read, Answered
<1>2. reading.height \in Nat /\ reading.got \in Seq(Nat) BY DEF ReadingInv
<1> DEFINE got == Append(reading.got, reading.height)
<1>3. got \in Seq(Nat) /\ \A i \in DOMAIN got : got[i] = reading.height
  <2>1. \A i \in 1..Len(reading.got) : reading.got[i] = reading.height BY <1>2 DEF ReadingInv
  <2>. QED BY <1>2, <2>1
<1>4. reading' = [job |-> reading.job, height |-> reading.height, got |-> got, written |-> reading.written]
  BY <1>1 DEF ReadingInv
<1>. HIDE DEF got
<1>5. ReadingInv'
  <2>1. /\ reading'.job = reading.job /\ reading'.height = reading.height
        /\ reading'.got = got /\ reading'.written = reading.written
    BY <1>4
  <2>2. reading' \in [job : Jobs \union {"none"}, height : Nat, got : Seq(Nat), written : BOOLEAN]
    BY <1>3, <1>4 DEF ReadingInv
  <2>3. Both(reading'.height) = Both(reading.height) BY <2>1
  <2>. QED BY <1>1, <1>3, <2>1, <2>2, <2>3 DEF ReadingInv
<1>6. RewardSamplesAreWhole' BY <1>1 DEF RewardSamplesAreWhole
<1>. QED BY <1>5, <1>6

LEMMA WriteKeeps ==
    ASSUME SamplesInv, Write
    PROVE  SamplesInv'
<1>. USE DEF SamplesInv
<1>1. Len(reading.got) = 2 /\ reading' = [reading EXCEPT !.written = TRUE] /\ sampled' = sampled
  BY DEF Write
<1>2. reading # Idle
  <2>1. Len(Idle.got) = 0 BY IdleIs
  <2>. QED BY <1>1, <2>1
<1>3. reading.height \in Heights BY <1>2 DEF ReadingInv
<1>4. reading' = [job |-> reading.job, height |-> reading.height, got |-> reading.got, written |-> TRUE]
  BY <1>1 DEF ReadingInv
<1>5. reading' # Idle /\ reading'.height = reading.height BY <1>4, IdleIs
<1>6. CASE WriteRewards
  <2>1. RewardSamplesAreWhole' /\ Both(reading.height) \subseteq samples'
    BY <1>1, <1>3, <1>6, WrittenRewards, PutBothIsWhole
  <2>2. ReadingInv' BY <1>1, <1>3, <1>4, <2>1 DEF ReadingInv
  <2>. QED BY <2>1, <2>2
<1>7. CASE WriteBalances
  <2>1. reading.job = "balances" /\ samples' = PutSamples({Sample(reading.height, "supply", reading.got[1])})
    BY <1>7 DEF WriteBalances
  <2>2. reading.got[1] = reading.height
    <3>1. 1 \in DOMAIN reading.got BY <1>1 DEF ReadingInv
    <3>. QED BY <3>1 DEF ReadingInv
  <2>3. RewardSamplesAreWhole' BY <1>1, <1>3, <2>1, <2>2, PutSupplyIsWhole
  <2>4. ReadingInv' BY <1>1, <1>3, <1>4, <2>1 DEF ReadingInv
  <2>. QED BY <2>3, <2>4
<1>. QED BY <1>6, <1>7 DEF Write

LEMMA StampKeeps ==
    ASSUME SamplesInv, Stamp
    PROVE  SamplesInv'
<1>. USE DEF SamplesInv
<1>1. /\ reading.written /\ reading' = Idle /\ samples' = samples
      /\ sampled' = [sampled EXCEPT ![reading.job] = reading.height]
  BY DEF Stamp
<1>2. reading # Idle /\ reading.height \in Nat /\ sampled \in [Jobs -> Nat] BY <1>1, IdleIs DEF ReadingInv
<1>3. Sample(reading.height, "module_balance", reading.height) \in samples \/ reading.job # "rewards"
  BY <1>1 DEF ReadingInv, Both
<1>4. sampled' \in [Jobs -> Nat] /\ sampled'["rewards"] \in {sampled["rewards"], reading.height}
      /\ (reading.job # "rewards" => sampled'["rewards"] = sampled["rewards"])
  BY <1>1, <1>2, JobsAre
<1>5. RewardSamplesAreWhole' BY <1>1, <1>3, <1>4 DEF RewardSamplesAreWhole
<1>6. ReadingInv'
  <2>1. Idle \in [job : Jobs \union {"none"}, height : Nat, got : Seq(Nat), written : BOOLEAN]
    BY DEF Idle
  <2>2. DOMAIN Idle.got = {} BY IdleIs
  <2>. QED BY <1>1, <1>4, <2>1, <2>2, IdleIs DEF ReadingInv
<1>. QED BY <1>5, <1>6

LEMMA SamplesStep ==
    ASSUME SamplesInv, [Next]_vars
    PROVE  SamplesInv'
<1>. USE DEF SamplesInv
<1>0. /\ Idle \in [job : Jobs \union {"none"}, height : Nat, got : Seq(Nat), written : BOOLEAN]
      /\ DOMAIN Idle.got = {}
  BY IdleIs DEF Idle
<1>1. ASSUME UNCHANGED <<reading, sampled, samples>> PROVE SamplesInv'
  BY <1>1 DEF ReadingInv, RewardSamplesAreWhole, Both
<1>2. ASSUME NEW job \in Jobs, NEW h \in Heights, StartSample(job, h) PROVE SamplesInv'
  <2>1. reading' = [job |-> job, height |-> h, got |-> <<>>, written |-> FALSE]
        /\ UNCHANGED <<sampled, samples>>
    BY <1>2 DEF StartSample, Idle
  <2>2. ReadingInv' BY <2>1, HeightsArePositive DEF ReadingInv
  <2>. QED BY <2>1, <2>2 DEF RewardSamplesAreWhole
<1>3. CASE Read BY <1>3, ReadKeeps
<1>4. CASE GiveUp
  <2>1. reading' = Idle /\ UNCHANGED <<sampled, samples>> BY <1>4 DEF GiveUp
  <2>2. ReadingInv' BY <1>0, <2>1, IdleIs DEF ReadingInv
  <2>. QED BY <2>1, <2>2 DEF RewardSamplesAreWhole
<1>5. CASE Write BY <1>5, WriteKeeps
<1>6. CASE Stamp BY <1>6, StampKeeps
<1>7. CASE ResetRewards
  <2>1. /\ reading = Idle /\ reading' = Idle /\ samples' = {}
        /\ sampled' = [sampled EXCEPT !["rewards"] = 0]
    BY <1>7 DEF ResetRewards
  <2>2. sampled' \in [Jobs -> Nat] /\ sampled'["rewards"] = 0 BY <2>1, JobsAre DEF ReadingInv
  <2>3. ReadingInv' BY <1>0, <2>1, <2>2, IdleIs DEF ReadingInv
  <2>. QED BY <2>1, <2>2, <2>3 DEF RewardSamplesAreWhole
<1>8. CASE ResetBalances
  <2>1. /\ reading = Idle /\ reading' = Idle /\ samples' = SamplesKept
        /\ sampled' = [sampled EXCEPT !["balances"] = 0]
    BY <1>8 DEF ResetBalances
  <2>2. sampled' \in [Jobs -> Nat] /\ sampled'["rewards"] = sampled["rewards"]
    BY <2>1, JobsAre DEF ReadingInv
  <2>3. ReadingInv' BY <1>0, <2>1, <2>2, IdleIs DEF ReadingInv
  <2>4. RewardSamplesAreWhole' BY <2>1, <2>2 DEF RewardSamplesAreWhole, SamplesKept, Sample
  <2>. QED BY <2>3, <2>4
<1>. QED
  BY <1>1, <1>2, <1>3, <1>4, <1>5, <1>6, <1>7, <1>8 DEF Next, sampleVars, vars

\* Both amounts of a sampled height are that height's, and the height the
\* sampler's cursor names has them: reads that straddle new blocks, runs that
\* are given up and the other sampler's writes and resets do not mix them.
THEOREM RewardSamplesHold == Spec => []RewardSamplesAreWhole
<1>1. Init => SamplesInv BY SamplesInit
<1>2. SamplesInv /\ [Next]_vars => SamplesInv' BY SamplesStep
<1>3. SamplesInv => RewardSamplesAreWhole BY DEF SamplesInv
<1>. QED BY <1>1, <1>2, <1>3, PTL DEF Spec

-----------------------------------------------------------------------------
(* Blocks. *)

RowsOf(lists) == UNION {{lists[i][j] : j \in DOMAIN lists[i]} : i \in DOMAIN lists}

OneOfAKey(lists, key) ==
    \A i, k \in DOMAIN lists : \A j \in DOMAIN lists[i], l \in DOMAIN lists[k] :
        SameKey(key, lists[i][j], lists[k][l]) => i = k /\ j = l

\* An upsert of rows with keys of their own: they replace those of the same keys.
LEMMA UpsertOfDistinct ==
    ASSUME NEW table, NEW lists, NEW key, OneOfAKey(lists, key),
           \A i \in DOMAIN lists : i \in Int /\ \A j \in DOMAIN lists[i] : j \in Int
    PROVE  Upsert(table, lists, key) =
               {r \in table : \A w \in RowsOf(lists) : ~SameKey(key, w, r)} \union RowsOf(lists)
<1>1. \A i \in DOMAIN lists : \A j \in DOMAIN lists[i] :
         <<i, j>> \in Places(lists) /\ RowAt(lists, <<i, j>>) = lists[i][j]
  BY DEF Places, RowAt
<1>2. ASSUME NEW p \in Places(lists)
      PROVE  /\ p[1] \in DOMAIN lists /\ p[2] \in DOMAIN lists[p[1]] /\ p = <<p[1], p[2]>>
             /\ RowAt(lists, p) = lists[p[1]][p[2]] /\ RowAt(lists, p) \in RowsOf(lists)
  <2>1. PICK i \in DOMAIN lists : p \in {i} \X DOMAIN lists[i] BY DEF Places
  <2>2. p[1] = i /\ p[2] \in DOMAIN lists[i] /\ p = <<p[1], p[2]>> BY <2>1
  <2>. QED BY <2>2 DEF RowAt, RowsOf
<1>3. ASSUME NEW w \in RowsOf(lists)
      PROVE  \E p \in Places(lists) : RowAt(lists, p) = w
  <2>1. PICK i \in DOMAIN lists : \E j \in DOMAIN lists[i] : w = lists[i][j] BY DEF RowsOf
  <2>. QED BY <1>1, <2>1
<1>4. ASSUME NEW p \in Places(lists), NEW q \in Places(lists), After(p, q)
      PROVE  ~SameKey(key, RowAt(lists, p), RowAt(lists, q))
  <2>1. p[1] \in Int /\ p[2] \in Int /\ q[1] \in Int /\ q[2] \in Int BY <1>2
  <2>2. p[1] # q[1] \/ p[2] # q[2] BY <1>4, <2>1 DEF After
  <2>. QED BY <1>2, <2>2 DEF OneOfAKey
<1>5. {RowAt(lists, p) : p \in {q \in Places(lists) :
          \A l \in Places(lists) : After(l, q) => ~SameKey(key, RowAt(lists, l), RowAt(lists, q))}}
      = RowsOf(lists)
  <2>1. {q \in Places(lists) :
          \A l \in Places(lists) : After(l, q) => ~SameKey(key, RowAt(lists, l), RowAt(lists, q))}
        = Places(lists)
    BY <1>4
  <2>2. {RowAt(lists, p) : p \in Places(lists)} = RowsOf(lists) BY <1>2, <1>3
  <2>. QED BY <2>1, <2>2
<1>6. \A r : (\A p \in Places(lists) : ~SameKey(key, RowAt(lists, p), r))
                <=> (\A w \in RowsOf(lists) : ~SameKey(key, w, r))
  BY <1>2, <1>3
<1>. QED BY <1>5, <1>6 DEF Upsert

LEMMA BlocksWritten ==
    ASSUME NEW row
    PROVE  Upsert(blocks, <<<<row>>>>, {"height"}) = {b \in blocks : b.height # row.height} \union {row}
<1> DEFINE lists == <<<<row>>>>
<1>1. DOMAIN lists = {1} /\ DOMAIN lists[1] = {1} /\ lists[1][1] = row OBVIOUS
<1>2. RowsOf(lists) = {row} 
  <2>. HIDE DEF lists
  <2>. QED BY <1>1 DEF RowsOf
<1>. HIDE DEF lists
<1>3. OneOfAKey(lists, {"height"}) BY <1>1 DEF OneOfAKey
<1>4. \A i \in DOMAIN lists : i \in Int /\ \A j \in DOMAIN lists[i] : j \in Int BY <1>1
<1>5. Upsert(blocks, lists, {"height"}) =
         {b \in blocks : \A w \in RowsOf(lists) : ~SameKey({"height"}, w, b)} \union RowsOf(lists)
  BY <1>3, <1>4, UpsertOfDistinct
<1>6. \A b : SameKey({"height"}, row, b) <=> b.height = row.height BY DEF SameKey
<1>7. Upsert(blocks, lists, {"height"}) = {b \in blocks : b.height # row.height} \union {row}
  BY <1>2, <1>5, <1>6
<1>. QED BY <1>7 DEF lists

\* The upsert of a height's block keeps one row of each height.
LEMMA BlocksGrow ==
    ASSUME BlocksInv, BlockNext
    PROVE  BlocksInv' /\ Highest \in Nat /\ Highest' \in Nat /\ Highest <= Highest'
<1>. USE DEF BlocksInv, Highest
<1>1. Cardinality(blocks) \in Nat BY FS_CardinalityType
<1>2. CASE blocks' = blocks BY <1>1, <1>2
<1>3. CASE \E row : blocks' = Upsert(blocks, <<<<row>>>>, {"height"})
  <2>1. PICK row : blocks' = Upsert(blocks, <<<<row>>>>, {"height"}) BY <1>3
  <2> DEFINE others == {b \in blocks : b.height # row.height}
  <2>2. blocks' = others \union {row} BY <2>1, BlocksWritten
  <2>3. IsFiniteSet(others) /\ row \notin others BY FS_Subset
  <2>4. IsFiniteSet(blocks') /\ Cardinality(blocks') = Cardinality(others) + 1
        /\ Cardinality(others) \in Nat
    BY <2>2, <2>3, FS_AddElement, FS_CardinalityType
  <2>5. Cardinality(blocks) <= Cardinality(others) + 1
    <3>1. CASE others = blocks
      <4>. HIDE DEF others
      <4>. QED BY <1>1, <3>1
    <3>2. CASE others # blocks
      <4>1. PICK b \in blocks : b.height = row.height BY <3>2
      <4>2. others = blocks \ {b} BY <4>1
      <4>. HIDE DEF others
      <4>3. Cardinality(others) = Cardinality(blocks) - 1 BY <4>2, FS_RemoveElement
      <4>. QED BY <1>1, <4>3
    <3>. QED BY <3>1, <3>2
  <2>6. \A a, b \in blocks' : a.height = b.height => a = b BY <2>2
  <2>. QED BY <1>1, <2>4, <2>5, <2>6
<1>4. BlockNext => blocks' = blocks \/ \E row : blocks' = Upsert(blocks, <<<<row>>>>, {"height"})
  <2>1. Produce => blocks' = blocks BY DEF Produce, rowVars
  <2>2. ASSUME NEW h, IngestSearched(h) PROVE \E row : blocks' = Upsert(blocks, <<<<row>>>>, {"height"})
    BY <2>2 DEF IngestSearched, WriteRows
  <2>3. ASSUME NEW h, IngestLookedUp(h) PROVE \E row : blocks' = Upsert(blocks, <<<<row>>>>, {"height"})
    BY <2>3 DEF IngestLookedUp, WriteRows
  <2>. QED BY <2>1, <2>2, <2>3 DEF BlockNext
<1>. QED BY <1>2, <1>3, <1>4

-----------------------------------------------------------------------------
(* Balances. *)

LEMMA MaxOf ==
    ASSUME NEW S \in SUBSET Nat, NEW m \in S, \A x \in S : m >= x
    PROVE  Max(S) = m
<1>1. \E y \in S : \A x \in S : y >= x OBVIOUS
<1>2. Max(S) \in S /\ \A x \in S : Max(S) >= x BY <1>1 DEF Max
<1>3. Max(S) \in Nat /\ m \in Nat /\ Max(S) >= m /\ m >= Max(S) BY <1>2
<1>. QED BY <1>3

\* The newest height among the rows of the address.
LEMMA LatestIs ==
    ASSUME BalancesInv
    PROVE  \E top \in Denoms : /\ LatestSample = balances[top].at
                               /\ \A d \in Denoms : balances[d].at <= balances[top].at
<1>1. PICK top \in Denoms : \A d \in Denoms : balances[d].at <= balances[top].at BY DEF BalancesInv
<1> DEFINE heights == {balances[d].at : d \in Denoms}
<1>2. heights \subseteq Nat BY DEF BalancesInv
<1>3. balances[top].at \in heights /\ \A x \in heights : balances[top].at >= x BY <1>1, <1>2
<1>4. Max(heights) = balances[top].at
  <2>. HIDE DEF heights
  <2>. QED BY <1>2, <1>3, MaxOf
<1>. QED BY <1>1, <1>4 DEF LatestSample

LEMMA ShownFollows == BalancesInv => ShownBalancesAreASample
<1>. SUFFICES ASSUME BalancesInv PROVE ShownBalancesAreASample
  OBVIOUS
<1>1. PICK top \in Denoms : /\ LatestSample = balances[top].at
                            /\ \A d \in Denoms : balances[d].at <= balances[top].at
  BY LatestIs
<1>2. ASSUME NEW d \in Shown PROVE balances[d].amount = LatestSample /\ d \in Held[LatestSample]
  BY <1>2 DEF Shown, BalancesInv
<1>3. ASSUME LatestSample > 0, NEW d \in Held[LatestSample] PROVE d \in Shown
  <2>1. balances[d].at = LatestSample BY <1>1, <1>3 DEF BalancesInv
  <2>2. LatestSample \in DOMAIN Held BY <1>1, <1>3, HeldAssumption DEF BalancesInv
  <2>. QED BY <1>3, <2>1, <2>2 DEF Shown, Denoms
<1>. QED BY <1>2, <1>3 DEF ShownBalancesAreASample

LEMMA BalancesInit == Init => BlocksInv /\ BalancesInv
<1>. SUFFICES ASSUME Init PROVE BlocksInv /\ BalancesInv
  OBVIOUS
<1>1. blocks = {} /\ balances = NoBalances /\ reading = Idle BY DEF Init, BlockInit
<1>2. Highest = 0 BY <1>1, FS_EmptySet DEF Highest
<1>3. BlocksInv BY <1>1, FS_EmptySet DEF BlocksInv
<1>4. balances \in [Denoms -> [at : Nat, amount : Nat]] /\ \A d \in Denoms : balances[d].at = 0
  BY <1>1 DEF NoBalances
<1>5. PICK d \in Denoms : TRUE BY HeldAssumption
<1>. QED BY <1>1, <1>2, <1>3, <1>4, <1>5 DEF BalancesInv

\* A run that writes has read nothing older than what is there.
LEMMA WriteBalancesKeeps ==
    ASSUME SamplesInv, BlocksInv, BalancesInv, Write, WriteBalances
    PROVE  BalancesInv'
<1>. DEFINE h == reading.height
<1>1. /\ Len(reading.got) = 2 /\ reading' = [reading EXCEPT !.written = TRUE] /\ blocks' = blocks
  BY DEF Write, blockVars, rowVars
<1>2. reading # Idle
  <2>1. Len(Idle.got) = 0 BY IdleIs
  <2>. QED BY <1>1, <2>1
<1>3. h \in Heights /\ h \in Nat /\ h > 0 BY <1>2, HeightsArePositive DEF SamplesInv, ReadingInv
<1>4. reading.got[2] = h
  <2>1. 2 \in DOMAIN reading.got BY <1>1 DEF SamplesInv, ReadingInv
  <2>. QED BY <2>1 DEF SamplesInv, ReadingInv
<1>5. balances' = [d \in Denoms |-> IF d \in Held[h] THEN [at |-> h, amount |-> h] ELSE balances[d]]
  BY <1>4 DEF WriteBalances
<1>6. Highest' = Highest /\ Highest \in Nat BY <1>1, FS_CardinalityType DEF Highest, BlocksInv
<1>7. reading'.height = h BY <1>1 DEF SamplesInv, ReadingInv
<1>8. h <= Highest /\ \A d \in Denoms : balances[d].at \in Nat /\ balances[d].at <= h
  BY <1>2 DEF BalancesInv
<1>9. Held[h] \subseteq Denoms BY <1>3, HeldAssumption DEF Denoms
<1>. HIDE DEF h
<1>10. balances' \in [Denoms -> [at : Nat, amount : Nat]] BY <1>3, <1>5 DEF BalancesInv
<1>11. \A d \in Denoms : balances'[d].at \in Nat /\ balances'[d].at <= h BY <1>3, <1>5, <1>8
<1>12. \A d \in Denoms : balances'[d].at > 0 =>
          /\ balances'[d].at \in Heights
          /\ d \in Held[balances'[d].at] /\ balances'[d].amount = balances'[d].at
  BY <1>3, <1>5 DEF BalancesInv
<1>13. /\ \E top \in Denoms : \A d \in Denoms : balances'[d].at <= balances'[top].at
       /\ \A top \in Denoms :
             balances'[top].at > 0 /\ (\A d \in Denoms : balances'[d].at <= balances'[top].at)
                 => \A d \in Held[balances'[top].at] : balances'[d].at = balances'[top].at
  <2>1. CASE Held[h] = {}
    <3>1. balances' = balances BY <1>5, <2>1 DEF BalancesInv
    <3>. QED BY <3>1 DEF BalancesInv
  <2>2. CASE Held[h] # {}
    <3>1. PICK held \in Held[h] : TRUE BY <2>2
    <3>2. \A d \in Held[h] : d \in Denoms /\ balances'[d].at = h BY <1>5, <1>9
    <3>3. \A top \in Denoms : (\A d \in Denoms : balances'[d].at <= balances'[top].at)
                                 => balances'[top].at = h
      BY <3>1, <3>2, <1>3, <1>11
    <3>4. \A d \in Denoms : balances'[d].at <= balances'[held].at BY <3>1, <3>2, <1>11
    <3>. QED BY <3>1, <3>2, <3>3, <3>4
  <2>. QED BY <2>1, <2>2
<1>14. \A d \in Denoms : balances'[d].at <= Highest BY <1>6, <1>8, <1>11, <1>3
<1>. QED BY <1>6, <1>7, <1>8, <1>10, <1>11, <1>12, <1>13, <1>14 DEF BalancesInv

LEMMA NewestStep ==
    ASSUME ~SamplesAnywhere, NewestInv, [Next]_vars
    PROVE  NewestInv'
<1>. USE DEF NewestInv
<1>1. SamplesInv' BY SamplesStep
<1>2. Highest \in Nat BY FS_CardinalityType DEF BlocksInv, Highest
<1>3. \A d \in Denoms : balances[d].at \in Nat BY DEF BalancesInv
<1>4. reading # Idle => reading.height \in Nat BY DEF SamplesInv, ReadingInv
<1>5. CASE BlockNext /\ UNCHANGED <<historyVars, sampleVars>>
  <2>1. BlocksInv' /\ Highest' \in Nat /\ Highest <= Highest' BY <1>5, BlocksGrow
  <2>2. UNCHANGED <<reading, balances>> BY <1>5 DEF sampleVars
  <2>3. BalancesInv' BY <1>2, <1>3, <1>4, <2>1, <2>2 DEF BalancesInv
  <2>. QED BY <1>1, <2>1, <2>3
<1>6. ASSUME blocks' = blocks, balances' = balances, reading' \in {reading, Idle} PROVE NewestInv'
  <2>1. Highest' = Highest BY <1>6 DEF Highest
  <2>2. BlocksInv' BY <1>6 DEF BlocksInv
  <2>3. BalancesInv' BY <1>6, <2>1 DEF BalancesInv
  <2>. QED BY <1>1, <2>2, <2>3
<1>7. ASSUME NEW job \in Jobs, NEW h \in Heights, StartSample(job, h) PROVE NewestInv'
  <2>1. h = Highest /\ blocks' = blocks /\ balances' = balances
        /\ reading' = [Idle EXCEPT !.job = job, !.height = h]
    BY <1>7 DEF StartSample, blockVars, rowVars
  <2>2. reading'.height = h /\ Highest' = Highest BY <2>1 DEF Idle, Highest
  <2>3. BlocksInv' BY <2>1 DEF BlocksInv
  <2>4. BalancesInv' BY <1>2, <2>1, <2>2 DEF BalancesInv
  <2>. QED BY <1>1, <2>3, <2>4
<1>8. CASE Read \/ (Write /\ WriteRewards)
  <2>1. blocks' = blocks /\ balances' = balances /\ reading # Idle
    <3>1. CASE Read BY <3>1 DEF Read, blockVars, rowVars
    <3>2. CASE Write /\ WriteRewards
      <4>1. reading.job # Idle.job BY <3>2, IdleIs DEF WriteRewards
      <4>. QED BY <3>2, <4>1 DEF Write, WriteRewards, blockVars, rowVars
    <3>. QED BY <1>8, <3>1, <3>2
  <2>2. reading'.height = reading.height BY <1>8 DEF Read, Write, SamplesInv, ReadingInv
  <2>3. Highest' = Highest BY <2>1 DEF Highest
  <2>4. BlocksInv' BY <2>1 DEF BlocksInv
  <2>5. BalancesInv' BY <2>1, <2>2, <2>3 DEF BalancesInv
  <2>. QED BY <1>1, <2>4, <2>5
<1>9. CASE Write /\ WriteBalances
  <2>1. BlocksInv' BY <1>9 DEF BlocksInv, Write, blockVars, rowVars
  <2>. QED BY <1>1, <1>9, <2>1, WriteBalancesKeeps
<1>10. CASE ResetBalances
  <2>1. blocks' = blocks /\ balances' = NoBalances /\ reading = Idle /\ reading' = Idle
    BY <1>10 DEF ResetBalances, blockVars, rowVars
  <2>2. balances' \in [Denoms -> [at : Nat, amount : Nat]] /\ \A d \in Denoms : balances'[d].at = 0
    BY <2>1 DEF NoBalances
  <2>3. Highest' = Highest BY <2>1 DEF Highest
  <2>4. PICK d \in Denoms : TRUE BY HeldAssumption
  <2>5. BlocksInv' BY <2>1 DEF BlocksInv
  <2>6. BalancesInv' BY <1>2, <2>1, <2>2, <2>3, <2>4 DEF BalancesInv
  <2>. QED BY <1>1, <2>5, <2>6
<1>11. CASE \E h \in Heights : ProjectHeight(h) /\ reading = Idle /\ UNCHANGED sampleVars
  <2>1. blocks' = blocks /\ balances' = balances /\ reading' = reading
    BY <1>11 DEF ProjectHeight, blockVars, rowVars, sampleVars
  <2>. QED BY <1>6, <2>1
<1>12. CASE GiveUp \/ Stamp \/ ResetRewards \/ UNCHANGED vars
  <2>1. blocks' = blocks /\ balances' = balances /\ reading' \in {reading, Idle}
    BY <1>12 DEF GiveUp, Stamp, ResetRewards, vars, sampleVars, blockVars, rowVars
  <2>. QED BY <1>6, <2>1
<1>. QED
  BY <1>5, <1>7, <1>8, <1>9, <1>10, <1>11, <1>12 DEF Next, Write

\* What the API shows of an address is all it held at the one height shown with
\* it, though coins come and go between samples and their rows stay - when
\* no run is given a height below the newest (SAMPLE_HEIGHT).
THEOREM ShownBalancesHold ==
    ASSUME ~SamplesAnywhere
    PROVE  Spec => []ShownBalancesAreASample
<1>1. Init => NewestInv BY SamplesInit, BalancesInit DEF NewestInv
<1>2. NewestInv /\ [Next]_vars => NewestInv' BY NewestStep
<1>3. NewestInv => ShownBalancesAreASample BY ShownFollows DEF NewestInv
<1>. QED BY <1>1, <1>2, <1>3, PTL DEF Spec

-----------------------------------------------------------------------------
(* Rows. *)

\* The rows of a height, from the chain's own record.
TxsOf(h) == {TxRow(h, i, Chain[h].txs[i]) : i \in DOMAIN Chain[h].txs}

EventsOf(h) ==
    {BlockEvent(h, e) : e \in DOMAIN Chain[h].events}
        \union UNION {{TxEvent(h, Chain[h].txs[i], e) : e \in DOMAIN Chain[h].txs[i].events} :
                         i \in DOMAIN Chain[h].txs}

IsMessageOf(h, row) ==
    \E i \in DOMAIN Chain[h].txs : \E m \in DOMAIN Chain[h].txs[i].msgs, decoded \in BOOLEAN :
        row = MessageRow(h, Chain[h].txs[i], m, decoded)

\* A message is stored, with its contents if the explorer can read them.
MessageStored(h, tx, m) ==
    \/ [tx |-> tx.hash, msg |-> None] \in unread
    \/ \E decoded \in BOOLEAN :
          /\ MessageRow(h, tx, m, decoded) \in messages
          /\ decoded \/ ~OwnModule(tx.msgs[m].type) \/ [tx |-> tx.hash, msg |-> m] \in unread

\* The tables hold the chain's rows of the stored heights, and these are the first ones.
TablesInv ==
    /\ StoredHeights = 1..Highest /\ StoredHeights \subseteq Heights
    /\ blocks = {BlockRow(h, Chain[h].txs) : h \in StoredHeights}
    /\ txs = UNION {TxsOf(h) : h \in StoredHeights}
    /\ events = UNION {EventsOf(h) : h \in StoredHeights}
    /\ \A row \in messages : \E h \in StoredHeights : IsMessageOf(h, row)
    /\ \A h \in StoredHeights : \A i \in DOMAIN Chain[h].txs :
          \A m \in DOMAIN Chain[h].txs[i].msgs : MessageStored(h, Chain[h].txs[i], m)

LEMMA SeqElement ==
    ASSUME NEW S, NEW s \in Seq(S)
    PROVE  DOMAIN s \subseteq Nat \ {0} /\ \A i \in DOMAIN s : s[i] \in S
OBVIOUS

LEMMA ChainTypes ==
    \A h \in Heights :
        /\ h \in Nat /\ h > 0
        /\ Chain[h].txs \in Seq(Transaction) /\ DOMAIN Chain[h].txs \subseteq Nat \ {0}
        /\ Chain[h].events \in Seq(STRING) /\ DOMAIN Chain[h].events \subseteq Nat \ {0}
<1>. SUFFICES ASSUME NEW h \in Heights
     PROVE  /\ h \in Nat /\ h > 0
            /\ Chain[h].txs \in Seq(Transaction) /\ DOMAIN Chain[h].txs \subseteq Nat \ {0}
            /\ Chain[h].events \in Seq(STRING) /\ DOMAIN Chain[h].events \subseteq Nat \ {0}
  OBVIOUS
<1> DEFINE Block == [txs : Seq(Transaction), events : Seq(STRING)]
<1>1. Chain \in Seq(Block) BY ChainAssumption
<1>2. h \in 1..Len(Chain) /\ h \in Nat /\ h > 0 /\ h \in DOMAIN Chain BY <1>1 DEF Heights
<1>3. Chain[h] \in Block
  <2>. HIDE DEF Block
  <2>. QED BY <1>1, <1>2, SeqElement
<1>4. Chain[h].txs \in Seq(Transaction) /\ Chain[h].events \in Seq(STRING) BY <1>3
<1>. QED BY <1>2, <1>4, SeqElement

LEMMA TxTypes ==
    \A h \in Heights : \A i \in DOMAIN Chain[h].txs :
        /\ DOMAIN Chain[h].txs[i].msgs \subseteq Nat \ {0}
        /\ DOMAIN Chain[h].txs[i].events \subseteq Nat \ {0}
        /\ Chain[h].txs[i].ok \in BOOLEAN /\ Chain[h].txs[i].body \in BOOLEAN
        /\ \A m \in DOMAIN Chain[h].txs[i].msgs : Chain[h].txs[i].msgs[m].read \in BOOLEAN
<1>. SUFFICES ASSUME NEW h \in Heights, NEW i \in DOMAIN Chain[h].txs, NEW tx, tx = Chain[h].txs[i]
     PROVE  /\ DOMAIN tx.msgs \subseteq Nat \ {0} /\ DOMAIN tx.events \subseteq Nat \ {0}
            /\ tx.ok \in BOOLEAN /\ tx.body \in BOOLEAN
            /\ \A m \in DOMAIN tx.msgs : tx.msgs[m].read \in BOOLEAN
  OBVIOUS
<1> DEFINE Message == [type : STRING, read : BOOLEAN]
           TxEvents == [type : STRING, msg : Nat]
<1>1. tx \in Transaction BY ChainTypes, SeqElement
<1>2. tx.msgs \in Seq(Message) /\ tx.events \in Seq(TxEvents) /\ tx.ok \in BOOLEAN /\ tx.body \in BOOLEAN
  BY <1>1 DEF Transaction
<1>3. DOMAIN tx.msgs \subseteq Nat \ {0} /\ DOMAIN tx.events \subseteq Nat \ {0}
      /\ \A m \in DOMAIN tx.msgs : tx.msgs[m] \in Message
  <2>. HIDE DEF Message, TxEvents
  <2>. QED BY <1>2, SeqElement
<1>. QED BY <1>2, <1>3

LEMMA OwnHash ==
    ASSUME NEW h \in Heights, NEW k \in Heights,
           NEW i \in DOMAIN Chain[h].txs, NEW j \in DOMAIN Chain[k].txs
    PROVE  /\ Chain[h].txs[i].hash # BlockTx
           /\ Chain[h].txs[i].hash = Chain[k].txs[j].hash => h = k /\ i = j
BY ChainAssumption

LEMMA SearchFinds ==
    ASSUME SearchIsWhole, NEW h \in Heights
    PROVE  SearchAnswers(h) = {Chain[h].txs}
<1>1. Chain[h].txs \in Seq(Transaction) BY ChainTypes
<1>2. SubSeq(Chain[h].txs, 1, Len(Chain[h].txs)) = Chain[h].txs BY <1>1, SubSeqFull
<1>3. Len(Chain[h].txs) \in Nat BY <1>1
<1>4. FirstPage(h) = Chain[h].txs
  <2>1. ~(PageLimit < Len(Chain[h].txs)) BY <1>3, PageAssumption DEF SearchIsWhole
  <2>. QED BY <1>2, <2>1 DEF FirstPage
<1>. QED BY <1>4 DEF SearchAnswers, SearchIsWhole

\* What a height writes into each table, when it is asked for as a whole.
LEMMA TxsWritten ==
    ASSUME NEW h \in Heights, NEW table
    PROVE  Upsert(table, [i \in DOMAIN Chain[h].txs |-> <<TxRow(h, i, Chain[h].txs[i])>>], {"hash"})
             = {t \in table : \A i \in DOMAIN Chain[h].txs : t.hash # Chain[h].txs[i].hash} \union TxsOf(h)
<1> DEFINE lists == [i \in DOMAIN Chain[h].txs |-> <<TxRow(h, i, Chain[h].txs[i])>>]
<1>1. DOMAIN lists = DOMAIN Chain[h].txs
      /\ \A i \in DOMAIN Chain[h].txs :
            DOMAIN lists[i] = {1} /\ lists[i][1] = TxRow(h, i, Chain[h].txs[i])
  OBVIOUS
<1>. HIDE DEF lists
<1>2. RowsOf(lists) = TxsOf(h) BY <1>1 DEF RowsOf, TxsOf
<1>3. \A i \in DOMAIN Chain[h].txs : \A r :
         SameKey({"hash"}, TxRow(h, i, Chain[h].txs[i]), r) <=> r.hash = Chain[h].txs[i].hash
  BY DEF SameKey, TxRow
<1>4. OneOfAKey(lists, {"hash"})
  <2>. SUFFICES ASSUME NEW i \in DOMAIN lists, NEW k \in DOMAIN lists,
                       NEW j \in DOMAIN lists[i], NEW l \in DOMAIN lists[k],
                       SameKey({"hash"}, lists[i][j], lists[k][l])
       PROVE  i = k /\ j = l
    BY DEF OneOfAKey
  <2>1. j = 1 /\ l = 1 /\ i \in DOMAIN Chain[h].txs /\ k \in DOMAIN Chain[h].txs BY <1>1
  <2>2. lists[i][j] = TxRow(h, i, Chain[h].txs[i]) /\ lists[k][l] = TxRow(h, k, Chain[h].txs[k])
    BY <1>1, <2>1
  <2>3. TxRow(h, k, Chain[h].txs[k]).hash = Chain[h].txs[i].hash BY <1>3, <2>1, <2>2
  <2>4. Chain[h].txs[i].hash = Chain[h].txs[k].hash BY <2>3 DEF TxRow
  <2>. QED BY <2>1, <2>4, OwnHash
<1>5. \A i \in DOMAIN lists : i \in Int /\ \A j \in DOMAIN lists[i] : j \in Int BY <1>1, ChainTypes
<1>6. Upsert(table, lists, {"hash"}) =
         {t \in table : \A w \in RowsOf(lists) : ~SameKey({"hash"}, w, t)} \union RowsOf(lists)
  BY <1>4, <1>5, UpsertOfDistinct
<1>7. \A t : (\A w \in TxsOf(h) : ~SameKey({"hash"}, w, t))
               <=> \A i \in DOMAIN Chain[h].txs : t.hash # Chain[h].txs[i].hash
  BY <1>3 DEF TxsOf
<1>8. Upsert(table, lists, {"hash"}) =
         {t \in table : \A i \in DOMAIN Chain[h].txs : t.hash # Chain[h].txs[i].hash} \union TxsOf(h)
  BY <1>2, <1>6, <1>7
<1>. QED BY <1>8 DEF lists

LEMMA EventsWritten ==
    ASSUME NEW h \in Heights, NEW table
    PROVE  Upsert(table, EventRows(h, Chain[h].txs), EventFields)
             = {r \in table : \A w \in EventsOf(h) : ~SameKey(EventFields, w, r)} \union EventsOf(h)
<1> DEFINE lists == EventRows(h, Chain[h].txs)
<1>1. /\ DOMAIN lists = {0} \union DOMAIN Chain[h].txs
      /\ DOMAIN lists[0] = DOMAIN Chain[h].events
      /\ \A e \in DOMAIN Chain[h].events : lists[0][e] = BlockEvent(h, e)
      /\ \A i \in DOMAIN Chain[h].txs :
            /\ i # 0 /\ DOMAIN lists[i] = DOMAIN Chain[h].txs[i].events
            /\ \A e \in DOMAIN lists[i] : lists[i][e] = TxEvent(h, Chain[h].txs[i], e)
  BY ChainTypes DEF EventRows
<1>. HIDE DEF lists
<1>2. RowsOf(lists) = EventsOf(h)
  <2>1. ASSUME NEW r \in RowsOf(lists) PROVE r \in EventsOf(h)
    <3>1. PICK i \in DOMAIN lists : \E j \in DOMAIN lists[i] : r = lists[i][j] BY <2>1 DEF RowsOf
    <3>2. CASE i = 0 BY <1>1, <3>1, <3>2 DEF EventsOf
    <3>3. CASE i \in DOMAIN Chain[h].txs BY <1>1, <3>1, <3>3 DEF EventsOf
    <3>. QED BY <1>1, <3>2, <3>3
  <2>2. ASSUME NEW r \in EventsOf(h) PROVE r \in RowsOf(lists)
    <3>1. CASE \E e \in DOMAIN Chain[h].events : r = BlockEvent(h, e)
      <4>1. 0 \in DOMAIN lists /\ \E e \in DOMAIN lists[0] : r = lists[0][e] BY <1>1, <3>1
      <4>. QED BY <4>1 DEF RowsOf
    <3>2. CASE \E i \in DOMAIN Chain[h].txs : \E e \in DOMAIN Chain[h].txs[i].events :
                  r = TxEvent(h, Chain[h].txs[i], e)
      <4>1. \E i \in DOMAIN lists : \E e \in DOMAIN lists[i] : r = lists[i][e] BY <1>1, <3>2
      <4>. QED BY <4>1 DEF RowsOf
    <3>. QED BY <2>2, <3>1, <3>2 DEF EventsOf
  <2>. QED BY <2>1, <2>2
<1>3. OneOfAKey(lists, EventFields)
  <2>. SUFFICES ASSUME NEW i \in DOMAIN lists, NEW k \in DOMAIN lists,
                       NEW j \in DOMAIN lists[i], NEW l \in DOMAIN lists[k],
                       SameKey(EventFields, lists[i][j], lists[k][l])
       PROVE  i = k /\ j = l
    BY DEF OneOfAKey
  <2>1. lists[i][j].tx = lists[k][l].tx /\ lists[i][j].index = lists[k][l].index
    BY DEF SameKey, EventFields
  <2>2. ASSUME NEW x \in DOMAIN lists, NEW y \in DOMAIN lists[x]
        PROVE  /\ lists[x][y].index = y
               /\ lists[x][y].tx = IF x = 0 THEN BlockTx ELSE Chain[h].txs[x].hash
    <3>1. CASE x = 0
      <4>1. y \in DOMAIN Chain[h].events /\ lists[x][y] = BlockEvent(h, y) BY <1>1, <3>1
      <4>. QED BY <3>1, <4>1 DEF BlockEvent
    <3>2. CASE x # 0
      <4>1. x \in DOMAIN Chain[h].txs /\ lists[x][y] = TxEvent(h, Chain[h].txs[x], y) BY <1>1, <3>2
      <4>. QED BY <3>2, <4>1 DEF TxEvent
    <3>. QED BY <3>1, <3>2
  <2>3. j = l BY <2>1, <2>2
  <2>4. (IF i = 0 THEN BlockTx ELSE Chain[h].txs[i].hash) = IF k = 0 THEN BlockTx ELSE Chain[h].txs[k].hash
    BY <2>1, <2>2
  <2>5. i = k BY <1>1, <2>4, OwnHash
  <2>. QED BY <2>3, <2>5
<1>4. \A i \in DOMAIN lists : i \in Int /\ \A j \in DOMAIN lists[i] : j \in Int
  <2>1. \A i \in DOMAIN Chain[h].txs : i \in Int /\ \A j \in DOMAIN lists[i] : j \in Int
    BY <1>1, ChainTypes, TxTypes
  <2>2. \A j \in DOMAIN lists[0] : j \in Int BY <1>1, ChainTypes
  <2>. QED BY <1>1, <2>1, <2>2
<1>5. Upsert(table, lists, EventFields) =
         {r \in table : \A w \in RowsOf(lists) : ~SameKey(EventFields, w, r)} \union RowsOf(lists)
  BY <1>3, <1>4, UpsertOfDistinct
<1>. QED BY <1>2, <1>5 DEF lists

\* The messages made of a height, by either reading of it.
IsReading(h, messagesOf) ==
    /\ DOMAIN messagesOf = DOMAIN Chain[h].txs
    /\ \A i \in DOMAIN Chain[h].txs :
          /\ DOMAIN messagesOf[i] \subseteq DOMAIN Chain[h].txs[i].msgs
          /\ \A m \in DOMAIN messagesOf[i] : \E decoded \in BOOLEAN :
                messagesOf[i][m] = MessageRow(h, Chain[h].txs[i], m, decoded)

MessageFields == {"tx", "index"}

LEMMA MessagesWritten ==
    ASSUME NEW h \in Heights, NEW messagesOf, IsReading(h, messagesOf), NEW table
    PROVE  Upsert(table, messagesOf, MessageFields)
             = {r \in table : \A w \in RowsOf(messagesOf) : ~SameKey(MessageFields, w, r)} \union RowsOf(messagesOf)
<1>1. OneOfAKey(messagesOf, MessageFields)
  <2>. SUFFICES ASSUME NEW i \in DOMAIN messagesOf, NEW k \in DOMAIN messagesOf,
                       NEW j \in DOMAIN messagesOf[i], NEW l \in DOMAIN messagesOf[k],
                       SameKey(MessageFields, messagesOf[i][j], messagesOf[k][l])
       PROVE  i = k /\ j = l
    BY DEF OneOfAKey
  <2>1. messagesOf[i][j].tx = messagesOf[k][l].tx /\ messagesOf[i][j].index = messagesOf[k][l].index
    BY DEF SameKey, MessageFields
  <2>2. ASSUME NEW x \in DOMAIN messagesOf, NEW y \in DOMAIN messagesOf[x]
        PROVE  x \in DOMAIN Chain[h].txs /\ messagesOf[x][y].index = y
               /\ messagesOf[x][y].tx = Chain[h].txs[x].hash
    <3>1. x \in DOMAIN Chain[h].txs /\ \E decoded \in BOOLEAN :
             messagesOf[x][y] = MessageRow(h, Chain[h].txs[x], y, decoded)
      BY DEF IsReading
    <3>. QED BY <3>1 DEF MessageRow
  <2>. QED BY <2>1, <2>2, OwnHash
<1>2. \A i \in DOMAIN messagesOf : i \in Int /\ \A j \in DOMAIN messagesOf[i] : j \in Int
  BY ChainTypes, TxTypes DEF IsReading
<1>. QED BY <1>1, <1>2, UpsertOfDistinct

\* The blocks stay the first ones: none is skipped.
LEMMA BlocksStep ==
    ASSUME TablesInv, BlocksInv, NEW h \in Heights, Reachable(h),
           blocks' = {b \in blocks : b.height # h} \union {BlockRow(h, Chain[h].txs)}
    PROVE  /\ StoredHeights' = 1..Highest' /\ StoredHeights' = StoredHeights \union {h}
           /\ blocks' = {BlockRow(k, Chain[k].txs) : k \in StoredHeights'}
<1>1. StoredHeights = 1..Highest /\ blocks = {BlockRow(k, Chain[k].txs) : k \in StoredHeights}
  BY DEF TablesInv
<1>2. \A k : BlockRow(k, Chain[k].txs).height = k BY DEF BlockRow
<1>3. blocks' = {BlockRow(k, Chain[k].txs) : k \in StoredHeights \union {h}} BY <1>1, <1>2
<1>4. StoredHeights' = StoredHeights \union {h} BY <1>2, <1>3 DEF StoredHeights
<1>5. Highest \in Nat /\ h \in Nat /\ h > 0 /\ h <= Highest + 1
  BY FS_CardinalityType, ChainTypes DEF Highest, BlocksInv, Reachable
<1>6. StoredHeights' = 1..Highest'
  <2>1. CASE h <= Highest
    <3>1. h \in StoredHeights BY <1>1, <1>5, <2>1
    <3>2. blocks' = blocks BY <1>1, <1>3, <3>1
    <3>. QED BY <1>1, <1>4, <3>1, <3>2 DEF Highest
  <2>2. CASE h = Highest + 1
    <3>1. h \notin StoredHeights BY <1>1, <1>5, <2>2
    <3>2. BlockRow(h, Chain[h].txs) \notin blocks /\ blocks' = blocks \union {BlockRow(h, Chain[h].txs)}
      BY <1>1, <1>2, <1>3, <3>1
    <3>3. Highest' = Highest + 1 BY <3>2, FS_AddElement DEF Highest, BlocksInv
    <3>. QED BY <1>1, <1>4, <1>5, <2>2, <3>3
  <2>. QED BY <1>5, <2>1, <2>2
<1>. QED BY <1>3, <1>4, <1>6

LEMMA EventHeight == \A h, row : row \in EventsOf(h) => row.height = h
BY DEF EventsOf, BlockEvent, TxEvent

LEMMA RowsStep ==
    ASSUME TablesInv, NEW h \in Heights, StoredHeights' = StoredHeights \union {h},
           txs' = {t \in txs : \A i \in DOMAIN Chain[h].txs : t.hash # Chain[h].txs[i].hash} \union TxsOf(h),
           events' = {r \in events : \A w \in EventsOf(h) : ~SameKey(EventFields, w, r)} \union EventsOf(h)
    PROVE  /\ txs' = UNION {TxsOf(k) : k \in StoredHeights'}
           /\ events' = UNION {EventsOf(k) : k \in StoredHeights'}
<1>1. txs = UNION {TxsOf(k) : k \in StoredHeights} /\ events = UNION {EventsOf(k) : k \in StoredHeights}
      /\ StoredHeights \subseteq Heights
  BY DEF TablesInv
<1>2. txs' = txs \union TxsOf(h)
  <2>. SUFFICES ASSUME NEW t \in txs, NEW i \in DOMAIN Chain[h].txs, t.hash = Chain[h].txs[i].hash
       PROVE  t \in TxsOf(h)
    OBVIOUS
  <2>1. PICK k \in StoredHeights : \E j \in DOMAIN Chain[k].txs : t = TxRow(k, j, Chain[k].txs[j])
    BY <1>1 DEF TxsOf
  <2>2. PICK j \in DOMAIN Chain[k].txs : t = TxRow(k, j, Chain[k].txs[j]) BY <2>1
  <2>3. t.hash = Chain[k].txs[j].hash BY <2>2 DEF TxRow
  <2>4. k \in Heights /\ Chain[k].txs[j].hash = Chain[h].txs[i].hash BY <1>1, <2>3
  <2>5. k = h /\ j = i BY <2>4, OwnHash
  <2>. QED BY <2>2, <2>5 DEF TxsOf
<1>3. events' = events \union EventsOf(h)
  <2>. SUFFICES ASSUME NEW r \in events, NEW w \in EventsOf(h), SameKey(EventFields, w, r)
       PROVE  r \in EventsOf(h)
    OBVIOUS
  <2>1. PICK k \in StoredHeights : r \in EventsOf(k) BY <1>1
  <2>2. r.height = k /\ w.height = h BY <2>1, EventHeight
  <2>3. w.height = r.height BY DEF SameKey, EventFields
  <2>. QED BY <2>1, <2>2, <2>3
<1>. QED BY <1>1, <1>2, <1>3

LEMMA MessagesStep ==
    ASSUME TablesInv, NEW h \in Heights, StoredHeights' = StoredHeights \union {h},
           NEW messagesOf, IsReading(h, messagesOf),
           messages' = {r \in messages : \A w \in RowsOf(messagesOf) : ~SameKey(MessageFields, w, r)}
                           \union RowsOf(messagesOf),
           unread \subseteq unread',
           \A i \in DOMAIN Chain[h].txs : \A m \in DOMAIN Chain[h].txs[i].msgs :
               \/ [tx |-> Chain[h].txs[i].hash, msg |-> None] \in unread'
               \/ /\ m \in DOMAIN messagesOf[i]
                  /\ \/ messagesOf[i][m].decoded \/ ~OwnModule(Chain[h].txs[i].msgs[m].type)
                     \/ [tx |-> Chain[h].txs[i].hash, msg |-> m] \in unread'
    PROVE  /\ \A row \in messages' : \E k \in StoredHeights' : IsMessageOf(k, row)
           /\ \A k \in StoredHeights' : \A i \in DOMAIN Chain[k].txs :
                 \A m \in DOMAIN Chain[k].txs[i].msgs : MessageStored(k, Chain[k].txs[i], m)'
<1>0. StoredHeights \subseteq Heights BY DEF TablesInv
<1>1. ASSUME NEW w \in RowsOf(messagesOf)
      PROVE  IsMessageOf(h, w) /\ \E i \in DOMAIN Chain[h].txs : w.tx = Chain[h].txs[i].hash
  <2>1. PICK i \in DOMAIN messagesOf : \E m \in DOMAIN messagesOf[i] : w = messagesOf[i][m]
    BY <1>1 DEF RowsOf
  <2>2. PICK m \in DOMAIN messagesOf[i] : w = messagesOf[i][m] BY <2>1
  <2>3. i \in DOMAIN Chain[h].txs /\ m \in DOMAIN Chain[h].txs[i].msgs BY DEF IsReading
  <2>4. PICK decoded \in BOOLEAN : w = MessageRow(h, Chain[h].txs[i], m, decoded)
    BY <2>2, <2>3 DEF IsReading
  <2>5. w.tx = Chain[h].txs[i].hash BY <2>4 DEF MessageRow
  <2>. QED BY <2>3, <2>4, <2>5 DEF IsMessageOf
<1>2. ASSUME NEW row \in messages' PROVE \E k \in StoredHeights' : IsMessageOf(k, row)
  BY <1>1, <1>2 DEF TablesInv
<1>3. ASSUME NEW k \in StoredHeights', NEW i \in DOMAIN Chain[k].txs, NEW m \in DOMAIN Chain[k].txs[i].msgs
      PROVE  MessageStored(k, Chain[k].txs[i], m)'
  <2>1. CASE k = h
    <3>1. CASE [tx |-> Chain[h].txs[i].hash, msg |-> None] \in unread'
      BY <2>1, <3>1 DEF MessageStored
    <3>2. CASE /\ m \in DOMAIN messagesOf[i]
               /\ \/ messagesOf[i][m].decoded \/ ~OwnModule(Chain[h].txs[i].msgs[m].type)
                  \/ [tx |-> Chain[h].txs[i].hash, msg |-> m] \in unread'
      <4>1. PICK decoded \in BOOLEAN : messagesOf[i][m] = MessageRow(h, Chain[h].txs[i], m, decoded)
        BY <2>1, <3>2 DEF IsReading
      <4>2. messagesOf[i][m].decoded = decoded BY <4>1 DEF MessageRow
      <4>3. messagesOf[i][m] \in messages' BY <2>1, <3>2 DEF RowsOf, IsReading
      <4>. QED BY <2>1, <3>2, <4>1, <4>2, <4>3 DEF MessageStored
    <3>. QED BY <2>1, <3>1, <3>2
  <2>2. CASE k # h
    <3>1. k \in StoredHeights BY <2>2
    <3>2. MessageStored(k, Chain[k].txs[i], m) BY <3>1 DEF TablesInv
    <3>3. ASSUME NEW decoded \in BOOLEAN, MessageRow(k, Chain[k].txs[i], m, decoded) \in messages
          PROVE  MessageRow(k, Chain[k].txs[i], m, decoded) \in messages'
      <4>. DEFINE r == MessageRow(k, Chain[k].txs[i], m, decoded)
      <4>1. r.tx = Chain[k].txs[i].hash BY DEF MessageRow
      <4>2. ASSUME NEW w \in RowsOf(messagesOf) PROVE ~SameKey(MessageFields, w, r)
        <5>1. PICK j \in DOMAIN Chain[h].txs : w.tx = Chain[h].txs[j].hash BY <1>1
        <5>2. w.tx # r.tx BY <1>0, <2>2, <3>1, <4>1, <5>1, OwnHash
        <5>. QED BY <5>2 DEF SameKey, MessageFields
      <4>. QED BY <3>3, <4>2
    <3>. QED BY <3>2, <3>3 DEF MessageStored
  <2>. QED BY <2>1, <2>2
<1>. QED BY <1>2, <1>3

\* Whatever reading a height is ingested from, and however often.
LEMMA IngestKeeps ==
    ASSUME TablesInv, BlocksInv, NEW h \in Heights, Reachable(h),
           NEW messagesOf, IsReading(h, messagesOf), WriteRows(h, Chain[h].txs, messagesOf),
           unread \subseteq unread',
           \A i \in DOMAIN Chain[h].txs : \A m \in DOMAIN Chain[h].txs[i].msgs :
               \/ [tx |-> Chain[h].txs[i].hash, msg |-> None] \in unread'
               \/ /\ m \in DOMAIN messagesOf[i]
                  /\ \/ messagesOf[i][m].decoded \/ ~OwnModule(Chain[h].txs[i].msgs[m].type)
                     \/ [tx |-> Chain[h].txs[i].hash, msg |-> m] \in unread'
    PROVE  TablesInv'
<1>1. blocks' = {b \in blocks : b.height # h} \union {BlockRow(h, Chain[h].txs)}
  <2>1. blocks' = {b \in blocks : b.height # BlockRow(h, Chain[h].txs).height} \union {BlockRow(h, Chain[h].txs)}
    BY BlocksWritten DEF WriteRows
  <2>2. BlockRow(h, Chain[h].txs).height = h BY DEF BlockRow
  <2>. QED BY <2>1, <2>2
<1>2. /\ StoredHeights' = 1..Highest' /\ StoredHeights' = StoredHeights \union {h}
      /\ blocks' = {BlockRow(k, Chain[k].txs) : k \in StoredHeights'}
  BY <1>1, BlocksStep
<1>3. /\ txs' = UNION {TxsOf(k) : k \in StoredHeights'}
      /\ events' = UNION {EventsOf(k) : k \in StoredHeights'}
  BY <1>2, TxsWritten, EventsWritten, RowsStep DEF WriteRows
<1>4. messages' = {r \in messages : \A w \in RowsOf(messagesOf) : ~SameKey(MessageFields, w, r)}
                      \union RowsOf(messagesOf)
  BY MessagesWritten DEF WriteRows, MessageFields
<1>5. /\ \A row \in messages' : \E k \in StoredHeights' : IsMessageOf(k, row)
      /\ \A k \in StoredHeights' : \A i \in DOMAIN Chain[k].txs :
            \A m \in DOMAIN Chain[k].txs[i].msgs : MessageStored(k, Chain[k].txs[i], m)'
  BY <1>2, <1>4, MessagesStep
<1>6. StoredHeights' \subseteq Heights BY <1>2 DEF TablesInv
<1>. QED BY <1>2, <1>3, <1>5, <1>6 DEF TablesInv


\* Either reading of a height is a whole one.
LEMMA TablesStep ==
    ASSUME SearchIsWhole, TablesInv, BlocksInv, BlockNext
    PROVE  TablesInv' /\ StoredHeights \subseteq StoredHeights' /\ unread \subseteq unread'
<1>0. ASSUME NEW h \in Heights, Reachable(h), NEW messagesOf, WriteRows(h, Chain[h].txs, messagesOf)
      PROVE  StoredHeights \subseteq StoredHeights'
  <2>1. blocks' = {b \in blocks : b.height # BlockRow(h, Chain[h].txs).height} \union {BlockRow(h, Chain[h].txs)}
    BY <1>0, BlocksWritten DEF WriteRows
  <2>2. BlockRow(h, Chain[h].txs).height = h BY DEF BlockRow
  <2>3. blocks' = {b \in blocks : b.height # h} \union {BlockRow(h, Chain[h].txs)} BY <2>1, <2>2
  <2>. QED BY <1>0, <2>3, BlocksStep
<1>1. ASSUME NEW h \in Heights, IngestSearched(h)
      PROVE  TablesInv' /\ StoredHeights \subseteq StoredHeights' /\ unread \subseteq unread'
  <2> DEFINE found == Chain[h].txs
             messagesOf == [i \in DOMAIN found |-> SearchedMessages(h, found[i])]
  <2>1. Reachable(h) /\ WriteRows(h, found, messagesOf) /\ unread' = unread
    BY <1>1, SearchFinds DEF IngestSearched
  <2>2. /\ DOMAIN messagesOf = DOMAIN found
        /\ \A i \in DOMAIN found :
              /\ DOMAIN messagesOf[i] = DOMAIN found[i].msgs
              /\ \A m \in DOMAIN found[i].msgs :
                    messagesOf[i][m] = MessageRow(h, found[i], m, OwnModule(found[i].msgs[m].type))
    BY DEF SearchedMessages
  <2>. HIDE DEF messagesOf
  <2>3. IsReading(h, messagesOf) BY <2>2 DEF IsReading, OwnModule
  <2>4. ASSUME NEW i \in DOMAIN found, NEW m \in DOMAIN found[i].msgs
        PROVE  m \in DOMAIN messagesOf[i]
                  /\ (messagesOf[i][m].decoded \/ ~OwnModule(found[i].msgs[m].type))
    <3>1. messagesOf[i][m] = MessageRow(h, found[i], m, OwnModule(found[i].msgs[m].type)) BY <2>2
    <3>2. messagesOf[i][m].decoded = OwnModule(found[i].msgs[m].type) BY <3>1 DEF MessageRow
    <3>. QED BY <2>2, <3>2
  <2>5. TablesInv' BY <2>1, <2>3, <2>4, IngestKeeps
  <2>. QED BY <1>0, <2>1, <2>5
<1>2. ASSUME NEW h \in Heights, IngestLookedUp(h)
      PROVE  TablesInv' /\ StoredHeights \subseteq StoredHeights' /\ unread \subseteq unread'
  <2> DEFINE found == Chain[h].txs
             messagesOf == [i \in DOMAIN found |-> LookedUpMessages(h, found[i])]
  <2>1. Reachable(h) /\ WriteRows(h, found, messagesOf)
        /\ unread' = unread \union UNION {DecodeFailuresOf(found[i]) : i \in DOMAIN found}
    BY <1>2 DEF IngestLookedUp
  <2>2. /\ DOMAIN messagesOf = DOMAIN found
        /\ \A i \in DOMAIN found :
              /\ ~found[i].body => DOMAIN messagesOf[i] = {}
              /\ found[i].body =>
                    /\ DOMAIN messagesOf[i] = DOMAIN found[i].msgs
                    /\ \A m \in DOMAIN found[i].msgs :
                          messagesOf[i][m] = MessageRow(h, found[i], m, found[i].msgs[m].read)
    BY DEF LookedUpMessages
  <2>. HIDE DEF messagesOf
  <2>3. IsReading(h, messagesOf) BY <2>2, TxTypes DEF IsReading
  <2>4. ASSUME NEW i \in DOMAIN found, NEW m \in DOMAIN found[i].msgs
        PROVE  \/ [tx |-> found[i].hash, msg |-> None] \in unread'
               \/ /\ m \in DOMAIN messagesOf[i]
                  /\ \/ messagesOf[i][m].decoded \/ ~OwnModule(found[i].msgs[m].type)
                     \/ [tx |-> found[i].hash, msg |-> m] \in unread'
    <3>1. DecodeFailuresOf(found[i]) \subseteq unread' BY <2>1
    <3>2. CASE ~found[i].body
      <4>1. [tx |-> found[i].hash, msg |-> None] \in DecodeFailuresOf(found[i])
        BY <3>2 DEF DecodeFailuresOf
      <4>. QED BY <3>1, <4>1
    <3>3. CASE found[i].body
      <4>1. m \in DOMAIN messagesOf[i] /\ messagesOf[i][m] = MessageRow(h, found[i], m, found[i].msgs[m].read)
        BY <2>2, <3>3
      <4>2. messagesOf[i][m].decoded = found[i].msgs[m].read BY <4>1 DEF MessageRow
      <4>3. ~found[i].msgs[m].read => [tx |-> found[i].hash, msg |-> m] \in DecodeFailuresOf(found[i])
        BY <3>3 DEF DecodeFailuresOf
      <4>. QED BY <3>1, <4>1, <4>2, <4>3
    <3>. QED BY <3>2, <3>3
  <2>5. TablesInv' BY <2>1, <2>3, <2>4, IngestKeeps
  <2>. QED BY <1>0, <2>1, <2>5
<1>3. CASE Produce
  <2>1. UNCHANGED rowVars BY <1>3 DEF Produce
  <2>2. TablesInv' BY <2>1 DEF TablesInv, rowVars, StoredHeights, Highest, MessageStored
  <2>. QED BY <2>1, <2>2 DEF rowVars, StoredHeights
<1>. QED BY <1>1, <1>2, <1>3 DEF BlockNext

LEMMA TablesInit == Init => TablesInv
<1>. SUFFICES ASSUME Init PROVE TablesInv
  OBVIOUS
<1>1. blocks = {} /\ txs = {} /\ messages = {} /\ events = {} BY DEF Init, BlockInit
<1>2. Highest = 0 /\ StoredHeights = {} BY <1>1, FS_EmptySet DEF Highest, StoredHeights
<1>. QED BY <1>1, <1>2 DEF TablesInv

LEMMA TablesAreWhole == TablesInv => StoredBlockIsWhole
<1>. SUFFICES ASSUME TablesInv PROVE StoredBlockIsWhole
  OBVIOUS
<1>. SUFFICES ASSUME NEW h \in StoredHeights
     PROVE  /\ BlockRow(h, Chain[h].txs) \in blocks
            /\ \A i \in DOMAIN Chain[h].txs :
                  /\ TxRow(h, i, Chain[h].txs[i]) \in txs
                  /\ \A m \in DOMAIN Chain[h].txs[i].msgs : MessageStored(h, Chain[h].txs[i], m)
                  /\ \A e \in DOMAIN Chain[h].txs[i].events : TxEvent(h, Chain[h].txs[i], e) \in events
            /\ \A e \in DOMAIN Chain[h].events : BlockEvent(h, e) \in events
  BY DEF StoredBlockIsWhole, MessageStored
<1>1. TxsOf(h) \subseteq txs /\ EventsOf(h) \subseteq events BY DEF TablesInv
<1>2. \A i \in DOMAIN Chain[h].txs : TxRow(h, i, Chain[h].txs[i]) \in TxsOf(h) BY DEF TxsOf
<1>3. \A e \in DOMAIN Chain[h].events : BlockEvent(h, e) \in EventsOf(h) BY DEF EventsOf
<1>4. \A i \in DOMAIN Chain[h].txs : \A e \in DOMAIN Chain[h].txs[i].events :
         TxEvent(h, Chain[h].txs[i], e) \in EventsOf(h)
  BY DEF EventsOf
<1>. QED BY <1>1, <1>2, <1>3, <1>4 DEF TablesInv

RowsInv == TablesInv /\ BlocksInv

\* A height that is stored has all of its block's rows, and stays so when it is
\* ingested again from the other reading - when the search has the whole of it.
THEOREM StoredBlocksHold ==
    ASSUME SearchIsWhole
    PROVE  Spec => []StoredBlockIsWhole
<1>1. Init => RowsInv BY TablesInit, BalancesInit DEF RowsInv
<1>2. RowsInv /\ [Next]_vars => RowsInv'
  <2>1. ASSUME RowsInv, BlockNext PROVE RowsInv' BY <2>1, TablesStep, BlocksGrow DEF RowsInv
  <2>2. ASSUME RowsInv, UNCHANGED rowVars PROVE RowsInv'
    BY <2>2 DEF RowsInv, TablesInv, BlocksInv, rowVars, StoredHeights, Highest, MessageStored
  <2>3. [Next]_vars => BlockNext \/ UNCHANGED rowVars
    BY DEF Next, vars, blockVars, ProjectHeight, StartSample, Read, GiveUp, Write, Stamp, ResetRewards,
           ResetBalances
  <2>. QED BY <2>1, <2>2, <2>3
<1>3. RowsInv => StoredBlockIsWhole BY TablesAreWhole DEF RowsInv
<1>. QED BY <1>1, <1>2, <1>3, PTL DEF Spec

-----------------------------------------------------------------------------
(* What a message and an event of the chain leave in the history. *)

\* The messages of a transaction the projection reads.
Asking(tx) == {m \in DOMAIN tx.msgs : tx.msgs[m].type \in MessageTypes}

\* The events of a type that may confirm a message.
Fitting(tx, m, type) ==
    {e \in DOMAIN tx.events : tx.events[e].type = type /\ tx.events[e].msg \in {None, m}}

AnswerTo(tx, m) ==
    IF tx.msgs[m].type = "update" THEN IF Fitting(tx, m, "queued") # {} THEN "queued" ELSE "activated"
    ELSE IF tx.msgs[m].type = "pause" THEN "paused" ELSE "resumed"

Answers(tx, m) == Fitting(tx, m, AnswerTo(tx, m))

Least(set) == CHOOSE e \in set : \A x \in set : e <= x

ClaimedBy(h, tx, m) == IF Answers(tx, m) = {} THEN NoEvent ELSE <<h, tx.hash, Least(Answers(tx, m))>>

ChangeBy(h, tx, m) ==
    Change(IF Answers(tx, m) # {} THEN AnswerTo(tx, m)
           ELSE IF tx.msgs[m].type = "update" THEN "direct" ELSE tx.msgs[m].type,
           <<tx.hash, m>>, ClaimedBy(h, tx, m))

\* The events of a height that are not of a failed transaction.
Kept(h) ==
    {BlockEvent(h, e) : e \in DOMAIN Chain[h].events}
        \union UNION {{TxEvent(h, Chain[h].txs[i], e) : e \in DOMAIN Chain[h].txs[i].events} :
                         i \in Accepted(h)}

LEMMA LeastIs ==
    ASSUME NEW set \in SUBSET Nat, set # {}
    PROVE  Least(set) \in set /\ \A x \in set : Least(set) <= x
<1>1. \E e \in set : \A x \in set : e <= x
  <2>1. IsWellFoundedOn(OpToRel(<, Nat), Nat) BY NatLessThanWellFounded
  <2>2. PICK e \in set : \A x \in set : ~(<<x, e>> \in OpToRel(<, Nat))
    BY <2>1, WFMin
  <2>3. \A x \in set : ~(x < e) BY <2>2 DEF OpToRel
  <2>. QED BY <2>3
<1>. QED BY <1>1 DEF Least

LEMMA StoredRows ==
    ASSUME TablesInv, NEW h \in StoredHeights
    PROVE  /\ Successful(h) = {Chain[h].txs[i].hash : i \in Accepted(h)}
           /\ EventsAt(h) = Kept(h)
<1>1. StoredHeights \subseteq Heights /\ txs = UNION {TxsOf(k) : k \in StoredHeights}
      /\ events = UNION {EventsOf(k) : k \in StoredHeights}
  BY DEF TablesInv
<1>2. \A k : \A t \in TxsOf(k) : t.height = k BY DEF TxsOf, TxRow
<1>3. {x \in txs : x.height = h /\ x.ok} = {t \in TxsOf(h) : t.ok} BY <1>1, <1>2
<1>4. Successful(h) = {t.hash : t \in {x \in TxsOf(h) : x.ok}} BY <1>3 DEF Successful
<1>5. Successful(h) = {Chain[h].txs[i].hash : i \in Accepted(h)}
  <2>1. ASSUME NEW i \in DOMAIN Chain[h].txs
        PROVE  /\ TxRow(h, i, Chain[h].txs[i]).hash = Chain[h].txs[i].hash
               /\ TxRow(h, i, Chain[h].txs[i]).ok = Chain[h].txs[i].ok
    BY DEF TxRow
  <2>2. ASSUME NEW hash \in Successful(h) PROVE \E i \in Accepted(h) : hash = Chain[h].txs[i].hash
    BY <1>4, <2>1 DEF TxsOf, Accepted
  <2>3. ASSUME NEW i \in Accepted(h) PROVE Chain[h].txs[i].hash \in Successful(h)
    <3>1. i \in DOMAIN Chain[h].txs /\ Chain[h].txs[i].ok BY DEF Accepted
    <3>2. TxRow(h, i, Chain[h].txs[i]) \in {x \in TxsOf(h) : x.ok} BY <2>1, <3>1 DEF TxsOf
    <3>. QED BY <1>4, <2>1, <3>1, <3>2
  <2>. QED BY <2>2, <2>3
<1>6. {e \in events : e.height = h} = EventsOf(h) BY <1>1, EventHeight
<1>7. EventsAt(h) = {e \in EventsOf(h) : e.tx = BlockTx \/ e.tx \in Successful(h)}
  BY <1>6, EventHeight DEF EventsAt, FromFailed
<1>8. ASSUME NEW e \in DOMAIN Chain[h].events PROVE BlockEvent(h, e).tx = BlockTx
  BY DEF BlockEvent
<1>9. ASSUME NEW i \in DOMAIN Chain[h].txs, NEW e \in DOMAIN Chain[h].txs[i].events
      PROVE  /\ TxEvent(h, Chain[h].txs[i], e).tx # BlockTx
             /\ TxEvent(h, Chain[h].txs[i], e).tx \in Successful(h) <=> i \in Accepted(h)
  <2>1. TxEvent(h, Chain[h].txs[i], e).tx = Chain[h].txs[i].hash BY DEF TxEvent
  <2>2. Chain[h].txs[i].hash # BlockTx
        /\ \A j \in DOMAIN Chain[h].txs : Chain[h].txs[i].hash = Chain[h].txs[j].hash => i = j
    BY <1>1, OwnHash
  <2>. QED BY <1>5, <2>1, <2>2 DEF Accepted
<1>10. EventsAt(h) = Kept(h)
  <2>1. ASSUME NEW e \in EventsAt(h) PROVE e \in Kept(h)
    <3>1. e \in EventsOf(h) /\ (e.tx = BlockTx \/ e.tx \in Successful(h)) BY <1>7
    <3>. QED BY <1>9, <3>1 DEF EventsOf, Kept
  <2>2. ASSUME NEW e \in Kept(h) PROVE e \in EventsAt(h)
    <3>1. Accepted(h) \subseteq DOMAIN Chain[h].txs BY DEF Accepted
    <3>. QED BY <1>7, <1>8, <1>9, <3>1 DEF EventsOf, Kept
  <2>. QED BY <2>1, <2>2
<1>. QED BY <1>5, <1>10

LEMMA StoredMessages ==
    ASSUME TablesInv, NEW h \in StoredHeights
    PROVE  /\ \A row \in MessagesAt(h) :
                 /\ row \in messages
                 /\ \E i \in Accepted(h) : \E m \in Asking(Chain[h].txs[i]), decoded \in BOOLEAN :
                       row = MessageRow(h, Chain[h].txs[i], m, decoded)
           /\ \A i \in Accepted(h) : \A m \in Asking(Chain[h].txs[i]), decoded \in BOOLEAN :
                 MessageRow(h, Chain[h].txs[i], m, decoded) \in messages
                    => MessageRow(h, Chain[h].txs[i], m, decoded) \in MessagesAt(h)
<1>0. StoredHeights \subseteq Heights /\ Accepted(h) \subseteq DOMAIN Chain[h].txs BY DEF TablesInv, Accepted
<1>1. ASSUME NEW row \in MessagesAt(h)
      PROVE  \E i \in Accepted(h) : \E m \in Asking(Chain[h].txs[i]), decoded \in BOOLEAN :
                 row = MessageRow(h, Chain[h].txs[i], m, decoded)
  <2>1. row \in messages /\ row.height = h /\ row.tx \in Successful(h) /\ row.type \in MessageTypes
    BY DEF MessagesAt
  <2>2. PICK k \in StoredHeights : IsMessageOf(k, row) BY <2>1 DEF TablesInv
  <2>3. PICK i \in DOMAIN Chain[k].txs :
               \E m \in DOMAIN Chain[k].txs[i].msgs, decoded \in BOOLEAN :
                  row = MessageRow(k, Chain[k].txs[i], m, decoded)
    BY <2>2 DEF IsMessageOf
  <2>4. PICK m \in DOMAIN Chain[k].txs[i].msgs, decoded \in BOOLEAN :
               row = MessageRow(k, Chain[k].txs[i], m, decoded)
    BY <2>3
  <2>5. row.height = k /\ row.tx = Chain[k].txs[i].hash /\ row.type = Chain[k].txs[i].msgs[m].type
    BY <2>4 DEF MessageRow
  <2>6. k = h BY <2>1, <2>5
  <2>7. PICK j \in Accepted(h) : row.tx = Chain[h].txs[j].hash BY <2>1, StoredRows
  <2>8. i = j BY <1>0, <2>5, <2>6, <2>7, OwnHash
  <2>9. m \in Asking(Chain[h].txs[i]) BY <2>1, <2>5, <2>6 DEF Asking
  <2>. QED BY <2>4, <2>6, <2>7, <2>8, <2>9
<1>2. ASSUME NEW i \in Accepted(h), NEW m \in Asking(Chain[h].txs[i]), NEW decoded \in BOOLEAN,
             MessageRow(h, Chain[h].txs[i], m, decoded) \in messages
      PROVE  MessageRow(h, Chain[h].txs[i], m, decoded) \in MessagesAt(h)
  <2> DEFINE row == MessageRow(h, Chain[h].txs[i], m, decoded)
  <2>1. row.height = h /\ row.tx = Chain[h].txs[i].hash /\ row.type = Chain[h].txs[i].msgs[m].type
    BY DEF MessageRow
  <2>2. row.tx \in Successful(h) BY <2>1, StoredRows
  <2>. QED BY <1>2, <2>1, <2>2 DEF MessagesAt, Asking
<1>. QED BY <1>1, <1>2 DEF MessagesAt

\* What confirms a stored message is what the chain's own record answers it with.
LEMMA Confirming ==
    ASSUME TablesInv, NEW h \in StoredHeights, NEW i \in Accepted(h),
           NEW m \in Asking(Chain[h].txs[i]), NEW decoded \in BOOLEAN
    PROVE  LET tx == Chain[h].txs[i]
               row == MessageRow(h, tx, m, decoded) IN
           /\ ConfirmingEvent(row) = ClaimedBy(h, tx, m)
           /\ ChangeOf(row) = ChangeBy(h, tx, m)
           /\ IsConfirmed(row) <=> Answers(tx, m) # {}
<1> DEFINE tx == Chain[h].txs[i]
           row == MessageRow(h, tx, m, decoded)
           Confirmers(type) == {e \in OfType(EventsAt(h), type) : Confirms(e, row)}
<1>1. h \in Heights /\ i \in DOMAIN Chain[h].txs /\ EventsAt(h) = Kept(h)
  BY StoredRows DEF TablesInv, Accepted
<1>2. /\ row.height = h /\ row.tx = tx.hash /\ row.index = m /\ row.type = tx.msgs[m].type
      /\ row.type \in MessageTypes
  BY DEF MessageRow, Asking
<1>3. DOMAIN tx.events \subseteq Nat BY <1>1, TxTypes
<1>. HIDE DEF row
<1>4. ASSUME NEW e \in DOMAIN tx.events
      PROVE  /\ TxEvent(h, tx, e).height = h /\ TxEvent(h, tx, e).tx = tx.hash
             /\ TxEvent(h, tx, e).index = e /\ TxEvent(h, tx, e).type = tx.events[e].type
             /\ TxEvent(h, tx, e).msg = tx.events[e].msg /\ TxEvent(h, tx, e) \in Kept(h)
  <2>1. TxEvent(h, tx, e) \in Kept(h) BY DEF Kept
  <2>. QED BY <2>1 DEF TxEvent
<1>5. ASSUME NEW r \in Kept(h), r.tx = tx.hash
      PROVE  \E e \in DOMAIN tx.events : r = TxEvent(h, tx, e)
  <2>1. ASSUME NEW e \in DOMAIN Chain[h].events PROVE r # BlockEvent(h, e)
    <3>1. BlockEvent(h, e).tx = BlockTx BY DEF BlockEvent
    <3>. QED BY <1>1, <1>5, <3>1, OwnHash
  <2>2. PICK j \in Accepted(h) : \E e \in DOMAIN Chain[h].txs[j].events : r = TxEvent(h, Chain[h].txs[j], e)
    BY <2>1 DEF Kept
  <2>3. r.tx = Chain[h].txs[j].hash BY <2>2 DEF TxEvent
  <2>4. j \in DOMAIN Chain[h].txs /\ Chain[h].txs[j].hash = Chain[h].txs[i].hash
    BY <1>5, <2>3 DEF Accepted
  <2>5. j = i BY <1>1, <2>4, OwnHash
  <2>. QED BY <2>2, <2>5
<1>6. ASSUME NEW type
      PROVE  /\ \A e \in Fitting(tx, m, type) : TxEvent(h, tx, e) \in Confirmers(type)
             /\ \A r \in Confirmers(type) : \E e \in Fitting(tx, m, type) : r = TxEvent(h, tx, e)
  <2>1. ASSUME NEW e \in Fitting(tx, m, type) PROVE TxEvent(h, tx, e) \in Confirmers(type)
    BY <1>1, <1>2, <1>4 DEF Fitting, OfType, Confirms
  <2>2. ASSUME NEW r \in Confirmers(type) PROVE \E e \in Fitting(tx, m, type) : r = TxEvent(h, tx, e)
    <3>1. r \in Kept(h) /\ r.type = type /\ r.tx = tx.hash /\ r.msg \in {None, m}
      BY <1>1, <1>2 DEF OfType, Confirms
    <3>2. PICK e \in DOMAIN tx.events : r = TxEvent(h, tx, e) BY <1>5, <3>1
    <3>. QED BY <1>4, <3>1, <3>2 DEF Fitting
  <2>. QED BY <2>1, <2>2
<1>. HIDE DEF tx
<1>7. ASSUME NEW type PROVE Confirmed(type, row) <=> Fitting(tx, m, type) # {}
  BY <1>2, <1>6 DEF Confirmed
<1>8. ASSUME NEW type, Fitting(tx, m, type) # {}
      PROVE  EventKey(FirstOf(type, row)) = <<h, tx.hash, Least(Fitting(tx, m, type))>>
  <2> DEFINE fitting == Fitting(tx, m, type)
             least == Least(fitting)
             IsFirst(e) == /\ Confirms(e, row)
                           /\ \A x \in OfType(EventsAt(row.height), type) : Confirms(x, row) => e.index <= x.index
  <2>1. fitting \subseteq DOMAIN tx.events BY DEF Fitting
  <2>2. least \in fitting /\ \A x \in fitting : least <= x BY <1>3, <1>8, <2>1, LeastIs
  <2>3. TxEvent(h, tx, least) \in OfType(EventsAt(row.height), type) /\ Confirms(TxEvent(h, tx, least), row)
    BY <1>2, <1>6, <2>2
  <2>4. ASSUME NEW x \in OfType(EventsAt(row.height), type), Confirms(x, row)
        PROVE  x.index \in fitting /\ x = TxEvent(h, tx, x.index)
    <3>1. PICK e \in Fitting(tx, m, type) : x = TxEvent(h, tx, e) BY <1>2, <1>6, <2>4
    <3>2. x.index = e BY <1>4, <2>1, <3>1
    <3>. QED BY <3>1, <3>2
  <2>5. TxEvent(h, tx, least).index = least BY <1>4, <2>1, <2>2
  <2>. HIDE DEF fitting, least
  <2>6. IsFirst(TxEvent(h, tx, least)) BY <2>2, <2>3, <2>4, <2>5
  <2>7. FirstOf(type, row) \in OfType(EventsAt(row.height), type) /\ IsFirst(FirstOf(type, row))
    BY <2>3, <2>6 DEF FirstOf
  <2>8. FirstOf(type, row).index \in fitting /\ FirstOf(type, row) = TxEvent(h, tx, FirstOf(type, row).index)
    BY <2>4, <2>7
  <2>9. FirstOf(type, row).index <= least BY <2>3, <2>5, <2>7
  <2>10. FirstOf(type, row).index = least BY <1>3, <2>1, <2>2, <2>8, <2>9
  <2>11. EventKey(TxEvent(h, tx, least)) = <<h, tx.hash, least>> BY <1>4, <2>1, <2>2 DEF EventKey
  <2>12. EventKey(FirstOf(type, row)) = <<h, tx.hash, least>> BY <2>8, <2>10, <2>11
  <2>. QED BY <2>12 DEF least, fitting
<1>9. Confirmation(row) = AnswerTo(tx, m)
  BY <1>2, <1>7 DEF Confirmation, AnswerTo, MessageTypes, tx
<1>10. IsConfirmed(row) <=> Answers(tx, m) # {} BY <1>7, <1>9 DEF IsConfirmed, Answers
<1>11. ConfirmingEvent(row) = ClaimedBy(h, tx, m)
  BY <1>8, <1>9, <1>10 DEF ConfirmingEvent, ClaimedBy, Answers
<1>12. MessageKey(row) = <<tx.hash, m>> BY <1>2 DEF MessageKey
<1>13. ChangeOf(row) = ChangeBy(h, tx, m)
  <2>1. row.type = tx.msgs[m].type BY <1>2 DEF tx
  <2>. QED BY <1>9, <1>10, <1>11, <1>12, <2>1 DEF ChangeOf, ChangeBy
<1>. QED BY <1>10, <1>11, <1>13 DEF row, tx

\* The changes of the history: one by each message and each event of the chain.
IsMessageChange(h, c) ==
    \E i \in Accepted(h) : \E m \in Asking(Chain[h].txs[i]) : c = ChangeBy(h, Chain[h].txs[i], m)

ChangeTypes == {"queued", "activated", "paused", "resumed"}

IsEventChange(h, c) ==
    \E e \in Kept(h) : e.type \in ChangeTypes /\ c = Change(e.type, NoMessage, EventKey(e))

LEMMA KeysAreEvents == \A h \in Heights : \A x, y : <<h, x, y>> # NoEvent
BY ChainTypes DEF NoEvent

LEMMA Claims ==
    ASSUME NEW h \in Heights, NEW i \in Accepted(h), NEW m \in Asking(Chain[h].txs[i])
    PROVE  LET tx == Chain[h].txs[i] IN
           /\ Answers(tx, m) = {} => ClaimedBy(h, tx, m) = NoEvent
           /\ Answers(tx, m) # {} =>
                 \E e \in Answers(tx, m) :
                    ClaimedBy(h, tx, m) = <<h, tx.hash, e>> /\ ClaimedBy(h, tx, m) # NoEvent
<1> DEFINE tx == Chain[h].txs[i]
<1>1. DOMAIN tx.events \subseteq Nat BY TxTypes DEF Accepted
<1>2. Answers(tx, m) \subseteq Nat BY <1>1 DEF Answers, Fitting
<1>. HIDE DEF tx
<1>3. ASSUME Answers(tx, m) # {}
      PROVE  \E e \in Answers(tx, m) :
                ClaimedBy(h, tx, m) = <<h, tx.hash, e>> /\ ClaimedBy(h, tx, m) # NoEvent
  <2>1. Least(Answers(tx, m)) \in Answers(tx, m) BY <1>2, <1>3, LeastIs
  <2>2. ClaimedBy(h, tx, m) = <<h, tx.hash, Least(Answers(tx, m))>> BY <1>3 DEF ClaimedBy
  <2>. QED BY <2>1, <2>2, KeysAreEvents
<1>. QED BY <1>3 DEF ClaimedBy, tx

\* No event is claimed by two messages when events name theirs.
LEMMA ClaimedOnce ==
    ASSUME EventsNamed, NEW h \in Heights, NEW k \in Heights,
           NEW i \in Accepted(h), NEW j \in Accepted(k),
           NEW m \in Asking(Chain[h].txs[i]), NEW n \in Asking(Chain[k].txs[j]),
           ClaimedBy(h, Chain[h].txs[i], m) = ClaimedBy(k, Chain[k].txs[j], n),
           ClaimedBy(h, Chain[h].txs[i], m) # NoEvent
    PROVE  h = k /\ i = j /\ m = n
<1> DEFINE tx == Chain[h].txs[i]
<1>1. PICK e \in Answers(tx, m) : ClaimedBy(h, tx, m) = <<h, tx.hash, e>> BY Claims
<1>2. PICK f \in Answers(Chain[k].txs[j], n) :
             ClaimedBy(k, Chain[k].txs[j], n) = <<k, Chain[k].txs[j].hash, f>>
  BY Claims
<1>3. h = k /\ tx.hash = Chain[k].txs[j].hash /\ e = f
  <2>1. <<h, tx.hash, e>> = <<k, Chain[k].txs[j].hash, f>> BY <1>1, <1>2
  <2>. HIDE DEF tx
  <2>. QED BY <2>1
<1>4. i = j BY <1>3, OwnHash DEF Accepted
<1>5. m # 0 /\ n # 0 /\ tx \in AcceptedTxs(h)
  BY <1>3, <1>4, TxTypes DEF Asking, Accepted, AcceptedTxs
<1>6. e \in Fitting(tx, m, AnswerTo(tx, m)) /\ e \in Fitting(tx, n, AnswerTo(tx, n))
  BY <1>2, <1>3, <1>4 DEF Answers
<1>7. m \in Asking(tx) /\ n \in Asking(tx) BY <1>3, <1>4
<1>8. \A x \in Asking(tx) : AnswerTo(tx, x) \in AskedBy[tx.msgs[x].type]
  <2>. SUFFICES ASSUME NEW x \in Asking(tx), NEW type, type = tx.msgs[x].type
       PROVE  AnswerTo(tx, x) \in AskedBy[type]
    OBVIOUS
  <2>1. type \in {"update", "pause", "resume"} BY DEF Asking, MessageTypes
  <2>2. /\ AskedBy["update"] = {"queued", "activated"}
        /\ AskedBy["pause"] = {"paused"} /\ AskedBy["resume"] = {"resumed"}
    BY DEF AskedBy
  <2>. HIDE DEF tx
  <2>3. CASE type = "update" BY <2>2, <2>3 DEF AnswerTo
  <2>4. CASE type = "pause" BY <2>2, <2>4 DEF AnswerTo
  <2>5. CASE type = "resume" BY <2>2, <2>5 DEF AnswerTo
  <2>. QED BY <2>1, <2>3, <2>4, <2>5
<1>. HIDE DEF tx
<1>9. e \in DOMAIN tx.events /\ tx.events[e].msg \in {None, m} /\ tx.events[e].msg \in {None, n}
      /\ tx.events[e].type = AnswerTo(tx, m) /\ tx.events[e].type = AnswerTo(tx, n)
  BY <1>6 DEF Fitting
<1>10. m = n
  <2>1. CASE tx.events[e].msg # None BY <1>9, <2>1
  <2>2. CASE tx.events[e].msg = None
    <3>1. m \in DOMAIN tx.msgs /\ n \in DOMAIN tx.msgs
          /\ tx.msgs[m].type \in MessageTypes /\ tx.msgs[n].type \in MessageTypes
      BY <1>7 DEF Asking
    <3>2. tx.events[e].type \in AskedBy[tx.msgs[m].type] /\ tx.events[e].type \in AskedBy[tx.msgs[n].type]
      BY <1>7, <1>8, <1>9
    <3>. QED BY <1>5, <1>9, <2>2, <3>1, <3>2 DEF EventsNamed
  <2>. QED BY <2>1, <2>2
<1>. QED BY <1>3, <1>4, <1>10

\* A kept event is known by its key, and those the projection is of are the chain's.
LEMMA KeyOfKept ==
    ASSUME NEW h \in Heights, NEW k \in Heights, NEW e \in Kept(h), NEW f \in Kept(k),
           EventKey(e) = EventKey(f)
    PROVE  h = k /\ e = f
<1>1. Accepted(h) \subseteq DOMAIN Chain[h].txs /\ Accepted(k) \subseteq DOMAIN Chain[k].txs BY DEF Accepted
<1>2. e.height = f.height /\ e.tx = f.tx /\ e.index = f.index BY DEF EventKey
<1>3. e \in EventsOf(h) /\ f \in EventsOf(k) BY <1>1 DEF Kept, EventsOf
<1>4. h = k BY <1>2, <1>3, EventHeight
<1>5. ASSUME NEW r \in Kept(h)
      PROVE  \/ r.tx = BlockTx /\ r = BlockEvent(h, r.index)
             \/ \E i \in DOMAIN Chain[h].txs :
                   r.tx = Chain[h].txs[i].hash /\ r = TxEvent(h, Chain[h].txs[i], r.index)
  <2>1. \A x \in DOMAIN Chain[h].events : BlockEvent(h, x).tx = BlockTx /\ BlockEvent(h, x).index = x
    BY DEF BlockEvent
  <2>2. \A tx, x : TxEvent(h, tx, x).tx = tx.hash /\ TxEvent(h, tx, x).index = x BY DEF TxEvent
  <2>3. CASE \E x \in DOMAIN Chain[h].events : r = BlockEvent(h, x) BY <2>1, <2>3
  <2>4. CASE \E i \in Accepted(h) : \E x \in DOMAIN Chain[h].txs[i].events : r = TxEvent(h, Chain[h].txs[i], x)
    <3>1. PICK i \in Accepted(h) : \E x \in DOMAIN Chain[h].txs[i].events : r = TxEvent(h, Chain[h].txs[i], x)
      BY <2>4
    <3>2. PICK x \in DOMAIN Chain[h].txs[i].events : r = TxEvent(h, Chain[h].txs[i], x) BY <3>1
    <3>3. r.tx = Chain[h].txs[i].hash /\ r.index = x BY <2>2, <3>2
    <3>. QED BY <1>1, <3>2, <3>3
  <2>. QED BY <2>3, <2>4 DEF Kept
<1>6. f \in Kept(h) BY <1>4
<1>7. CASE e.tx = BlockTx
  <2>0. \A i \in DOMAIN Chain[h].txs : Chain[h].txs[i].hash # BlockTx BY OwnHash
  <2>1. f = BlockEvent(h, f.index) /\ e = BlockEvent(h, e.index) BY <1>2, <1>5, <1>6, <1>7, <2>0
  <2>. QED BY <1>2, <1>4, <2>1
<1>8. CASE e.tx # BlockTx
  <2>1. PICK i \in DOMAIN Chain[h].txs : e.tx = Chain[h].txs[i].hash /\ e = TxEvent(h, Chain[h].txs[i], e.index)
    BY <1>5, <1>8
  <2>2. PICK j \in DOMAIN Chain[h].txs : f.tx = Chain[h].txs[j].hash /\ f = TxEvent(h, Chain[h].txs[j], f.index)
    BY <1>2, <1>5, <1>6, <1>8
  <2>3. Chain[h].txs[i].hash = Chain[h].txs[j].hash BY <1>2, <2>1, <2>2
  <2>4. i = j BY <2>3, OwnHash
  <2>. QED BY <1>2, <1>4, <2>1, <2>2, <2>4
<1>. QED BY <1>7, <1>8

LEMMA EmittedAreKept ==
    ASSUME NEW h \in Heights
    PROVE  EmittedEvents(h) = {EventKey(e) : e \in {x \in Kept(h) : x.type \in EventTypes}}
<1>1. \A e : EventKey(BlockEvent(h, e)) = <<h, BlockTx, e>> /\ BlockEvent(h, e).type = Chain[h].events[e]
  BY DEF EventKey, BlockEvent
<1>2. \A tx, e : EventKey(TxEvent(h, tx, e)) = <<h, tx.hash, e>> /\ TxEvent(h, tx, e).type = tx.events[e].type
  BY DEF EventKey, TxEvent
<1>3. ASSUME NEW key \in EmittedEvents(h)
      PROVE  \E e \in Kept(h) : e.type \in EventTypes /\ key = EventKey(e)
  <2>1. CASE \E e \in DOMAIN Chain[h].events : Chain[h].events[e] \in EventTypes /\ key = <<h, BlockTx, e>>
    <3>1. PICK e \in DOMAIN Chain[h].events : Chain[h].events[e] \in EventTypes /\ key = <<h, BlockTx, e>>
      BY <2>1
    <3>2. BlockEvent(h, e) \in Kept(h) BY DEF Kept
    <3>. QED BY <1>1, <3>1, <3>2
  <2>2. CASE \E i \in Accepted(h) : \E e \in DOMAIN Chain[h].txs[i].events :
                Chain[h].txs[i].events[e].type \in EventTypes /\ key = <<h, Chain[h].txs[i].hash, e>>
    <3>1. PICK i \in Accepted(h) : \E e \in DOMAIN Chain[h].txs[i].events :
                Chain[h].txs[i].events[e].type \in EventTypes /\ key = <<h, Chain[h].txs[i].hash, e>>
      BY <2>2
    <3>2. PICK e \in DOMAIN Chain[h].txs[i].events :
                Chain[h].txs[i].events[e].type \in EventTypes /\ key = <<h, Chain[h].txs[i].hash, e>>
      BY <3>1
    <3>3. TxEvent(h, Chain[h].txs[i], e) \in Kept(h) BY DEF Kept
    <3>. QED BY <1>2, <3>2, <3>3
  <2>. QED BY <1>3, <2>1, <2>2 DEF EmittedEvents, AcceptedTxs
<1>4. ASSUME NEW e \in Kept(h), e.type \in EventTypes PROVE EventKey(e) \in EmittedEvents(h)
  BY <1>1, <1>2, <1>4 DEF Kept, EmittedEvents, AcceptedTxs
<1>. QED BY <1>3, <1>4

LEMMA AcceptedAre ==
    ASSUME NEW h
    PROVE  \A msg : msg \in AcceptedMessages(h) <=>
               \E i \in Accepted(h) : \E m \in Asking(Chain[h].txs[i]) : msg = <<Chain[h].txs[i].hash, m>>
BY DEF AcceptedMessages, AcceptedTxs, Asking

Covered(h) ==
    /\ \A msg \in AcceptedMessages(h) :
          msg \in MessagesRecorded \/ [tx |-> msg[1], msg |-> None] \in unread
    /\ EmittedEvents(h) \subseteq EventsRecorded

\* Up to the cursor nothing is missing, no row is of anything but the chain's
\* messages and events, and an event with a row of its own is claimed by no message.
HistoryInv ==
    /\ cursor \in Nat /\ cursor <= Highest
    /\ \A h \in 1..cursor : Covered(h)
    /\ \A c \in changes : \E h \in StoredHeights : IsMessageChange(h, c) \/ IsEventChange(h, c)
    /\ epochs \union payments \subseteq UNION {EmittedEvents(h) : h \in StoredHeights}
    /\ \A c, d \in changes : c.msg # NoMessage /\ d.msg = NoMessage => c.event # d.event

LEMMA MessageChangeIs ==
    ASSUME NEW h \in Heights, NEW c, IsMessageChange(h, c)
    PROVE  /\ c.msg \in AcceptedMessages(h) /\ c.msg # NoMessage
           /\ c.event # NoEvent => c.event \in EmittedEvents(h)
<1>1. PICK i \in Accepted(h) : \E m \in Asking(Chain[h].txs[i]) : c = ChangeBy(h, Chain[h].txs[i], m)
  BY DEF IsMessageChange
<1>2. PICK m \in Asking(Chain[h].txs[i]) : c = ChangeBy(h, Chain[h].txs[i], m) BY <1>1
<1> DEFINE tx == Chain[h].txs[i]
<1>3. c.msg = <<tx.hash, m>> /\ c.event = ClaimedBy(h, tx, m) BY <1>2 DEF ChangeBy, Change
<1>4. c.msg \in AcceptedMessages(h) BY <1>3, AcceptedAre
<1>5. tx.hash # BlockTx BY OwnHash DEF Accepted
<1>6. c.msg # NoMessage BY <1>3, <1>5 DEF NoMessage
<1>7. ASSUME c.event # NoEvent PROVE c.event \in EmittedEvents(h)
  <2>1. PICK e \in Answers(tx, m) : ClaimedBy(h, tx, m) = <<h, tx.hash, e>> BY <1>3, <1>7, Claims
  <2>2. e \in DOMAIN tx.events /\ tx.events[e].type \in EventTypes
    BY DEF Answers, Fitting, AnswerTo, EventTypes
  <2>3. tx \in AcceptedTxs(h) BY DEF AcceptedTxs
  <2>. HIDE DEF tx
  <2>. QED BY <1>3, <2>1, <2>2, <2>3 DEF EmittedEvents
<1>. QED BY <1>4, <1>6, <1>7

LEMMA EmittedIs ==
    ASSUME NEW h \in Heights, NEW key \in EmittedEvents(h)
    PROVE  key # NoEvent /\ \A k \in Heights : key \in EmittedEvents(k) => h = k
<1>1. \A k : \A x \in EmittedEvents(k) : \E a, b : x = <<k, a, b>> BY DEF EmittedEvents
<1>. QED BY <1>1, KeysAreEvents

LEMMA EventChangeIs ==
    ASSUME NEW h \in Heights, NEW c, IsEventChange(h, c)
    PROVE  c.msg = NoMessage /\ c.event \in EmittedEvents(h) /\ c.event # NoEvent
<1>1. PICK e \in Kept(h) : e.type \in ChangeTypes /\ c = Change(e.type, NoMessage, EventKey(e))
  BY DEF IsEventChange
<1>2. c.msg = NoMessage /\ c.event = EventKey(e) BY <1>1 DEF Change
<1>3. e.type \in EventTypes BY <1>1 DEF ChangeTypes, EventTypes
<1>. QED BY <1>2, <1>3, EmittedAreKept, EmittedIs

LEMMA AcceptedOnce ==
    ASSUME NEW h \in Heights, NEW k \in Heights, NEW msg \in AcceptedMessages(h), msg \in AcceptedMessages(k)
    PROVE  h = k
<1>1. PICK i \in Accepted(h) : \E m \in Asking(Chain[h].txs[i]) : msg = <<Chain[h].txs[i].hash, m>>
  BY AcceptedAre
<1>2. PICK j \in Accepted(k) : \E m \in Asking(Chain[k].txs[j]) : msg = <<Chain[k].txs[j].hash, m>>
  BY AcceptedAre
<1>3. i \in DOMAIN Chain[h].txs /\ j \in DOMAIN Chain[k].txs
      /\ Chain[h].txs[i].hash = Chain[k].txs[j].hash
  BY <1>1, <1>2 DEF Accepted
<1>. QED BY <1>3, OwnHash

\* A message has one change, and so has an event.
LEMMA SameMessage ==
    ASSUME NEW h \in Heights, NEW k \in Heights, NEW c, NEW d,
           IsMessageChange(h, c), IsMessageChange(k, d), c.msg = d.msg
    PROVE  c = d
<1>1. PICK i \in Accepted(h) : \E m \in Asking(Chain[h].txs[i]) : c = ChangeBy(h, Chain[h].txs[i], m)
  BY DEF IsMessageChange
<1>2. PICK m \in Asking(Chain[h].txs[i]) : c = ChangeBy(h, Chain[h].txs[i], m) BY <1>1
<1>3. PICK j \in Accepted(k) : \E n \in Asking(Chain[k].txs[j]) : d = ChangeBy(k, Chain[k].txs[j], n)
  BY DEF IsMessageChange
<1>4. PICK n \in Asking(Chain[k].txs[j]) : d = ChangeBy(k, Chain[k].txs[j], n) BY <1>3
<1>5. c.msg = <<Chain[h].txs[i].hash, m>> /\ d.msg = <<Chain[k].txs[j].hash, n>>
  BY <1>2, <1>4 DEF ChangeBy, Change
<1>6. Chain[h].txs[i].hash = Chain[k].txs[j].hash /\ m = n
  <2>1. <<Chain[h].txs[i].hash, m>> = <<Chain[k].txs[j].hash, n>> BY <1>5
  <2>. QED BY <2>1
<1>7. h = k /\ i = j BY <1>6, OwnHash DEF Accepted
<1>. QED BY <1>2, <1>4, <1>6, <1>7

LEMMA SameClaim ==
    ASSUME EventsNamed, NEW h \in Heights, NEW k \in Heights, NEW c, NEW d,
           IsMessageChange(h, c), IsMessageChange(k, d), c.event = d.event, c.event # NoEvent
    PROVE  c = d
<1>1. PICK i \in Accepted(h) : \E m \in Asking(Chain[h].txs[i]) : c = ChangeBy(h, Chain[h].txs[i], m)
  BY DEF IsMessageChange
<1>2. PICK m \in Asking(Chain[h].txs[i]) : c = ChangeBy(h, Chain[h].txs[i], m) BY <1>1
<1>3. PICK j \in Accepted(k) : \E n \in Asking(Chain[k].txs[j]) : d = ChangeBy(k, Chain[k].txs[j], n)
  BY DEF IsMessageChange
<1>4. PICK n \in Asking(Chain[k].txs[j]) : d = ChangeBy(k, Chain[k].txs[j], n) BY <1>3
<1>5. c.event = ClaimedBy(h, Chain[h].txs[i], m) /\ d.event = ClaimedBy(k, Chain[k].txs[j], n)
  BY <1>2, <1>4 DEF ChangeBy, Change
<1>6. ClaimedBy(h, Chain[h].txs[i], m) = ClaimedBy(k, Chain[k].txs[j], n)
      /\ ClaimedBy(h, Chain[h].txs[i], m) # NoEvent
  BY <1>5
<1>7. h = k /\ i = j /\ m = n BY <1>6, ClaimedOnce
<1>. QED BY <1>2, <1>4, <1>7

LEMMA SameEvent ==
    ASSUME NEW h \in Heights, NEW k \in Heights, NEW c, NEW d,
           IsEventChange(h, c), IsEventChange(k, d), c.event = d.event
    PROVE  c = d
<1>1. PICK e \in Kept(h) : c = Change(e.type, NoMessage, EventKey(e)) BY DEF IsEventChange
<1>2. PICK f \in Kept(k) : d = Change(f.type, NoMessage, EventKey(f)) BY DEF IsEventChange
<1>3. EventKey(e) = EventKey(f) BY <1>1, <1>2 DEF Change
<1>4. e = f BY <1>3, KeyOfKept
<1>. QED BY <1>1, <1>2, <1>4

LEMMA HistoryFollows ==
    ASSUME EventsNamed, TablesInv, HistoryInv
    PROVE  HistoryIsTheChains
<1>0. StoredHeights \subseteq Heights /\ StoredHeights = 1..Highest BY DEF TablesInv
<1>1. \A msg \in UNION {AcceptedMessages(h) : h \in 1..cursor} :
         msg \in MessagesRecorded \/ [tx |-> msg[1], msg |-> None] \in unread
  BY DEF HistoryInv, Covered
<1>2. UNION {EmittedEvents(h) : h \in 1..cursor} \subseteq EventsRecorded
  BY DEF HistoryInv, Covered
<1>3. MessagesRecorded \subseteq UNION {AcceptedMessages(h) : h \in StoredHeights}
  <2>. SUFFICES ASSUME NEW c \in changes, c.msg # NoMessage
       PROVE  \E h \in StoredHeights : c.msg \in AcceptedMessages(h)
    BY DEF MessagesRecorded
  <2>1. PICK h \in StoredHeights : IsMessageChange(h, c) \/ IsEventChange(h, c) BY DEF HistoryInv
  <2>. QED BY <1>0, <2>1, MessageChangeIs, EventChangeIs
<1>4. EventsRecorded \subseteq UNION {EmittedEvents(h) : h \in StoredHeights}
  <2>1. ASSUME NEW c \in changes, c.event # NoEvent
        PROVE  \E h \in StoredHeights : c.event \in EmittedEvents(h)
    <3>1. PICK h \in StoredHeights : IsMessageChange(h, c) \/ IsEventChange(h, c) BY DEF HistoryInv
    <3>. QED BY <1>0, <2>1, <3>1, MessageChangeIs, EventChangeIs
  <2>. QED BY <2>1 DEF EventsRecorded, HistoryInv
<1>5. ASSUME NEW c \in changes, NEW d \in changes, c # d
      PROVE  /\ c.msg = d.msg => c.msg = NoMessage
             /\ c.event = d.event => c.event = NoEvent
  <2>1. PICK h \in StoredHeights : IsMessageChange(h, c) \/ IsEventChange(h, c) BY DEF HistoryInv
  <2>2. PICK k \in StoredHeights : IsMessageChange(k, d) \/ IsEventChange(k, d) BY DEF HistoryInv
  <2>3. h \in Heights /\ k \in Heights BY <1>0
  <2>4. CASE IsMessageChange(h, c) /\ IsMessageChange(k, d) BY <1>5, <2>3, <2>4, SameMessage, SameClaim
  <2>5. CASE IsEventChange(h, c) /\ IsEventChange(k, d) BY <1>5, <2>3, <2>5, SameEvent, EventChangeIs
  <2>6. CASE IsMessageChange(h, c) /\ IsEventChange(k, d)
    BY <2>3, <2>6, MessageChangeIs, EventChangeIs DEF HistoryInv
  <2>7. CASE IsEventChange(h, c) /\ IsMessageChange(k, d)
    BY <2>3, <2>7, MessageChangeIs, EventChangeIs DEF HistoryInv
  <2>. QED BY <2>1, <2>2, <2>4, <2>5, <2>6, <2>7
<1>. QED BY <1>1, <1>2, <1>3, <1>4, <1>5 DEF HistoryIsTheChains

-----------------------------------------------------------------------------
(* What the projection makes of a height. *)

\* No message gives way to a later one when events name their messages.
LEMMA NewChanges ==
    ASSUME EventsNamed, TablesInv, NEW h \in StoredHeights
    PROVE  /\ MessageChanges(h) = {ChangeOf(row) : row \in MessagesAt(h)}
           /\ \A c \in MessageChanges(h) : IsMessageChange(h, c)
           /\ \A c \in EventChanges(h) : IsEventChange(h, c)
<1>0. h \in Heights BY DEF TablesInv
<1>1. ASSUME NEW x \in MessagesAt(h), NEW y \in MessagesAt(h),
             IsConfirmed(x), Later(y, x), ConfirmingEvent(y) = ConfirmingEvent(x)
      PROVE  FALSE
  <2>1. PICK i \in Accepted(h) : \E m \in Asking(Chain[h].txs[i]), decoded \in BOOLEAN :
                                    x = MessageRow(h, Chain[h].txs[i], m, decoded)
    BY StoredMessages
  <2>2. PICK m \in Asking(Chain[h].txs[i]), decoded \in BOOLEAN :
                x = MessageRow(h, Chain[h].txs[i], m, decoded)
    BY <2>1
  <2>3. PICK j \in Accepted(h) : \E n \in Asking(Chain[h].txs[j]), d \in BOOLEAN :
                                    y = MessageRow(h, Chain[h].txs[j], n, d)
    BY StoredMessages
  <2>4. PICK n \in Asking(Chain[h].txs[j]), d \in BOOLEAN : y = MessageRow(h, Chain[h].txs[j], n, d)
    BY <2>3
  <2>5. ConfirmingEvent(x) = ClaimedBy(h, Chain[h].txs[i], m)
        /\ (IsConfirmed(x) <=> Answers(Chain[h].txs[i], m) # {})
    BY <2>2, Confirming
  <2>6. ConfirmingEvent(y) = ClaimedBy(h, Chain[h].txs[j], n) BY <2>4, Confirming
  <2>7. ClaimedBy(h, Chain[h].txs[i], m) # NoEvent BY <1>0, <1>1, <2>5, Claims
  <2>8. ClaimedBy(h, Chain[h].txs[i], m) = ClaimedBy(h, Chain[h].txs[j], n) BY <1>1, <2>5, <2>6
  <2>9. m = n BY <1>0, <2>7, <2>8, ClaimedOnce
  <2>10. x.index = m /\ y.index = n BY <2>2, <2>4 DEF MessageRow
  <2>11. m \in Nat BY <1>0, TxTypes DEF Accepted, Asking
  <2>. QED BY <1>1, <2>9, <2>10, <2>11 DEF Later
<1>2. MessageChanges(h) = {ChangeOf(row) : row \in MessagesAt(h)}
  <2>1. {x \in MessagesAt(h) :
           ~IsConfirmed(x) \/ ~\E y \in MessagesAt(h) : Later(y, x) /\ ConfirmingEvent(y) = ConfirmingEvent(x)}
        = MessagesAt(h)
    BY <1>1
  <2>. QED BY <2>1 DEF MessageChanges
<1>3. ASSUME NEW c \in MessageChanges(h) PROVE IsMessageChange(h, c)
  <2>1. PICK x \in MessagesAt(h) : c = ChangeOf(x) BY <1>2
  <2>2. PICK i \in Accepted(h) : \E m \in Asking(Chain[h].txs[i]), decoded \in BOOLEAN :
                                    x = MessageRow(h, Chain[h].txs[i], m, decoded)
    BY StoredMessages
  <2>3. PICK m \in Asking(Chain[h].txs[i]), decoded \in BOOLEAN :
                x = MessageRow(h, Chain[h].txs[i], m, decoded)
    BY <2>2
  <2>4. ChangeOf(x) = ChangeBy(h, Chain[h].txs[i], m) BY <2>3, Confirming
  <2>. QED BY <2>1, <2>4 DEF IsMessageChange
<1>4. ASSUME NEW c \in EventChanges(h) PROVE IsEventChange(h, c)
  <2>1. PICK e \in Unclaimed(h) : c = Change(e.type, NoMessage, EventKey(e)) BY DEF EventChanges
  <2>2. e \in Kept(h) /\ e.type \in ChangeTypes BY StoredRows DEF Unclaimed, ChangeTypes
  <2>. QED BY <2>1, <2>2 DEF IsEventChange
<1>. QED BY <1>2, <1>3, <1>4

\* A height that is projected has all of its messages and events ...
LEMMA ProjectedIsCovered ==
    ASSUME EventsNamed, TablesInv, NEW h \in StoredHeights, unread' = unread,
           MessageChanges(h) \union EventChanges(h) \subseteq changes',
           EpochsAt(h) \subseteq epochs', PaymentsAt(h) \subseteq payments'
    PROVE  Covered(h)'
<1>0. h \in Heights BY DEF TablesInv
<1>1. ASSUME NEW msg \in AcceptedMessages(h)
      PROVE  msg \in MessagesRecorded' \/ [tx |-> msg[1], msg |-> None] \in unread'
  <2>1. PICK i \in Accepted(h) : \E m \in Asking(Chain[h].txs[i]) : msg = <<Chain[h].txs[i].hash, m>>
    BY AcceptedAre
  <2>2. PICK m \in Asking(Chain[h].txs[i]) : msg = <<Chain[h].txs[i].hash, m>> BY <2>1
  <2> DEFINE tx == Chain[h].txs[i]
  <2>3. MessageStored(h, tx, m) BY DEF TablesInv, Accepted, Asking
  <2>4. msg[1] = tx.hash BY <2>2
  <2>5. CASE [tx |-> tx.hash, msg |-> None] \in unread BY <2>4, <2>5
  <2>6. CASE \E decoded \in BOOLEAN : MessageRow(h, tx, m, decoded) \in messages
    <3>1. PICK decoded \in BOOLEAN : MessageRow(h, tx, m, decoded) \in messages BY <2>6
    <3>2. MessageRow(h, tx, m, decoded) \in MessagesAt(h) BY <3>1, StoredMessages
    <3>3. ChangeOf(MessageRow(h, tx, m, decoded)) = ChangeBy(h, tx, m) BY Confirming
    <3>4. ChangeBy(h, tx, m) \in changes' BY <3>2, <3>3, NewChanges
    <3>5. ChangeBy(h, tx, m).msg = msg BY <2>2 DEF ChangeBy, Change
    <3>6. IsMessageChange(h, ChangeBy(h, tx, m)) BY DEF IsMessageChange
    <3>7. msg # NoMessage BY <1>0, <3>5, <3>6, MessageChangeIs
    <3>. QED BY <3>4, <3>5, <3>7 DEF MessagesRecorded
  <2>. QED BY <2>3, <2>5, <2>6 DEF MessageStored
<1>2. ASSUME NEW key \in EmittedEvents(h) PROVE key \in EventsRecorded'
  <2>1. PICK e \in Kept(h) : e.type \in EventTypes /\ key = EventKey(e) BY <1>0, EmittedAreKept
  <2>2. e \in EventsAt(h) BY StoredRows
  <2>3. CASE e.type = "epoch"
    <3>1. key \in EpochsAt(h) BY <2>1, <2>2, <2>3 DEF EpochsAt, OfType
    <3>. QED BY <3>1 DEF EventsRecorded
  <2>4. CASE e.type = "treasury"
    <3>1. key \in PaymentsAt(h) BY <2>1, <2>2, <2>4 DEF PaymentsAt, OfType
    <3>. QED BY <3>1 DEF EventsRecorded
  <2>5. key # NoEvent BY <1>0, EmittedIs
  <2>6. CASE e.type \in ChangeTypes /\ e \in Unclaimed(h)
    <3>1. Change(e.type, NoMessage, key) \in EventChanges(h) BY <2>1, <2>6 DEF EventChanges
    <3>2. Change(e.type, NoMessage, key).event = key BY DEF Change
    <3>3. Change(e.type, NoMessage, key) \in changes' BY <3>1
    <3>. QED BY <2>5, <3>2, <3>3 DEF EventsRecorded
  <2>7. CASE e.type \in ChangeTypes /\ e \notin Unclaimed(h)
    <3>1. PICK row \in MessagesAt(h) : ConfirmingEvent(row) = key
      BY <2>1, <2>2, <2>7 DEF Unclaimed, ChangeTypes
    <3>2. ChangeOf(row).event = key BY <3>1 DEF ChangeOf, Change
    <3>3. ChangeOf(row) \in changes' BY NewChanges
    <3>. QED BY <2>5, <3>2, <3>3 DEF EventsRecorded
  <2>. QED BY <2>1, <2>3, <2>4, <2>6, <2>7 DEF EventTypes, ChangeTypes
<1>. QED BY <1>1, <1>2 DEF Covered

\* ... and takes none of another's.
LEMMA ReplacedIsOfHeight ==
    ASSUME NEW h \in Heights, NEW k \in Heights, NEW n, NEW c, Replaces(n, c),
           IsMessageChange(h, n) \/ IsEventChange(h, n),
           IsMessageChange(k, c) \/ IsEventChange(k, c)
    PROVE  h = k
<1>1. CASE n.event # NoEvent
  <2>1. c.event = n.event BY <1>1 DEF Replaces
  <2>2. n.event \in EmittedEvents(h) /\ c.event \in EmittedEvents(k)
    BY <1>1, <2>1, MessageChangeIs, EventChangeIs
  <2>. QED BY <2>1, <2>2, EmittedIs
<1>2. CASE n.event = NoEvent
  <2>1. c.msg = n.msg /\ IsMessageChange(h, n) BY <1>2, EventChangeIs DEF Replaces
  <2>2. n.msg \in AcceptedMessages(h) /\ n.msg # NoMessage BY <2>1, MessageChangeIs
  <2>3. IsMessageChange(k, c) BY <2>1, <2>2, EventChangeIs
  <2>4. c.msg \in AcceptedMessages(k) BY <2>3, MessageChangeIs
  <2>. QED BY <2>1, <2>2, <2>4, AcceptedOnce
<1>. QED BY <1>1, <1>2

LEMMA ProjectKeeps ==
    ASSUME EventsNamed, TablesInv, BlocksInv, HistoryInv, NEW h, ProjectHeight(h)
    PROVE  HistoryInv'
<1> DEFINE new == MessageChanges(h) \union EventChanges(h)
<1>1. /\ changes' = {c \in changes : \A n \in new : ~Replaces(n, c)} \union new
      /\ epochs' = epochs \union EpochsAt(h) /\ payments' = payments \union PaymentsAt(h)
      /\ h \in 1..Highest /\ h <= cursor + 1 /\ cursor' = h
      /\ UNCHANGED <<blocks, txs, messages, events, unread>>
  BY DEF ProjectHeight, blockVars, rowVars
<1>2. h \in StoredHeights /\ StoredHeights \subseteq Heights /\ StoredHeights' = StoredHeights
      /\ Highest' = Highest /\ StoredHeights = 1..Highest
  BY <1>1 DEF TablesInv, StoredHeights, Highest
<1>3. h \in Heights /\ h \in Nat /\ cursor \in Nat /\ Highest \in Nat
  BY <1>2, ChainTypes, FS_CardinalityType DEF HistoryInv, BlocksInv, Highest
<1>4. /\ \A c \in MessageChanges(h) : IsMessageChange(h, c)
      /\ \A c \in EventChanges(h) : IsEventChange(h, c)
  BY <1>2, NewChanges
<1>5. \A c \in changes' : \E k \in StoredHeights' : IsMessageChange(k, c) \/ IsEventChange(k, c)
  BY <1>1, <1>2, <1>4 DEF HistoryInv
<1>6. Covered(h)' BY <1>1, <1>2, ProjectedIsCovered
<1>7. ASSUME NEW k \in 1..h, k # h PROVE Covered(k)'
  <2>1. k \in 1..cursor /\ k \in StoredHeights /\ k \in Heights
    <3>1. k \in 1..cursor BY <1>1, <1>3, <1>7
    <3>2. k \in 1..Highest BY <1>1, <1>3, <1>7
    <3>. QED BY <1>2, <3>1, <3>2
  <2>2. Covered(k) BY <2>1 DEF HistoryInv
  <2>3. ASSUME NEW c \in changes, IsMessageChange(k, c) \/ IsEventChange(k, c) PROVE c \in changes'
    <3>1. \A n \in new : IsMessageChange(h, n) \/ IsEventChange(h, n) BY <1>4
    <3>2. \A n \in new : ~Replaces(n, c) BY <1>3, <1>7, <2>1, <2>3, <3>1, ReplacedIsOfHeight
    <3>. QED BY <1>1, <3>2
  <2>4. ASSUME NEW msg \in AcceptedMessages(k), msg \in MessagesRecorded PROVE msg \in MessagesRecorded'
    <3>1. PICK c \in changes : c.msg = msg /\ msg # NoMessage BY <2>4 DEF MessagesRecorded
    <3>2. PICK g \in StoredHeights : IsMessageChange(g, c) \/ IsEventChange(g, c) BY DEF HistoryInv
    <3>3. g \in Heights BY <1>2
    <3>4. c.msg \in AcceptedMessages(g) BY <3>1, <3>2, <3>3, MessageChangeIs, EventChangeIs
    <3>5. g = k BY <2>1, <2>4, <3>1, <3>3, <3>4, AcceptedOnce
    <3>6. c \in changes' BY <2>3, <3>2, <3>5
    <3>. QED BY <3>1, <3>6 DEF MessagesRecorded
  <2>5. ASSUME NEW key \in EmittedEvents(k), key \in EventsRecorded PROVE key \in EventsRecorded'
    <3>1. CASE key \in epochs \union payments BY <1>1, <3>1 DEF EventsRecorded
    <3>2. CASE key \notin epochs \union payments
      <4>1. PICK c \in changes : c.event = key /\ key # NoEvent BY <2>5, <3>2 DEF EventsRecorded
      <4>2. PICK g \in StoredHeights : IsMessageChange(g, c) \/ IsEventChange(g, c) BY DEF HistoryInv
      <4>3. g \in Heights BY <1>2
      <4>4. c.event \in EmittedEvents(g) BY <4>1, <4>2, <4>3, MessageChangeIs, EventChangeIs
      <4>5. g = k BY <2>1, <2>5, <4>1, <4>3, <4>4, EmittedIs
      <4>6. c \in changes' BY <2>3, <4>2, <4>5
      <4>. QED BY <4>1, <4>6 DEF EventsRecorded
    <3>. QED BY <3>1, <3>2
  <2>. QED BY <1>1, <2>2, <2>4, <2>5 DEF Covered
<1>8. \A k \in 1..cursor' : Covered(k)' BY <1>1, <1>6, <1>7
<1>9. epochs' \union payments' \subseteq UNION {EmittedEvents(k) : k \in StoredHeights'}
  <2>1. EventsAt(h) = Kept(h) BY <1>2, StoredRows
  <2>2. EpochsAt(h) \union PaymentsAt(h) \subseteq EmittedEvents(h)
    BY <1>3, <2>1, EmittedAreKept DEF EpochsAt, PaymentsAt, OfType, EventTypes
  <2>. QED BY <1>1, <1>2, <2>2 DEF HistoryInv
<1>10. ASSUME NEW c \in changes', NEW d \in changes', c.msg # NoMessage, d.msg = NoMessage
       PROVE  c.event # d.event
  <2>1. PICK k \in StoredHeights : IsMessageChange(k, d) \/ IsEventChange(k, d) BY <1>2, <1>5
  <2>2. k \in Heights /\ IsEventChange(k, d) /\ d.event # NoEvent
    BY <1>2, <1>10, <2>1, MessageChangeIs, EventChangeIs
  <2>. SUFFICES ASSUME c.event = d.event PROVE FALSE
    OBVIOUS
  <2>3. CASE c \notin new /\ d \notin new BY <1>1, <1>10, <2>3 DEF HistoryInv
  <2>4. CASE c \in new /\ d \notin new
    <3>1. Replaces(c, d) BY <2>2 DEF Replaces
    <3>. QED BY <1>1, <2>4, <3>1
  <2>5. CASE c \notin new /\ d \in new
    <3>1. Replaces(d, c) BY <2>2 DEF Replaces
    <3>. QED BY <1>1, <2>5, <3>1
  <2>6. CASE c \in new /\ d \in new
    <3>1. c \in MessageChanges(h) /\ d \in EventChanges(h)
      BY <1>3, <1>4, <1>10, <2>6, MessageChangeIs, EventChangeIs
    <3>2. PICK row \in MessagesAt(h) : c = ChangeOf(row) BY <1>2, <3>1, NewChanges
    <3>3. PICK e \in Unclaimed(h) : d = Change(e.type, NoMessage, EventKey(e)) BY <3>1 DEF EventChanges
    <3>4. c.event = ConfirmingEvent(row) /\ d.event = EventKey(e) BY <3>2, <3>3 DEF ChangeOf, Change
    <3>. QED BY <3>4 DEF Unclaimed
  <2>. QED BY <2>3, <2>4, <2>5, <2>6
<1>11. cursor' \in Nat /\ cursor' <= Highest' BY <1>1, <1>2, <1>3
<1>. QED BY <1>5, <1>8, <1>9, <1>10, <1>11 DEF HistoryInv

HistoryAndRows == RowsInv /\ HistoryInv

LEMMA HistoryStep ==
    ASSUME SearchIsWhole, EventsNamed, HistoryAndRows, [Next]_vars
    PROVE  HistoryAndRows'
<1>. USE DEF HistoryAndRows, RowsInv
<1>1. ASSUME UNCHANGED rowVars, TablesInv, BlocksInv PROVE TablesInv' /\ BlocksInv'
  BY <1>1 DEF TablesInv, BlocksInv, rowVars, StoredHeights, Highest, MessageStored
<1>2. CASE BlockNext /\ UNCHANGED historyVars
  <2>1. TablesInv' /\ StoredHeights \subseteq StoredHeights' /\ unread \subseteq unread'
    BY <1>2, TablesStep
  <2>2. BlocksInv' /\ Highest \in Nat /\ Highest' \in Nat /\ Highest <= Highest' BY <1>2, BlocksGrow
  <2>3. UNCHANGED <<cursor, epochs, changes, payments>> BY <1>2 DEF historyVars
  <2>4. cursor \in Nat /\ cursor' <= Highest' BY <2>2, <2>3 DEF HistoryInv
  <2>5. MessagesRecorded' = MessagesRecorded /\ EventsRecorded' = EventsRecorded
    BY <2>3 DEF MessagesRecorded, EventsRecorded
  <2>6. \A k \in 1..cursor' : Covered(k)' BY <2>1, <2>3, <2>5 DEF HistoryInv, Covered
  <2>7. HistoryInv' BY <2>1, <2>3, <2>4, <2>6 DEF HistoryInv
  <2>. QED BY <2>1, <2>2, <2>7
<1>3. ASSUME NEW h \in Heights, ProjectHeight(h) PROVE HistoryAndRows'
  <2>1. UNCHANGED rowVars BY <1>3 DEF ProjectHeight, blockVars
  <2>. QED BY <1>1, <1>3, <2>1, ProjectKeeps
<1>4. CASE ResetRewards
  <2>1. UNCHANGED rowVars /\ cursor' = 0 /\ epochs' = {} /\ changes' = {} /\ payments' = {}
    BY <1>4 DEF ResetRewards, ClearHistory, blockVars
  <2>2. BlocksInv' /\ TablesInv' BY <1>1, <2>1
  <2>3. Highest' \in Nat BY <2>2, FS_CardinalityType DEF BlocksInv, Highest
  <2>4. HistoryInv' BY <2>1, <2>3 DEF HistoryInv
  <2>. QED BY <2>2, <2>4
<1>5. CASE UNCHANGED <<blockVars, historyVars>>
  <2>1. UNCHANGED rowVars /\ UNCHANGED <<cursor, epochs, changes, payments>> BY <1>5 DEF blockVars, historyVars
  <2>2. StoredHeights' = StoredHeights /\ Highest' = Highest /\ unread' = unread
    BY <2>1 DEF rowVars, StoredHeights, Highest
  <2>3. MessagesRecorded' = MessagesRecorded /\ EventsRecorded' = EventsRecorded
    BY <2>1 DEF MessagesRecorded, EventsRecorded
  <2>4. HistoryInv' BY <2>1, <2>2, <2>3 DEF HistoryInv, Covered
  <2>. QED BY <1>1, <2>1, <2>4
<1>. QED
  BY <1>2, <1>3, <1>4, <1>5
     DEF Next, vars, StartSample, Read, GiveUp, Write, Stamp, ResetBalances

LEMMA HistoryStarts == Init => HistoryInv
<1>. SUFFICES ASSUME Init PROVE HistoryInv
  OBVIOUS
<1>1. cursor = 0 /\ epochs = {} /\ changes = {} /\ payments = {} /\ blocks = {}
  BY DEF Init, HistoryInit, BlockInit
<1>2. Highest = 0 BY <1>1, FS_EmptySet DEF Highest
<1>. QED BY <1>1, <1>2 DEF HistoryInv

\* Up to its cursor the rewards history is the chain's - each accepted message
\* once, each emitted event once, nothing else - whatever reading the heights were
\* ingested from and however often they are projected; a message is missing only
\* with its undecodable transaction.  Events must name their messages where
\* they could confirm two (msg_index).
THEOREM HistoryHolds ==
    ASSUME SearchIsWhole, EventsNamed
    PROVE  Spec => []HistoryIsTheChains
<1>1. Init => HistoryAndRows BY TablesInit, BalancesInit, HistoryStarts DEF HistoryAndRows, RowsInv
<1>2. HistoryAndRows /\ [Next]_vars => HistoryAndRows' BY HistoryStep
<1>3. HistoryAndRows => HistoryIsTheChains BY HistoryFollows DEF HistoryAndRows, RowsInv
<1>. QED BY <1>1, <1>2, <1>3, PTL DEF Spec
=============================================================================
