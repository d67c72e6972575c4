------------------------- MODULE SettlementsProofs -------------------------
(***************************************************************************)
(* What Settlements shows holds for every chain, every settlement window   *)
(* and every refresh count that covers it.  The argument for an            *)
(* entitlement that is not sampled any more: the epochs that push it out   *)
(* of the window were known when its last read began, one of them lies a   *)
(* whole settlement window above it, and the node answers for a head at or *)
(* above that epoch's close.                                               *)
(***************************************************************************)
EXTENDS Settlements, FiniteSetTheorems, TLAPS

-----------------------------------------------------------------------------
(* Facts about the chain.                                                  *)

LEMMA Lines == Cardinality(ChunkLines) = 2 /\ Cardinality({}) = 0
<1>1. {1} \union {2} = ChunkLines BY DEF ChunkLines
<1>2. Cardinality({1}) = 1 /\ IsFiniteSet({1}) BY FS_Singleton
<1>3. Cardinality({1} \union {2}) = 2
  BY <1>2, FS_AddElement
<1> QED BY <1>1, <1>3, FS_EmptySet

LEMMA ReleasedGrows ==
    ASSUME chain \in History, NEW e \in Epochs, NEW h \in 0..MaxHeight, NEW k \in 0..MaxHeight, h <= k
    PROVE  Released(e, h) \in 0..Amount /\ Released(e, h) <= Released(e, k)
<1>1. chain.chunk[e] \in Nat /\ chain.final[e] \in Nat
  BY SettlementBounds DEF History, Heights
<1>2. Paid(e, h) \in {0, 2} /\ Paid(e, k) \in {0, 2} /\ Paid(e, h) <= Paid(e, k)
  BY <1>1, Lines, SettlementBounds DEF Paid
<1> QED BY <1>1, <1>2, SettlementBounds DEF Released, Amount

\* A chain of Histories is typed and settles in time.
LEMMA Chains ==
    ASSUME chain \in Histories
    PROVE  chain \in History /\ SettlesInTime(chain)
BY SettlementBounds

\* Whatever is pushed out of the newest has an epoch a whole refresh above it.
LEMMA PushedOut ==
    ASSUME NEW S \in SUBSET Epochs, NEW e \in S \ Newest(S)
    PROVE  \E x \in S : e + Refresh <= x
<1> SUFFICES ASSUME \A x \in S : x < e + Refresh PROVE FALSE
  BY SettlementBounds DEF Epochs
<1> DEFINE Above == {d \in S : e < d}
<1>1. e \in Nat /\ Refresh \in Nat /\ Refresh # 0
  BY SettlementBounds DEF Epochs
<1>2. Above \subseteq (e + 1)..(e + Refresh - 1)
  <2> SUFFICES ASSUME NEW d \in S, e < d PROVE d \in (e + 1)..(e + Refresh - 1)
    OBVIOUS
  <2>1. d \in Nat /\ d < e + Refresh
    BY SettlementBounds DEF Epochs
  <2> QED BY <1>1, <2>1
<1>3. IsFiniteSet((e + 1)..(e + Refresh - 1))
      /\ Cardinality((e + 1)..(e + Refresh - 1)) = Refresh - 1
  <2>1. e + 1 \in Int /\ e + Refresh - 1 \in Int BY <1>1
  <2> QED BY <2>1, <1>1, FS_Interval
<1>4. Cardinality(Above) <= Refresh - 1 /\ Cardinality(Above) \in Nat
  BY <1>2, <1>3, FS_Subset, FS_CardinalityType
<1> QED BY <1>1, <1>4 DEF Newest

\* An epoch a window below one that has closed is settled for good.
LEMMA SettledBelow ==
    ASSUME chain \in Histories, NEW h \in 0..MaxHeight, NEW d \in Epochs, NEW e \in Epochs,
           d + Refresh <= e, chain.close[e] <= h
    PROVE  /\ chain.final[d] <= h
           /\ Released(d, h) = Amount /\ Released(d, MaxHeight) = Amount
<1>1. d + Window <= e
  BY SettlementBounds, WindowCovered DEF Epochs
<1>2. chain.final[d] <= chain.close[e]
  BY <1>1, Chains DEF SettlesInTime
<1>3. chain.final[d] \in Nat /\ chain.close[e] \in Nat
  BY Chains, SettlementBounds DEF History, Heights
<1>4. chain.final[d] <= h /\ chain.final[d] <= MaxHeight
  BY <1>2, <1>3, SettlementBounds
<1> QED BY <1>4 DEF Released

-----------------------------------------------------------------------------
(* Types.  Each half of the state is typed by the steps of its projection. *)

TypedChain ==
    /\ chain \in Histories /\ head \in 0..MaxHeight /\ tip \in 0..head
    /\ fate \in [Epochs -> Fates] /\ undecoded \subseteq Epochs
    /\ faults \in 0..MaxFaults

TypedSampler ==
    /\ sampled \in [Epochs -> None..Amount] /\ scursor \in 0..tip /\ torn \in BOOLEAN
    /\ pc \in {"idle", "reading", "reset"}
    /\ run \in [end : 0..tip, todo : SUBSET Epochs, got : [Epochs -> None..Amount]]

TypedMining ==
    /\ chunks \subseteq Epochs /\ lines \in [Epochs -> SUBSET ChunkLines] /\ finals \subseteq Epochs
    /\ failures \subseteq {"chunk", "final"} \X Epochs
    /\ cursor \in 0..tip /\ stale \subseteq Epochs

LEMMA TypeParts == TypeOK <=> TypedChain /\ TypedSampler /\ TypedMining
BY DEF TypeOK, TypedChain, TypedSampler, TypedMining

LEMMA NoRowsTyped == NoRows \in [Epochs -> None..Amount]
BY DEF NoRows, None, Amount

LEMMA IdleTyped == ASSUME NEW h \in Nat
                   PROVE Idle \in [end : 0..h, todo : SUBSET Epochs, got : [Epochs -> None..Amount]]
BY NoRowsTyped DEF Idle

LEMMA TypeInit == Init => TypeOK
<1> SUFFICES ASSUME Init PROVE TypeOK
  OBVIOUS
<1>1. chain \in History
  BY Chains DEF Init
<1>2. TypedChain
  BY <1>1, SettlementBounds DEF Init, TypedChain, History
<1>3. TypedSampler
  <2>1. tip = 0 /\ tip \in Nat /\ scursor \in 0..tip
    BY DEF Init
  <2>2. run \in [end : 0..tip, todo : SUBSET Epochs, got : [Epochs -> None..Amount]]
    BY <2>1, IdleTyped DEF Init
  <2>3. sampled \in [Epochs -> None..Amount] /\ torn \in BOOLEAN /\ pc \in {"idle", "reading", "reset"}
    BY NoRowsTyped DEF Init
  <2> QED BY <2>1, <2>2, <2>3 DEF TypedSampler
<1>4. TypedMining
  BY <1>1, SettlementBounds DEF Init, TypedMining, ChunkLines
<1> QED BY <1>2, <1>3, <1>4, TypeParts

LEMMA ChainTyped ==
    ASSUME TypedChain, [Next]_vars
    PROVE  TypedChain' /\ tip <= tip' /\ head <= head' /\ chain' = chain
<1>1. /\ head \in Nat /\ tip \in Nat /\ MaxHeight \in Nat /\ faults \in Nat /\ MaxFaults \in Nat
  BY SettlementBounds DEF TypedChain
<1>2. CASE Produce BY <1>1, <1>2 DEF Produce, TypedChain
<1>3. CASE Ingest BY <1>1, <1>3 DEF Ingest, TypedChain
<1>4. CASE \E e \in Epochs : Redecode(e)
  <2>1. PICK e \in Epochs : Redecode(e)
    BY <1>4
  <2>2. PICK m \in Messages : /\ fate' = [fate EXCEPT ![e] = m]
                              /\ undecoded' \in {undecoded, undecoded \union {e}}
    BY <2>1 DEF Redecode
  <2>3. Messages \subseteq Fates
    BY DEF Fates
  <2>4. fate' \in [Epochs -> Fates] /\ undecoded' \subseteq Epochs
    BY <2>2, <2>3 DEF TypedChain
  <2> QED BY <1>1, <2>1, <2>4 DEF Redecode, TypedChain, Fault
<1>5. CASE UNCHANGED <<chain, head, tip, fate, undecoded>> /\ (Fault \/ UNCHANGED faults)
  BY <1>1, <1>5 DEF TypedChain, Fault
<1>6. CASE Sample \/ SampleAgain
  BY <1>5, <1>6 DEF Sample, SampleAgain, StartSample
<1>7. CASE Sampler
  BY <1>5, <1>7 DEF Sampler, ReadEpoch, StoreSample, ResetCursor
<1>8. CASE Project \/ ProjectAgain
  BY <1>5, <1>8 DEF Project, ProjectAgain, ProjectHeight
<1>9. CASE FailRead \/ ResetRows \/ Kill \/ ResetMining \/ UNCHANGED vars
  BY <1>5, <1>9 DEF FailRead, ResetRows, Kill, ResetMining, vars
<1> QED BY <1>2, <1>3, <1>4, <1>6, <1>7, <1>8, <1>9 DEF Next

LEMMA StartTyped ==
    ASSUME TypedChain, TypedSampler, NEW start \in Nat, NEW end \in 0..tip, StartSample(start, end)
    PROVE  TypedSampler'
<1>1. ToRead(start, end) \subseteq Epochs
  BY DEF ToRead, Closed, Recent, Newest, Known
<1>3. CASE ToRead(start, end) = {}
  BY <1>3 DEF StartSample, TypedSampler, TypedChain
<1>4. CASE ToRead(start, end) # {}
  <2>1. run' \in [end : 0..tip, todo : SUBSET Epochs, got : [Epochs -> None..Amount]]
    BY <1>1, <1>4, NoRowsTyped DEF StartSample
  <2> QED BY <1>4, <2>1 DEF StartSample, TypedSampler
<1> QED BY <1>3, <1>4

LEMMA SamplerTyped ==
    ASSUME TypeOK, [Next]_vars, TypedChain'
    PROVE  TypedSampler'
<1> USE DEF TypedChain, TypedSampler
<1>1. TypedChain /\ TypedSampler /\ head \in Nat /\ tip \in Nat /\ tip <= tip' /\ tip' \in Nat
  BY TypeParts, ChainTyped, SettlementBounds
<1>2. Idle \in [end : 0..tip, todo : SUBSET Epochs, got : [Epochs -> None..Amount]]
  BY <1>1, IdleTyped
<1>3. CASE Produce \/ Ingest \/ (\E e \in Epochs : Redecode(e)) \/ UNCHANGED vars
  BY <1>1, <1>3 DEF Produce, Ingest, Redecode, entitlement, vars
<1>4. CASE Project \/ ProjectAgain \/ ResetMining
  BY <1>1, <1>4 DEF Project, ProjectAgain, ProjectHeight, ResetMining, entitlement
<1>5. CASE Sample
  <2>1. scursor + 1 \in Nat /\ tip \in 0..tip BY <1>1
  <2> QED BY <1>1, <1>5, <2>1, StartTyped DEF Sample
<1>6. CASE SampleAgain
  <2>1. PICK start \in 1..scursor : \E end \in start..tip : StartSample(start, end)
    BY <1>6 DEF SampleAgain
  <2>2. PICK end \in start..tip : StartSample(start, end)
    BY <2>1
  <2>3. start \in Nat /\ end \in 0..tip BY <1>1
  <2> QED BY <1>1, <2>2, <2>3, StartTyped
<1>7. CASE ReadEpoch
  <2>1. PICK e \in run.todo : run' = [run EXCEPT !.todo = @ \ {e}, !.got[e] = Reading(e)]
    BY <1>7 DEF ReadEpoch
  <2>2. Reading(e) \in None..Amount
    BY <1>1, Chains, ReleasedGrows, SettlementBounds DEF Reading, None, Amount
  <2> QED BY <1>1, <1>7, <2>1, <2>2 DEF ReadEpoch, entitlement
<1>8. CASE StoreSample
  BY <1>1, <1>2, <1>8 DEF StoreSample
<1>9. CASE FailRead
  BY <1>1, <1>2, <1>9 DEF FailRead, CursorAfterHalt
<1>10. CASE ResetRows
  BY <1>1, <1>10, NoRowsTyped DEF ResetRows
<1>11. CASE ResetCursor
  <2>1. torn' \in BOOLEAN BY <1>11 DEF ResetCursor
  <2>2. scursor' \in 0..tip' BY <1>1, <1>11 DEF ResetCursor
  <2> QED BY <1>1, <1>11, <2>1, <2>2 DEF ResetCursor
<1>12. CASE Kill
  <2>1. torn' \in BOOLEAN BY <1>12 DEF Kill
  <2> QED BY <1>1, <1>2, <1>12, <2>1 DEF Kill
<1> QED BY <1>3, <1>4, <1>5, <1>6, <1>7, <1>8, <1>9, <1>10, <1>11, <1>12 DEF Next, Sampler

LEMMA RecordedTyped == ASSUME NEW e \in Epochs PROVE Recorded(e) \in SUBSET ChunkLines
BY DEF Recorded, ChunkLines

LEMMA MiningTyped ==
    ASSUME TypeOK, [Next]_vars, TypedChain'
    PROVE  TypedMining'
<1>1. TypedChain /\ TypedMining /\ tip \in Nat /\ tip' \in Nat /\ tip <= tip' /\ chain' = chain
  BY TypeParts, ChainTyped, SettlementBounds DEF TypedChain
<1>2. CASE UNCHANGED mining
  BY <1>1, <1>2 DEF TypedMining, mining
<1>3. CASE \E e \in Epochs : Redecode(e)
  BY <1>1, <1>3 DEF Redecode, TypedMining
<1>4. ASSUME NEW h \in 1..tip, ProjectHeight(h) PROVE TypedMining'
  <2>1. FailuresAt(h) \subseteq {"chunk", "final"} \X Epochs
    BY DEF FailuresAt, Chunks, Finalizations
  <2>2. lines' \in [Epochs -> SUBSET ChunkLines]
    BY <1>1, <1>4, RecordedTyped DEF ProjectHeight, Payouts, TypedMining
  <2>3. chunks' \subseteq Epochs /\ finals' \subseteq Epochs /\ stale' \subseteq Epochs
    BY <1>1, <1>4 DEF ProjectHeight, Chunks, Finalizations, TypedMining
  <2>4. failures' \subseteq {"chunk", "final"} \X Epochs
    BY <1>1, <1>4, <2>1 DEF ProjectHeight, TypedMining
  <2>5. cursor' \in 0..tip'
    BY <1>1, <1>4 DEF ProjectHeight
  <2> QED BY <2>2, <2>3, <2>4, <2>5 DEF TypedMining
<1>5. CASE Project
  BY <1>1, <1>4, <1>5 DEF Project, TypedMining
<1>6. CASE ProjectAgain
  BY <1>1, <1>4, <1>6 DEF ProjectAgain, TypedMining
<1>7. CASE ResetMining
  BY <1>1, <1>7 DEF ResetMining, CursorAfterReset, TypedMining
<1>8. CASE \/ Produce \/ Ingest \/ Sample \/ SampleAgain \/ Sampler \/ FailRead \/ ResetRows \/ Kill
           \/ UNCHANGED vars
  <2>1. UNCHANGED mining
    BY <1>8 DEF Produce, Ingest, Sample, SampleAgain, StartSample, Sampler, ReadEpoch, StoreSample,
       ResetCursor, FailRead, ResetRows, Kill, vars
  <2> QED BY <1>2, <2>1
<1> QED BY <1>3, <1>5, <1>6, <1>7, <1>8 DEF Next

LEMMA TypeStep == TypeOK /\ [Next]_vars => TypeOK'
<1> SUFFICES ASSUME TypeOK, [Next]_vars PROVE TypeOK'
  OBVIOUS
<1>1. TypedChain' BY TypeParts, ChainTyped
<1>2. TypedSampler' /\ TypedMining' BY <1>1, SamplerTyped, MiningTyped
<1> QED BY <1>1, <1>2, TypeParts DEF TypeOK, TypedChain, TypedSampler, TypedMining

\* The types hold for every chain and every bound.
THEOREM SettlementsTyped == Spec => []TypeOK
BY TypeInit, TypeStep, PTL DEF Spec

-----------------------------------------------------------------------------
(* What the node released.                                                 *)

\* The epochs with a row once the run is stored.
InRun == run.todo \union {e \in Epochs : run.got[e] # None} \union Known

\* No row and no reading is ahead of the chain, readings are not behind rows.
NotAhead ==
    /\ \A e \in InRun : chain.close[e] <= tip
    /\ \A e \in Epochs : sampled[e] <= Released(e, head) /\ run.got[e] <= Released(e, head)
    /\ \A e \in Epochs : run.got[e] # None => sampled[e] <= run.got[e]

\* A reading whose epoch the run pushes out of the window was final when read.
ReadInTime ==
    \A e \in Epochs : run.got[e] # None /\ (\E x \in InRun : e + Refresh <= x)
                        => run.got[e] = Released(e, MaxHeight) /\ chain.final[e] <= head

\* The run reads every recent epoch.
Complete == pc = "reading" => Recent \subseteq run.todo \union {e \in Epochs : run.got[e] # None}

\* Between runs nothing is read.
Quiet == pc # "reading" => run = Idle

SamplerInv == TypeOK /\ NotAhead /\ ReadInTime /\ Complete /\ Quiet /\ FrozenIsFinal

LEMMA SamplerInit == Init => SamplerInv
<1> SUFFICES ASSUME Init PROVE SamplerInv
  OBVIOUS
<1>1. TypeOK BY TypeInit
<1>2. /\ run = Idle /\ \A e \in Epochs : sampled[e] = None /\ run.got[e] = None
      /\ run.todo = {}
  BY DEF Init, Idle, NoRows
<1>3. InRun = {} /\ Known = {}
  BY <1>2 DEF InRun, Known
<1>4. \A e \in Epochs : None <= Released(e, head)
  BY <1>1, TypeParts, Chains, ReleasedGrows, SettlementBounds DEF TypedChain, None, Amount
<1> QED BY <1>1, <1>2, <1>3, <1>4 DEF SamplerInv, NotAhead, ReadInTime, Complete, Quiet, FrozenIsFinal, Init

\* What every step may use of the types.
LEMMA Basics ==
    ASSUME TypeOK
    PROVE  /\ chain \in Histories /\ chain \in History
           /\ head \in 0..MaxHeight /\ tip \in 0..head /\ MaxHeight \in 0..MaxHeight
           /\ sampled \in [Epochs -> None..Amount]
           /\ run \in [end : 0..tip, todo : SUBSET Epochs, got : [Epochs -> None..Amount]]
BY Chains, SettlementBounds DEF TypeOK

\* The released amount is rigid at a height, and grows with the head.
LEMMA ReleasedLater ==
    ASSUME TypeOK, [Next]_vars, NEW e \in Epochs
    PROVE  /\ Released(e, head) \in 0..Amount
           /\ Released(e, head) <= Released(e, head)'
           /\ Released(e, head)' \in 0..Amount
           /\ Released(e, MaxHeight)' = Released(e, MaxHeight)
<1>1. chain' = chain /\ head <= head' /\ head' \in 0..MaxHeight
  BY TypeParts, ChainTyped, SettlementBounds DEF TypedChain
<1>2. \A h : Released(e, h)' = Released(e, h')
  BY <1>1 DEF Released, Paid
<1>3. Released(e, head') \in 0..Amount /\ Released(e, head) <= Released(e, head')
  BY <1>1, Basics, ReleasedGrows
<1> QED BY <1>1, <1>3, Basics, ReleasedGrows DEF Released, Paid

LEMMA Waiting ==
    ASSUME SamplerInv, [Next]_vars, UNCHANGED <<sampled, run, pc>>
    PROVE  SamplerInv'
<1> USE DEF SamplerInv
<1>1. TypeOK' /\ tip <= tip' /\ head <= head' /\ chain' = chain
  BY TypeStep, TypeParts, ChainTyped
<1>2. InRun' = InRun /\ Known' = Known /\ Recent' = Recent
  BY DEF InRun, Known, Recent, Newest
<1>3. NotAhead'
  <2>1. \A e \in InRun : chain.close[e] \in Nat /\ chain.close[e] <= tip
    BY Basics, SettlementBounds DEF NotAhead, InRun, Known, History, Heights
  <2>2. tip \in Nat /\ tip' \in Nat
    BY <1>1, Basics, SettlementBounds DEF TypeOK
  <2>3. \A e \in InRun : chain.close[e] <= tip'
    BY <1>1, <2>1, <2>2
  <2>4. ASSUME NEW e \in Epochs
        PROVE  sampled[e] <= Released(e, head)' /\ run.got[e] <= Released(e, head)'
    <3>1. sampled[e] \in Int /\ run.got[e] \in Int
      BY Basics DEF None, Amount
    <3>2. Released(e, head) \in Int /\ Released(e, head)' \in Int /\ Released(e, head) <= Released(e, head)'
      BY ReleasedLater DEF Amount
    <3> QED BY <3>1, <3>2 DEF NotAhead
  <2> QED BY <1>1, <1>2, <2>3, <2>4 DEF NotAhead
<1>4. \A e \in Epochs : chain.final[e] <= head => chain.final[e] <= head'
  BY <1>1, Basics, SettlementBounds DEF History, TypeOK
<1>5. ReadInTime' /\ FrozenIsFinal'
  <2>1. ReadInTime' BY <1>1, <1>2, <1>4, ReleasedLater DEF ReadInTime
  <2>2. Known \subseteq Epochs BY DEF Known
  <2>3. FrozenIsFinal' BY <1>1, <1>2, <1>4, <2>2, ReleasedLater DEF FrozenIsFinal
  <2> QED BY <2>1, <2>3
<1>6. Complete' /\ Quiet'
  BY <1>2 DEF Complete, Quiet
<1> QED BY <1>1, <1>3, <1>5, <1>6

LEMMA Starting ==
    ASSUME SamplerInv, [Next]_vars, NEW start \in Nat, NEW end \in 0..tip, StartSample(start, end)
    PROVE  SamplerInv'
<1> USE DEF SamplerInv
<1>1. TypeOK' /\ UNCHANGED <<chain, head, tip, sampled>>
  BY TypeStep DEF StartSample
<1>2. CASE ToRead(start, end) = {}
  BY <1>2, Waiting DEF StartSample
<1>3. CASE ToRead(start, end) # {}
  <2>1. /\ pc' = "reading" /\ run'.todo = ToRead(start, end)
        /\ \A e \in Epochs : run'.got[e] = None
    BY <1>3 DEF StartSample, NoRows
  <2>2. InRun' = ToRead(start, end) \union Known /\ Known' = Known /\ Recent' = Recent
    BY <1>1, <2>1 DEF InRun, Known, Recent, Newest
  <2>3. \A e \in InRun' : e \in Epochs /\ (e \in Known \/ chain.close[e] \in start..end)
    BY <2>2 DEF ToRead, Closed, Recent, Newest, Known
  <2>4. \A e \in InRun' : chain.close[e] <= tip
    BY <2>3, Basics, SettlementBounds DEF NotAhead, InRun, History, Heights
  <2>5. \A e \in Epochs : Released(e, head)' = Released(e, head) /\ None <= Released(e, head)
    BY <1>1, ReleasedLater DEF Released, Paid, None, Amount
  <2>6. NotAhead'
    BY <1>1, <2>1, <2>4, <2>5 DEF NotAhead
  <2>7. ReadInTime' /\ Complete' /\ Quiet'
    BY <2>1, <2>2 DEF ReadInTime, Complete, Quiet, ToRead
  <2>8. FrozenIsFinal'
    BY <1>1, <2>2 DEF FrozenIsFinal, Released, Paid
  <2> QED BY <1>1, <2>6, <2>7, <2>8
<1> QED BY <1>2, <1>3

LEMMA ReadingStep ==
    ASSUME SamplerInv, [Next]_vars, ReadEpoch
    PROVE  SamplerInv'
<1> USE DEF SamplerInv
<1>1. TypeOK' /\ UNCHANGED <<chain, head, tip, sampled, pc>> /\ pc = "reading"
  BY TypeStep DEF ReadEpoch, entitlement
<1>2. PICK e \in run.todo : run' = [run EXCEPT !.todo = @ \ {e}, !.got[e] = Reading(e)]
  BY DEF ReadEpoch
<1>3. e \in Epochs /\ Released(e, head) \in 0..Amount /\ Released(e, head) # None
  BY <1>2, Basics, ReleasedLater DEF None, Amount
<1>4. /\ run'.todo = run.todo \ {e}
      /\ run'.got[e] = Released(e, head)
      /\ \A d \in Epochs \ {e} : run'.got[d] = run.got[d]
  BY <1>2, <1>3, Basics DEF Reading
<1>5. InRun' = InRun /\ Known' = Known /\ Recent' = Recent
  BY <1>1, <1>2, <1>3, <1>4 DEF InRun, Known, Recent, Newest
<1>6. \A d \in Epochs : /\ Released(d, head)' = Released(d, head)
                        /\ Released(d, MaxHeight)' = Released(d, MaxHeight)
                        /\ Released(d, head) \in 0..Amount
  BY <1>1, ReleasedLater DEF Released, Paid
<1>7. NotAhead'
  BY <1>1, <1>3, <1>4, <1>5, <1>6 DEF NotAhead, Amount
<1>8. ReadInTime'
  <2> SUFFICES ASSUME NEW d \in Epochs, run'.got[d] # None, NEW x \in InRun, d + Refresh <= x
               PROVE  run'.got[d] = Released(d, MaxHeight) /\ chain.final[d] <= head
    BY <1>1, <1>5, <1>6 DEF ReadInTime
  <2>1. CASE d # e
    BY <1>4, <2>1 DEF ReadInTime
  <2>2. CASE d = e
    <3>1. x \in Epochs /\ chain.close[x] <= head
      BY Basics, SettlementBounds DEF NotAhead, InRun, Known, History, Heights
    <3> QED BY <1>4, <2>2, <3>1, Basics, SettledBelow
  <2> QED BY <2>1, <2>2
<1>9. Complete'
  <2>1. Recent \subseteq Epochs BY DEF Recent, Newest, Known
  <2> QED BY <1>1, <1>3, <1>4, <1>5, <2>1 DEF Complete
<1>10. Quiet' /\ FrozenIsFinal'
  <2>1. Known \subseteq Epochs BY DEF Known
  <2> QED BY <1>1, <1>5, <1>6, <2>1 DEF Quiet, FrozenIsFinal
<1> QED BY <1>1, <1>7, <1>8, <1>9, <1>10

\* Storing keeps the unread epochs as they were: they were out of the window
\* before the run, or had no row.
LEMMA StoringStep ==
    ASSUME SamplerInv, [Next]_vars, StoreSample
    PROVE  SamplerInv'
<1> USE DEF SamplerInv
<1>1. /\ TypeOK' /\ UNCHANGED <<chain, head, tip>> /\ pc = "reading" /\ pc' = "idle" /\ run.todo = {}
      /\ run' = Idle
      /\ \A e \in Epochs : sampled'[e] = IF run.got[e] = None THEN sampled[e] ELSE run.got[e]
  BY TypeStep DEF StoreSample
<1>2. run'.todo = {} /\ \A e \in Epochs : run'.got[e] = None
  BY <1>1 DEF Idle, NoRows
<1>3. Known' = InRun /\ InRun' = InRun
  BY <1>1, <1>2 DEF Known, InRun
<1>4. \A d \in Epochs : /\ Released(d, head)' = Released(d, head)
                        /\ Released(d, MaxHeight)' = Released(d, MaxHeight)
                        /\ None <= Released(d, head)
  BY <1>1, ReleasedLater DEF Released, Paid, None, Amount
<1>5. NotAhead'
  BY <1>1, <1>2, <1>3, <1>4 DEF NotAhead
<1>6. ReadInTime' /\ Complete' /\ Quiet'
  BY <1>1, <1>2 DEF ReadInTime, Complete, Quiet
<1>7. FrozenIsFinal'
  <2> SUFFICES ASSUME NEW e \in Known' \ Recent'
               PROVE  sampled'[e] = Released(e, MaxHeight) /\ chain.final[e] <= head
    <3>1. Known' \subseteq Epochs BY DEF Known
    <3> QED BY <1>1, <1>4, <3>1 DEF FrozenIsFinal
  <2>1. InRun \in SUBSET Epochs /\ e \in InRun \ Newest(InRun)
    <3>1. Recent' = Newest(InRun) BY <1>3 DEF Recent, Newest
    <3> QED BY <1>3, <3>1, Basics DEF InRun, Known
  <2>2. PICK x \in InRun : e + Refresh <= x
    BY <2>1, PushedOut
  <2>3. CASE run.got[e] # None
    BY <1>1, <2>1, <2>2, <2>3 DEF ReadInTime
  <2>4. CASE run.got[e] = None
    <3>1. e \in Known \ Recent
      BY <1>1, <2>1, <2>4 DEF InRun, Complete
    <3> QED BY <1>1, <2>1, <2>4, <3>1 DEF FrozenIsFinal
  <2> QED BY <2>3, <2>4
<1> QED BY <1>1, <1>5, <1>6, <1>7

LEMMA DroppingStep ==
    ASSUME SamplerInv, [Next]_vars, UNCHANGED <<chain, head, tip>>, run' = Idle, pc' # "reading",
           sampled' \in {sampled, NoRows}
    PROVE  SamplerInv'
<1> USE DEF SamplerInv
<1>1. TypeOK' BY TypeStep
<1>2. run'.todo = {} /\ \A e \in Epochs : run'.got[e] = None
  BY DEF Idle, NoRows
<1>3. \A d \in Epochs : /\ Released(d, head)' = Released(d, head)
                        /\ Released(d, MaxHeight)' = Released(d, MaxHeight)
                        /\ None <= Released(d, head)
  BY ReleasedLater DEF Released, Paid, None, Amount
<1>4. ReadInTime' /\ Complete' /\ Quiet'
  BY <1>2 DEF ReadInTime, Complete, Quiet
<1>5. CASE sampled' = sampled
  <2>1. Known' = Known /\ Recent' = Recent /\ InRun' = Known /\ Known \subseteq Epochs
    BY <1>2, <1>5 DEF InRun, Known, Recent, Newest
  <2>2. NotAhead'
    BY <1>2, <1>3, <1>5, <2>1 DEF NotAhead, InRun
  <2>3. FrozenIsFinal'
    BY <1>3, <1>5, <2>1 DEF FrozenIsFinal
  <2> QED BY <1>1, <1>4, <2>2, <2>3
<1>6. CASE sampled' = NoRows
  <2>1. Known' = {} /\ InRun' = {} /\ \A e \in Epochs : sampled'[e] = None
    BY <1>2, <1>6 DEF Known, InRun, NoRows
  <2>2. NotAhead' /\ FrozenIsFinal'
    BY <1>2, <1>3, <2>1 DEF NotAhead, FrozenIsFinal
  <2> QED BY <1>1, <1>4, <2>2
<1> QED BY <1>5, <1>6

LEMMA SamplerStep == SamplerInv /\ [Next]_vars => SamplerInv'
<1> SUFFICES ASSUME SamplerInv, [Next]_vars PROVE SamplerInv'
  OBVIOUS
<1>1. CASE \/ Produce \/ Ingest \/ (\E e \in Epochs : Redecode(e)) \/ Project \/ ProjectAgain \/ ResetMining
           \/ UNCHANGED vars
  BY <1>1, Waiting DEF Produce, Ingest, Redecode, Project, ProjectAgain, ProjectHeight, ResetMining,
     entitlement, vars
<1>2. CASE Sample
  <2>1. scursor + 1 \in Nat /\ tip \in 0..tip
    BY SettlementBounds DEF SamplerInv, TypeOK
  <2> QED BY <1>2, <2>1, Starting DEF Sample
<1>3. CASE SampleAgain
  <2>1. PICK start \in 1..scursor : \E end \in start..tip : StartSample(start, end)
    BY <1>3 DEF SampleAgain
  <2>2. PICK end \in start..tip : StartSample(start, end)
    BY <2>1
  <2>3. start \in Nat /\ end \in 0..tip
    BY SettlementBounds DEF SamplerInv, TypeOK
  <2> QED BY <2>2, <2>3, Starting
<1>4. CASE ReadEpoch
  BY <1>4, ReadingStep
<1>5. CASE StoreSample
  BY <1>5, StoringStep
<1>6. CASE ResetCursor
  <2>1. run = Idle BY <1>6 DEF ResetCursor, SamplerInv, Quiet
  <2> QED BY <1>6, <2>1, DroppingStep DEF ResetCursor
<1>7. CASE FailRead
  BY <1>7, DroppingStep DEF FailRead
<1>8. CASE ResetRows
  <2>1. run = Idle BY <1>8 DEF ResetRows, SamplerInv, Quiet
  <2> QED BY <1>8, <2>1, DroppingStep DEF ResetRows
<1>9. CASE Kill
  BY <1>9, DroppingStep DEF Kill
<1> QED BY <1>1, <1>2, <1>3, <1>4, <1>5, <1>6, <1>7, <1>8, <1>9 DEF Next, Sampler

THEOREM SamplerInvariant == Spec => []SamplerInv
BY SamplerInit, SamplerStep, PTL DEF Spec

\* An entitlement that has left the refresh window shows what the chain
\* released for good, whatever the window, runs that fail or are killed, reruns
\* and resets.
THEOREM FrozenEntitlementsAreFinal == Spec => []FrozenIsFinal
BY SamplerInvariant, PTL DEF SamplerInv

\* A row's released amount never decreases while the row lives.
THEOREM ReleasedAmountIsMonotonic == Spec => ReleasedOnlyGrows
<1>1. ASSUME SamplerInv, [Next]_vars
      PROVE  [\A e \in Epochs : sampled[e] # None /\ sampled'[e] # None => sampled[e] <= sampled'[e]]_vars
  <2> SUFFICES ASSUME NEW e \in Epochs, sampled'[e] # None PROVE sampled[e] <= sampled'[e]
    OBVIOUS
  <2>1. TypeOK /\ NotAhead
    BY <1>1 DEF SamplerInv
  <2>2. sampled[e] \in Int
    BY <2>1, Basics DEF None, Amount
  <2>3. CASE StoreSample
    <3>1. sampled'[e] = IF run.got[e] = None THEN sampled[e] ELSE run.got[e]
      BY <2>3 DEF StoreSample
    <3> QED BY <2>1, <2>2, <3>1 DEF NotAhead
  <2>4. CASE ResetRows
    BY <2>4 DEF ResetRows, NoRows
  <2>5. CASE sampled' = sampled
    BY <2>2, <2>5
  <2>6. CASE \/ Produce \/ Ingest \/ (\E d \in Epochs : Redecode(d)) \/ Project \/ ProjectAgain \/ ResetMining
             \/ UNCHANGED vars
    BY <2>5, <2>6 DEF Produce, Ingest, Redecode, Project, ProjectAgain, ProjectHeight, ResetMining, entitlement, vars
  <2>7. CASE Sample \/ SampleAgain \/ ReadEpoch \/ ResetCursor \/ FailRead \/ Kill
    BY <2>5, <2>7 DEF Sample, SampleAgain, StartSample, ReadEpoch, ResetCursor, FailRead, Kill, entitlement
  <2> QED BY <1>1, <2>3, <2>4, <2>6, <2>7 DEF Next, Sampler
<1> QED BY <1>1, SamplerInvariant, PTL DEF Spec, ReleasedOnlyGrows

-----------------------------------------------------------------------------
(* What the mining rows say.                                               *)

\* A chunk or finalization the cursor has passed, or that has rows, was
\* accounted for when it was projected.
Passed(e) == chain.chunk[e] \in 1..cursor \/ e \in chunks \/ (e \in finals /\ chain.chunk[e] # 0)

Explained(e) == <<"chunk", e>> \in failures \/ e \in undecoded

Accounted ==
    /\ \A e \in Epochs : Passed(e) /\ chain.fate[e] # "failed" => lines[e] = ChunkLines \/ Explained(e)
    /\ \A e \in Epochs : chain.chunk[e] = 0 \/ chain.fate[e] = "failed" => lines[e] = {} /\ e \notin chunks
    /\ \A e \in Epochs : chain.chunk[e] \in 1..tip /\ fate[e] = "undecoded" => e \in undecoded
    /\ \A e \in Epochs : fate[e] = "failed" <=> chain.fate[e] = "failed"
    /\ \A e \in Epochs : fate[e] = "garbled" => e \notin chunks

FinalsPassed ==
    \A e \in Epochs : /\ e \in finals => chain.final[e] <= tip
                      /\ chain.final[e] <= cursor => e \in finals \/ <<"final", e>> \in failures

MiningInv == TypeOK /\ Accounted /\ FinalsPassed /\ PayoutsExact

LEMMA MiningInit == Init => MiningInv
<1> SUFFICES ASSUME Init PROVE MiningInv
  OBVIOUS
<1>1. TypeOK BY TypeInit
<1>2. chain \in History BY <1>1, Basics
<1>3. \A e \in Epochs : chain.final[e] \in Nat /\ chain.final[e] > 0
  BY <1>2, SettlementBounds DEF History
<1>4. Accounted
  BY DEF Init, Accounted, Passed
<1>5. FinalsPassed
  BY <1>3 DEF Init, FinalsPassed
<1> QED BY <1>1, <1>4, <1>5 DEF MiningInv, PayoutsExact, Init

\* A height is projected at or below the cursor, or next to it.
LEMMA ProjectStep ==
    ASSUME MiningInv, [Next]_vars, NEW h \in 1..tip, h <= cursor + 1, ProjectHeight(h)
    PROVE  MiningInv'
<1> USE DEF MiningInv
<1>1. /\ TypeOK' /\ UNCHANGED <<chain, tip, fate, undecoded>> /\ cursor' = h
      /\ stale' = stale \ Chunks(h)
      /\ chunks' = chunks \union {e \in Chunks(h) : fate[e] # "garbled"}
      /\ finals' = finals \union (Finalizations(h) \ chain.unreadable)
      /\ failures' = (failures \ ClearedAt(h)) \union FailuresAt(h)
      /\ \A e \in Epochs : lines'[e] = IF e \in Chunks(h) /\ fate[e] # "garbled" THEN Recorded(e) ELSE lines[e]
  BY TypeStep DEF ProjectHeight, Payouts
<1>2. /\ h \in Nat /\ h > 0 /\ cursor \in Nat /\ tip \in Nat
      /\ \A e \in Epochs : chain.chunk[e] \in Nat /\ chain.final[e] \in Nat /\ fate[e] \in Fates
  BY Basics, SettlementBounds DEF History, TypeOK
<1>3. \A e \in Epochs : chain.chunk[e] # 0 => chain.chunk[e] <= chain.final[e]
  BY Basics, Chains, <1>2, SettlementBounds DEF SettlesInTime, History, Heights
<1>4. \A e \in Epochs : /\ <<"chunk", e>> \in ClearedAt(h) <=> chain.chunk[e] = h
                        /\ <<"final", e>> \in ClearedAt(h) <=> chain.final[e] = h
                        /\ <<"chunk", e>> \in FailuresAt(h) <=> /\ chain.chunk[e] = h
                                                                /\ fate[e] \in {"short", "lost", "garbled"}
                        /\ <<"final", e>> \in FailuresAt(h) <=> chain.final[e] = h /\ e \in chain.unreadable
  BY DEF ClearedAt, FailuresAt, Chunks, Finalizations
<1>5. Accounted'
  <2>0. \A e \in Epochs : fate'[e] = "garbled" => e \notin chunks'
    BY <1>1 DEF Accounted
  <2> SUFFICES ASSUME NEW e \in Epochs
               PROVE  /\ Passed(e)' /\ chain.fate[e] # "failed" => lines'[e] = ChunkLines \/ Explained(e)'
                      /\ chain.chunk[e] = 0 \/ chain.fate[e] = "failed" => lines'[e] = {} /\ e \notin chunks'
    BY <1>1, <2>0 DEF Accounted
  <2>1. CASE chain.chunk[e] = h /\ fate[e] # "failed"
    <3>1. chain.fate[e] # "failed" /\ e \in Chunks(h) /\ chain.chunk[e] \in 1..tip
      BY <2>1, <1>2 DEF Chunks, Accounted
    <3>2. CASE fate[e] = "whole"
      BY <1>1, <1>2, <2>1, <3>1, <3>2 DEF Recorded
    <3>3. CASE fate[e] = "undecoded"
      BY <1>1, <1>2, <2>1, <3>1, <3>3 DEF Accounted, Explained
    <3>4. CASE fate[e] \in {"short", "lost", "garbled"}
      <4>1. <<"chunk", e>> \in failures'
        BY <1>1, <1>4, <2>1, <3>4
      <4> QED BY <1>2, <2>1, <3>1, <4>1 DEF Explained
    <3> QED BY <1>2, <2>1, <3>2, <3>3, <3>4 DEF Fates, Messages
  <2>2. CASE chain.chunk[e] = h /\ fate[e] = "failed"
    BY <1>1, <2>2 DEF Chunks, Accounted
  <2>3. CASE chain.chunk[e] # h
    <3>1. lines'[e] = lines[e] /\ e \notin Chunks(h)
      BY <1>1, <2>3 DEF Chunks
    <3>2. Explained(e)' = Explained(e)
      BY <1>1, <1>4, <2>3 DEF Explained
    <3>3. Passed(e)' => Passed(e)
      <4>1. chain.chunk[e] \in 1..h => chain.chunk[e] \in 1..cursor
        BY <1>2, <2>3
      <4>2. e \in chunks' => e \in chunks
        BY <1>1, <3>1
      <4>3. CASE chain.final[e] = h
        BY <1>1, <1>2, <1>3, <2>3, <4>1, <4>2, <4>3 DEF Passed
      <4>4. CASE chain.final[e] # h
        BY <1>1, <4>1, <4>2, <4>4 DEF Passed, Finalizations
      <4> QED BY <4>3, <4>4
    <3> QED BY <1>1, <3>1, <3>2, <3>3 DEF Accounted
  <2> QED BY <2>1, <2>2, <2>3
<1>6. FinalsPassed'
  <2> SUFFICES ASSUME NEW e \in Epochs
               PROVE  /\ e \in finals' => chain.final[e] <= tip
                      /\ chain.final[e] <= h => e \in finals' \/ <<"final", e>> \in failures'
    BY <1>1 DEF FinalsPassed
  <2>1. CASE chain.final[e] = h
    <3>1. e \in finals' \/ e \in chain.unreadable
      BY <1>1, <2>1 DEF Finalizations
    <3>2. e \in chain.unreadable => <<"final", e>> \in failures'
      BY <1>1, <1>4, <2>1
    <3> QED BY <1>1, <1>2, <2>1, <3>1, <3>2
  <2>2. CASE chain.final[e] # h
    <3>1. e \in finals' <=> e \in finals
      BY <1>1, <2>2 DEF Finalizations
    <3>2. <<"final", e>> \in failures' <=> <<"final", e>> \in failures
      BY <1>1, <1>4, <2>2
    <3>3. chain.final[e] <= h => chain.final[e] <= cursor
      BY <1>2, <2>2
    <3> QED BY <3>1, <3>2, <3>3 DEF FinalsPassed
  <2> QED BY <2>1, <2>2
<1>7. PayoutsExact'
  <2> SUFFICES ASSUME NEW e \in chunks', e \notin stale' PROVE lines'[e] = Recorded(e)
    BY <1>1 DEF PayoutsExact, Recorded
  <2>1. e \in Epochs BY <1>1 DEF TypeOK
  <2>2. CASE e \in Chunks(h)
    <3>1. fate[e] # "garbled"
      BY <1>1, <2>1 DEF Accounted
    <3> QED BY <1>1, <2>1, <2>2, <3>1
  <2>3. CASE e \notin Chunks(h)
    BY <1>1, <2>1, <2>3 DEF PayoutsExact
  <2> QED BY <2>2, <2>3
<1> QED BY <1>1, <1>5, <1>6, <1>7

\* Steps that leave the mining rows alone, or mark a chunk as redecoded.
LEMMA MiningKept ==
    ASSUME MiningInv, [Next]_vars, UNCHANGED <<chunks, lines, finals, failures, cursor>>,
           Ingest \/ UNCHANGED <<tip, undecoded>> \/ (\E e \in Epochs : Redecode(e)),
           UNCHANGED <<fate, stale>> \/ (\E e \in Epochs : Redecode(e))
    PROVE  MiningInv'
<1> USE DEF MiningInv
<1>1. TypeOK' /\ chain' = chain /\ tip <= tip' /\ tip \in Nat /\ tip' \in Nat
  BY TypeStep, TypeParts, ChainTyped, SettlementBounds DEF TypedChain
<1>2. \A e \in Epochs : chain.chunk[e] \in Nat /\ chain.final[e] \in Nat /\ fate[e] \in Fates
  BY Basics, SettlementBounds DEF History, TypeOK
<1>3. FinalsPassed'
  <2>1. \A e \in Epochs : chain.final[e] <= tip => chain.final[e] <= tip'
    BY <1>1, <1>2
  <2>2. UNCHANGED <<chain, finals, failures, cursor>>
    BY <1>1
  <2> QED BY <2>1, <2>2 DEF FinalsPassed
<1>4. undecoded \subseteq undecoded'
  BY DEF Ingest, Redecode
<1>5. \A e \in Epochs : /\ Passed(e)' = Passed(e)
                        /\ Explained(e) => Explained(e)'
  BY <1>1, <1>4 DEF Passed, Explained
<1>6. CASE fate' = fate /\ stale' = stale
  <2>1. PayoutsExact'
    BY <1>6 DEF PayoutsExact, Recorded
  <2>2. \A e \in Epochs : chain.chunk[e] \in 1..tip' /\ fate[e] = "undecoded" => e \in undecoded'
    <3>1. CASE Ingest
      BY <1>1, <1>2, <3>1 DEF Ingest, Accounted
    <3>2. CASE UNCHANGED <<tip, undecoded>>
      BY <3>2 DEF Accounted
    <3>3. CASE \E e \in Epochs : Redecode(e)
      BY <1>4, <3>3 DEF Redecode, Accounted
    <3> QED BY <3>1, <3>2, <3>3
  <2>3. Accounted'
    BY <1>1, <1>5, <1>6, <2>2 DEF Accounted
  <2> QED BY <1>1, <1>3, <2>1, <2>3
<1>7. CASE \E e \in Epochs : Redecode(e)
  <2>1. PICK d \in Epochs : Redecode(d)
    BY <1>7
  <2>2. PICK m \in Messages : /\ fate' = [fate EXCEPT ![d] = m]
                              /\ m = "undecoded" => d \in undecoded'
    BY <2>1 DEF Redecode
  <2>3. tip' = tip /\ stale' = stale \union {d} /\ fate[d] \in Messages
    BY <2>1 DEF Redecode
  <2>4. fate'[d] = m /\ \A e \in Epochs \ {d} : fate'[e] = fate[e]
    BY <2>2 DEF TypeOK
  <2>5. \A e \in Epochs : (fate'[e] = "failed" <=> fate[e] = "failed") /\ (fate'[e] = "garbled" <=> fate[e] = "garbled")
    BY <2>3, <2>4 DEF Messages
  <2>6. \A e \in Epochs : chain.chunk[e] \in 1..tip' /\ fate'[e] = "undecoded" => e \in undecoded'
    BY <1>4, <2>2, <2>3, <2>4 DEF Accounted
  <2>7. Accounted'
    BY <1>1, <1>5, <2>5, <2>6 DEF Accounted
  <2>8. PayoutsExact'
    BY <2>3, <2>4 DEF PayoutsExact, Recorded, TypeOK
  <2> QED BY <1>1, <1>3, <2>7, <2>8
<1> QED BY <1>6, <1>7

LEMMA MiningStep == MiningInv /\ [Next]_vars => MiningInv'
<1> SUFFICES ASSUME MiningInv, [Next]_vars PROVE MiningInv'
  OBVIOUS
<1>1. cursor \in 0..tip /\ tip \in Nat
  BY SettlementBounds DEF MiningInv, TypeOK
<1>2. CASE Project
  <2>1. cursor + 1 \in 1..tip /\ cursor + 1 <= cursor + 1
    BY <1>1, <1>2 DEF Project
  <2> QED BY <1>2, <2>1, ProjectStep DEF Project
<1>3. CASE ProjectAgain
  <2>1. PICK h \in 1..cursor : ProjectHeight(h)
    BY <1>3 DEF ProjectAgain
  <2>2. h \in 1..tip /\ h <= cursor + 1
    BY <1>1
  <2> QED BY <2>1, <2>2, ProjectStep
<1>4. CASE ResetMining
  <2>1. TypeOK' /\ UNCHANGED <<chain, tip, fate, undecoded>>
    BY <1>4, TypeStep DEF ResetMining, MiningInv
  <2>2. \A e \in Epochs : lines'[e] = {}
    BY <1>4 DEF ResetMining
  <2>3. Accounted'
    BY <1>4, <2>1, <2>2 DEF ResetMining, CursorAfterReset, Accounted, Passed, MiningInv
  <2>4. \A e \in Epochs : chain.final[e] \in Nat /\ chain.final[e] > 0
    BY Basics, SettlementBounds DEF MiningInv, History
  <2>5. FinalsPassed' /\ PayoutsExact'
    BY <1>4, <2>1, <2>4 DEF ResetMining, CursorAfterReset, FinalsPassed, PayoutsExact
  <2> QED BY <2>1, <2>3, <2>5 DEF MiningInv
<1>5. CASE Ingest \/ (\E e \in Epochs : Redecode(e))
  BY <1>5, MiningKept DEF Ingest, Redecode, mining
<1>6. CASE Produce \/ Sample \/ SampleAgain \/ Sampler \/ FailRead \/ ResetRows \/ Kill \/ UNCHANGED vars
  <2>1. UNCHANGED <<mining, tip, fate, undecoded>>
    BY <1>6 DEF Produce, Sample, SampleAgain, StartSample, Sampler, ReadEpoch, StoreSample,
       ResetCursor, FailRead, ResetRows, Kill, vars
  <2> QED BY <2>1, MiningKept DEF mining
<1> QED BY <1>2, <1>3, <1>4, <1>5, <1>6 DEF Next

THEOREM MiningInvariant == Spec => []MiningInv
BY MiningInit, MiningStep, PTL DEF Spec

\* Whatever is projected again, redecoded or reset, the payout lines of a chunk
\* are those its message yields.
THEOREM PayoutLinesAreExact == Spec => []PayoutsExact
BY MiningInvariant, PTL DEF MiningInv

\* Settled and open are shown as the chain has it, up to recorded failures.
THEOREM SettledIsSettledOnChain == Spec => []SettledIsSettled
<1>1. MiningInv => SettledIsSettled
  <2> SUFFICES ASSUME MiningInv, NEW e \in Known
               PROVE  IF e \in finals THEN chain.final[e] <= tip
                      ELSE cursor < chain.final[e] \/ <<"final", e>> \in failures
    BY DEF SettledIsSettled
  <2>1. e \in Epochs /\ chain.final[e] \in Nat /\ cursor \in Nat
    BY Basics, SettlementBounds DEF MiningInv, Known, History, TypeOK
  <2> QED BY <2>1 DEF MiningInv, FinalsPassed
<1> QED BY <1>1, MiningInvariant, PTL

\* Payouts and remainder make up the entitlement, or the chunk's failure shows.
THEOREM SettledSumsAddUp == Spec => []SettlementsAddUp
<1>1. MiningInv => SettlementsAddUp
  <2> SUFFICES ASSUME MiningInv, NEW e \in finals, ~Explained(e)
               PROVE  Cardinality(lines[e]) + (Amount - Paid(e, MaxHeight)) = Amount
    BY DEF SettlementsAddUp, Explained
  <2>1. e \in Epochs /\ chain.chunk[e] \in 0..MaxHeight
    BY Basics DEF MiningInv, TypeOK, History
  <2>2. CASE chain.chunk[e] = 0 \/ chain.fate[e] = "failed"
    <3>1. lines[e] = {} /\ Paid(e, MaxHeight) = 0
      BY <2>1, <2>2 DEF MiningInv, Accounted, Paid
    <3> QED BY <3>1, Lines DEF Amount
  <2>3. CASE chain.chunk[e] # 0 /\ chain.fate[e] # "failed"
    <3>1. lines[e] = ChunkLines
      BY <2>1, <2>3 DEF MiningInv, Accounted, Passed
    <3>2. Paid(e, MaxHeight) = 2
      BY <2>1, <2>3, Lines, SettlementBounds DEF Paid
    <3> QED BY <3>1, <3>2, Lines DEF Amount
  <2> QED BY <2>2, <2>3
<1> QED BY <1>1, MiningInvariant, PTL
=============================================================================
