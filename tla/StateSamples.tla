---------------------------- MODULE StateSamples ----------------------------
(***************************************************************************)
(* Samples of the chain's state beside the rewards history                 *)
(* (projections/rewards-snapshot.ts, balance-snapshot.ts): module balances *)
(* and what was emitted, the supply and the balances of the addresses the  *)
(* explorer knows, as the API serves them (balances-repository.ts).  A     *)
(* sampler makes its reads one after the other, each pinned to one height, *)
(* while the chain moves on and the node forgets old states; it writes     *)
(* only when all reads were answered.  Samplers and projections hold one   *)
(* lock.  An amount is the height whose state it was read from.            *)
(***************************************************************************)
EXTENDS RewardsHistory, FiniteSetsExt

CONSTANTS
    Held,            \* external: Held[h], denominations an address holds at h
    Keep,            \* external: newest heights whose state the node serves
    SamplesAnywhere  \* SAMPLE_HEIGHT may name a height below the newest

Denoms == UNION {Held[h] : h \in DOMAIN Held}

ASSUME HeldAssumption == Heights \subseteq DOMAIN Held /\ Denoms # {}

Reads == [rewards  |-> <<"module_balance", "cumulative_emitted">>,
          balances |-> <<"supply", "coins">>]

Jobs == DOMAIN Reads

Idle == [job |-> "none", height |-> 0, got |-> <<>>, written |-> FALSE]

VARIABLES
    reading,     \* the sampler that runs: [job, height, got, written]
    sampled,     \* ProjectionCursor of rewards_snapshot_v1, balance_snapshot_v1
    samples,     \* RewardsBalanceSample: [height, kind, amount]
    balances     \* AccountBalanceCurrent of one address: [at, amount], at = 0: no row

sampleVars == <<reading, sampled, samples, balances>>
vars == <<blockVars, historyVars, sampleVars>>

-----------------------------------------------------------------------------

\* SAMPLE_HEIGHT, else the highest block.
StartSample(job, h) ==
    /\ reading = Idle
    /\ h \in 1..Highest /\ (h = Highest \/ SamplesAnywhere)
    /\ reading' = [Idle EXCEPT !.job = job, !.height = h]
    /\ UNCHANGED <<sampled, samples, balances, blockVars, historyVars>>

\* Mutant: the request does not carry the height.
AnsweredByLatest == tip

\* x-cosmos-block-height.
Answered == reading.height

Read ==
    /\ reading # Idle /\ Len(reading.got) < 2
    /\ reading.height > tip - Keep
    /\ reading' = [reading EXCEPT !.got = Append(@, Answered)]
    /\ UNCHANGED <<sampled, samples, balances, blockVars, historyVars>>

\* A read that fails halts the cursor where it was; a kill does not even that.
GiveUp ==
    /\ reading # Idle
    /\ reading' = Idle
    /\ UNCHANGED <<sampled, samples, balances, blockVars, historyVars>>

Sample(h, kind, amount) == [height |-> h, kind |-> kind, amount |-> amount]

PutSamples(new) ==
    {s \in samples : \A n \in new : <<n.height, n.kind>> # <<s.height, s.kind>>} \union new

WriteRewards ==
    /\ reading.job = "rewards"
    /\ samples' = PutSamples({Sample(reading.height, Reads.rewards[i], reading.got[i]) : i \in 1..2})
    /\ UNCHANGED balances

\* A coin that is no longer held is not among the answers: its row stays.
WriteBalances ==
    /\ reading.job = "balances"
    /\ samples' = PutSamples({Sample(reading.height, "supply", reading.got[1])})
    /\ balances' = [d \in Denoms |->
                      IF d \in Held[reading.got[2]]
                      THEN [at |-> reading.height, amount |-> reading.got[2]]
                      ELSE balances[d]]

Write ==
    /\ Len(reading.got) = 2 /\ ~reading.written
    /\ WriteRewards \/ WriteBalances
    /\ reading' = [reading EXCEPT !.written = TRUE]
    /\ UNCHANGED <<sampled, blockVars, historyVars>>

Stamp ==
    /\ reading.written
    /\ sampled' = [sampled EXCEPT ![reading.job] = reading.height]
    /\ reading' = Idle
    /\ UNCHANGED <<samples, balances, blockVars, historyVars>>

\* resetRewardsProjections empties the table of samples, supply included.
ResetRewards ==
    /\ reading = Idle
    /\ ClearHistory
    /\ samples' = {}
    /\ sampled' = [sampled EXCEPT !["rewards"] = 0]
    /\ UNCHANGED <<reading, balances, blockVars>>

SamplesKept == {s \in samples : s.kind # "supply"}

NoBalances == [d \in Denoms |-> [at |-> 0, amount |-> 0]]

ResetBalances ==
    /\ reading = Idle
    /\ samples' = SamplesKept
    /\ balances' = NoBalances
    /\ sampled' = [sampled EXCEPT !["balances"] = 0]
    /\ UNCHANGED <<reading, blockVars, historyVars>>

Init ==
    /\ BlockInit /\ HistoryInit
    /\ reading = Idle
    /\ sampled = [job \in Jobs |-> 0]
    /\ samples = {} /\ balances = NoBalances

Next ==
    \/ BlockNext /\ UNCHANGED <<historyVars, sampleVars>>
    \/ \E h \in Heights : ProjectHeight(h) /\ reading = Idle /\ UNCHANGED sampleVars
    \/ \E job \in Jobs, h \in Heights : StartSample(job, h)
    \/ Read \/ GiveUp \/ Write \/ Stamp
    \/ ResetRewards \/ ResetBalances

Spec == Init /\ [][Next]_vars

-----------------------------------------------------------------------------

\* Mutant: every row of the address is shown.
ShownOfAnyHeight == {d \in Denoms : balances[d].at > 0}

\* getAccountBalances: the rows of the newest height the address was sampled at.
LatestSample == Max({balances[d].at : d \in Denoms})
Shown == {d \in Denoms : balances[d].at = LatestSample /\ LatestSample > 0}

\* getSupplyAtHeight.
SupplyAt(h) == {s \in samples : s.kind = "supply" /\ s.height = h}

\* A sampled height has both of its amounts, and both are of that height;
\* the height the sampler's cursor names is sampled, whatever was reset.
RewardSamplesAreWhole ==
    /\ \A s \in samples : s.amount = s.height
    /\ \A h \in Heights : Sample(h, "module_balance", h) \in samples
                              <=> Sample(h, "cumulative_emitted", h) \in samples
    /\ sampled["rewards"] # 0 =>
          Sample(sampled["rewards"], "module_balance", sampled["rewards"]) \in samples

\* The balances shown for an address are what it held at one height, the one
\* shown with them, and all it held.
ShownBalancesAreASample ==
    /\ \A d \in Shown : balances[d].amount = LatestSample
    /\ LatestSample > 0 => Shown = Held[LatestSample]

\* The supply of the height the balance sampler's cursor names is there to be
\* served.  It is not after a reset of rewards.
SupplyBehindCursor ==
    sampled["balances"] # 0 => SupplyAt(sampled["balances"]) # {}
=============================================================================
