---------------------------- MODULE PageQueries ----------------------------
(***************************************************************************)
(* The life of one of the web's queries (apps/web/src/lib/api/queries.ts): *)
(* what it asks for is part of its key, each key has one entry of the      *)
(* query client and at most one fetch at a time, a fetch is put together   *)
(* from statements that read the database as it is at that moment, may     *)
(* fail and is tried again.  The page moves between parameters while the   *)
(* indexer writes.  A list's first page lives as any query; its further    *)
(* pages are those of PagedLists.                                          *)
(***************************************************************************)
EXTENDS OperatorFigures, Sequences

CONSTANTS
    Behind,      \* bound: blocks the index lacks when the page opens
    Tries,       \* requests of a fetch: one and its retries
    MaxFaults,   \* bounds: failed requests, and changes of the page
    MaxVisits

ASSUME PageBounds == Behind \in 0..MaxHeight /\ Tries \in Nat \ {0} /\ MaxFaults \in Nat /\ MaxVisits \in Nat

-----------------------------------------------------------------------------
(* The queries: whether they need a parameter, when they ask again by      *)
(* themselves, and what one answer is read from.                           *)

QueryOf(needs, polls, reads) ==
    [needs |-> needs, polls |-> polls, reads |-> reads,
     row |-> FALSE, items |-> FALSE, forever |-> FALSE]

Newest == <<"blocks">>

Polled == QueryOf("nothing", "always", Newest)
PolledOf == QueryOf("one", "always", Newest)
OnDemand == QueryOf("one", "never", Newest)
List == QueryOf("nothing", "never", Newest)
FilteredList == QueryOf("optional", "never", Newest)

\* A row that may not be there yet, by height, hash, address, slot or epoch.
Detail == [OnDemand EXCEPT !.row = TRUE]

\* One request for each of a bounded set of slots or epochs.
Fanout == [OnDemand EXCEPT !.items = TRUE, !.reads = <<"blocks", "blocks">>]

UseStatus == Polled
UseLatestBlocks == Polled
UseTxsAggregate == Polled
UseCoreSlots == Polled
UseValidatorSet == PolledOf
UseProposers == Polled
UseLivenessRisk == [Polled EXCEPT !.row = TRUE]
UseSupply == [QueryOf("optional", "latest", Newest) EXCEPT !.row = TRUE]
UseSearch == OnDemand
UseBlocksList == List
UseBlock == Detail
UseTxsByHeight == OnDemand
UseTxsList == FilteredList
UseTx == Detail
UseAccountsList == List
UseAccount == Detail
UseAccountBalances == OnDemand
UseCoreSlotsList == FilteredList
UseCoreSlot == Detail
UseCoreSlotEvents == Detail
UseCoreSlotLiveness == Detail
UseProposedBlocks == Detail
UseOperatorResolution == OnDemand
UseHealthFanout == Fanout
UseOperatorDirectory == Fanout
UseRewardsEpochs == List
UseRewardEpoch == Detail
UseSlotSettlements == OnDemand
UseSettlementStatus == FilteredList
UseSettlementSeries == OnDemand
UseSettlement == Detail
UseAccountPayouts == OnDemand
UseEntitlements == FilteredList
UseBalances == FilteredList
UseParams == FilteredList
UseTreasury == List
UseOperators == Polled
UseOperatorProfile == Detail
UseOperatorAuth == OnDemand
UseParticipants == PolledOf
UseHistory == [PolledOf EXCEPT !.reads = <<"blocks", "blocks">>]
UseDraw == [QueryOf("one", "until found", <<"record">>) EXCEPT !.forever = TRUE]
UseClock == PolledOf
UseFeedEpoch == [QueryOf("one", "never", <<"sample", "facts">>) EXCEPT !.forever = TRUE]
UseFeedFanout == Fanout

\* A reader of the figures that is not a page.
NoPage == QueryOf("nothing", "never", <<>>)

Queries ==
    {UseStatus, UseLatestBlocks, UseTxsAggregate, UseCoreSlots, UseValidatorSet, UseProposers,
     UseLivenessRisk, UseSupply, UseSearch, UseBlocksList, UseBlock, UseTxsByHeight, UseTxsList, UseTx, UseAccountsList, UseAccount,
     UseAccountBalances, UseCoreSlotsList, UseCoreSlot, UseCoreSlotEvents, UseCoreSlotLiveness,
     UseProposedBlocks, UseOperatorResolution, UseHealthFanout, UseOperatorDirectory, UseRewardsEpochs,
     UseRewardEpoch, UseSlotSettlements, UseSettlementStatus, UseSettlementSeries, UseSettlement,
     UseAccountPayouts, UseEntitlements, UseBalances, UseParams, UseTreasury, UseOperators,
     UseOperatorProfile, UseOperatorAuth, UseParticipants, UseHistory, UseDraw, UseClock, UseFeedEpoch,
     UseFeedFanout, NoPage}

VARIABLES
    query,     \* the query of this behaviour
    param,     \* what the page asks of it, or Away
    entries,   \* of the query client, by key
    fetches,   \* requests under way, by key
    faults, visits

pageVars == <<chain, tables, query, param, entries, fetches, faults, visits>>

Nothing == 0                     \* no parameter: undefined, or ''
Away == None
Params == Epochs \union {Nothing}

\* Mutant: the filter is sent but is no part of the key.
UnfilteredKey(p) == Nothing

Key(p) == p

Keys == Params

Empty == [has |-> FALSE, of |-> Nothing, read |-> <<>>, failed |-> FALSE, fresh |-> FALSE]

NoFetch == [of |-> Away, tries |-> 0, got |-> <<>>]

Enabled(p) == p # Away /\ (query.needs = "one" => p # Nothing)

Fetching(k) == fetches[k].of # Away

\* What a request has before its statements ran.
NoneRead == [i \in DOMAIN query.reads |-> None]

NewFetch(p) == [of |-> p, tries |-> 1, got |-> NoneRead]

\* The interval stops where there is nothing left to wait for.
Found(k) == entries[k].has /\ entries[k].read = <<1>>

\* Mutant: any answer ends the wait for the record.
PollsUntilAnswered(k) ==
    \/ query.polls = "always"
    \/ query.polls = "latest" /\ k = Nothing
    \/ query.polls = "until found" /\ ~entries[k].has

Polls(k) ==
    \/ query.polls = "always"
    \/ query.polls = "latest" /\ k = Nothing
    \/ query.polls = "until found" /\ ~Found(k)

-----------------------------------------------------------------------------
(* The tables a query reads are filled meanwhile; the others are at rest.  *)

Reads(table) == query = NoPage \/ (\E i \in DOMAIN query.reads : query.reads[i] = table)

Fill ==
    \/ Ingest
    \/ Reads("facts") /\ ProjectMining
    \/ query = NoPage /\ (ProjectRewards \/ SampleEntitlements)
    \/ (Reads("sample") \/ Reads("record")) /\ \E e \in Epochs : SampleFeed(e)

PageInit ==
    /\ query \in Queries
    /\ chain \in IF query = NoPage \/ Reads("sample") THEN Histories ELSE {CHOOSE c \in Histories : TRUE}
    /\ stored = IF query = NoPage THEN 0 ELSE IF Reads("blocks") THEN MaxHeight - Behind ELSE MaxHeight
    /\ rewarded = 0 /\ sampled = 0 /\ mined = 0
    /\ published = [e \in Epochs |-> 0]
    /\ param = Away
    /\ entries = [k \in Keys |-> Empty]
    /\ fetches = [k \in Keys |-> NoFetch]
    /\ faults = 0 /\ visits = 0

(* The page.                                                               *)

\* Mounting asks unless the entry is fresh: a failed one never is.
Visit(p) ==
    /\ query # NoPage
    /\ p # param /\ (query.needs = "nothing" => p = Nothing)
    /\ visits < MaxVisits
    /\ param' = p
    /\ visits' = visits + 1
    /\ LET k == Key(p)
       IN  fetches' = IF Enabled(p) /\ ~Fetching(k) /\ ~entries[k].fresh
                      THEN [fetches EXCEPT ![k] = NewFetch(p)] ELSE fetches
    /\ UNCHANGED <<chain, tables, query, entries, faults>>

LeavePage ==
    /\ param # Away
    /\ param' = Away
    /\ UNCHANGED <<chain, tables, query, entries, fetches, faults, visits>>

Ask ==
    /\ Enabled(param) /\ ~Fetching(Key(param))
    /\ fetches' = [fetches EXCEPT ![Key(param)] = NewFetch(param)]
    /\ UNCHANGED <<chain, tables, query, param, entries, faults, visits>>

\* refetchInterval: after an error as after an answer.
Poll == Enabled(param) /\ Polls(Key(param)) /\ Ask

\* The buttons of the banner and of a failed panel.
Refetch == Enabled(param) /\ entries[Key(param)].failed /\ Ask

\* staleTime, and after it gcTime, once nobody looks.
Expire(k) ==
    /\ entries[k].fresh /\ ~query.forever
    /\ entries' = [entries EXCEPT ![k].fresh = FALSE]
    /\ UNCHANGED <<chain, tables, query, param, fetches, faults, visits>>

Forget(k) ==
    /\ entries[k] # Empty /\ ~Fetching(k) /\ (param = Away \/ Key(param) # k)
    /\ entries' = [entries EXCEPT ![k] = Empty]
    /\ UNCHANGED <<chain, tables, query, param, fetches, faults, visits>>

(* The request.                                                            *)

\* What a statement that runs now reads: how far the table has come.
Value(read, p) ==
    CASE read = "blocks" -> stored
      [] read = "record" -> IF published[p] = 2 THEN 1 ELSE 0
      [] read = "sample" -> published[p]
      [] read = "facts"  -> mined

\* The sample is read before the facts; others are sent together.
Ready(k, i) == query.reads[i] = "facts" => fetches[k].got[1] # None

\* The row a request is about is written at some height.
RowThere(p) == query.row => chain.close[IF p = Nothing THEN Last ELSE p] <= stored

Statement(k, i) ==
    /\ Fetching(k)
    /\ i \in DOMAIN fetches[k].got /\ fetches[k].got[i] = None
    /\ Ready(k, i) /\ RowThere(fetches[k].of)
    /\ fetches' = [fetches EXCEPT ![k].got[i] = Value(query.reads[i], fetches[k].of)]
    /\ UNCHANGED <<chain, tables, query, param, entries, faults, visits>>

Fault == faults < MaxFaults /\ faults' = faults + 1

\* One request of a fan-out fails: its item is null, the others count.
FailItem(k, i) ==
    /\ Fault
    /\ Fetching(k) /\ query.items
    /\ i \in DOMAIN fetches[k].got /\ fetches[k].got[i] = None
    /\ fetches' = [fetches EXCEPT ![k].got[i] = 0]
    /\ UNCHANGED <<chain, tables, query, param, entries, visits>>

Arrive(k) ==
    /\ Fetching(k)
    /\ \A i \in DOMAIN fetches[k].got : fetches[k].got[i] # None
    /\ entries' = [entries EXCEPT ![k] = [has |-> TRUE, of |-> fetches[k].of, read |-> fetches[k].got,
                                          failed |-> FALSE, fresh |-> TRUE]]
    /\ fetches' = [fetches EXCEPT ![k] = NoFetch]
    /\ UNCHANGED <<chain, tables, query, param, faults, visits>>

\* An error keeps the data under it, and the page shows the error.
GiveUp(k) ==
    /\ entries' = [entries EXCEPT ![k].failed = TRUE, ![k].fresh = FALSE]
    /\ fetches' = [fetches EXCEPT ![k] = NoFetch]

\* Unreachable, timed out or a broken answer: tried again.
Fail(k) ==
    /\ Fault
    /\ Fetching(k) /\ ~query.items
    /\ IF fetches[k].tries < Tries
       THEN /\ fetches' = [fetches EXCEPT ![k].tries = @ + 1, ![k].got = NoneRead]
            /\ UNCHANGED entries
       ELSE GiveUp(k)
    /\ UNCHANGED <<chain, tables, query, param, visits>>

\* not_found is definitive.
NotFound(k) ==
    /\ Fetching(k) /\ ~RowThere(fetches[k].of)
    /\ GiveUp(k)
    /\ UNCHANGED <<chain, tables, query, param, faults, visits>>

Serve(k) ==
    \/ \E i \in 1..2 : Statement(k, i)
    \/ Arrive(k)
    \/ NotFound(k)

PageNext ==
    \/ Fill /\ UNCHANGED <<query, param, entries, fetches, faults, visits>>
    \/ \E p \in Params : Visit(p)
    \/ LeavePage \/ Poll \/ Refetch
    \/ \E k \in Keys : Serve(k) \/ Expire(k) \/ Forget(k) \/ Fail(k) \/ (\E i \in 1..2 : FailItem(k, i))

\* The API answers in the end, and an observed interval ticks.
Fairness ==
    /\ WF_pageVars(Poll)
    /\ \A k \in Keys : WF_pageVars(Serve(k))

PageSpec == PageInit /\ [][PageNext]_pageVars /\ Fairness

-----------------------------------------------------------------------------
(* Properties.                                                             *)

\* "Computed with the exact definitions of plan 6.1-6.4 so no two readers get
\* two numbers" (operators-repository.ts:2): once every owed epoch has its row,
\* the days of the history add up to the verdict; once every paid epoch is
\* among them, the miners that were new on some day are those ever paid, and
\* the participants together received what the days say was paid.  No day has
\* more miners than the chart has drawn up to it.
FiguresAgree ==
    /\ Entitled # {} /\ Entitled \subseteq EpochRows => Totals(History) = Profile.verdict.all
    /\ {l.epoch : l \in Payouts} \subseteq Entitled \intersect EpochRows =>
         /\ Miners(History) = Participants.paid.all
         /\ Sum("total", Participants.rows) = Totals(History).paid
         /\ \A day \in {m[2] : m \in MinersDays} : day \in Days
    /\ \A d \in History : d.active >= d.new /\ DistinctMiners(d.day) >= d.active

\* "Share of the last 30 days of settled rewards" (OperatorDashboard.tsx:363):
\* what the page shows is the share of epochs with a finalization.
SharesAreOfSettled ==
    LET recent == {r \in Owed : \E d \in LastDays(History, Month) : r.day = d.day}
    IN  MonthShare = SharePct(FiguresOf({r \in recent : r.settled = 1}))

Shown == param # Away /\ entries[Key(param)].has

\* The claim names the share every line pays, counts whoever was paid once,
\* and accounts for everyone enrolled.
True(e) ==
    LET lines == {l \in chain.lines : l.epoch = e}
        paid == {l.to : l \in lines}
        claim == chain.claim[e]
    IN  /\ claim.admitted = Cardinality(paid)
        /\ IF lines = {} THEN claim.share \in {None, 0} ELSE \A l \in lines : l.amount = claim.share
        /\ claim.eligible = claim.admitted + claim.excluded
        /\ claim.enrolled = claim.eligible + claim.ineligible

ShownVerdict(entry) ==
    VerifyFeedEpoch(entry.read[1], chain.claim[entry.of], EpochPayoutFacts(entry.of, entry.read[2]))

\* Once the mining rows reach an epoch's finalization, a reconciled claim that
\* is true is never struck through and one that is false always is, whatever
\* was shown before and for an epoch that paid nobody as well.
JudgedRightOnceIndexed ==
    \A k \in Keys :
        LET entry == entries[k]
        IN  query = UseFeedEpoch /\ entry.has /\ entry.read[1] = 2 /\ entry.read[2] >= chain.final[entry.of]
              => ShownVerdict(entry) = IF True(entry.of) THEN "verified" ELSE "mismatch"

\* "Not settled: unverifiable" (operators.ts:131): a true claim is not struck
\* through because the chain's side of it is not indexed yet.
HonestNeverStruck ==
    \A k \in Keys :
        query = UseFeedEpoch /\ entries[k].has /\ True(entries[k].of) => ShownVerdict(entries[k]) # "mismatch"

\* What a page shows was asked for with the parameter the page has now, though
\* the answer comes after a change of parameter; and it is never replaced by
\* an answer that was read earlier.
ShownIsAsked ==
    [][/\ Shown' => entries'[Key(param')].of = param'
       /\ Shown /\ Shown' /\ param' = param /\ ~query.items =>
            \A i \in DOMAIN query.reads : entries[Key(param)].read[i] <= entries'[Key(param)].read[i]]_pageVars

\* A polled page catches up with the index, whatever failed before: retries
\* that ran out, an answer from an empty table, a request that was half read.
CaughtUp ==
    /\ Shown /\ ~entries[Key(param)].failed
    /\ \A i \in DOMAIN query.reads : entries[Key(param)].read[i] = Value(query.reads[i], param)

PolledPagesCatchUp ==
    query.polls \in {"always", "until found"} => <>[](Enabled(param) /\ RowThere(param) => CaughtUp)
=============================================================================
