-------------------------- MODULE OperatorFigures --------------------------
(***************************************************************************)
(* The figures of one slot's operator page, as                             *)
(* apps/api/src/repositories/operators-repository.ts and routes/           *)
(* operators.ts compute them: the verdict, the daily history, the miners   *)
(* of each day, the participants, and the check of what the operator       *)
(* publishes.  They read tables that different projections fill, each at   *)
(* its own pace.  Latencies, wording and units are left out.               *)
(***************************************************************************)
EXTENDS Integers, FiniteSets, FiniteSetsExt, Functions

CONSTANTS
    Last,        \* the epochs are 1..Last
    MaxHeight,   \* bound: heights of the chain
    Histories,   \* what the chain did and what the operator claims
    Today,       \* the day of the request
    Month        \* THIRTY_DAYS_MS, in days

Epochs == 1..Last
Heights == 1..MaxHeight

None == -1
NoDay == 0

ASSUME FigureBounds ==
    /\ Last \in Nat /\ MaxHeight \in Nat /\ Today \in Nat /\ Month \in Nat
    /\ Histories # {}
    /\ \A c \in Histories :
         /\ DOMAIN c.day = Heights /\ DOMAIN c.close = Epochs /\ DOMAIN c.owed = Epochs
         /\ \A h \in Heights : c.day[h] \in Nat \ {0}
         /\ \A g, h \in Heights : g <= h => c.day[g] <= c.day[h]
         /\ \A e \in Epochs : c.close[e] \in Nat \ {0} /\ c.final[e] \in Nat /\ c.kept[e] \in Nat
         /\ IsFiniteSet(c.lines)
         /\ \A l \in c.lines : l.epoch \in Epochs /\ l.at \in (c.close[l.epoch] + 1)..c.final[l.epoch]
         /\ \A l \in c.lines : l.amount \in Nat \ {0}
         /\ \A e \in Epochs : c.claim[e].excluded \in Nat /\ c.claim[e].ineligible \in Nat
         /\ \A e \in Epochs :
              c.owed[e] = c.kept[e] + SumFunction([l \in {x \in c.lines : x.epoch = e} |-> l.amount])

VARIABLES
    chain,      \* a history: day, close, owed, final, kept, claim, and the payout lines
    stored,     \* heights with a Block row
    rewarded,   \* RewardEpochProjection: epochs closed by here
    sampled,    \* SlotEntitlementProjection: likewise
    mined,      \* payouts and finalizations by here
    published   \* OperatorStatusSample of each epoch: 0 none, 1 open, 2 reconciled

tables == <<stored, rewarded, sampled, mined, published>>

-----------------------------------------------------------------------------
(* The indexer.                                                            *)

Ingest == stored < MaxHeight /\ stored' = stored + 1 /\ UNCHANGED <<chain, rewarded, sampled, mined, published>>

ProjectRewards ==
    rewarded < stored /\ rewarded' = rewarded + 1 /\ UNCHANGED <<chain, stored, sampled, mined, published>>

SampleEntitlements ==
    sampled < stored /\ sampled' = stored /\ UNCHANGED <<chain, stored, rewarded, mined, published>>

ProjectMining ==
    mined < stored /\ mined' = mined + 1 /\ UNCHANGED <<chain, stored, rewarded, sampled, published>>

\* The operator's server knows the chain, not how far the index has come.
SampleFeed(e) ==
    /\ \E state \in (published[e] + 1)..2 : published' = [published EXCEPT ![e] = state]
    /\ UNCHANGED <<chain, stored, rewarded, sampled, mined>>

-----------------------------------------------------------------------------
(* The rows.                                                               *)

EpochRows == {e \in Epochs : chain.close[e] <= rewarded}

Entitled == {e \in Epochs : chain.close[e] <= sampled /\ chain.owed[e] > 0}

Payouts == {l \in chain.lines : l.at <= mined}

PayoutsOf(e) == {l \in Payouts : l.epoch = e}

Finalized == {e \in Epochs : chain.final[e] <= mined}

\* No epoch row has a block time: the day is that of the block it closed in.
CloseDay(e) == IF e \in EpochRows THEN chain.day[chain.close[e]] ELSE NoDay

Recipients(lines) == {l.to : l \in lines}

Amount(lines) == SumFunction([l \in lines |-> l.amount])

Sum(field, rows) == SumFunction([r \in rows |-> r[field]])

\* joined: one row for each owed epoch.
Joined(e) ==
    [epoch |-> e, day |-> CloseDay(e), entitlement |-> chain.owed[e],
     settled |-> IF e \in Finalized THEN 1 ELSE 0,
     kept |-> IF e \in Finalized THEN chain.kept[e] ELSE 0,
     paid |-> Amount(PayoutsOf(e)),
     payouts |-> Cardinality(PayoutsOf(e)),
     recipients |-> Cardinality(Recipients(PayoutsOf(e)))]

Owed == {Joined(e) : e \in Entitled}

-----------------------------------------------------------------------------
(* The queries.                                                            *)

Recent(day) == day # NoDay /\ day >= Today - Month

FiguresOf(rows) ==
    [owed |-> Cardinality(rows), settled |-> Sum("settled", rows), paid |-> Sum("paid", rows),
     kept |-> Sum("kept", rows), entitlement |-> Sum("entitlement", rows)]

\* all, and the last thirty days.
Verdicts == [all |-> FiguresOf(Owed), recent |-> FiguresOf({r \in Owed : Recent(r.day)}),
             recipients30 |-> Sum("recipients", {r \in Owed : Recent(r.day)})]

\* A slot that is owed nothing has no row, and the page no verdict.
Verdict == IF Owed = {} THEN None ELSE Verdicts

RecipientsTrend == {[epoch |-> l.epoch, recipients |-> Cardinality(Recipients(PayoutsOf(l.epoch)))] : l \in Payouts}

\* Mutant: every line counts, though an address is paid twice.
EpochPayoutLines(e, upTo) ==
    LET lines == {l \in chain.lines : l.epoch = e /\ l.at <= upTo}
    IN  [amounts |-> {l.amount : l \in lines}, recipients |-> Cardinality(lines)]

EpochPayoutFacts(e, upTo) ==
    LET lines == {l \in chain.lines : l.epoch = e /\ l.at <= upTo}
    IN  [amounts |-> {l.amount : l \in lines}, recipients |-> Cardinality(Recipients(lines))]

Participant(to) ==
    LET lines == {l \in Payouts : l.to = to}
        epochs == {l.epoch : l \in lines}
    IN  [to |-> to, epochs |-> Cardinality(epochs), total |-> Amount(lines),
         first |-> Min(epochs), last |-> Max(epochs)]

PaidParticipants == {Participant(to) : to \in Recipients(Payouts)}

\* Here an address is recent by the day it was paid.
CountPaidParticipants ==
    [all |-> Cardinality(Recipients(Payouts)),
     recent |-> Cardinality(Recipients({l \in Payouts : Recent(chain.day[l.at])}))]

\* The counts of the newest sample, open or not.
EnrolledNow ==
    LET known == {e \in Epochs : published[e] > 0}
    IN  IF known = {} THEN None ELSE chain.claim[Max(known)].enrolled

Participants == [paid |-> CountPaidParticipants, rows |-> PaidParticipants, enrolled |-> EnrolledNow]

Profile == [verdict |-> Verdict, trend |-> RecipientsTrend]

Days == {r.day : r \in Owed} \ {NoDay}

HistoryDay(day) ==
    LET rows == {r \in Owed : r.day = day}
    IN  [day |-> day, first |-> Min({r.epoch : r \in rows}), last |-> Max({r.epoch : r \in rows}),
         figures |-> FiguresOf(rows), payouts |-> Sum("payouts", rows),
         feedEpochs |-> Cardinality({r \in rows : published[r.epoch] > 0})]

\* Mutant: a miner's day is the day of the payment.
MinersOfPaymentDay ==
    {<<l.to, chain.day[l.at]>> : l \in {x \in Payouts : x.epoch \in EpochRows}}

\* A miner's days are the days its epochs closed.
MinersDays == {<<l.to, CloseDay(l.epoch)>> : l \in {x \in Payouts : x.epoch \in EpochRows}}

MinersOn(day) == {m[1] : m \in {x \in MinersDays : x[2] = day}}

NewMinersOn(day) == {to \in MinersOn(day) : \A m \in MinersDays : m[1] = to => day <= m[2]}

\* The route joins the miners to the days by their keys.
HistoryEntry(day) ==
    [day |-> day, row |-> HistoryDay(day), active |-> Cardinality(MinersOn(day)),
     new |-> Cardinality(NewMinersOn(day))]

History == {HistoryEntry(day) : day \in Days}

-----------------------------------------------------------------------------
(* verifyFeedEpoch: the four checks of a reconciled claim.                 *)

ShareEqualsPayouts(claim, facts) ==
    IF facts.amounts # {} THEN facts.amounts = {claim.share} ELSE claim.share \in {None, 0}

EnrolledReconciles(claim) ==
    None \notin {claim.enrolled, claim.eligible} /\ claim.enrolled = claim.eligible + claim.ineligible

EligibleReconciles(claim) ==
    None \notin {claim.eligible, claim.admitted} /\ claim.eligible = claim.admitted + claim.excluded

VerifyFeedEpoch(state, claim, facts) ==
    IF state # 2 THEN "unverifiable"
    ELSE IF /\ ShareEqualsPayouts(claim, facts)
            /\ claim.admitted = facts.recipients
            /\ EnrolledReconciles(claim) /\ EligibleReconciles(claim)
         THEN "verified" ELSE "mismatch"

-----------------------------------------------------------------------------
(* The page.                                                               *)

Total(field, history) == SumFunction([d \in history |-> d.row.figures[field]])

Totals(history) ==
    [owed |-> Total("owed", history), settled |-> Total("settled", history), paid |-> Total("paid", history),
     kept |-> Total("kept", history), entitlement |-> Total("entitlement", history)]

Miners(history) == Sum("new", history)

\* A window that ends with the newest row, not with today.
LastDays(history, n) == {d \in history : \A x \in history : d.day > x.day - n}

\* The running total that the chart of distinct miners draws on a day.
DistinctMiners(day) == Miners({d \in History : d.day <= day})

SharePct(figures) ==
    IF figures.paid + figures.kept = 0 THEN None ELSE (figures.paid * 100) \div (figures.paid + figures.kept)

PayoutSharePct(d) == IF d.row.figures.settled = 0 THEN None ELSE SharePct(d.row.figures)

MonthShare == SharePct(Totals(LastDays(History, Month)))
=============================================================================
