---------------------------- MODULE OperatorFeed ----------------------------
(***************************************************************************)
(* The sampler of one operator's status feed                               *)
(* (indexer/src/projections/operator-status-snapshot.ts).  A run fetches   *)
(* discovery, the clock, the clock's epoch, then newest first the epochs   *)
(* the index knows and their draw records, each kind on its own budget; it *)
(* commits fetch by fetch.  The run holds the projections' lock, so what   *)
(* it knows of the chain changes only between runs; the operator's server  *)
(* moves on at any time.                                                   *)
(*                                                                         *)
(* Time is counted in runs, and only as far as the code compares it: how   *)
(* long ago a draw was tried, and whether that was after the epoch's last  *)
(* sample.                                                                 *)
(***************************************************************************)
EXTENDS Integers

CONSTANTS
    Last,          \* the epochs are 1..Last
    Take,          \* newest epochs a run looks at (200)
    EpochBudget,   \* EPOCH_FETCH_BUDGET
    DrawBudget,    \* DRAW_FETCH_BUDGET
    Backoff,       \* DRAW_RETRY_BACKOFF_MS, in runs
    Broken,        \* epochs whose status the server never delivers
    BrokenDraws,   \* and whose draw it never delivers
    MaxStops       \* bound: runs killed midway

ASSUME Bounds ==
    /\ Last \in Nat /\ Take \in Nat /\ EpochBudget \in Nat /\ DrawBudget \in Nat /\ Backoff \in Nat
    /\ MaxStops \in Nat

VARIABLES
    feed, drawn,       \* the operator's server
    entitled, final,   \* the index: newest epoch, finalized epochs
    discovery,         \* TRUE once a discovery document that offers draws is stored
    epochs, draws,     \* sampled epoch states and draw attempts
    pc, at, used,      \* the run: step, epoch, budget used
    stops

server == <<feed, drawn>>
index == <<entitled, final>>
samples == <<discovery, epochs, draws>>
vars == <<server, index, samples, pc, at, used, stops>>

Epochs == 1..Last

Untried == [state |-> "none", age |-> Backoff, late |-> FALSE]

Opened == {e \in Epochs : feed[e] # "none"}

-----------------------------------------------------------------------------
(* The server: epochs open in order, settle, and are drawn before that.    *)

OpenEpoch ==
    \E e \in Epochs \ Opened :
        /\ \A d \in 1..(e - 1) : d \in Opened
        /\ feed' = [feed EXCEPT ![e] = "open"]
        /\ UNCHANGED <<drawn, index, samples, pc, at, used, stops>>

SettleEpoch ==
    \E e \in Opened :
        /\ feed[e] = "open"
        /\ feed' = [feed EXCEPT ![e] = "settled"]
        /\ UNCHANGED <<drawn, index, samples, pc, at, used, stops>>

PublishDraw ==
    \E e \in Opened :
        /\ feed[e] = "open" /\ ~drawn[e]
        /\ drawn' = [drawn EXCEPT ![e] = TRUE]
        /\ UNCHANGED <<feed, index, samples, pc, at, used, stops>>

(* The index, between runs.                                                *)

IndexEntitlement ==
    /\ pc = "idle"
    /\ entitled < Last
    /\ entitled' = entitled + 1
    /\ UNCHANGED <<server, final, samples, pc, at, used, stops>>

IndexFinalization ==
    /\ pc = "idle"
    /\ \E e \in 1..entitled \ final : final' = final \union {e}
    /\ UNCHANGED <<server, entitled, samples, pc, at, used, stops>>

-----------------------------------------------------------------------------
(* The run.                                                                *)

Init ==
    /\ feed = [e \in Epochs |-> "none"] /\ drawn = [e \in Epochs |-> FALSE]
    /\ entitled = 0 /\ final = {}
    /\ discovery = FALSE
    /\ epochs = [e \in Epochs |-> "none"] /\ draws = [e \in Epochs |-> Untried]
    /\ pc = "idle" /\ at = 0 /\ used = [epoch |-> 0, draw |-> 0]
    /\ stops = 0

Older(row) == IF row.age < Backoff THEN [row EXCEPT !.age = @ + 1] ELSE row

\* Discovery is asked for hourly; where the fetch is not due, fails or is
\* refused, the last good document stands.
StartRun(hears) ==
    /\ pc = "idle"
    /\ pc' = "current"
    /\ discovery' = (discovery \/ hears)
    /\ draws' = [e \in Epochs |-> Older(draws[e])]
    /\ UNCHANGED <<server, index, epochs, at, used, stops>>

\* recordFetch of an epoch: what failed or was refused leaves the last good
\* payload.  A newly settled sample is younger than any draw attempt.
StoreEpoch(e, ok) ==
    /\ epochs' = IF ok THEN [epochs EXCEPT ![e] = feed[e]] ELSE epochs
    /\ draws' = IF ok /\ feed[e] = "settled" THEN [draws EXCEPT ![e].late = FALSE] ELSE draws

EpochServed(e) == e \in Opened \ Broken

Loop == pc' = "epoch" /\ at' = entitled

\* The epoch the last good clock names, which may be an old one, as often as its
\* sample is not settled; on no budget.
FetchCurrent(e, ok) ==
    /\ pc = "current"
    /\ e \in Opened /\ epochs[e] # "settled"
    /\ ok => EpochServed(e)
    /\ StoreEpoch(e, ok)
    /\ Loop
    /\ UNCHANGED <<server, index, discovery, used, stops>>

\* No clock was ever stored, or its epoch is settled.
SkipCurrent ==
    /\ pc = "current"
    /\ Loop
    /\ UNCHANGED <<server, index, samples, used, stops>>

EpochBudgetLeft == used.epoch < EpochBudget

DrawBudgetLeft == used.draw < DrawBudget

\* The loop is at an epoch, before or after its status was fetched.
Reaches(step) ==
    /\ pc = step
    /\ at > 0 /\ at > entitled - Take
    /\ step = "epoch" => EpochBudgetLeft \/ DrawBudgetLeft

\* Mutant: only first sight, no refresh after the chain has settled.
NeedEpochOnce(e) == epochs[e] = "none"

NeedEpoch(e) ==
    epochs[e] # "settled" /\ (epochs[e] = "none" \/ e \in final)

WantsEpoch == NeedEpoch(at) /\ EpochBudgetLeft

\* An epoch's status is fetched first; a draw it may need comes next.
FetchEpoch(ok) ==
    /\ Reaches("epoch") /\ WantsEpoch
    /\ ok => EpochServed(at)
    /\ StoreEpoch(at, ok)
    /\ used' = [used EXCEPT !.epoch = @ + 1]
    /\ pc' = "draw"
    /\ UNCHANGED <<server, index, discovery, at, stops>>

\* Mutant: any 404 on a settled epoch is the last word.
TerminalAtOnce(e) == draws[e].state = "missing" /\ epochs[e] = "settled"

\* A 404 is final only when it came after the feed's settled sample.
Terminal(e) == draws[e].state = "missing" /\ epochs[e] = "settled" /\ draws[e].late

\* Mutant: no backoff.
NeedDrawEagerly(e) == discovery /\ draws[e].state # "stored" /\ ~Terminal(e)

NeedDraw(e) ==
    /\ discovery
    /\ draws[e].state # "stored" /\ ~Terminal(e)
    /\ draws[e].age = Backoff

StoreDraw(e, state) ==
    draws' = [draws EXCEPT ![e] =
                 IF state = "stored"
                 THEN [Untried EXCEPT !.state = "stored"]
                 ELSE [state |-> state, age |-> 0, late |-> epochs[e] = "settled"]]

\* The draw record, 404 where there is none, or any other failure.
DrawAnswers(e) ==
    {"failed"} \union (IF e \in BrokenDraws THEN {} ELSE {IF drawn[e] THEN "stored" ELSE "missing"})

AtDraw == Reaches("draw") \/ (Reaches("epoch") /\ ~WantsEpoch)

WantsDraw == NeedDraw(at) /\ DrawBudgetLeft

FetchDraw(state) ==
    /\ AtDraw /\ WantsDraw
    /\ state \in DrawAnswers(at)
    /\ StoreDraw(at, state)
    /\ used' = [used EXCEPT !.draw = @ + 1]
    /\ pc' = "epoch" /\ at' = at - 1
    /\ UNCHANGED <<server, index, discovery, epochs, stops>>

NextEpoch ==
    /\ AtDraw /\ ~WantsDraw
    /\ pc' = "epoch" /\ at' = at - 1
    /\ UNCHANGED <<server, index, samples, used, stops>>

Idle == pc' = "idle" /\ at' = 0 /\ used' = [epoch |-> 0, draw |-> 0]

EndRun ==
    /\ pc = "epoch" /\ ~Reaches("epoch")
    /\ Idle
    /\ UNCHANGED <<server, index, samples, stops>>

\* Killed between two fetches: what was recorded stays.
Stop ==
    /\ pc # "idle" /\ stops < MaxStops
    /\ stops' = stops + 1
    /\ Idle
    /\ UNCHANGED <<server, index, samples>>

Run ==
    \/ \E hears \in BOOLEAN : StartRun(hears)
    \/ \E ok \in BOOLEAN : FetchEpoch(ok) \/ \E e \in Epochs : FetchCurrent(e, ok)
    \/ SkipCurrent
    \/ \E state \in {"stored", "missing", "failed"} : FetchDraw(state)
    \/ NextEpoch \/ EndRun

Next ==
    \/ OpenEpoch \/ SettleEpoch \/ PublishDraw
    \/ IndexEntitlement \/ IndexFinalization
    \/ Run \/ Stop

\* A draw's fetch that the server answers, if only with 404.
DrawAnswered(e) == at = e /\ (FetchDraw("stored") \/ FetchDraw("missing"))

\* The chain and the operator get on, runs follow one another, and a fetch that
\* is repeated for ever is answered once, broken ones excepted.
Fairness ==
    /\ WF_vars(OpenEpoch \/ SettleEpoch)
    /\ SF_vars(IndexEntitlement \/ IndexFinalization)
    /\ WF_vars(Run) /\ SF_vars(StartRun(TRUE))
    /\ \A e \in Epochs : SF_vars(at = e /\ FetchEpoch(TRUE)) /\ SF_vars(DrawAnswered(e))

Spec == Init /\ [][Next]_vars /\ Fairness

-----------------------------------------------------------------------------

States == {"none", "open", "settled"}

Attempts == [state : {"none", "stored", "missing", "failed"}, age : 0..Backoff, late : BOOLEAN]

\* Well-typed, and no draw is asked for before a discovery offered it.
TypeOK ==
    /\ feed \in [Epochs -> States] /\ drawn \in [Epochs -> BOOLEAN]
    /\ entitled \in 0..Last /\ final \subseteq Epochs
    /\ epochs \in [Epochs -> States] /\ draws \in [Epochs -> Attempts]
    /\ discovery \in BOOLEAN
    /\ \A e \in Epochs : draws[e].state # "none" => discovery
    /\ pc \in {"idle", "current", "epoch", "draw"}
    /\ at \in 0..entitled /\ used \in [epoch : 0..EpochBudget, draw : 0..DrawBudget]
    /\ stops \in 0..MaxStops

Rank(state) == CASE state = "none" -> 0 [] state = "open" -> 1 [] state = "settled" -> 2

\* operator-status-snapshot.ts:9: a failed fetch "never clobbers the last good
\* payload", and a stored draw is final: samples only ever get newer.
SamplesOnlyAdvance ==
    [][\A e \in Epochs : /\ Rank(epochs[e]) <= Rank(epochs'[e])
                         /\ draws[e].state = "stored" => draws'[e].state = "stored"]_vars

\* A draw is "neither retried forever nor given up early" (line 544): an epoch
\* whose draw is no longer asked for has none, however the operator's drawing and
\* settling fell between the two fetches of the epoch.
NoDrawGivenUpEarly == \A e \in Epochs : Terminal(e) => ~drawn[e]

\* Every epoch the chain has settled is sampled settled in the end, whatever
\* other epochs and all the draws fail.
EpochsSettle == \A e \in Epochs \ Broken : <>[](epochs[e] = "settled")

\* Every draw that was published is stored in the end,
\* and for every other epoch the sampler stops asking.
DrawsResolved ==
    \A e \in Epochs \ BrokenDraws :
        <>[](IF drawn[e] THEN draws[e].state = "stored" ELSE e \in Broken \/ Terminal(e))
=============================================================================
