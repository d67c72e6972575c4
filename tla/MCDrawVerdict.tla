--------------------------- MODULE MCDrawVerdict ---------------------------
(***************************************************************************)
(* Four blocks, an anchor at height 2 or 3, a beacon window over what is   *)
(* left; the target slot is 1.  The honest record of each chain, and the   *)
(* records that differ from it in one thing.                               *)
(***************************************************************************)
EXTENDS DrawVerdict

MCTicket(beacon, id) == (5 * id + Cardinality(beacon[4])) % 7

Params ==
    [paramsVersion |-> 1, policyVersion |-> 1, rate |-> 5000, max |-> 9, perSelection |-> 9,
     candidates |-> 5, offset |-> 1, window |-> 2, chainBlocks |-> 2, chainProposers |-> 2,
     blocks |-> 1, proposers |-> 1, exclude |-> TRUE]

PolicyRow(h, version, rate) == [height |-> h, version |-> version, rate |-> rate, max |-> 9]

\* The chain that anchored these parameters and candidates.
ChainOf(anchor, params, candidates, proposers, policies) ==
    [height |-> 4, proposers |-> proposers, policies |-> policies,
     addresses |-> [h \in 1..4 |-> "whole"], windows |-> [h \in 1..4 |-> {1, 2, 3}],
     anchor |-> [height |-> anchor, memo |-> [slot |-> Slot, epoch |-> Epoch, params |-> params,
                                         set |-> SetHash(candidates)]]]

\* What an honest operator publishes for it.
RecordOf(c, params, candidates) ==
    LET from  == c.anchor.height + 1
        rows  == {[height |-> h, proposer |-> c.proposers[h]] : h \in from..4}
        used  == {b \in rows : b.proposer # Slot}
        ok    == Admissible(params, rows, from, 4)
        many  == Len(candidates) > 1
        hash  == IF ok THEN BeaconHash(candidates, from, 4, used) ELSE None
        k     == WinnerCount(Len(candidates), params.rate, params.max, params.perSelection)
        drawn == CASE ~many -> candidates
                   [] ok    -> Winners(candidates, hash, k)
                   [] OTHER -> <<>>
    IN  [version |-> 1, slot |-> Slot, epoch |-> Epoch, params |-> params,
         committedParams |-> params, candidates |-> candidates,
         setHash |-> SetHash(candidates), committedSet |-> SetHash(candidates),
         confirmed |-> c.anchor.height,
         beacon |-> IF many
                    THEN [start |-> from, end |-> 4, usable |-> Cardinality(used),
                          excluded |-> params.window - Cardinality(used), unattributable |-> 0,
                          distinct |-> Cardinality({b.proposer : b \in used}),
                          admissible |-> ok, hash |-> hash]
                    ELSE None,
         outcome |-> CASE Len(candidates) = 0 -> "NO_CANDIDATES"
                       [] many /\ ~ok         -> "NO_VALID_BEACON"
                       [] OTHER               -> "SUCCESS",
         k |-> k, winners |-> drawn, selectedHash |-> SelectedHash(drawn)]

Case(c, r) == [chain |-> c, record |-> r]

HonestCase(params, candidates, proposers, policies) ==
    LET c == ChainOf(4 - params.window, params, candidates, proposers, policies)
    IN  Case(c, RecordOf(c, params, candidates))

Three == <<1, 2, 4>>

Policies == {PolicyRow(1, 1, 5000), PolicyRow(2, 2, 4000)}

Base == HonestCase(Params, Three, <<1, 2, 2, 3>>, Policies)

HonestCases ==
    <<Base,
     HonestCase(Params, <<>>, <<1, 2, 2, 3>>, {}),
     HonestCase(Params, <<3>>, <<1, 2, 2, 3>>, Policies),
     HonestCase(Params, <<1, 2, 3, 8>>, <<1, 2, 1, 3>>, Policies),
     HonestCase([Params EXCEPT !.blocks = 2, !.proposers = 2], Three, <<1, 2, 2, 2>>, Policies),
     HonestCase([Params EXCEPT !.candidates = 10000], Three, <<1, 2, 2, 3>>, {}),
     \* an anchor just behind a change of policy
     HonestCase([Params EXCEPT !.policyVersion = 2, !.rate = 4000, !.window = 1], Three,
                <<1, 2, 2, 3>>, Policies),
     \* parameters of a policy that is not in force, honestly drawn
     HonestCase([Params EXCEPT !.policyVersion = 2, !.rate = 4000], Three, <<1, 2, 2, 3>>, Policies),
     HonestCase([Params EXCEPT !.proposers = 3], Three, <<1, 2, 2, 3>>, Policies),
     \* a list out of order, and anchored so
     HonestCase(Params, <<2, 1, 4>>, <<1, 2, 2, 3>>, Policies)>>

Forged(r) ==
    <<[r EXCEPT !.slot = 2], [r EXCEPT !.committedParams.max = 8],
     [r EXCEPT !.candidates = <<2, 1, 4>>],
     [r EXCEPT !.confirmed = 1], [r EXCEPT !.beacon = None],
     [r EXCEPT !.beacon.start = 2], [r EXCEPT !.beacon.usable = 1],
     [r EXCEPT !.winners = <<4>>, !.selectedHash = SelectedHash(<<4>>)],
     [r EXCEPT !.winners = <<>>, !.k = 0, !.outcome = "NO_CANDIDATES"]>>

\* A chain whose anchor says something else.
Anchors(c) ==
    <<[c EXCEPT !.anchor.memo = None], [c EXCEPT !.anchor.memo.epoch = Epoch + 1]>>

\* Chains with a block in the beacon's window whose proposer the explorer does
\* not know.
Unattributed(c) ==
    <<[c EXCEPT !.addresses[4] = "missing"], [c EXCEPT !.addresses[4] = "malformed"],
      [c EXCEPT !.windows[3] = {1}], [c EXCEPT !.windows[3] = {}]>>

MCCases ==
    HonestCases
    \o [i \in DOMAIN Forged(Base.record) |-> Case(Base.chain, Forged(Base.record)[i])]
    \o [i \in DOMAIN Anchors(Base.chain) |-> Case(Anchors(Base.chain)[i], Base.record)]
    \o [i \in DOMAIN Unattributed(Base.chain) |-> Case(Unattributed(Base.chain)[i], Base.record)]
=============================================================================
