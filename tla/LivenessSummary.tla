--------------------------- MODULE LivenessSummary ---------------------------
(***************************************************************************)
(* Uptime over many heights (projections/coreslot-liveness-summary.ts): a  *)
(* slot's rows are streamed through an accumulator whose ring buffer keeps *)
(* the trailing rows; the lifetime summary comes from the accumulator, the *)
(* recent ones from the ring.  Rows of an impossible shape, which the      *)
(* liveness projection never writes, are left out.                         *)
(***************************************************************************)
EXTENDS Integers, SequencesExt

NoHeight == 0 \* a null height

Row(slot, height, status) == [slot |-> slot, height |-> height, status |-> status]

NoRow == Row(0, NoHeight, "none")

Missed(r) == r.status \in {"nil", "absent"}

\* The numbers of a summary; counts of rows, a streak of its last status, the
\* height of the last miss, the invalid heights between first and last row.
Summary(first, last, expected, signed, absent, nil, signedStreak, missedStreak, latestMissed, invalid) ==
    [first |-> first, last |-> last, expected |-> expected, signed |-> signed, absent |-> absent, nil |-> nil,
     signedStreak |-> signedStreak, missedStreak |-> missedStreak,
     latestMissed |-> latestMissed,
     invalidCount |-> Cardinality({h \in invalid : first <= h /\ h <= last})]

UptimeBps(s) == (s.signed * 10000) \div s.expected

(***************************************************************************)
(* The batch form, over a list of rows.                                    *)
(***************************************************************************)
Count(rows, status) == Cardinality({i \in DOMAIN rows : rows[i].status = status})

\* The length of the trailing run of rows that are missed (or signed).
Streak(rows, missed) ==
    LET run == {n \in 0..Len(rows) :
                   \A i \in (Len(rows) - n + 1)..Len(rows) : Missed(rows[i]) = missed}
    IN  Max(run)

LatestMissed(rows) == Max({rows[i].height : i \in {j \in DOMAIN rows : Missed(rows[j])}} \union {NoHeight})

BuildSummary(rows, invalid) ==
    Summary(Head(rows).height, Last(rows).height, Len(rows),
            Count(rows, "signed"), Count(rows, "absent"), Count(rows, "nil"),
            Streak(rows, FALSE), Streak(rows, TRUE), LatestMissed(rows), invalid)

Trailing(rows, n) == SubSeq(rows, Max({1, Len(rows) - n + 1}), Len(rows))

(***************************************************************************)
(* The streamed form.                                                      *)
(***************************************************************************)
NewState(ringSize) ==
    [count |-> 0, signed |-> 0, absent |-> 0, nil |-> 0, first |-> NoHeight, last |-> NoRow,
     missed |-> FALSE, run |-> 0, latestMissed |-> NoHeight,
     ring |-> [i \in 1..ringSize |-> NoRow], pos |-> 1, ringCount |-> 0]

Feed(st, r) ==
    LET size == Len(st.ring)
        same == st.run > 0 /\ st.missed = Missed(r)
    IN  [count  |-> st.count + 1,
         signed |-> st.signed + (IF r.status = "signed" THEN 1 ELSE 0),
         absent |-> st.absent + (IF r.status = "absent" THEN 1 ELSE 0),
         nil    |-> st.nil + (IF r.status = "nil" THEN 1 ELSE 0),
         first  |-> IF st.first = NoHeight THEN r.height ELSE st.first,
         last   |-> r,
         missed |-> Missed(r),
         run    |-> IF same THEN st.run + 1 ELSE 1,
         latestMissed |-> IF Missed(r) THEN r.height ELSE st.latestMissed,
         ring   |-> [st.ring EXCEPT ![st.pos] = r],
         pos    |-> (st.pos % size) + 1,
         ringCount |-> Min({size, st.ringCount + 1})]

\* The ring's rows, oldest first.
MaterializeRing(st) ==
    IF st.ringCount < Len(st.ring) THEN SubSeq(st.ring, 1, st.ringCount)
    ELSE SubSeq(st.ring, st.pos, Len(st.ring)) \o SubSeq(st.ring, 1, st.pos - 1)

LifetimeSummary(st, invalid) ==
    Summary(st.first, st.last.height, st.count, st.signed, st.absent, st.nil,
            IF st.missed THEN 0 ELSE st.run, IF st.missed THEN st.run ELSE 0,
            st.latestMissed, invalid)
=============================================================================
