--------------------------- MODULE MCPageQueries ---------------------------
(* Two epochs over three heights and three days. *)
EXTENDS PageQueries

Line(epoch, n, to, amount, at) == [epoch |-> epoch, n |-> n, to |-> to, amount |-> amount, at |-> at]

Claim(share, admitted, eligible, excluded, enrolled, ineligible) ==
    [share |-> share, admitted |-> admitted, eligible |-> eligible, excluded |-> excluded,
     enrolled |-> enrolled, ineligible |-> ineligible]

\* The first epoch pays an address twice and is finalized later, the second
\* pays an old and a new one; the claims are true.
Honest ==
    [day |-> <<1, 2, 3>>, close |-> <<1, 2>>, owed |-> <<3, 3>>, final |-> <<3, 3>>, kept |-> <<1, 1>>,
     lines |-> {Line(1, 1, "a", 1, 2), Line(1, 2, "a", 1, 2), Line(2, 1, "a", 1, 3), Line(2, 2, "b", 1, 3)},
     claim |-> <<Claim(1, 1, 2, 1, 3, 1), Claim(1, 2, 2, 0, 2, 0)>>]

\* Nothing is owed for the first epoch and its claim says none was admitted;
\* for the second the claim names one more than were paid.
Boastful ==
    [day |-> <<1, 1, 2>>, close |-> <<1, 2>>, owed |-> <<0, 2>>, final |-> <<2, 3>>, kept |-> <<0, 1>>,
     lines |-> {Line(2, 1, "b", 1, 3)},
     claim |-> <<Claim(-1, 0, 0, 0, 1, 1), Claim(1, 2, 2, 0, 2, 0)>>]

MCHistories == {Honest, Boastful}
=============================================================================
