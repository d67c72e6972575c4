--------------------------- MODULE MCSettlements ---------------------------
(* Chains for Settlements: three epochs, with settlements that overlap the  *)
(* next epoch, or wait for the last block they may.                         *)
EXTENDS Settlements

Overlapping ==
    [close |-> <<1, 2, 4>>, chunk |-> <<2, 3, 5>>, final |-> <<3, 5, 6>>,
     fate |-> <<"whole", "short", "lost">>, unreadable |-> {}]

Hurried ==
    [close |-> <<1, 3, 4>>, chunk |-> <<1, 3, 0>>, final |-> <<2, 4, 7>>,
     fate |-> <<"undecoded", "failed", "whole">>, unreadable |-> {1}]

Delayed ==
    [close |-> <<1, 2, 3>>, chunk |-> <<3, 2, 5>>, final |-> <<3, 5, 5>>,
     fate |-> <<"whole", "garbled", "whole">>, unreadable |-> {}]

MCHistories == {Overlapping, Hurried, Delayed}
=============================================================================
