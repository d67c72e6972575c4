--------------------------- MODULE MCStateSamples ---------------------------
(***************************************************************************)
(* Two blocks for StateSamples: confirmed, unconfirmed and crowded       *)
(* transactions, a failed one, messages the explorer cannot decode, and    *)
(* events of EndBlock.                                                     *)
(***************************************************************************)
EXTENDS StateSamples

Msg(type) == [type |-> type, read |-> TRUE]
Ev(type, m) == [type |-> type, msg |-> m]
Tx(hash, ok, msgs, evs) == [hash |-> hash, ok |-> ok, body |-> TRUE, msgs |-> msgs, events |-> evs]

\* Two updates of one transaction, one of them applied at once, beside a
\* pause that failed.
Crowded ==
    [txs |-> <<Tx("a", TRUE, <<Msg("update"), Msg("update")>>,
                  <<Ev("queued", 1), Ev("queued", 2), Ev("activated", 2)>>),
               Tx("b", FALSE, <<Msg("pause")>>, <<>>)>>,
     events |-> <<"epoch", "other">>]

\* A pause and a resume of two transactions, the second without its event, and an
\* update whose body the explorer cannot decode; the chain pays the treasury and activates what was queued.
Paused ==
    [txs |-> <<Tx("c", TRUE, <<Msg("pause"), Msg("foreign")>>, <<Ev("paused", 1)>>),
               Tx("d", TRUE, <<[type |-> "resume", read |-> FALSE]>>, <<>>),
               [Tx("e", TRUE, <<Msg("update")>>, <<Ev("queued", 1)>>) EXCEPT !.body = FALSE]>>,
     events |-> <<"activated", "treasury">>]

MCChain == <<Crowded, Paused>>

\* Two updates whose events do not say which message they confirm.
UnnamedChain ==
    <<[txs |-> <<Tx("a", TRUE, <<Msg("update"), Msg("update")>>,
                    <<Ev("queued", None), Ev("queued", None)>>)>>,
       events |-> <<>>],
      Paused>>

ASSUME Chain = MCChain => EventsNamed /\ SearchIsWhole

\* One coin is gone by the second height, another comes and is gone
\* when the node is one block further.
MCHeld == <<{"utwlt", "atom"}, {"utwlt", "usd"}, {"utwlt"}>>
=============================================================================
