--------------------------- MODULE MCSlotRegistry ---------------------------
(***************************************************************************)
(* Block histories for SlotRegistry: slot 1 is in the genesis document,    *)
(* slot 2 is registered by a message.                                      *)
(***************************************************************************)
EXTENDS SlotRegistry

Msg(kind, s) == [kind |-> kind, slot |-> s, bad |-> FALSE]
BadMsg(kind, s) == [Msg(kind, s) EXCEPT !.bad = TRUE]

Ev(kind, s, index, by) ==
    [kind |-> kind, slot |-> s, index |-> index, named |-> TRUE, bad |-> FALSE, by |-> by]

Tx(hash, msgs, events) == [hash |-> hash, ok |-> TRUE, msgs |-> msgs, events |-> events]

\* One message and its event.
Simple(hash, kind, s) == Tx(hash, <<Msg(kind, s)>>, <<Ev(kind, s, 1, 1)>>)

\* Two messages of one kind and slot, with and without msg_index attributes.
Twice(hash, kind, s, indexed) ==
    Tx(hash, <<Msg(kind, s), Msg(kind, s)>>,
       <<Ev(kind, s, IF indexed THEN 1 ELSE 0, 1), Ev(kind, s, IF indexed THEN 2 ELSE 0, 2)>>)

\* 1: a registration, then an update of what it brought, in one range.
RegisterThenUpdate ==
    <<<<Simple(1, "register", 2), Simple(2, "payout", 1)>>,
      <<Simple(1, "metadata", 2), Simple(2, "rotation", 1)>>>>

\* 2: two updates of a block whose hashes are in the other order.
HashOrder ==
    <<<<Simple(2, "settlement", 1), Simple(1, "settlement", 1)>>,
      <<Simple(2, "status", 1), Simple(1, "status", 1), Simple(3, "policy", 2)>>>>

\* 3: several messages in one transaction, with and without msg_index.
Crowded ==
    <<<<Twice(2, "metadata", 1, TRUE), Twice(1, "payout", 1, FALSE)>>,
      <<Tx(1, <<Msg("register", 2), Msg("payout", 2)>>,
              <<Ev("register", 2, 0, 1), Ev("payout", 2, 0, 2)>>),
        Twice(2, "params", 1, FALSE)>>>>

\* 4: messages or events that are missing or cannot be read, a failed tx.
Broken ==
    <<<<[Simple(1, "payout", 1) EXCEPT !.ok = FALSE],
        Tx(2, <<>>, <<Ev("status", 1, 0, 0), Ev("metadata", 1, 0, 0)>>)>>,
      <<Tx(1, <<BadMsg("payout", 1), BadMsg("settlement", 1), Msg("params", 1)>>,
              <<Ev("payout", 1, 1, 1), Ev("settlement", 1, 2, 2)>>),
        Tx(2, <<Msg("status", 1)>>, <<[Ev("status", 1, 1, 1) EXCEPT !.bad = TRUE]>>)>>>>

MCChains == <<RegisterThenUpdate, HashOrder, Crowded, Broken>>

ASSUME Chains = MCChains => EventsInOrder

\* A status change wrapped in a message of another module, then one of its own:
\* two events, of which only the second has a message.
Wrapped ==
    <<<<Tx(1, <<Msg("exec", 1), Msg("status", 1)>>,
              <<Ev("status", 1, 1, 1), Ev("status", 1, 2, 2)>>)>>,
      <<>>>>

WrappedChains == <<Wrapped>>
=============================================================================
