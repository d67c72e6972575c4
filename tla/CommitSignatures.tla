-------------------------- MODULE CommitSignatures --------------------------
(***************************************************************************)
(* What block_signatures makes of the last_commit of a block               *)
(* (projections/block-signatures.ts): a BlockSignature row per vote it can *)
(* read, a failure for what it cannot.                                     *)
(*                                                                         *)
(* A vote in the raw block is [slot, flag, shape], slot standing for the   *)
(* validator's address.  A commit is [stated, votes]: the height it states *)
(* to be of and its votes in order, or NoCommit.                           *)
(***************************************************************************)
EXTENDS Integers, Sequences, FiniteSets

NoSlot == 0 \* a null validator address

\* "scalar" is no object, "malformed" has an address that is none, "blank" has
\* none, "flagless" has a flag that is not known.
Shapes == {"whole", "scalar", "malformed", "blank", "flagless"}

Vote(s, flag, shape) == [slot |-> s, flag |-> flag, shape |-> shape]

\* An absent vote comes with an empty address.
Address(vote) ==
    IF vote.flag = "absent" \/ vote.shape \in {"malformed", "blank"} THEN NoSlot ELSE vote.slot

BlockIdFlag(vote) == IF vote.shape = "flagless" THEN "unknown" ELSE vote.flag

BlockSignature(i, vote) == [index |-> i, address |-> Address(vote), flag |-> BlockIdFlag(vote)]

\* Signatures that are objects have a row, also those that come with a failure.
SignatureRows(votes) ==
    {BlockSignature(i, votes[i]) : i \in {j \in DOMAIN votes : votes[j].shape # "scalar"}}

SignatureFlaws(votes) ==
    {"invalid_signature_payload" : i \in {j \in DOMAIN votes : votes[j].shape = "scalar"}} \union
    {"invalid_validator_address" : i \in {j \in DOMAIN votes : votes[j].shape = "malformed"}}

(***************************************************************************)
(* The height a commit is of.  A block's last_commit is of the height      *)
(* before it; a stated height that is another, or none, is reported and    *)
(* never believed.                                                         *)
(***************************************************************************)
Unreadable == -1
Unstated == -2

CommittedHeight(source) == source - 1

HeightFlaws(source, stated) ==
    IF stated = Unreadable THEN {"invalid_height"}
    ELSE IF stated \notin {Unstated, CommittedHeight(source)} THEN {"inconsistent_committed_height"}
    ELSE {}

NoCommit == [stated |-> Unstated, votes |-> <<>>]

Read(committed, rows, flaws) == [committed |-> committed, rows |-> rows, flaws |-> flaws]

\* The rows and failures of the block at a height.  The first block has no
\* commit before it.
ReadCommit(source, commit) ==
    IF commit.votes = <<>>
    THEN Read(CommittedHeight(source), {},
              IF source > 1 THEN {"missing_signatures"} ELSE {})
    ELSE Read(CommittedHeight(source), SignatureRows(commit.votes),
              HeightFlaws(source, commit.stated) \union SignatureFlaws(commit.votes))
=============================================================================
