------------------------------- MODULE Ballots -------------------------------
(***************************************************************************)
(* What the voting layer of the consensus engine promises, without its     *)
(* proposals, timers, views-changes or restarts: a validator signs at most *)
(* one block per ballot, a ballot being a (slot, view) pair, and a block   *)
(* is certified once quorum_for_committee validators signed it.            *)
(* Validators in Faulty sign what they like.  Module Engine implements     *)
(* this specification.                                                     *)
(***************************************************************************)
EXTENDS Quorums, FiniteSets

CONSTANTS
    Validators,   \* the committee of an epoch
    Faulty,       \* the members that do not run the code of this repository
    Blocks,       \* block hashes
    BallotOf      \* the (slot, view) at which each block was proposed

\* What the theorems about quorums take for granted of the committee.
FaultsBounded ==
    /\ IsFiniteSet(Validators)
    /\ Faulty \subseteq Validators
    /\ 3 * Cardinality(Faulty) < Cardinality(Validators)

VARIABLE votes    \* the <<validator, block>> pairs signed so far

Voters(b) == {v \in Validators : <<v, b>> \in votes}

\* try_form_qc and verify_qc: distinct signers of one block reach the quorum.
Certified(b) ==
    Cardinality(Voters(b)) >= quorum_for_committee(Cardinality(Validators))

(***************************************************************************)
(* Actions.  The rule create_vote enforces with last_voted_slot and        *)
(* last_voted_view is that an honest validator never signs a second block  *)
(* for a ballot.                                                           *)
(***************************************************************************)
Cast(v, b) ==
    /\ votes' = votes \cup {<<v, b>>}
    /\ v \notin Faulty =>
         \A c \in Blocks : <<v, c>> \in votes /\ BallotOf[c] = BallotOf[b] => c = b

Init == votes = {}

Next == \E v \in Validators, b \in Blocks : Cast(v, b)

Spec == Init /\ [][Next]_votes

(***************************************************************************)
(* Properties.                                                             *)
(***************************************************************************)

\* Votes are pairs of a committee member and a block.
TypeOK == votes \subseteq Validators \X Blocks

\* An honest validator's votes within one (slot, view) are all for one block:
\* what the lexicographic check of create_vote is there to guarantee.
OneVotePerBallot ==
    \A v \in Validators \ Faulty : \A b, c \in Blocks :
        /\ <<v, b>> \in votes
        /\ <<v, c>> \in votes
        /\ BallotOf[b] = BallotOf[c]
        => b = c

\* Two blocks that both gather a quorum at the same (slot, view) are the same
\* block: try_form_qc can certify at most one block per view.
OneQcPerBallot ==
    \A b, c \in Blocks :
        BallotOf[b] = BallotOf[c] /\ Certified(b) /\ Certified(c) => b = c
==============================================================================
