------------------------------ MODULE Quorums --------------------------------
(***************************************************************************)
(* The quorum rule that votes, view changes and finality votes share.      *)
(***************************************************************************)
EXTENDS Integers

\* ceil(2n/3).
quorum_for_committee(n) == (2 * n + 2) \div 3
==============================================================================
