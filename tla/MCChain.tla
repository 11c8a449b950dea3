------------------------------- MODULE MCChain -------------------------------
EXTENDS CanonicalChain, TLC

\* Two proposers and two accounts; b1 competes with a1 and b2 with a2.
MCBlocks == {"a1", "b1", "a2", "b2", "a3"}
MCSlotOf == [b \in Blocks |-> CASE b \in {"a1", "b1"} -> 1
                                  [] b \in {"a2", "b2"} -> 2
                                  [] b = "a3" -> 3]
MCParentOf == [b \in Blocks |-> CASE b \in {"a1", "b1"} -> "genesis"
                                    [] b = "a2" -> "a1"
                                    [] b = "b2" -> "b1"
                                    [] b = "a3" -> "a2"]
MCProposerOf == [b \in Blocks |-> IF b \in {"a1", "b2"} THEN "p" ELSE "q"]
MCTouchedBy == [b \in Blocks |-> CASE b \in {"a1", "a3"} -> {"x"}
                                     [] b = "b1" -> {"x", "y"}
                                     [] b = "a2" -> {"y"}
                                     [] b = "b2" -> {}]
\* Gas at the target, or none with the fee at its floor: the fee stands still.
MCSteadyGas == [b \in Blocks |-> IF MCTouchedBy[b] = {} THEN 0 ELSE 2]
MCKeys == {"p", "q", "x", "y", "counters"}

\* One block per slot, the second without transactions.
MCLine == {"a1", "b2", "a3"}

\* Two slots, two blocks competing for the first.
MCTwoSlots == {"a1", "b1", "a2"}

PeerSymmetry == Permutations(Peers)
==============================================================================
