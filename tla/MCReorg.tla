------------------------------- MODULE MCReorg -------------------------------
(***************************************************************************)
(* Blocks that lose: the canonical chain of one node under competing       *)
(* blocks, and the slashing evidence that proposals carry, side by side.   *)
(* The two share no variable.  A behaviour follows one of them and leaves  *)
(* the other in its initial state, so the state spaces add up.             *)
(***************************************************************************)
EXTENDS MCChain, Evidence

VARIABLE active

Offence(slot, signer, kind) == [slot |-> slot, signer |-> signer, kind |-> kind]

\* z equivocates in two slots, in the second one twice over.
MCOffences == {Offence(1, "z", "propose"), Offence(2, "z", "vote"), Offence(2, "z", "view_change")}

ValidatorSymmetry == Permutations(Watchers)

MCInit == active \in {"chain", "evidence"} /\ Init /\ EvInit

MCNext ==
    \/ active = "chain" /\ Next /\ UNCHANGED <<active, ev_vars>>
    \/ active = "evidence" /\ EvNext /\ UNCHANGED <<active, vars>>

MCSpec == MCInit /\ [][MCNext]_<<active, vars, ev_vars>>

\* The evidence alone.
EvidenceOnly == MCInit /\ active = "evidence" /\ [][MCNext]_<<active, vars, ev_vars>>
==============================================================================
