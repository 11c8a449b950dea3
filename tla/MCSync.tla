------------------------------- MODULE MCSync --------------------------------
(***************************************************************************)
(* The canonical chain of one node and its catch-up with the network, side *)
(* by side.  The two share no variable.  A behaviour follows one of them   *)
(* and leaves the other in its initial state, so the state spaces add up.  *)
(***************************************************************************)
EXTENDS MCChain, ChainSync

VARIABLE active

\* Catching up: block 2 writes one key and block 3 the other.
MCWrittenBy(b) == IF b = 2 THEN "j" ELSE "k"

MCInit == active \in {"chain", "sync"} /\ Init /\ SyncInit

MCNext ==
    \/ active = "chain" /\ Next /\ UNCHANGED <<active, sync_vars>>
    \/ active = "sync" /\ SyncNext /\ UNCHANGED <<active, vars>>

MCSpec == MCInit /\ [][MCNext]_<<active, vars, sync_vars>>

\* The catch-up alone.
CatchUpOnly == MCInit /\ active = "sync" /\ [][MCNext]_<<active, vars, sync_vars>>
==============================================================================
