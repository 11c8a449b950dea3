----------------------------- MODULE MCServices -----------------------------
(***************************************************************************)
(* What surrounds the chain, on small instances: the plaintext mempool, the *)
(* encrypted mempool, threshold decryption and the epoch handoff.  The four *)
(* share no variable.  A behaviour follows one of them and leaves the       *)
(* others in their initial state, so the state spaces add up.               *)
(***************************************************************************)
EXTENDS BlockBuilder, EncryptedPool, Decryption, EpochHandoff

VARIABLE active

------------------------------------------------------------------------------
\* The plaintext mempool: sender b has two variants of nonce 0, one heavy and
\* one light, and a nonce 1; sender a is listed first and fills the block.
PlainTx(sender, nonce, gas, payload) ==
    [sender |-> sender, nonce |-> nonce, gas |-> gas, payload |-> payload]
Heavy == PlainTx("b", 0, 3, "x")
Light == PlainTx("b", 0, 1, "y")
Later == PlainTx("b", 1, 1, "x")
Filler == PlainTx("a", 0, 2, "x")

MCTransfers == {Heavy, Light, Later, Filler}
MCVariants == {Heavy, Light}
MCByRpc == {Heavy, Light, Later}
MCLater == {Later}
MCHeavy == {Heavy}
MCBatch == <<Filler>>

------------------------------------------------------------------------------
\* The encrypted mempool: two senders, two gas sizes, one deadline that passes.
SealedTx(sender, gas, deadline, id) ==
    [sender |-> sender, gas |-> gas, deadline |-> deadline, id |-> id]
MCSealed == {SealedTx("a", 1, 0, 1), SealedTx("a", 2, 1, 2), SealedTx("a", 1, 0, 3),
             SealedTx("b", 3, 0, 4), SealedTx("b", 1, 0, 5)}

------------------------------------------------------------------------------
\* Committees: the same three validators in turned order, or with v4 joining.
CONSTANTS v1, v2, v3, v4

MCGenesis == <<v1, v2, v3>>
MCTurned(epoch, randomness) == IF epoch % 2 = 1 THEN <<v2, v3, v1>> ELSE <<v3, v1, v2>>
MCJoined(epoch, randomness) == IF epoch % 2 = 1 THEN <<v2, v3, v4>> ELSE <<v3, v4, v1>>

------------------------------------------------------------------------------
components == <<plain_vars, pool_vars, dec_vars, handoff_vars>>

MCInit ==
    /\ active \in {"plain", "sealed", "decryption", "handoff"}
    /\ PlainInit /\ PoolInit /\ DecInit /\ HandoffInit

PlainTurn == active = "plain" /\ PlainNext /\ UNCHANGED <<active, pool_vars, dec_vars, handoff_vars>>

MCNext ==
    \/ PlainTurn
    \/ active = "sealed" /\ PoolNext /\ UNCHANGED <<active, plain_vars, dec_vars, handoff_vars>>
    \/ active = "decryption" /\ DecNext /\ UNCHANGED <<active, plain_vars, pool_vars, handoff_vars>>
    \/ active = "handoff" /\ HandoffNext /\ UNCHANGED <<active, plain_vars, pool_vars, dec_vars>>

MCSpec == MCInit /\ [][MCNext]_<<active, components>>

\* One of them alone; the plaintext mempool with the fairness of its threads.
HandoffOnly == MCInit /\ active = "handoff" /\ [][MCNext]_<<active, components>>
DecryptionOnly == MCInit /\ active = "decryption" /\ [][MCNext]_<<active, components>>
PlainOnly == MCInit /\ active = "plain" /\ [][MCNext]_<<active, components>> /\ PlainFairness
==============================================================================
