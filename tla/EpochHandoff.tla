---------------------------- MODULE EpochHandoff ----------------------------
(***************************************************************************)
(* The epoch boundary of the slot tick: the committee rotates, and three    *)
(* gossip rounds start from it.  The outgoing committee reshares the        *)
(* threshold secret to the incoming one, the holders of key shares refresh  *)
(* them (PSS), and the committee combines shares of the next randomness.    *)
(* Each validator pools what it hears and combines the lowest indices of    *)
(* its pool at a trigger slot of its own.                                   *)
(*                                                                          *)
(* A key share is the point of a polynomial.  `poly` is the history of that *)
(* polynomial: the handoffs and refreshes that made it, each with the       *)
(* contributors it was made from.  Two shares can be combined exactly when  *)
(* their polys are equal, and open what the committee key locked when the   *)
(* poly is `sound`: no handoff in it mixed shares of two polynomials.       *)
(*                                                                          *)
(* Clocks differ by at most one slot.  A publication reaches a peer at once *)
(* or, MaxLost times, not at all; a late copy is the rebroadcast's.         *)
(***************************************************************************)
EXTENDS Integers, Sequences, FiniteSetsExt, Quorums

CONSTANTS Validators, GenesisCommittee,
          select_committee(_, _),       \* epoch, randomness -> sequence of validators
          EPOCH_LENGTH,
          RESHARE_REBROADCAST_SLOTS, RESHARE_REBROADCAST_INTERVAL_SLOTS,
          RESHARE_AGGREGATION_DELAY_SLOTS, RANDOMNESS_AGGREGATION_DELAY_SLOTS,
          MaxSlot, MaxLost

\* validator.rs: the delay "MUST be <= RESHARE_REBROADCAST_SLOTS".
ASSUME WindowsNest == RESHARE_AGGREGATION_DELAY_SLOTS <= RESHARE_REBROADCAST_SLOTS

VARIABLES engine,       \* validator -> its ValidatorEngine and identity
          losses        \* publications some peer missed so far

handoff_vars == <<engine, losses>>

NoShare == [index |-> 0, poly |-> <<>>, sound |-> FALSE]
NoMessage == [kind |-> "none", epoch |-> 0]
NoCollector == [epoch |-> 0, shares |-> {}]
GenesisRandomness == <<0, {}>>

PositionIn(keys, v) == IF \E i \in DOMAIN keys : keys[i] = v
                       THEN CHOOSE i \in DOMAIN keys : keys[i] = v ELSE 0

\* The `k` members of `pool` with the lowest index.
Canonical(pool, k) ==
    {c \in pool : Cardinality({d \in pool : d.from < c.from}) < k}

(***************************************************************************)
(* Start: one slot before the first boundary.                               *)
(***************************************************************************)
NewEngine(v) ==
    [slot |-> EPOCH_LENGTH - 1,
     committee |-> GenesisCommittee, prev_committee |-> <<>>,
     randomness |-> GenesisRandomness, next_randomness |-> <<>>,
     collector |-> NoCollector, randomness_trigger |-> 0,
     pss_pool |-> {}, pss_target |-> 0, pss_trigger |-> 0, pss_done |-> FALSE,
     pss_start |-> 0, pss_out |-> NoMessage,
     reshare_pool |-> {}, reshare_target |-> 0, reshare_trigger |-> 0,
     reshare_done |-> FALSE, reshare_start |-> 0, reshare_out |-> NoMessage,
     new_index |-> 0, outgoing_size |-> 0,
     position |-> Max({1, PositionIn(GenesisCommittee, v)}), panicked |-> FALSE,
     share |-> LET i == PositionIn(GenesisCommittee, v)
               IN IF i = 0 THEN NoShare
                  ELSE [index |-> i, poly |-> <<>>, sound |-> TRUE]]

HandoffInit == /\ engine = [v \in Validators |-> NewEngine(v)]
               /\ losses = 0

(***************************************************************************)
(* What a gossip message does to the engine `e` of a peer.                  *)
(***************************************************************************)
\* The claimed index holds the sender's key now or did before the rotation.
Signed(e, m) == \/ m.from \in DOMAIN e.committee /\ e.committee[m.from] = m.by
                \/ m.from \in DOMAIN e.prev_committee /\ e.prev_committee[m.from] = m.by

NewIndex(pool, m) == \A c \in pool : c.from # m.from

on_pss_contribution(e, m) ==
    /\ m.epoch = e.pss_target
    /\ ~e.pss_done
    /\ Signed(e, m)
    /\ NewIndex(e.pss_pool, m)

on_reshare_contribution(e, m) ==
    /\ m.epoch = e.reshare_target
    /\ e.new_index # 0
    /\ ~e.reshare_done
    /\ m.new_n = Len(e.committee)
    /\ NewIndex(e.reshare_pool, m)

on_randomness_share(e, m) ==
    /\ e.collector # NoCollector
    /\ m.epoch = e.collector.epoch
    /\ Signed(e, m)
    /\ NewIndex(e.collector.shares, m)

Receive(e, M) ==
    [e EXCEPT
        !.pss_pool = @ \cup {m \in M : m.kind = "pss" /\ on_pss_contribution(e, m)},
        !.reshare_pool = @ \cup {m \in M : m.kind = "reshare" /\ on_reshare_contribution(e, m)},
        !.collector.shares =
            @ \cup {m \in M : m.kind = "randomness" /\ on_randomness_share(e, m)}]

(***************************************************************************)
(* The slot tick, in the order of its steps.                                *)
(***************************************************************************)
Advanced(e) == [e EXCEPT !.slot = @ + 1]

\* Mutant of Rebroadcast: a contribution is published once.
PublishedOnce(out, start, now) == {}

\* maybe_rebroadcast_reshare and maybe_rebroadcast_pss: what is republished.
Rebroadcast(out, start, now) ==
    LET elapsed == now - start
    IN  IF /\ out # NoMessage
           /\ elapsed \in 1 .. RESHARE_REBROADCAST_SLOTS
           /\ elapsed % RESHARE_REBROADCAST_INTERVAL_SLOTS = 0
        THEN {out} ELSE {}

StillPending(out, start, now) ==
    IF now - start > RESHARE_REBROADCAST_SLOTS THEN NoMessage ELSE out

WindowClosed(e) ==
    [e EXCEPT !.pss_out = StillPending(@, e.pss_start, e.slot),
              !.reshare_out = StillPending(@, e.reshare_start, e.slot)]

\* aggregate_new_share: the shares of one polynomial make the next one; shares
\* of several make one that opens nothing.
Reshared(e, canonical) ==
    LET makers == {c.by : c \in canonical}
        alike == \A c, d \in canonical : c.poly = d.poly
        base == (CHOOSE c \in canonical : TRUE).poly
        step == <<"reshare", e.reshare_target, makers>>
    IN  [index |-> e.new_index,
         poly  |-> IF alike THEN Append(base, step) ELSE <<step>>,
         sound |-> alike /\ \A c \in canonical : c.sound]

try_aggregate_reshare_on_slot(e) ==
    LET old_threshold == quorum_for_committee(e.outgoing_size)
    IN  IF /\ ~e.reshare_done
           /\ e.new_index # 0
           /\ e.reshare_trigger # 0
           /\ e.slot >= e.reshare_trigger
           /\ old_threshold # 0
           /\ Cardinality(e.reshare_pool) >= old_threshold
        THEN [e EXCEPT !.share = Reshared(e, Canonical(e.reshare_pool, old_threshold)),
                       !.reshare_done = TRUE,
                       !.reshare_pool = {}]
        ELSE e

\* A delta exists for each index of the committee that was rotated in; the
\* array access panics for a share of a higher index.
try_apply_pss_on_slot(e) ==
    LET threshold == quorum_for_committee(Len(e.committee))
        makers == {c.by : c \in Canonical(e.pss_pool, threshold)}
    IN  IF \/ e.pss_done
           \/ e.pss_trigger = 0
           \/ e.slot < e.pss_trigger
           \/ Cardinality(e.pss_pool) < threshold
           \/ e.share = NoShare
        THEN e
        ELSE IF e.share.index > Len(e.committee)
        THEN [e EXCEPT !.panicked = TRUE]
        ELSE [e EXCEPT !.share.poly = Append(@, <<"refresh", e.pss_target, makers>>),
                       !.pss_pool = {},
                       !.pss_done = TRUE]

try_finalize_randomness_on_slot(e) ==
    LET threshold == quorum_for_committee(Len(e.committee))
        count == Cardinality(e.collector.shares)
    IN  IF /\ e.collector # NoCollector
           /\ \/ count >= Len(e.committee)
              \/ e.slot >= e.randomness_trigger /\ count >= threshold
        THEN [e EXCEPT !.next_randomness =
                           <<e.collector.epoch,
                             {c.by : c \in Canonical(e.collector.shares, threshold)}>>,
                       !.collector = NoCollector]
        ELSE e

(***************************************************************************)
(* The epoch boundary.                                                      *)
(***************************************************************************)
EpochOf(slot) == slot \div EPOCH_LENGTH

\* Mutant of rotate_to_epoch: the outgoing keys are not kept.
RotateForgetting(e, new_keys) ==
    [e EXCEPT !.committee = new_keys,
              !.randomness = IF e.next_randomness = <<>> THEN @ ELSE e.next_randomness,
              !.next_randomness = <<>>,
              !.outgoing_size = Len(e.committee)]

rotate_to_epoch(e, new_keys) ==
    [e EXCEPT !.prev_committee = e.committee,
              !.committee = new_keys,
              !.randomness = IF e.next_randomness = <<>> THEN @ ELSE e.next_randomness,
              !.next_randomness = <<>>,
              !.outgoing_size = Len(e.committee)]

prepare_for_reshare_reception(e, our_new_index) ==
    [e EXCEPT !.reshare_target = EpochOf(e.slot),
              !.new_index = our_new_index,
              !.position = IF our_new_index = 0 THEN @ ELSE our_new_index,
              !.reshare_pool = {},
              !.reshare_trigger = e.slot + RESHARE_AGGREGATION_DELAY_SLOTS,
              !.reshare_done = FALSE]

RandomnessShare(e, v) ==
    [kind |-> "randomness", epoch |-> EpochOf(e.slot) + 1, from |-> e.position, by |-> v]

start_epoch_randomness(e, v) ==
    [e EXCEPT !.collector = [epoch |-> EpochOf(e.slot) + 1, shares |-> {RandomnessShare(e, v)}],
              !.randomness_trigger = e.slot + RANDOMNESS_AGGREGATION_DELAY_SLOTS]

RefreshContribution(e, v) ==
    [kind |-> "pss", epoch |-> EpochOf(e.slot) + 1, from |-> e.share.index, by |-> v]

\* Nothing is armed on a validator that holds no share yet.
start_pss_refresh(e, v) ==
    IF e.share = NoShare THEN e
    ELSE [e EXCEPT !.pss_pool = {RefreshContribution(e, v)},
                   !.pss_target = EpochOf(e.slot) + 1,
                   !.pss_trigger = e.slot + RESHARE_AGGREGATION_DELAY_SLOTS,
                   !.pss_done = FALSE,
                   !.pss_out = RefreshContribution(e, v),
                   !.pss_start = e.slot]

Outgoing(e, v) == PositionIn(e.prev_committee, v) # 0 /\ e.share # NoShare

ResharingContribution(e, v) ==
    [kind |-> "reshare", epoch |-> EpochOf(e.slot), from |-> e.share.index, by |-> v,
     poly |-> e.share.poly, sound |-> e.share.sound, new_n |-> Len(e.committee)]

\* Mutant of start_committee_reshare: only peers' contributions fill the pool.
ReshareToPeersOnly(e, v) ==
    IF ~Outgoing(e, v) THEN e
    ELSE [e EXCEPT !.reshare_out = ResharingContribution(e, v),
                   !.reshare_start = e.slot]

\* The own contribution goes into the own pool too.
start_committee_reshare(e, v) ==
    IF ~Outgoing(e, v) THEN e
    ELSE [e EXCEPT !.reshare_pool = @ \cup {ResharingContribution(e, v)},
                   !.reshare_out = ResharingContribution(e, v),
                   !.reshare_start = e.slot]

AtBoundary(e, v) ==
    LET new_keys == select_committee(EpochOf(e.slot), e.randomness)
        rotated  == rotate_to_epoch(e, new_keys)
        prepared == prepare_for_reshare_reception(rotated, PositionIn(new_keys, v))
        seeded   == start_epoch_randomness(prepared, v)
    IN  start_committee_reshare(start_pss_refresh(seeded, v), v)

\* What the boundary publishes, read off the engine it leaves.
Published(e, v) ==
    e.collector.shares
        \cup (IF e.share # NoShare THEN {e.pss_out} ELSE {})
        \cup (IF Outgoing(e, v) THEN {e.reshare_out} ELSE {})

(***************************************************************************)
(* One tick of one validator, and what its peers receive of it.             *)
(***************************************************************************)
AtTrigger(e) ==
    try_finalize_randomness_on_slot(try_apply_pss_on_slot(try_aggregate_reshare_on_slot(e)))

SlotTick(v) ==
    LET e == Advanced(engine[v])
        crossed == EpochOf(e.slot) > EpochOf(engine[v].slot)
        combined == AtTrigger(WindowClosed(e))
        settled == IF crossed /\ ~combined.panicked THEN AtBoundary(combined, v) ELSE combined
        sent == Rebroadcast(e.reshare_out, e.reshare_start, e.slot)
                    \cup Rebroadcast(e.pss_out, e.pss_start, e.slot)
                    \cup (IF crossed THEN Published(settled, v) ELSE {})
        peers == Validators \ {v}
    IN  /\ engine[v].slot < MaxSlot
        /\ ~engine[v].panicked
        /\ \A w \in peers : engine[w].panicked \/ engine[w].slot >= engine[v].slot
        /\ \E k \in 0 .. MaxLost - losses :
             \E missed \in kSubset(k, sent \X peers) :
                /\ engine' = [w \in Validators |->
                                IF w = v THEN settled
                                ELSE Receive(engine[w], {m \in sent : <<m, w>> \notin missed})]
                /\ losses' = losses + k

HandoffNext == \E v \in Validators : SlotTick(v)

HandoffSpec == HandoffInit /\ [][HandoffNext]_handoff_vars

(***************************************************************************)
(* The committee and the randomness a validator checks a block of `slot`    *)
(* against.                                                                 *)
(***************************************************************************)
committee_keys_for_slot(e, slot) ==
    IF EpochOf(slot) + 1 = EpochOf(e.slot) /\ e.prev_committee # <<>>
    THEN e.prev_committee ELSE e.committee

(***************************************************************************)
(* Properties.                                                              *)
(***************************************************************************)
\* Two members that finished the same handoff hold shares that combine, and the
\* committee key survived it: the pools they drew the canonical subsets from
\* were filled by different gossip, one of them a slot ahead of the other
\* (validator.rs, try_aggregate_reshare_on_slot and try_apply_pss_on_slot).
SharesOnOnePolynomial ==
    \A v, w \in Validators :
        LET a == engine[v]
            b == engine[w]
        IN  /\ a.reshare_done /\ b.reshare_done
            /\ a.reshare_target = b.reshare_target
            => a.share.poly = b.share.poly /\ a.share.sound

\* Whatever publications the budget loses, every member of the incoming
\* committee has its new, refreshed share when the trigger slot is over: the
\* rebroadcasts of validator.rs fill every pool before it.
HandoffOnTime ==
    \A v \in Validators :
        LET e == engine[v]
        IN  e.new_index # 0 /\ e.slot >= e.reshare_trigger => e.reshare_done /\ e.pss_done

\* Around a boundary that one validator has crossed and another has not, both
\* resolve the committee of every slot that both have reached, back to the start
\* of the previous epoch, to the same keys (validator.rs,
\* committee_keys_for_slot): a vote for the last slot of an epoch verifies on
\* both sides.
BoundarySlotsResolveAlike ==
    \A v, w \in Validators : v # w /\ engine[v].slot <= engine[w].slot =>
        \A slot \in EPOCH_LENGTH * (EpochOf(engine[w].slot) - 1) .. engine[v].slot :
            slot >= 0 => committee_keys_for_slot(engine[v], slot) = committee_keys_for_slot(engine[w], slot)

\* Two validators in the same epoch run it on the same randomness: "so all nodes
\* agree on the same epoch randomness" (validator.rs, the comment on
\* randomness_aggregation_trigger_slot).
RandomnessAgreed ==
    \A v, w \in Validators :
        EpochOf(engine[v].slot) = EpochOf(engine[w].slot)
            => engine[v].randomness = engine[w].randomness
=============================================================================
