----------------------------- MODULE EncryptedPool -----------------------------
(***************************************************************************)
(* The encrypted mempool of one node: mempool/src/pool.rs with the block   *)
(* selection its proposer makes from it and the inclusion audit its        *)
(* validator runs against it (mempool/src/inclusion.rs).                   *)
(*                                                                         *)
(* A transaction is its sender, gas limit and deadline, and stands for its *)
(* hash.  Those that fail a check on the transaction alone (signature,     *)
(* minimum gas, ciphertext, access list, size) never enter and are left    *)
(* out.  HashMaps are functions; a missing quota is the default one.       *)
(***************************************************************************)
EXTENDS Integers, Sequences, SequencesExt, FiniteSets, FiniteSetsExt, Functions

CONSTANTS
    Sealed,            \* encrypted transactions: [sender, gas, deadline], deadline 0 for none
    MAX_POOL,          \* max_size
    RATE_PER_WINDOW,   \* max_tx_per_window_per_sender
    MAX_CONCURRENT,    \* max_concurrent_per_sender
    RATE_WINDOW_MS,
    BLOCK_GAS,         \* block_gas_limit and gas_ceiling
    MAX_ENCRYPTED,     \* MAX_ENCRYPTED_TXS_PER_BLOCK
    GRACE_SLOTS,       \* MEV_INCLUSION_GRACE_SLOTS
    MaxMillis,         \* bound on the clock
    MaxBlock           \* bound on the block height

ASSUME PoolAssumption ==
    /\ {MAX_POOL, RATE_PER_WINDOW, MAX_CONCURRENT, MAX_ENCRYPTED} \subseteq Nat \ {0}
    /\ {RATE_WINDOW_MS, BLOCK_GAS, GRACE_SLOTS, MaxMillis, MaxBlock} \subseteq Nat

PoolSenders == {t.sender : t \in Sealed}

VARIABLES
    txs,             \* in arrival order
    seen_hashes,
    first_seen_slot,
    sender_tx_index,
    in_pool_count,   \* SenderQuota.in_pool_count
    submit_timestamps_ms,
    clock_ms,
    current_block,
    accepted         \* history: when each sender's last transactions were accepted

pool_vars == <<txs, seen_hashes, first_seen_slot, sender_tx_index, in_pool_count,
               submit_timestamps_ms, clock_ms, current_block, accepted>>

PoolInit ==
    /\ txs = <<>>
    /\ seen_hashes = {}
    /\ first_seen_slot = <<>>
    /\ sender_tx_index = [a \in PoolSenders |-> {}]
    /\ in_pool_count = [a \in PoolSenders |-> 0]
    /\ submit_timestamps_ms = [a \in PoolSenders |-> <<>>]
    /\ clock_ms = 0
    /\ current_block = 0
    /\ accepted = [a \in PoolSenders |-> <<>>]

is_expired(t, block) == t.deadline # 0 /\ block >= t.deadline

\* The timestamps check_sender_rate leaves: it drops those before the window.
InWindow(a) == SelectSeq(submit_timestamps_ms[a], LAMBDA at : at >= clock_ms - RATE_WINDOW_MS)

check_sender_rate(a) ==
    /\ Len(InWindow(a)) < RATE_PER_WINDOW
    /\ in_pool_count[a] < MAX_CONCURRENT

check_core_validity(t) ==
    /\ t.gas <= BLOCK_GAS
    /\ ~is_expired(t, current_block)
    /\ t \notin seen_hashes

------------------------------------------------------------------------------
Held(a) == Cardinality({t \in Range(txs) : t.sender = a})

\* How many of the transactions gone belong to a.
OfSender(gone, a) == {t \in gone : t.sender = a}

\* Mutant of ReleasedCount: a transaction leaves without giving up its slot.
LeakCount(count, gone) == count

\* release_sender_slot for each transaction of gone: the timestamps stay, they
\* are the sender's history and not its occupancy.
ReleasedCount(count, gone) ==
    [a \in PoolSenders |->
       LET left == count[a] - Cardinality(OfSender(gone, a)) IN IF left < 0 THEN 0 ELSE left]

\* evict_oldest: the transactions a full pool gives up for one more.
evict_oldest == IF Len(txs) >= MAX_POOL THEN {Head(txs)} ELSE {}

\* The history keeps one more than the limit.
LastFew(s) == IF Len(s) > RATE_PER_WINDOW + 1 THEN Tail(s) ELSE s

\* add_with_pubkey with insert_tx: a rejection may only drop old timestamps.
AddSealed(t) ==
    LET a == t.sender
        out == evict_oldest
        kept == SelectSeq(txs, LAMBDA u : u \notin out)
    IN
    IF check_sender_rate(a) /\ check_core_validity(t)
    THEN /\ txs' = Append(kept, t)
         /\ seen_hashes' = (seen_hashes \ out) \cup {t}
         /\ first_seen_slot' = [u \in (DOMAIN first_seen_slot \ out) \cup {t} |->
                                  IF u = t THEN current_block ELSE first_seen_slot[u]]
         /\ sender_tx_index' = [b \in PoolSenders |->
                                  (sender_tx_index[b] \ out) \cup (IF b = a THEN {t} ELSE {})]
         /\ in_pool_count' = [ReleasedCount(in_pool_count, out) EXCEPT ![a] = @ + 1]
         /\ submit_timestamps_ms' = [submit_timestamps_ms EXCEPT ![a] = Append(InWindow(a), clock_ms)]
         /\ accepted' = [accepted EXCEPT ![a] = LastFew(Append(@, clock_ms))]
         /\ UNCHANGED <<clock_ms, current_block>>
    ELSE /\ submit_timestamps_ms' = [submit_timestamps_ms EXCEPT ![a] = InWindow(a)]
         /\ UNCHANGED <<txs, seen_hashes, first_seen_slot, sender_tx_index, in_pool_count,
                        clock_ms, current_block, accepted>>

\* Mutant of Leave: a sender with nothing left loses its rate history.
ForgetSender(gone) ==
    /\ txs' = SelectSeq(txs, LAMBDA t : t \notin gone)
    /\ seen_hashes' = seen_hashes \ gone
    /\ first_seen_slot' = Restrict(first_seen_slot, DOMAIN first_seen_slot \ gone)
    /\ sender_tx_index' = [a \in PoolSenders |-> sender_tx_index[a] \ gone]
    /\ in_pool_count' = ReleasedCount(in_pool_count, gone)
    /\ submit_timestamps_ms' = [a \in PoolSenders |->
                                  IF in_pool_count'[a] = 0 THEN <<>> ELSE submit_timestamps_ms[a]]
    /\ UNCHANGED <<clock_ms, current_block, accepted>>

\* The transactions of the pool in gone leave it.
Leave(gone) ==
    /\ txs' = SelectSeq(txs, LAMBDA t : t \notin gone)
    /\ seen_hashes' = seen_hashes \ gone
    /\ first_seen_slot' = Restrict(first_seen_slot, DOMAIN first_seen_slot \ gone)
    /\ sender_tx_index' = [a \in PoolSenders |-> sender_tx_index[a] \ gone]
    /\ in_pool_count' = ReleasedCount(in_pool_count, gone)
    /\ UNCHANGED <<submit_timestamps_ms, clock_ms, current_block, accepted>>

prune_expired ==
    LET gone == {t \in Range(txs) : is_expired(t, current_block)} IN
    /\ gone # {}
    /\ Leave(gone)

\* A committed block held the transactions in hashes, some perhaps never here.
remove_included(hashes) == Leave(hashes \cap Range(txs))

set_current_block ==
    /\ current_block < MaxBlock
    /\ current_block' = current_block + 1
    /\ UNCHANGED <<txs, seen_hashes, first_seen_slot, sender_tx_index, in_pool_count,
                   submit_timestamps_ms, clock_ms, accepted>>

PoolClock ==
    /\ clock_ms < MaxMillis
    /\ clock_ms' = clock_ms + 1
    /\ UNCHANGED <<txs, seen_hashes, first_seen_slot, sender_tx_index, in_pool_count,
                   submit_timestamps_ms, current_block, accepted>>

PoolNext ==
    \/ \E t \in Sealed : AddSealed(t)
    \/ prune_expired
    \/ \E t, u \in Range(txs) : remove_included({t, u})
    \/ set_current_block
    \/ PoolClock

------------------------------------------------------------------------------
\* The unexpired transactions of a sender, in arrival order.
PerSender(a) == SelectSeq(txs, LAMBDA t : t.sender = a /\ ~is_expired(t, current_block))

\* Senders in the order of their first pending transaction.
sender_order ==
    LET pending == SelectSeq(txs, LAMBDA t : ~is_expired(t, current_block))
        firsts == SelectSeq([i \in 1..Len(pending) |->
                               [a |-> pending[i].sender,
                                new |-> \A j \in 1..(i - 1) : pending[j].sender # pending[i].sender]],
                            LAMBDA e : e.new)
    IN [i \in 1..Len(firsts) |-> firsts[i].a]

\* One visit of the round-robin walk to sender a.
Visit(sel, a) ==
    LET taken == Cardinality({i \in 1..Len(sel.txs) : sel.txs[i].sender = a})
        queue == PerSender(a)
    IN IF Len(sel.txs) >= MAX_ENCRYPTED \/ a \in sel.exhausted
       THEN sel
       ELSE IF taken = Len(queue) \/ sel.gas + queue[taken + 1].gas > BLOCK_GAS
            THEN [sel EXCEPT !.exhausted = @ \cup {a}]
            ELSE [sel EXCEPT !.txs = Append(@, queue[taken + 1]),
                             !.gas = @ + queue[taken + 1].gas]

\* Mutant of select_for_block: each sender is drained before the next.
DrainInTurn ==
    LET n == Len(sender_order)
        visits == [k \in 1..(n * Len(txs)) |-> sender_order[((k - 1) \div Len(txs)) + 1]]
    IN FoldLeft(Visit, [txs |-> <<>>, gas |-> 0, exhausted |-> {}], visits)

\* As many rounds as there are transactions: a round without progress ends the
\* walk and would be repeated to no effect.
select_for_block ==
    LET n == Len(sender_order)
        visits == [k \in 1..(n * Len(txs)) |-> sender_order[((k - 1) % n) + 1]]
    IN FoldLeft(Visit, [txs |-> <<>>, gas |-> 0, exhausted |-> {}], visits)

\* audit_inclusion by a validator that holds this pool, of a block with the
\* transactions in block at slot: the transactions it calls censored.
audit_inclusion(block, slot) ==
    LET remaining == BLOCK_GAS - FoldSet(LAMBDA t, n : t.gas + n, 0, block)
    IN {t \in Range(txs) : /\ slot - first_seen_slot[t] >= GRACE_SLOTS
                           /\ t \notin block
                           /\ t.gas <= remaining}

(***************************************************************************)
(* Properties.                                                             *)
(***************************************************************************)
\* The five structures that describe the pool agree after any sequence of
\* insertions with eviction, expiry and removal of included transactions: a
\* sender's count is the number of transactions it really holds, so no quota
\* slot leaks, and a hash that left can come again.
PoolIndexesAgree ==
    /\ IsInjective(txs)
    /\ Len(txs) <= MAX_POOL
    /\ seen_hashes = Range(txs)
    /\ DOMAIN first_seen_slot = Range(txs)
    /\ \A a \in PoolSenders :
         /\ sender_tx_index[a] = OfSender(Range(txs), a)
         /\ in_pool_count[a] = Held(a)
         /\ Held(a) <= MAX_CONCURRENT

\* No sender has more than RATE_PER_WINDOW transactions accepted in any span of
\* RATE_WINDOW_MS, measured on what was accepted and not on the timestamps the
\* pool keeps: leaving the pool and coming back does not reset the limit.
RateHonoured ==
    \A a \in PoolSenders : \A i \in 1..Len(accepted[a]) :
      i + RATE_PER_WINDOW <= Len(accepted[a]) =>
        accepted[a][i + RATE_PER_WINDOW] - accepted[a][i] > RATE_WINDOW_MS

\* The selection is max-min fair: each sender gets a prefix of its queue, within
\* the gas and count limits, and one that gets two fewer than another had no
\* more or its next did not fit; a block with room left exhausted every sender.
FairSelection ==
    LET sel == select_for_block
        Got(a) == SelectSeq(sel.txs, LAMBDA t : t.sender = a)
        Done(a) == \/ Len(Got(a)) = Len(PerSender(a))
                   \/ sel.gas + PerSender(a)[Len(Got(a)) + 1].gas > BLOCK_GAS
    IN /\ Len(sel.txs) <= MAX_ENCRYPTED
       /\ FoldSeq(LAMBDA t, n : t.gas + n, 0, sel.txs) <= BLOCK_GAS
       /\ \A a \in PoolSenders :
            /\ IsPrefix(Got(a), PerSender(a))
            /\ Len(sel.txs) < MAX_ENCRYPTED => Done(a)
            /\ \A b \in PoolSenders : Len(Got(b)) >= Len(Got(a)) + 2 => Done(a)

\* "Every encrypted_tx the proposer has held in mempool for at least grace_slots
\* slots must be included in the block body - unless the block's gas budget is
\* already exhausted": the block a proposer builds passes the audit of a
\* validator with the same pool.
BuiltBlockPassesAudit == audit_inclusion(Range(select_for_block.txs), current_block) = {}
================================================================================
