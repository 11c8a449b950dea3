--------------------------- MODULE BlockProcessor ---------------------------
(***************************************************************************)
(* What one block does to a node: the chain metadata it advances, the      *)
(* ledger keys it writes through the StateManager with the undo logs that  *)
(* take them back, and the reorganisation that replaces the tail of the    *)
(* chain by it.  All are functions of the node; the module has no state.   *)
(***************************************************************************)
EXTENDS StateManager

CONSTANTS
    Blocks,              \* block hashes
    SlotOf,              \* the slot of each block
    ProposerOf,          \* the proposer of each block, one of Proposers
    TouchedBy,           \* the accounts each block's transactions write
    GasOf,               \* the gas each block's transactions use
    Proposers, Accounts, \* ledger keys: balances of proposers, other accounts
    GAS_TARGET, GENESIS_BASE_FEE, MIN_BASE_FEE, ADJUSTMENT_DIVISOR

Counters == "counters"   \* treasury, total supply, burned fees, pooled rewards

ASSUME BlockAssumption ==
    /\ SlotOf \in [Blocks -> Nat \ {0}]
    /\ ProposerOf \in [Blocks -> Proposers]
    /\ TouchedBy \in [Blocks -> SUBSET Accounts]
    /\ Keys = Proposers \cup Accounts \cup {Counters}

(***************************************************************************)
(* Chain metadata (chain.rs).  Header pruning at two epochs is left out.   *)
(***************************************************************************)
genesis == [head_slot |-> 0, headers |-> <<>>, base_fee |-> GENESIS_BASE_FEE]

advance(c, b) ==
    [head_slot |-> SlotOf[b],
     headers   |-> With(c.headers, SlotOf[b], b),
     base_fee  |-> c.base_fee]

HasHeader(c, slot) == slot \in DOMAIN c.headers

CanRevert(c, target) == target = 0 \/ target = c.head_slot \/ HasHeader(c, target)

revert(c, target) ==
    [head_slot |-> target,
     headers   |-> [s \in {s \in DOMAIN c.headers : s <= target} |-> c.headers[s]],
     base_fee  |-> c.base_fee]

\* adjust_base_fee, in integer arithmetic; every case moves by at least one.
adjust_base_fee(fee, gas) ==
    LET delta(d) == LET x == ((fee * d) \div GAS_TARGET) \div ADJUSTMENT_DIVISOR
                    IN  IF x = 0 THEN 1 ELSE x
        new == CASE gas = GAS_TARGET -> fee
                 [] gas > GAS_TARGET -> fee + delta(gas - GAS_TARGET)
                 [] gas < GAS_TARGET -> fee - delta(GAS_TARGET - gas)
    IN  IF new < MIN_BASE_FEE THEN MIN_BASE_FEE ELSE new

\* The fee after n slots nobody produced a block for.
AfterSkipped[fee \in Nat, n \in Nat] ==
    IF n = 0 THEN fee ELSE AfterSkipped[adjust_base_fee(fee, 0), n - 1]

(***************************************************************************)
(* Executing a block (block_processor.rs).  What a block adds to a ledger  *)
(* key is an entry [block, part, price]: fees are charged at the base fee. *)
(***************************************************************************)
Added(s, k, b, part, price) ==
    Append(get(s, k), [block |-> b, part |-> part, price |-> price])

Before(s, keys) == [k \in keys |-> get(s, k)]

\* The transactions, through a StateOverlay: writes deferred, undo recorded.
ExecuteTransactions(s, b, price) ==
    record_block_undo(
        update_batch_deferred(s, [k \in TouchedBy[b] |-> Added(s, k, b, "txs", price)]),
        SlotOf[b], Before(s, TouchedBy[b]))

apply_block_fees(s, b, price) ==
    IF TouchedBy[b] = {} THEN s
    ELSE update_batch_deferred(s, [k \in {ProposerOf[b]} |-> Added(s, k, b, "fee", price)])

\* The proposer's share of the mint bypasses the deferred writes.
CreditServiceShare(s, b) ==
    IF get(s, ProposerOf[b]) = Absent THEN s
    ELSE insert(s, ProposerOf[b], Added(s, ProposerOf[b], b, "service", 0))

CreditCounters(s, b, price) ==
    update_batch_deferred(s, [k \in {Counters} |->
        Added(s, k, b, "mint", IF TouchedBy[b] = {} THEN 0 ELSE price)])

ExecuteBlock(s, b, price) ==
    LET txs  == ExecuteTransactions(s, b, price)
        paid == CreditCounters(CreditServiceShare(apply_block_fees(txs, b, price), b),
                               b, price)
    IN  record_block_undo(paid, SlotOf[b], Before(txs, {ProposerOf[b], Counters}))

validate_header_with_checkpoint(c, slot, checkpoint) ==
    /\ slot >= checkpoint
    /\ c = [genesis EXCEPT !.base_fee = c.base_fee] \/ slot > c.head_slot

\* A node is [chain, state]; the header has been validated.
process_full_block(n, b) ==
    LET skipped == SlotOf[b] - (n.chain.head_slot + 1)
        price   == AfterSkipped[n.chain.base_fee, IF skipped > 0 THEN skipped ELSE 0]
    IN  [chain |-> [advance(n.chain, b) EXCEPT !.base_fee = adjust_base_fee(price, GasOf[b])],
         state |-> ExecuteBlock(n.state, b, price)]

(***************************************************************************)
(* reorg_to_block reverts the ledger first and the headers second; when    *)
(* the header to go back to is missing it stops halfway.                   *)
(***************************************************************************)
pre_slot(b) == SlotOf[b] - 1

MayReorgAtCheckpoint(n, b, checkpoint) ==
    SlotOf[b] >= checkpoint /\ CanRevertTo(n.state, pre_slot(b))

MayReorg(n, b, checkpoint) ==
    SlotOf[b] > checkpoint /\ CanRevertTo(n.state, pre_slot(b))

reorg_to_block(n, b) ==
    LET reverted == revert_to(n.state, pre_slot(b))
    IN  IF CanRevert(n.chain, pre_slot(b))
          THEN process_full_block([chain |-> revert(n.chain, pre_slot(b)),
                                   state |-> reverted], b)
          ELSE [n EXCEPT !.state = reverted]

(***************************************************************************)
(* At genesis the proposers' accounts exist; the other accounts and the    *)
(* counters do not.                                                        *)
(***************************************************************************)
GenesisValue(k) ==
    IF k \in Proposers THEN <<[block |-> "genesis", part |-> "stake", price |-> 0]>> ELSE Absent

GenesisState == open([k \in Keys |-> GenesisValue(k)])

(***************************************************************************)
(* What the chain should have done to a key, for the properties.           *)
(***************************************************************************)
\* What a block adds to a key, in order, and what the blocks of a chain add.
Mark(b, part, applies) == IF applies THEN << <<b, part>> >> ELSE <<>>

Marks(b, k) ==
    Mark(b, "txs", k \in TouchedBy[b])
    \o Mark(b, "fee", k = ProposerOf[b] /\ TouchedBy[b] # {})
    \o Mark(b, "service", k = ProposerOf[b])
    \o Mark(b, "mint", k = Counters)

MarksOf(value) == [i \in DOMAIN value |-> <<value[i].block, value[i].part>>]

ExpectedUpTo(headers, top, k) ==
    LET upTo[s \in 0..top] == IF s = 0 THEN MarksOf(GenesisValue(k))
                                       ELSE upTo[s - 1] \o Marks(headers[s], k)
    IN  upTo

Expected(headers, top, k) == ExpectedUpTo(headers, top, k)[top]
=============================================================================
