---------------------------- MODULE BlockBuilder ----------------------------
(***************************************************************************)
(* build_tx_list: how a proposer fills a block from its copy of             *)
(* pending_txs, sender by sender.                                           *)
(***************************************************************************)
EXTENDS PlainPool, SequencesExt, FiniteSetsExt

CONSTANTS SENDER_CAP, MAX_TXS_PER_BLOCK, BLOCK_GAS_LIMIT

Proposing == SetToSeq({t.sender : t \in pending})

Queue(a) ==
    LET mine == SetToSortSeq({t \in pending : t.sender = a}, LAMBDA t, u : t.nonce < u.nonce)
    IN  SubSeq(mine, 1, Min({Len(mine), SENDER_CAP}))

\* Mutant of TakeFront: a front that does not fit is passed over.
TakeWhatFits(sel, a) ==
    LET fitting == SelectSeq(Queue(a), LAMBDA t : /\ t \notin ToSet(sel.txs)
                                                  /\ sel.gas + t.gas <= BLOCK_GAS_LIMIT)
    IN  IF Len(sel.txs) >= MAX_TXS_PER_BLOCK \/ fitting = <<>> THEN sel
        ELSE [txs |-> Append(sel.txs, fitting[1]), gas |-> sel.gas + fitting[1].gas]

\* A front that does not fit stays and blocks its sender's queue.
TakeFront(sel, a) ==
    LET taken == Cardinality({t \in ToSet(sel.txs) : t.sender = a})
        queue == Queue(a)
    IN  IF \/ Len(sel.txs) >= MAX_TXS_PER_BLOCK
           \/ taken = Len(queue)
           \/ sel.gas + queue[taken + 1].gas > BLOCK_GAS_LIMIT
        THEN sel
        ELSE [txs |-> Append(sel.txs, queue[taken + 1]),
              gas |-> sel.gas + queue[taken + 1].gas]

\* SENDER_CAP passes over the senders: a pass that takes nothing is the last.
build_tx_list ==
    LET n == Len(Proposing)
        visits == [k \in 1 .. n * SENDER_CAP |-> Proposing[((k - 1) % n) + 1]]
    IN  FoldLeft(TakeFront, [txs |-> <<>>, gas |-> 0], visits)

\* A block takes from each sender the lowest nonces it has pending and no more
\* than its share, within the limits, so that no transaction of the block waits
\* for a nonce the block left out (block_builder.rs, build_tx_list).
BlockTakesNoncePrefixes ==
    LET sel == build_tx_list
        Got(a) == SelectSeq(sel.txs, LAMBDA t : t.sender = a)
    IN  /\ Len(sel.txs) <= MAX_TXS_PER_BLOCK /\ sel.gas <= BLOCK_GAS_LIMIT
        /\ \A a \in ToSet(Proposing) :
             /\ Len(Got(a)) <= SENDER_CAP
             /\ \A t \in ToSet(Got(a)) : \A u \in pending :
                  u.sender = a /\ u.nonce < t.nonce => u \in ToSet(Got(a))
============================================================================
