----------------------------- MODULE PlainPool -----------------------------
(***************************************************************************)
(* The plaintext mempool of one node.  Its three maps are shared by the     *)
(* event loop, by one task per RPC request and by one task per fast_tx      *)
(* connection, each under a lock of its own; `tx_gossip_tx` is a bounded    *)
(* channel into the event loop.  An action is what a task does between two  *)
(* points where it may be suspended.                                        *)
(*                                                                          *)
(* A transaction is its sender, nonce, gas limit and payload, and stands    *)
(* for its hash.  Only the pending_txs lock is ever held across a           *)
(* suspension; an arrival time is whether the TTL has passed since.         *)
(***************************************************************************)
EXTENDS Integers, Sequences, FiniteSets, Functions

CONSTANTS Transfers,            \* [sender, nonce, gas, payload]
          RpcTxs, GossipTxs,    \* what arrives over each path
          FastBatch,            \* sequence: what one fast_tx connection delivers
          MEMPOOL_GLOBAL_CAP, MEMPOOL_SENDER_CAP, GOSSIP_CHANNEL,
          MaxCommits, MaxSweeps

\* At most 127 transactions are left for the last flush; the channel takes 1024.
ASSUME BatchFits == Len(FastBatch) < GOSSIP_CHANNEL

VARIABLES pending,              \* pending_txs
          expired,              \* pending_tx_times: transaction -> its TTL has passed
          mempool_index,
          channel,              \* tx_gossip_tx
          locked,               \* the fast_tx task holds the pending_txs lock
          rpc,                  \* transaction -> where its request is
          fast,                 \* where the fast_tx task is
          loop,                 \* [at, txs]: where the event loop is
          consumed,             \* (sender, nonce) pairs the chain has used
          commits, sweeps       \* counts, for the bounds

plain_vars == <<pending, expired, mempool_index, channel, locked, rpc, fast, loop,
                consumed, commits, sweeps>>

IdleLoop == [at |-> "idle", txs |-> {}]
SlotOfTx(t) == <<t.sender, t.nonce>>
Stamped(T) == [t \in DOMAIN expired \cup T |-> t \notin T /\ expired[t]]
Unstamped(T) == [t \in DOMAIN expired \ T |-> expired[t]]

PlainInit ==
    /\ pending = {} /\ expired = <<>> /\ mempool_index = {} /\ channel = <<>>
    /\ locked = FALSE
    /\ rpc = [t \in RpcTxs |-> "arrived"]
    /\ fast = [at |-> "read", sent |-> 0]
    /\ loop = IdleLoop
    /\ consumed = {} /\ commits = 0 /\ sweeps = 0

(***************************************************************************)
(* send_raw_transaction.                                                    *)
(***************************************************************************)
At(t, here, there) == rpc[t] = here /\ rpc' = [rpc EXCEPT ![t] = there]

ingress_validate(t) ==
    /\ At(t, "arrived", IF SlotOfTx(t) \in consumed THEN "refused" ELSE "valid")
    /\ UNCHANGED <<pending, expired, mempool_index, channel, locked, fast, loop,
                   consumed, commits, sweeps>>

SameNonce(t) == \E u \in pending : SlotOfTx(u) = SlotOfTx(t)

\* Mutant of Admits: the nonce is not looked up under the lock.
AdmitsUnseen(t) ==
    /\ Cardinality(pending) < MEMPOOL_GLOBAL_CAP
    /\ Cardinality({u \in pending : u.sender = t.sender}) < MEMPOOL_SENDER_CAP

Admits(t) ==
    /\ Cardinality(pending) < MEMPOOL_GLOBAL_CAP
    /\ ~SameNonce(t)
    /\ Cardinality({u \in pending : u.sender = t.sender}) < MEMPOOL_SENDER_CAP

RpcInsert(t) ==
    /\ ~locked
    /\ At(t, "valid", IF Admits(t) THEN "pending" ELSE "refused")
    /\ pending' = IF Admits(t) THEN pending \cup {t} ELSE pending
    /\ UNCHANGED <<expired, mempool_index, channel, locked, fast, loop, consumed, commits, sweeps>>

RpcStamp(t) ==
    /\ At(t, "pending", "stamped")
    /\ expired' = Stamped({t})
    /\ UNCHANGED <<pending, mempool_index, channel, locked, fast, loop, consumed, commits, sweeps>>

RpcSend(t) ==
    /\ Len(channel) < GOSSIP_CHANNEL
    /\ At(t, "stamped", "answered")
    /\ channel' = Append(channel, t)
    /\ UNCHANGED <<pending, expired, mempool_index, locked, fast, loop, consumed, commits, sweeps>>

(***************************************************************************)
(* handle_connection of fast_tx: the last, short batch of a connection.     *)
(***************************************************************************)
FastLock ==
    /\ fast.at = "read" /\ ~locked
    /\ fast' = [fast EXCEPT !.at = "send"]
    /\ locked' = TRUE
    /\ UNCHANGED <<pending, expired, mempool_index, channel, rpc, loop, consumed, commits, sweeps>>

FastSend ==
    /\ fast.at = "send" /\ fast.sent < Len(FastBatch)
    /\ Len(channel) < GOSSIP_CHANNEL
    /\ channel' = Append(channel, FastBatch[fast.sent + 1])
    /\ fast' = [fast EXCEPT !.sent = @ + 1]
    /\ UNCHANGED <<pending, expired, mempool_index, locked, rpc, loop, consumed, commits, sweeps>>

FastInsert ==
    /\ fast.at = "send" /\ fast.sent = Len(FastBatch)
    /\ pending' = pending \cup Range(FastBatch)
    /\ locked' = FALSE
    /\ fast' = [fast EXCEPT !.at = "stamp"]
    /\ UNCHANGED <<expired, mempool_index, channel, rpc, loop, consumed, commits, sweeps>>

FastStamp ==
    /\ fast.at = "stamp"
    /\ expired' = Stamped(Range(FastBatch))
    /\ fast' = [fast EXCEPT !.at = "closed"]
    /\ UNCHANGED <<pending, mempool_index, channel, locked, rpc, loop, consumed, commits, sweeps>>

(***************************************************************************)
(* The event loop: one handler at a time, suspended at every lock.          *)
(***************************************************************************)
Enter(at, T) == loop.at = "idle" /\ loop' = [at |-> at, txs |-> T]
Proceed(at, there) == loop.at = at /\ loop' = [loop EXCEPT !.at = there]
EndHandler(at) == loop.at = at /\ loop' = IdleLoop

\* tx_gossip_rx: index the transaction and publish it.
RelayGossip ==
    /\ loop.at = "idle" /\ channel # <<>>
    /\ mempool_index' = mempool_index \cup {Head(channel)}
    /\ channel' = Tail(channel)
    /\ UNCHANGED <<pending, expired, locked, rpc, fast, loop, consumed, commits, sweeps>>

AcceptTransaction(t) ==
    /\ Enter("accept", {t})
    /\ UNCHANGED <<pending, expired, mempool_index, channel, locked, rpc, fast,
                   consumed, commits, sweeps>>

AcceptInsert ==
    LET t == CHOOSE u \in loop.txs : TRUE
        admitted == Cardinality(pending) < MEMPOOL_GLOBAL_CAP /\ ~SameNonce(t)
    IN  /\ ~locked
        /\ loop.at = "accept"
        /\ loop' = IF admitted THEN [loop EXCEPT !.at = "stamp"] ELSE IdleLoop
        /\ pending' = IF admitted THEN pending \cup {t} ELSE pending
        /\ mempool_index' = IF admitted THEN mempool_index \cup {t} ELSE mempool_index
        /\ UNCHANGED <<expired, channel, locked, rpc, fast, consumed, commits, sweeps>>

AcceptStamp ==
    /\ EndHandler("stamp")
    /\ expired' = Stamped(loop.txs)
    /\ UNCHANGED <<pending, mempool_index, channel, locked, rpc, fast, consumed, commits, sweeps>>

\* prune_committed_txs: the index, then pending_txs, then the times.
prune_committed_txs(t) ==
    /\ commits < MaxCommits /\ SlotOfTx(t) \notin consumed
    /\ Enter("forget", {t})
    /\ mempool_index' = mempool_index \ {t}
    /\ consumed' = consumed \cup {SlotOfTx(t)}
    /\ commits' = commits + 1
    /\ UNCHANGED <<pending, expired, channel, locked, rpc, fast, sweeps>>

\* BlockProcessed leaves the index alone.
BlockProcessed(t) ==
    /\ commits < MaxCommits /\ SlotOfTx(t) \notin consumed
    /\ Enter("forget", {t})
    /\ consumed' = consumed \cup {SlotOfTx(t)}
    /\ commits' = commits + 1
    /\ UNCHANGED <<pending, expired, mempool_index, channel, locked, rpc, fast, sweeps>>

ForgetPending ==
    /\ ~locked
    /\ Proceed("forget", "unstamp")
    /\ pending' = pending \ loop.txs
    /\ UNCHANGED <<expired, mempool_index, channel, locked, rpc, fast, consumed, commits, sweeps>>

Unstamp ==
    /\ EndHandler("unstamp")
    /\ expired' = Unstamped(loop.txs)
    /\ UNCHANGED <<pending, mempool_index, channel, locked, rpc, fast, consumed, commits, sweeps>>

\* The TTL sweep of the maintenance tick.
Sweep ==
    /\ \E t \in DOMAIN expired : expired[t]
    /\ Enter("evict", {t \in DOMAIN expired : expired[t]})
    /\ UNCHANGED <<pending, expired, mempool_index, channel, locked, rpc, fast,
                   consumed, commits, sweeps>>

SweepPending ==
    /\ ~locked
    /\ Proceed("evict", "untime")
    /\ pending' = pending \ loop.txs
    /\ UNCHANGED <<expired, mempool_index, channel, locked, rpc, fast, consumed, commits, sweeps>>

SweepTimes ==
    /\ Proceed("untime", "unindex")
    /\ expired' = Unstamped(loop.txs)
    /\ UNCHANGED <<pending, mempool_index, channel, locked, rpc, fast, consumed, commits, sweeps>>

SweepIndex ==
    /\ EndHandler("unindex")
    /\ mempool_index' = mempool_index \ loop.txs
    /\ UNCHANGED <<pending, expired, channel, locked, rpc, fast, consumed, commits, sweeps>>

\* MEMPOOL_TX_TTL passes over everything that is in the pool.
TtlPasses ==
    /\ sweeps < MaxSweeps
    /\ \E t \in DOMAIN expired : ~expired[t]
    /\ expired' = [t \in DOMAIN expired |-> TRUE]
    /\ sweeps' = sweeps + 1
    /\ UNCHANGED <<pending, mempool_index, channel, locked, rpc, fast, loop, consumed, commits>>

RpcStep(t) == ingress_validate(t) \/ RpcInsert(t) \/ RpcStamp(t) \/ RpcSend(t)
FastStep == FastLock \/ FastSend \/ FastInsert \/ FastStamp
LoopStep == \/ RelayGossip \/ AcceptInsert \/ AcceptStamp
            \/ ForgetPending \/ Unstamp
            \/ Sweep \/ SweepPending \/ SweepTimes \/ SweepIndex
Input == \/ \E t \in GossipTxs : AcceptTransaction(t)
         \/ \E t \in Transfers : prune_committed_txs(t) \/ BlockProcessed(t)
         \/ TtlPasses

PlainNext == (\E t \in RpcTxs : RpcStep(t)) \/ FastStep \/ LoopStep \/ Input

\* The runtime polls every task that can go on.
PlainFairness ==
    /\ \A t \in RpcTxs : WF_plain_vars(RpcStep(t))
    /\ WF_plain_vars(FastStep)
    /\ WF_plain_vars(LoopStep)

PlainSpec == PlainInit /\ [][PlainNext]_plain_vars /\ PlainFairness

(***************************************************************************)
(* Properties.                                                              *)
(***************************************************************************)
\* Two pending transactions never claim the same nonce of a sender, whichever
\* requests and gossip race for it, unless one came over fast_tx, which does not
\* look (rpc.rs, the check under one write lock; node.rs, AcceptTransaction).
OneVariantPerNonce ==
    \A t, u \in pending :
        SlotOfTx(t) = SlotOfTx(u) /\ t # u => {t, u} \cap Range(FastBatch) # {}

\* The event loop comes back from every handler: "holding `pending` through them
\* is deadlock-free given the codebase-wide convention that pending_txs is the
\* outer lock" (rpc.rs, send_transaction).
HandlersReturn == []<>(loop.at = "idle")
============================================================================
