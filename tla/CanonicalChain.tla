--------------------------- MODULE CanonicalChain ---------------------------
(***************************************************************************)
(* How one node turns certified blocks into its chain and its ledger:      *)
(* commit_canonical with its forward apply and its reorganisation, the     *)
(* execution of a block against the StateManager, the durable writes that  *)
(* follow, finality votes and the weak-subjectivity checkpoint, block sync *)
(* and a restart at any point between two durable writes.  The other       *)
(* nodes, and the consensus that certifies blocks, are the environment.    *)
(***************************************************************************)
EXTENDS BlockProcessor, FiniteSets, FiniteSetsExt, Quorums

CONSTANTS
    ParentOf,            \* the block each block's parent_hash names
    Peers,               \* the other members of the committee
    Inputs,              \* which inputs the environment supplies
    MaxRestarts          \* bound on the number of restarts

MaxSlot == CHOOSE m \in {SlotOf[b] : b \in Blocks} : \A b \in Blocks : SlotOf[b] <= m
Slots == 1..MaxSlot
Self == "self"

ASSUME ChainAssumption ==
    /\ Inputs \subseteq {"qc", "gossip", "sync", "vote", "checkpoint"}
    /\ Self \notin Peers

VARIABLES
    chain,        \* ChainState: [head_slot, headers, base_fee]
    state,        \* StateManager; its smt is on disk, the rest in memory
    store,        \* BlockStore, on disk: [head, headers]
    finality,     \* [checkpoint, votes]: FinalityTracker and finality_votes
    saved,        \* the slot of the finality checkpoint on disk
    todo,         \* what the handler still has to do: a sequence of [step, block]
    restarts

vars == <<chain, state, store, finality, saved, todo, restarts>>

Idle == todo = <<>>

Node == [chain |-> chain, state |-> state]

Becomes(n) == chain' = n.chain /\ state' = n.state

\* What the handler does once the block is in memory.
Then(b, steps) == todo' = [i \in DOMAIN steps |-> [step |-> steps[i], block |-> b]]

NodeUnchanged == UNCHANGED <<chain, state, store>>

(***************************************************************************)
(* commit_canonical and the handler around it, with a QC for b and its     *)
(* body at hand.  The outcomes that change nothing (Idempotent, Gap,       *)
(* Failed, a refused reorganisation) are stuttering steps.                 *)
(***************************************************************************)
CommitSteps == <<"flush", "block", "head", "vote">>

AppliedOverGap(b) ==
    /\ ~HasHeader(chain, SlotOf[b])
    /\ SlotOf[b] > chain.head_slot
    /\ validate_header_with_checkpoint(chain, SlotOf[b], finality.checkpoint)
    /\ Becomes(process_full_block(Node, b))
    /\ Then(b, CommitSteps)

Applied(b) ==
    /\ ~HasHeader(chain, SlotOf[b])
    /\ SlotOf[b] = chain.head_slot + 1
    /\ validate_header_with_checkpoint(chain, SlotOf[b], finality.checkpoint)
    /\ Becomes(process_full_block(Node, b))
    /\ Then(b, CommitSteps)

Reorged(b) ==
    /\ HasHeader(chain, SlotOf[b])
    /\ chain.headers[SlotOf[b]] # b
    /\ MayReorg(Node, b, finality.checkpoint)
    /\ Becomes(reorg_to_block(Node, b))
    /\ Then(b, IF CanRevert(chain, pre_slot(b)) THEN CommitSteps ELSE <<>>)

commit_canonical(b) ==
    /\ "qc" \in Inputs
    /\ Idle
    /\ Applied(b) \/ Reorged(b)
    /\ UNCHANGED <<store, finality, saved, restarts>>

\* The parent_hash check, skipped when the node has no header at that slot.
validate_network_block(b) ==
    HasHeader(chain, pre_slot(b)) => chain.headers[pre_slot(b)] = ParentOf[b]

\* A full block on the block topic is applied before any QC certifies it.
BlockGossip(b) ==
    /\ "gossip" \in Inputs
    /\ Idle
    /\ validate_network_block(b)
    /\ validate_header_with_checkpoint(chain, SlotOf[b], finality.checkpoint)
    /\ Becomes(process_full_block(Node, b))
    /\ Then(b, <<"flush", "block", "head">>)
    /\ UNCHANGED <<store, finality, saved, restarts>>

\* ChainSync::on_response: requests start at the local tip, a batch stops at
\* the first block that is refused, and the deferred writes stay deferred.
SyncResponse(b) ==
    /\ "sync" \in Inputs
    /\ Idle
    /\ SlotOf[b] = chain.head_slot + 1
    /\ validate_header_with_checkpoint(chain, SlotOf[b], finality.checkpoint)
    /\ Becomes(process_full_block(Node, b))
    /\ Then(b, <<"block", "head">>)
    /\ UNCHANGED <<store, finality, saved, restarts>>

(***************************************************************************)
(* Finality.  Every vote beyond the quorum forms the certificate again and *)
(* writes its checkpoint; memory only moves forward.  root is "shared" for *)
(* the state root the peers vote for.                                      *)
(***************************************************************************)
Vote(v, b, root) == [voter |-> v, block |-> b, root |-> root]

Tally(votes, b, root) == {v \in votes[SlotOf[b]] : v.block = b /\ v.root = root}

RecordAnyCert(checkpoint, slot) == slot

record_hard_finality(checkpoint, slot) == IF slot > checkpoint THEN slot ELSE checkpoint

on_finality_vote(v, b, root) ==
    LET slot  == SlotOf[b]
        votes == [finality.votes EXCEPT ![slot] = @ \cup {Vote(v, b, root)}]
        cert  == Cardinality(Tally(votes, b, root))
                   >= quorum_for_committee(Cardinality(Peers) + 1)
    IN  IF \E w \in finality.votes[slot] : w.voter = v
          THEN UNCHANGED <<finality, saved>>
          ELSE /\ finality' = [votes |-> votes,
                               checkpoint |-> IF cert THEN record_hard_finality(finality.checkpoint, slot)
                                                      ELSE finality.checkpoint]
               /\ saved' = IF cert THEN slot ELSE saved

ReceiveFinalityVote(v, b) ==
    /\ "vote" \in Inputs
    /\ Idle
    /\ on_finality_vote(v, b, "shared")
    /\ NodeUnchanged
    /\ UNCHANGED <<todo, restarts>>

ingest_finality_checkpoint(slot) ==
    /\ "checkpoint" \in Inputs
    /\ Idle
    /\ slot > finality.checkpoint
    /\ finality' = [finality EXCEPT !.checkpoint = slot]
    /\ saved' = slot
    /\ NodeUnchanged
    /\ UNCHANGED <<todo, restarts>>

(***************************************************************************)
(* The durable tail of a handler, one write at a time, and the restart     *)
(* that may come before any of them.                                       *)
(***************************************************************************)
Step(name) ==
    /\ ~Idle
    /\ Head(todo).step = name
    /\ todo' = Tail(todo)
    /\ UNCHANGED <<chain, restarts>>

TodoBlock == Head(todo).block

commit_jmt_writes ==
    /\ Step("flush")
    /\ state' = flush_pending(state)
    /\ UNCHANGED <<store, finality, saved>>

put_block ==
    /\ Step("block")
    /\ store' = [store EXCEPT !.headers = With(@, SlotOf[TodoBlock], TodoBlock)]
    /\ UNCHANGED <<state, finality, saved>>

PutHeadForward ==
    /\ Step("head")
    /\ store' = [store EXCEPT !.head = Max({@, SlotOf[TodoBlock]})]
    /\ UNCHANGED <<state, finality, saved>>

put_head ==
    /\ Step("head")
    /\ store' = [store EXCEPT !.head = SlotOf[TodoBlock]]
    /\ UNCHANGED <<state, finality, saved>>

\* Whether this node's root is the one its peers vote for is left open.
cast_finality_vote_and_persist ==
    /\ Step("vote")
    /\ \E root \in {"shared", "own"} : on_finality_vote(Self, TodoBlock, root)
    /\ UNCHANGED <<state, store>>

Restored(st) ==
    LET slots == {s \in 1..st.head : s \in DOMAIN st.headers}
    IN  [head_slot |-> IF slots = {} THEN 0 ELSE Max(slots),
         headers   |-> [s \in slots |-> st.headers[s]],
         base_fee  |-> GENESIS_BASE_FEE]

Restart ==
    /\ restarts < MaxRestarts
    /\ restarts' = restarts + 1
    /\ chain' = Restored(store)
    /\ state' = open(state.smt)
    /\ finality' = [checkpoint |-> saved, votes |-> [s \in Slots |-> {}]]
    /\ todo' = <<>>
    /\ UNCHANGED <<store, saved>>

(***************************************************************************)
(* The specification.  At genesis the proposers' accounts exist; the other *)
(* accounts and the counters do not.                                       *)
(***************************************************************************)
Init ==
    /\ chain = genesis
    /\ state = GenesisState
    /\ store = [head |-> 0, headers |-> <<>>]
    /\ finality = [checkpoint |-> 0, votes |-> [s \in Slots |-> {}]]
    /\ saved = 0
    /\ todo = <<>>
    /\ restarts = 0

Continue == commit_jmt_writes \/ put_block \/ put_head \/ cast_finality_vote_and_persist

Next ==
    \/ \E b \in Blocks : commit_canonical(b)
    \/ \E b \in Blocks : BlockGossip(b)
    \/ \E b \in Blocks : SyncResponse(b)
    \/ \E v \in Peers, b \in Blocks : ReceiveFinalityVote(v, b)
    \/ \E slot \in Slots : ingest_finality_checkpoint(slot)
    \/ Continue
    \/ Restart

Spec == Init /\ [][Next]_vars

\* A handler that has started runs on, and a peer answers a sync request.
FairSpec == Spec /\ WF_vars(Continue) /\ WF_vars(\E b \in Blocks : SyncResponse(b))

(***************************************************************************)
(* Properties.                                                             *)
(***************************************************************************)
Contiguous == DOMAIN chain.headers = 1..chain.head_slot

\* While the process runs, what it reads for any key is exactly what the blocks
\* of its chain add, each once and in slot order, whatever was reorganised on
\* the way: the undo logs of process_full_block and revert_to take back all a
\* replaced block did, and nothing else.
EffectsFollowChain ==
    restarts = 0 /\ Contiguous =>
        \A k \in Keys :
            MarksOf(get(state, k)) = Expected(chain.headers, chain.head_slot, k)

\* Between two handlers the headers and the head a restart would read back from
\* the block store are the ones in memory, also after a reorganisation to a
\* lower head left newer headers on disk.
RestartRestoresChain ==
    Idle /\ Contiguous => [Restored(store) EXCEPT !.base_fee = chain.base_fee] = chain

\* A header at or below the checkpoint in force is never replaced or dropped
\* by a running node: reorg_to_block refuses its slot.
FinalizedHeadersStay ==
    [][restarts' = restarts =>
        \A s \in DOMAIN chain.headers : s <= finality.checkpoint =>
            s \in DOMAIN chain'.headers /\ chain'.headers[s] = chain.headers[s]]_vars

\* Certified and synced blocks extend the chain at its head or replace its
\* tail: without full-block gossip it has a header at every slot up to the head.
HeadersContiguous == Contiguous

\* A late certificate for an older slot leaves the checkpoint of a running node
\* where it is, as record_hard_finality and ingest_finality_checkpoint intend.
CheckpointMonotone ==
    [][restarts' = restarts => finality'.checkpoint >= finality.checkpoint]_vars

\* The checkpoint survives a restart: persist_finality_checkpoint_direct exists
\* so that a restarted node never falls back to an older one.
CheckpointSurvivesRestart == [][finality'.checkpoint >= finality.checkpoint]_vars

\* A node behind its peers catches up with them: validate_header_with_checkpoint
\* lets a checkpoint from a peer arrive before the blocks it covers.
LaggingNodeCatchesUp == <>(chain.head_slot = MaxSlot)

\* A node that applies and commits the same blocks one by one from genesis.
LiveReplay(c) ==
    LET upTo[n \in Nat] ==
          IF n = 0 THEN [chain |-> genesis, state |-> GenesisState]
          ELSE [process_full_block(upTo[n - 1], c.headers[n]) EXCEPT !.state = flush_pending(@)]
    IN  upTo[c.head_slot]

\* When a finality vote is signed, the tree whose root it carries is the one
\* every node that executed the same blocks has.
StateRootFollowsChain ==
    ~Idle /\ Head(todo).step = "vote" => state.smt = LiveReplay(chain).state.smt
=============================================================================
