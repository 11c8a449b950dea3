----------------------------- MODULE ChainProofs -----------------------------
(***************************************************************************)
(* Proofs about a node's chain, for any set of blocks, any committee and   *)
(* any inputs.                                                             *)
(***************************************************************************)
EXTENDS CanonicalChain, LedgerProofs

(***************************************************************************)
(* What the properties rest on: no header lies above the head, so that     *)
(* extending the chain overwrites none, and both checkpoints are slots.    *)
(***************************************************************************)
StepNames == {"flush", "block", "head", "vote"}

TodoItem == [step : StepNames, block : Blocks]

TodoType == Seq(TodoItem)

ChainInv ==
    /\ IsChain(chain)
    /\ store = [head |-> store.head, headers |-> store.headers]
    /\ store.head \in Nat
    /\ finality = [checkpoint |-> finality.checkpoint, votes |-> finality.votes]
    /\ finality.checkpoint \in Nat
    /\ saved \in Nat
    /\ todo \in TodoType
    /\ restarts \in Nat

\* Max is a member of a bounded set of naturals and no member is above it.
LEMMA BoundedMax ==
    ASSUME NEW n \in Nat, NEW S \in SUBSET (0 .. n), S # {}
    PROVE  Max(S) \in S /\ \A s \in S : s <= Max(S)
BY BoundedSet, Zenon DEF Max

\* ChainState::advance keeps every header but the one at its own slot.
LEMMA AdvanceKeeps ==
    ASSUME NEW c, IsChain(c), NEW b \in Blocks, NEW fee,
           \A s \in DOMAIN c.headers : s < SlotOf[b]
    PROVE  LET d == [advance(c, b) EXCEPT !.base_fee = fee] IN
           /\ IsChain(d)
           /\ \A s \in DOMAIN c.headers :
                s \in DOMAIN d.headers /\ d.headers[s] = c.headers[s]
<1>1. [advance(c, b) EXCEPT !.base_fee = fee]
        = [head_slot |-> SlotOf[b],
           headers   |-> With(c.headers, SlotOf[b], b),
           base_fee  |-> fee]
  BY DEF advance
<1> QED
  BY <1>1, BlockAssumption DEF IsChain, With

\* ChainState::revert keeps the headers up to its target.
LEMMA RevertKeeps ==
    ASSUME NEW c, IsChain(c), NEW t \in Nat
    PROVE  LET d == revert(c, t) IN
           /\ IsChain(d)
           /\ \A s \in DOMAIN d.headers : s <= t
           /\ \A s \in DOMAIN c.headers : s <= t =>
                s \in DOMAIN d.headers /\ d.headers[s] = c.headers[s]
  BY Zenon DEF IsChain, revert

------------------------------------------------------------------------------
\* A block that validate_header_with_checkpoint accepts, applied to the chain.
LEMMA ApplyKeeps ==
    ASSUME NEW n, IsChain(n.chain), NEW b \in Blocks, NEW cp,
           validate_header_with_checkpoint(n.chain, SlotOf[b], cp)
    PROVE  LET d == process_full_block(n, b).chain IN
           /\ IsChain(d)
           /\ \A s \in DOMAIN n.chain.headers :
                s \in DOMAIN d.headers /\ d.headers[s] = n.chain.headers[s]
<1>1. \A s \in DOMAIN n.chain.headers : s < SlotOf[b]
  BY BlockAssumption DEF validate_header_with_checkpoint, IsChain, genesis
<1>2. PICK fee : process_full_block(n, b).chain
                   = [advance(n.chain, b) EXCEPT !.base_fee = fee]
  BY Zenon DEF process_full_block
<1> QED
  BY <1>1, <1>2, AdvanceKeeps

\* A reorganisation keeps the headers below the block it moves to.
LEMMA ReorgKeeps ==
    ASSUME NEW n, IsChain(n.chain), NEW b \in Blocks
    PROVE  LET d == reorg_to_block(n, b).chain IN
           /\ IsChain(d)
           /\ \A s \in DOMAIN n.chain.headers : s < SlotOf[b] =>
                s \in DOMAIN d.headers /\ d.headers[s] = n.chain.headers[s]
<1> DEFINE r == [chain |-> revert(n.chain, pre_slot(b)),
                 state |-> revert_to(n.state, pre_slot(b))]
<1>1. SlotOf[b] \in Nat /\ SlotOf[b] > 0 /\ pre_slot(b) = SlotOf[b] - 1 /\ pre_slot(b) \in Nat
  BY BlockAssumption DEF pre_slot
<1>2. CASE CanRevert(n.chain, pre_slot(b))
  <2>1. /\ IsChain(r.chain)
        /\ \A s \in DOMAIN r.chain.headers : s \in Nat /\ s <= pre_slot(b)
        /\ \A s \in DOMAIN n.chain.headers : s <= pre_slot(b) =>
             s \in DOMAIN r.chain.headers /\ r.chain.headers[s] = n.chain.headers[s]
    <3>1. r.chain = revert(n.chain, pre_slot(b))
      BY Zenon
    <3> HIDE DEF r
    <3>2. /\ IsChain(revert(n.chain, pre_slot(b)))
          /\ \A s \in DOMAIN revert(n.chain, pre_slot(b)).headers : s <= pre_slot(b)
          /\ \A s \in DOMAIN n.chain.headers : s <= pre_slot(b) =>
               /\ s \in DOMAIN revert(n.chain, pre_slot(b)).headers
               /\ revert(n.chain, pre_slot(b)).headers[s] = n.chain.headers[s]
      BY Zenon, <1>1, RevertKeeps
    <3>3. \A s \in DOMAIN r.chain.headers : s \in Nat
      BY Zenon, <3>1, <3>2 DEF IsChain
    <3> QED
      BY Zenon, <3>1, <3>2, <3>3
  <2>2. reorg_to_block(n, b) = process_full_block(r, b)
    BY Zenon, <1>2 DEF reorg_to_block
  <2> HIDE DEF r
  <2>3. PICK fee : process_full_block(r, b).chain
                     = [advance(r.chain, b) EXCEPT !.base_fee = fee]
    BY Zenon DEF process_full_block
  <2>4. /\ IsChain(process_full_block(r, b).chain)
        /\ \A s \in DOMAIN r.chain.headers :
             /\ s \in DOMAIN process_full_block(r, b).chain.headers
             /\ process_full_block(r, b).chain.headers[s] = r.chain.headers[s]
    BY SMTT(40), <1>1, <2>1, <2>3, AdvanceKeeps
  <2>5. \A s \in DOMAIN n.chain.headers : s < SlotOf[b] => s <= pre_slot(b)
    BY <1>1 DEF IsChain
  <2> QED
    BY Zenon, <2>1, <2>2, <2>4, <2>5
<1>3. CASE ~CanRevert(n.chain, pre_slot(b))
  BY <1>3 DEF reorg_to_block
<1> QED
  BY Zenon, <1>2, <1>3

------------------------------------------------------------------------------
\* The steps a handler leaves to be done name the block it applied.
LEMMA ThenTyped ==
    ASSUME NEW b \in Blocks,
           \/ Then(b, CommitSteps)
           \/ Then(b, <<"flush", "block", "head">>)
           \/ Then(b, <<"block", "head">>)
           \/ Then(b, <<>>)
    PROVE  todo' \in TodoType
<1>1. ASSUME NEW steps \in Seq(StepNames), Then(b, steps)
      PROVE  todo' \in TodoType
  <2>1. /\ Len(steps) \in Nat
        /\ DOMAIN steps = 1 .. Len(steps)
        /\ \A i \in 1 .. Len(steps) : steps[i] \in StepNames
    OBVIOUS
  <2>2. todo' \in [1 .. Len(steps) -> TodoItem]
    BY Zenon, <1>1, <2>1 DEF Then, TodoItem
  <2>3. \A n \in Nat : \A q \in [1 .. n -> TodoItem] : q \in Seq(TodoItem)
    OBVIOUS
  <2> QED
    BY Zenon, <2>1, <2>2, <2>3 DEF TodoType
<1>2. /\ CommitSteps \in Seq(StepNames)
      /\ <<"flush", "block", "head">> \in Seq(StepNames)
      /\ <<"block", "head">> \in Seq(StepNames)
      /\ <<>> \in Seq(StepNames)
  BY DEF CommitSteps, StepNames
<1> QED
  BY Zenon, <1>1, <1>2

\* A finality vote never lowers the checkpoint in memory, and what it leaves in
\* memory and on disk are slots.
LEMMA VoteKeeps ==
    ASSUME ChainInv, NEW v, NEW b \in Blocks, NEW root, on_finality_vote(v, b, root)
    PROVE  /\ finality' = [checkpoint |-> finality'.checkpoint, votes |-> finality'.votes]
           /\ finality'.checkpoint \in Nat
           /\ finality'.checkpoint >= finality.checkpoint
           /\ saved' \in Nat
<1>1. SlotOf[b] \in Nat
  BY Zenon, BlockAssumption
<1> QED
  BY <1>1 DEF ChainInv, on_finality_vote, record_hard_finality

\* The part of the invariant a step that applies a block can disturb.
LEMMA ApplyStep ==
    ASSUME ChainInv, IsChain(chain'), todo' \in TodoType,
           UNCHANGED <<store, finality, saved, restarts>>
    PROVE  ChainInv'
  BY Zenon DEF ChainInv, TodoType

\* What a step of a running node may not do.
StepKeeps ==
    /\ \A s \in DOMAIN chain.headers : s <= finality.checkpoint =>
         s \in DOMAIN chain'.headers /\ chain'.headers[s] = chain.headers[s]
    /\ finality'.checkpoint >= finality.checkpoint

\* commit_canonical, applied forward or reorganised, keeps the invariant and the
\* finalized headers.
LEMMA CommitPreserves ==
    ASSUME ChainInv, NEW b \in Blocks, commit_canonical(b)
    PROVE  ChainInv' /\ StepKeeps
<1>1. IsChain(Node.chain) /\ Node.chain = chain /\ finality.checkpoint \in Nat
  BY Zenon DEF ChainInv, Node
<1>2. UNCHANGED <<store, finality, saved, restarts>> /\ finality'.checkpoint >= finality.checkpoint
  BY <1>1 DEF commit_canonical
<1>3. CASE Applied(b)
  <2>1. chain' = process_full_block(Node, b).chain /\ todo' \in TodoType
    BY Zenon, <1>3, ThenTyped DEF Applied, Becomes
  <2>2. /\ IsChain(chain')
        /\ \A s \in DOMAIN chain.headers :
             s \in DOMAIN chain'.headers /\ chain'.headers[s] = chain.headers[s]
    BY Zenon, <1>1, <1>3, <2>1, ApplyKeeps DEF Applied
  <2> QED
    BY Zenon, <1>2, <2>1, <2>2, ApplyStep DEF StepKeeps
<1>4. CASE Reorged(b)
  <2>1. chain' = reorg_to_block(Node, b).chain /\ todo' \in TodoType
    BY Zenon, <1>4, ThenTyped DEF Reorged, Becomes
  <2>2. /\ IsChain(chain')
        /\ \A s \in DOMAIN chain.headers : s < SlotOf[b] =>
             s \in DOMAIN chain'.headers /\ chain'.headers[s] = chain.headers[s]
    BY Zenon, <1>1, <2>1, ReorgKeeps
  <2>3. \A s \in DOMAIN chain.headers : s <= finality.checkpoint => s < SlotOf[b]
    BY SMTT(40), <1>1, <1>4, BlockAssumption DEF Reorged, MayReorg, IsChain
  <2> QED
    BY Zenon, <1>2, <2>1, <2>2, <2>3, ApplyStep DEF StepKeeps
<1> QED
  BY Zenon, <1>3, <1>4 DEF commit_canonical

\* Full-block gossip and block sync extend the chain the same way.
LEMMA ExtendPreserves ==
    ASSUME ChainInv, NEW b \in Blocks, BlockGossip(b) \/ SyncResponse(b)
    PROVE  ChainInv' /\ StepKeeps
<1>1. IsChain(Node.chain) /\ Node.chain = chain /\ finality.checkpoint \in Nat
  BY Zenon DEF ChainInv, Node
<1>2. /\ UNCHANGED <<store, finality, saved, restarts>>
      /\ finality'.checkpoint >= finality.checkpoint
      /\ validate_header_with_checkpoint(chain, SlotOf[b], finality.checkpoint)
      /\ chain' = process_full_block(Node, b).chain
  BY <1>1 DEF BlockGossip, SyncResponse, Becomes
<1>3. todo' \in TodoType
  BY Zenon, ThenTyped DEF BlockGossip, SyncResponse
<1>4. /\ IsChain(chain')
      /\ \A s \in DOMAIN chain.headers :
           s \in DOMAIN chain'.headers /\ chain'.headers[s] = chain.headers[s]
  BY Zenon, <1>1, <1>2, ApplyKeeps
<1> QED
  BY Zenon, <1>2, <1>3, <1>4, ApplyStep DEF StepKeeps

\* The checkpoint inputs leave the chain alone.
LEMMA FinalityPreserves ==
    ASSUME ChainInv,
           \/ \E v \in Peers, b \in Blocks : ReceiveFinalityVote(v, b)
           \/ \E slot \in Slots : ingest_finality_checkpoint(slot)
    PROVE  ChainInv' /\ StepKeeps
<1>1. CASE \E v \in Peers, b \in Blocks : ReceiveFinalityVote(v, b)
  <2>1. PICK v \in Peers, b \in Blocks : ReceiveFinalityVote(v, b)
    BY Zenon, <1>1
  <2>2. on_finality_vote(v, b, "shared") /\ UNCHANGED <<chain, store, todo>>
    BY Zenon, <2>1 DEF ReceiveFinalityVote, NodeUnchanged
  <2> QED
    BY Zenon, <2>1, <2>2, VoteKeeps DEF ChainInv, StepKeeps, ReceiveFinalityVote
<1>2. CASE \E slot \in Slots : ingest_finality_checkpoint(slot)
  <2>1. PICK slot \in Slots : ingest_finality_checkpoint(slot)
    BY Zenon, <1>2
  <2>2. slot \in Nat
    BY DEF Slots
  <2>3. /\ slot > finality.checkpoint /\ saved' = slot
        /\ UNCHANGED <<chain, store, todo, restarts>>
        /\ finality' = [checkpoint |-> slot, votes |-> finality.votes]
    BY Zenon, <2>1 DEF ingest_finality_checkpoint, NodeUnchanged, ChainInv
  <2> QED
    BY SMTT(40), <2>2, <2>3 DEF ChainInv, StepKeeps
<1> QED
  BY Zenon, <1>1, <1>2

\* So does the durable tail of a handler.
LEMMA ContinuePreserves ==
    ASSUME ChainInv, Continue
    PROVE  ChainInv' /\ StepKeeps
<1>1. /\ todo \in TodoType /\ todo # <<>> /\ todo' = Tail(todo)
      /\ UNCHANGED <<chain, restarts>>
  BY Zenon DEF Continue, commit_jmt_writes, put_block, put_head,
         cast_finality_vote_and_persist, Step, Idle, ChainInv, TodoType
<1>2. Head(todo) \in TodoItem /\ todo' \in TodoType
  <2>1. \A q \in Seq(TodoItem) : q # <<>> => Head(q) \in TodoItem /\ Tail(q) \in Seq(TodoItem)
    OBVIOUS
  <2> QED
    BY <1>1, <2>1, Zenon DEF TodoType
<1>3. TodoBlock \in Blocks /\ SlotOf[TodoBlock] \in Nat
  BY Zenon, <1>2, BlockAssumption DEF TodoItem, TodoBlock
<1>4. CASE commit_jmt_writes
  BY SMTT(40), <1>1, <1>2, <1>4 DEF commit_jmt_writes, ChainInv, StepKeeps, TodoType
<1>5. CASE put_block
  BY SMTT(40), <1>1, <1>2, <1>5 DEF put_block, ChainInv, StepKeeps, TodoType
<1>6. CASE put_head
  BY <1>1, <1>2, <1>3, <1>6 DEF put_head, ChainInv, StepKeeps, TodoType
<1>7. CASE cast_finality_vote_and_persist
  <2>1. PICK root : on_finality_vote(Self, TodoBlock, root)
    BY Zenon, <1>7 DEF cast_finality_vote_and_persist
  <2>2. UNCHANGED store
    BY Zenon, <1>7 DEF cast_finality_vote_and_persist
  <2> QED
    BY Zenon, <1>1, <1>2, <1>3, <2>1, <2>2, VoteKeeps DEF ChainInv, StepKeeps, TodoType
<1> QED
  BY Zenon, <1>4, <1>5, <1>6, <1>7 DEF Continue

\* A restart reads back a chain of the same form.
LEMMA RestartPreserves ==
    ASSUME ChainInv, Restart
    PROVE  ChainInv'
<1> DEFINE slots == {s \in 1 .. store.head : s \in DOMAIN store.headers}
<1>1. store.head \in Nat /\ slots \subseteq 0 .. store.head
  BY DEF ChainInv
<1>2. slots # {} => Max(slots) \in slots /\ \A s \in slots : s <= Max(slots)
  BY Zenon, <1>1, BoundedMax
<1>3. IsChain(Restored(store))
  <2>1. Restored(store) = [head_slot |-> IF slots = {} THEN 0 ELSE Max(slots),
                           headers   |-> [s \in slots |-> store.headers[s]],
                           base_fee  |-> GENESIS_BASE_FEE]
    BY Zenon DEF Restored
  <2>2. \A s \in slots : s \in Nat
    BY <1>1
  <2> HIDE DEF slots
  <2> QED
    BY <1>2, <2>1, <2>2 DEF IsChain
<1>4. todo' \in TodoType
  BY DEF Restart, TodoType
<1> QED
  BY SMTT(40), <1>3, <1>4 DEF Restart, ChainInv

------------------------------------------------------------------------------
\* Every step keeps the invariant, and every step that is not a restart keeps
\* the finalised headers and the checkpoint.
LEMMA ChainStep ==
    ASSUME ChainInv, [Next]_vars
    PROVE  ChainInv' /\ (StepKeeps \/ restarts' # restarts \/ UNCHANGED vars)
<1>1. CASE UNCHANGED vars
  BY Zenon, <1>1 DEF vars, ChainInv
<1>2. CASE \E b \in Blocks : commit_canonical(b)
  BY Zenon, <1>2, CommitPreserves
<1>3. CASE \E b \in Blocks : BlockGossip(b) \/ SyncResponse(b)
  BY Zenon, <1>3, ExtendPreserves
<1>4. CASE \/ \E v \in Peers, b \in Blocks : ReceiveFinalityVote(v, b)
           \/ \E slot \in Slots : ingest_finality_checkpoint(slot)
  BY Zenon, <1>4, FinalityPreserves
<1>5. CASE Continue
  BY Zenon, <1>5, ContinuePreserves
<1>6. CASE Restart
  BY SMTT(40), <1>6, RestartPreserves DEF Restart, ChainInv
<1> QED
  BY Zenon, <1>1, <1>2, <1>3, <1>4, <1>5, <1>6 DEF Next

\* The genesis state satisfies the invariant.
LEMMA ChainInit ==
    ASSUME Init
    PROVE  ChainInv
<1>1. genesis.headers = <<>> /\ genesis.head_slot = 0
  BY Zenon DEF genesis
<1>2. todo \in TodoType
  BY DEF Init, TodoType
<1> QED
  BY <1>1, <1>2 DEF Init, ChainInv, IsChain, genesis

\* The inductive invariant holds of every reachable state of a node.
THEOREM ChainInvHolds == Spec => []ChainInv
<1>1. Init => ChainInv
  BY Zenon, ChainInit
<1>2. ChainInv /\ [Next]_vars => ChainInv'
  BY Zenon, ChainStep
<1> QED
  BY <1>1, <1>2, PTL DEF Spec

\* commit_canonical, full-block gossip and block sync never replace or drop a
\* header at or below the checkpoint in force, for any set of blocks, any
\* committee and any interleaving of inputs, votes and durable writes.
THEOREM FinalizedHeadersStayHolds == Spec => FinalizedHeadersStay
<1>1. ChainInv /\ [Next]_vars =>
        [restarts' = restarts =>
           \A s \in DOMAIN chain.headers : s <= finality.checkpoint =>
             s \in DOMAIN chain'.headers /\ chain'.headers[s] = chain.headers[s]]_vars
  BY Zenon, ChainStep DEF StepKeeps
<1> QED
  BY <1>1, ChainInvHolds, PTL DEF Spec, FinalizedHeadersStay

\* record_hard_finality and ingest_finality_checkpoint only move the checkpoint
\* of a running node forward, in whatever order certificates form or arrive.
THEOREM CheckpointMonotoneHolds == Spec => CheckpointMonotone
<1>1. ChainInv /\ [Next]_vars =>
        [restarts' = restarts => finality'.checkpoint >= finality.checkpoint]_vars
  BY Zenon, ChainStep DEF StepKeeps
<1> QED
  BY <1>1, ChainInvHolds, PTL DEF Spec, CheckpointMonotone

------------------------------------------------------------------------------
(***************************************************************************)
(* What a restart reads back.  While a handler is at work its block is in  *)
(* memory and perhaps not yet in the store, nor the store's head at its    *)
(* slot; every other header of the chain is in the store, which may hold   *)
(* headers the chain no longer has.  A block is stored before the head     *)
(* moves to it, so the stored head always has a header.                    *)
(***************************************************************************)
Pending(name) == \E i \in DOMAIN todo : todo[i].step = name

\* The handler's block is the chain's last one.
TodoIsHead ==
    \A i \in DOMAIN todo : /\ chain.head_slot = SlotOf[todo[i].block]
                           /\ chain.head_slot \in DOMAIN chain.headers
                           /\ chain.headers[chain.head_slot] = todo[i].block

\* A handler writes each thing once, the block before the head.
TodoInOrder ==
    \A i, j \in DOMAIN todo :
        /\ i < j => todo[i].step # todo[j].step
        /\ todo[i].step = "head" /\ todo[j].step = "block" => j < i

Stored(s) == s \in DOMAIN store.headers /\ store.headers[s] = chain.headers[s]

StoreInv ==
    /\ chain.headers = [s \in DOMAIN chain.headers |-> chain.headers[s]]
    /\ store.head = 0 \/ store.head \in DOMAIN store.headers
    /\ \A s \in DOMAIN chain.headers : Stored(s) \/ (Pending("block") /\ s = chain.head_slot)
    /\ Pending("head") \/ store.head = chain.head_slot
    /\ TodoIsHead
    /\ TodoInOrder

\* The sequences of steps a handler leaves.
Tails == {CommitSteps, <<"flush", "block", "head">>, <<"block", "head">>}

\* The steps a handler leaves are those of its block, in order.
LEMMA ThenInOrder ==
    ASSUME NEW b \in Blocks, NEW steps \in Tails, Then(b, steps)
    PROVE  /\ Pending("block")' /\ Pending("head")' /\ TodoInOrder'
           /\ \A i \in DOMAIN todo' : todo'[i].block = b
<1>1. ASSUME NEW n \in Nat, DOMAIN steps = 1 .. n,
             \E i, j \in 1 .. n : steps[i] = "block" /\ steps[j] = "head",
             \A i, j \in 1 .. n : /\ i < j => steps[i] # steps[j]
                                  /\ steps[i] = "head" /\ steps[j] = "block" => j < i
      PROVE  /\ Pending("block")' /\ Pending("head")' /\ TodoInOrder'
             /\ \A i \in DOMAIN todo' : todo'[i].block = b
  <2>1. todo' = [i \in 1 .. n |-> [step |-> steps[i], block |-> b]]
    BY Zenon, <1>1 DEF Then
  <2>2. /\ DOMAIN todo' = 1 .. n
        /\ \A i \in 1 .. n : todo'[i].step = steps[i] /\ todo'[i].block = b
    BY Zenon, <2>1
  <2>3. Pending("block")' /\ Pending("head")'
    BY Zenon, <1>1, <2>2 DEF Pending
  <2>4. TodoInOrder'
    <3> SUFFICES ASSUME NEW i \in 1 .. n, NEW j \in 1 .. n
                 PROVE  /\ i < j => todo'[i].step # todo'[j].step
                        /\ todo'[i].step = "head" /\ todo'[j].step = "block" => j < i
      BY <2>2, Zenon DEF TodoInOrder
    <3>1. /\ i < j => steps[i] # steps[j]
          /\ steps[i] = "head" /\ steps[j] = "block" => j < i
      BY <1>1, Zenon
    <3>2. todo'[i].step = steps[i] /\ todo'[j].step = steps[j]
      BY <2>2, Zenon
    <3> QED
      BY Zenon, <3>1, <3>2
  <2> QED
    BY Zenon, <2>2, <2>3, <2>4
<1>2. CASE steps = CommitSteps
  <2>1. /\ DOMAIN steps = 1 .. 4
        /\ steps[1] = "flush" /\ steps[2] = "block" /\ steps[3] = "head" /\ steps[4] = "vote"
    BY <1>2 DEF CommitSteps
  <2> QED
    BY <1>1, <2>1
<1>3. CASE steps = <<"flush", "block", "head">>
  <2>1. DOMAIN steps = 1 .. 3 /\ steps[1] = "flush" /\ steps[2] = "block" /\ steps[3] = "head"
    BY <1>3
  <2> QED
    BY <1>1, <2>1
<1>4. CASE steps = <<"block", "head">>
  <2>1. DOMAIN steps = 1 .. 2 /\ steps[1] = "block" /\ steps[2] = "head"
    BY <1>4
  <2> QED
    BY <1>1, <2>1
<1> QED
  BY <1>2, <1>3, <1>4, Zenon DEF Tails

\* A handler that applies b on top of headers the store has.
LEMMA ApplyStored ==
    ASSUME StoreInv, Idle, store' = store, NEW b \in Blocks, NEW n, NEW steps \in Tails,
           Then(b, steps), chain' = process_full_block(n, b).chain,
           \A s \in DOMAIN n.chain.headers :
               s \in DOMAIN chain.headers /\ n.chain.headers[s] = chain.headers[s]
    PROVE  StoreInv'
<1>1. chain'.head_slot = SlotOf[b] /\ chain'.headers = With(n.chain.headers, SlotOf[b], b)
  BY AppliedChain, Zenon
<1>2. /\ SlotOf[b] \in DOMAIN chain'.headers /\ chain'.headers[SlotOf[b]] = b
      /\ \A s \in DOMAIN chain'.headers : s # SlotOf[b] =>
           s \in DOMAIN n.chain.headers /\ chain'.headers[s] = n.chain.headers[s]
  BY Zenon, <1>1 DEF With
<1>3. \A s \in DOMAIN chain.headers : Stored(s)
  <2>1. ~Pending("block")
    BY DEF Pending, Idle
  <2> QED
    BY <2>1, Zenon DEF StoreInv
<1>4. /\ Pending("block")' /\ Pending("head")' /\ TodoInOrder'
      /\ \A i \in DOMAIN todo' : todo'[i].block = b
  BY ThenInOrder, Zenon
<1>5. TodoIsHead'
  BY <1>1, <1>2, <1>4, Zenon DEF TodoIsHead
<1>6. \A s \in DOMAIN chain'.headers : Stored(s)' \/ s = chain'.head_slot
  BY <1>1, <1>2, <1>3, Zenon DEF Stored
<1>7. chain'.headers = [s \in DOMAIN chain'.headers |-> chain'.headers[s]]
  BY Zenon, <1>1 DEF With
<1> QED
  BY <1>4, <1>5, <1>6, <1>7, Zenon DEF StoreInv

\* The headers ChainState::revert leaves are headers it found.
LEMMA RevertSubset ==
    ASSUME NEW c, NEW t
    PROVE  \A s \in DOMAIN revert(c, t).headers :
               s \in DOMAIN c.headers /\ revert(c, t).headers[s] = c.headers[s]
  BY Zenon DEF revert

\* commit_canonical keeps what the store and the pending steps say of the chain.
LEMMA CommitStored ==
    ASSUME StoreInv, NEW b \in Blocks, commit_canonical(b)
    PROVE  StoreInv'
<1>1. Idle /\ store' = store /\ (Applied(b) \/ Reorged(b)) /\ Node.chain = chain
  BY Zenon DEF commit_canonical, Node
<1>2. CASE Applied(b)
  <2>1. chain' = process_full_block(Node, b).chain /\ Then(b, CommitSteps)
    BY <1>2, Zenon DEF Applied, Becomes
  <2> QED
    BY <1>1, <2>1, ApplyStored, Zenon DEF Tails
<1>3. CASE Reorged(b) /\ CanRevert(chain, pre_slot(b))
  <2> DEFINE n == [chain |-> revert(chain, pre_slot(b)), state |-> revert_to(state, pre_slot(b))]
  <2>1. Then(b, CommitSteps) /\ chain' = reorg_to_block(Node, b).chain
    BY <1>3, Zenon DEF Reorged, Becomes
  <2>2. reorg_to_block(Node, b) = process_full_block(n, b)
    BY Zenon, <1>3 DEF reorg_to_block, Node
  <2>3. \A s \in DOMAIN n.chain.headers :
           s \in DOMAIN chain.headers /\ n.chain.headers[s] = chain.headers[s]
    BY RevertSubset
  <2> HIDE DEF n
  <2> QED
    BY <1>1, <2>1, <2>2, <2>3, ApplyStored, Zenon DEF Tails
<1>4. CASE Reorged(b) /\ ~CanRevert(chain, pre_slot(b))
  <2>1. chain' = chain
    BY Zenon, <1>4 DEF Reorged, Becomes, reorg_to_block, Node
  <2>2. todo' = todo
    <3>1. Then(b, <<>>)
      BY <1>4, Zenon DEF Reorged
    <3> QED
      BY <1>1, <3>1 DEF Then, Idle
  <2>3. store' = store
    BY Zenon, <1>1
  <2>4. TodoIsHead'
    BY Zenon, <2>1, <2>2 DEF StoreInv, TodoIsHead
  <2>5. TodoInOrder'
    BY Zenon, <2>2 DEF StoreInv, TodoInOrder
  <2> QED
    BY Zenon, <2>1, <2>2, <2>3, <2>4, <2>5 DEF StoreInv, Stored, Pending
<1> QED
  BY Zenon, <1>1, <1>2, <1>3, <1>4

\* So do full-block gossip and block sync.
LEMMA ExtendStored ==
    ASSUME StoreInv, NEW b \in Blocks, BlockGossip(b) \/ SyncResponse(b)
    PROVE  StoreInv'
<1>1. /\ Idle /\ store' = store /\ Node.chain = chain
      /\ chain' = process_full_block(Node, b).chain
      /\ Then(b, <<"flush", "block", "head">>) \/ Then(b, <<"block", "head">>)
  BY Zenon DEF BlockGossip, SyncResponse, Becomes, Node
<1> QED
  BY <1>1, ApplyStored, Zenon DEF Tails

\* Where the steps of Tail(todo) are in todo.
LEMMA TodoTail ==
    ASSUME todo \in TodoType, todo # <<>>, todo' = Tail(todo)
    PROVE  /\ 1 \in DOMAIN todo /\ Head(todo) = todo[1]
           /\ \A i \in DOMAIN todo : i \in Nat \ {0}
           /\ \A i \in DOMAIN todo' :
                i \in Nat /\ i + 1 \in DOMAIN todo /\ todo'[i] = todo[i + 1]
           /\ \A i \in DOMAIN todo : i # 1 => i - 1 \in DOMAIN todo' /\ todo'[i - 1] = todo[i]
<1>1. /\ Len(todo) \in Nat /\ DOMAIN todo = 1 .. Len(todo) /\ Len(todo) > 0
      /\ DOMAIN todo' = 1 .. Len(todo) - 1
      /\ \A i \in 1 .. Len(todo) - 1 : todo'[i] = todo[i + 1]
      /\ Head(todo) = todo[1]
  BY DEF TodoType
<1> QED
  BY <1>1

\* So does each durable write of a handler.
LEMMA ContinueStored ==
    ASSUME ChainInv, StoreInv, Continue
    PROVE  StoreInv'
<1>1. todo \in TodoType /\ todo # <<>> /\ todo' = Tail(todo) /\ chain' = chain
  BY Zenon DEF Continue, commit_jmt_writes, put_block, put_head,
               cast_finality_vote_and_persist, Step, Idle, ChainInv
<1>2. /\ 1 \in DOMAIN todo /\ Head(todo) = todo[1]
      /\ \A i \in DOMAIN todo : i \in Nat \ {0}
      /\ \A i \in DOMAIN todo' :
           i \in Nat /\ i + 1 \in DOMAIN todo /\ todo'[i] = todo[i + 1]
      /\ \A i \in DOMAIN todo : i # 1 => i - 1 \in DOMAIN todo' /\ todo'[i - 1] = todo[i]
  BY <1>1, TodoTail, Zenon
<1>3. TodoIsHead'
  <2> SUFFICES ASSUME NEW i \in DOMAIN todo'
               PROVE  /\ chain.head_slot = SlotOf[todo'[i].block]
                      /\ chain.head_slot \in DOMAIN chain.headers
                      /\ chain.headers[chain.head_slot] = todo'[i].block
    BY <1>1, Zenon DEF TodoIsHead
  <2>1. i + 1 \in DOMAIN todo /\ todo'[i] = todo[i + 1]
    BY Zenon, <1>2
  <2> QED
    BY <2>1, Zenon DEF StoreInv, TodoIsHead
<1>4. TodoInOrder'
  <2> SUFFICES ASSUME NEW i \in DOMAIN todo', NEW j \in DOMAIN todo'
               PROVE  /\ i < j => todo'[i].step # todo'[j].step
                      /\ todo'[i].step = "head" /\ todo'[j].step = "block" => j < i
    BY Zenon DEF TodoInOrder
  <2> QED
    BY <1>2 DEF StoreInv, TodoInOrder
<1>5. ASSUME NEW name, name # Head(todo).step PROVE Pending(name) => Pending(name)'
  <2> SUFFICES ASSUME NEW i \in DOMAIN todo, todo[i].step = name PROVE Pending(name)'
    BY Zenon DEF Pending
  <2>1. i # 1
    BY Zenon, <1>2, <1>5
  <2> QED
    BY <1>2, <2>1, Zenon DEF Pending
<1>6. CASE UNCHANGED store /\ Head(todo).step \notin {"block", "head"}
  <2>1. (Pending("block") => Pending("block")') /\ (Pending("head") => Pending("head")')
    BY <1>5, <1>6, Zenon
  <2> QED
    BY <1>1, <1>3, <1>4, <1>6, <2>1, Zenon DEF StoreInv, Stored
<1>7. TodoBlock = todo[1].block /\ SlotOf[TodoBlock] = chain.head_slot
      /\ chain.head_slot \in DOMAIN chain.headers /\ chain.headers[chain.head_slot] = TodoBlock
  <2>1. TodoBlock = todo[1].block
    BY Zenon, <1>2 DEF TodoBlock
  <2>2. /\ SlotOf[todo[1].block] = chain.head_slot
        /\ chain.head_slot \in DOMAIN chain.headers
        /\ chain.headers[chain.head_slot] = todo[1].block
    BY <1>2, Zenon DEF StoreInv, TodoIsHead
  <2> QED
    BY Zenon, <2>1, <2>2
<1>8. CASE put_block
  <2>1. Head(todo).step = "block"
    BY <1>8, Zenon DEF put_block, Step
  <2>2. /\ store'.headers = With(store.headers, chain.head_slot, TodoBlock)
        /\ store'.head = store.head
    BY Zenon, <1>7, <1>8 DEF put_block, ChainInv
  <2>3. \A s \in DOMAIN chain'.headers : Stored(s)'
    <3>1. /\ DOMAIN store'.headers = DOMAIN store.headers \cup {chain.head_slot}
          /\ store'.headers[chain.head_slot] = TodoBlock
          /\ \A s \in DOMAIN store.headers :
               s # chain.head_slot => store'.headers[s] = store.headers[s]
      BY Zenon, <2>2 DEF With
    <3>2. \A s \in DOMAIN chain.headers : Stored(s) \/ s = chain.head_slot
      BY Zenon DEF StoreInv
    <3> QED
      BY Zenon, <1>1, <1>7, <3>1, <3>2 DEF Stored
  <2>4. store'.head = 0 \/ store'.head \in DOMAIN store'.headers
    BY Zenon, <2>2 DEF StoreInv, With
  <2>5. Pending("head") => Pending("head")'
    BY <1>5, <2>1, Zenon
  <2> QED
    BY <1>1, <1>3, <1>4, <2>2, <2>3, <2>4, <2>5, Zenon DEF StoreInv
<1>9. CASE put_head
  <2>1. Head(todo).step = "head"
    BY <1>9, Zenon DEF put_head, Step
  <2>2. store'.headers = store.headers /\ store'.head = chain.head_slot
    BY Zenon, <1>7, <1>9 DEF put_head, ChainInv
  <2>3. ~Pending("block")
    BY <1>2, <2>1 DEF Pending, StoreInv, TodoInOrder
  <2>4. \A s \in DOMAIN chain'.headers : Stored(s)'
    BY <1>1, <2>2, <2>3, Zenon DEF StoreInv, Stored
  <2>5. chain.head_slot \in DOMAIN store'.headers
    BY <1>1, <1>7, <2>4, Zenon DEF Stored
  <2> QED
    BY <1>1, <1>3, <1>4, <2>2, <2>4, <2>5, Zenon DEF StoreInv
<1> QED
  BY Zenon, <1>6, <1>8, <1>9 DEF Continue, commit_jmt_writes, cast_finality_vote_and_persist, Step

\* What Restored returns when the stored head has a header.
LEMMA RestoredHead ==
    ASSUME NEW st, st.head \in Nat, st.head = 0 \/ st.head \in DOMAIN st.headers
    PROVE  /\ Restored(st).head_slot = st.head
           /\ DOMAIN Restored(st).headers = {s \in 1 .. st.head : s \in DOMAIN st.headers}
           /\ \A s \in DOMAIN Restored(st).headers : Restored(st).headers[s] = st.headers[s]
           /\ Restored(st).headers
                = [s \in DOMAIN Restored(st).headers |-> Restored(st).headers[s]]
<1> DEFINE slots == {s \in 1 .. st.head : s \in DOMAIN st.headers}
<1>1. slots \subseteq 0 .. st.head
  OBVIOUS
<1>2. (IF slots = {} THEN 0 ELSE Max(slots)) = st.head
  <2>1. CASE st.head = 0
    BY <2>1
  <2>2. CASE st.head # 0
    <3>1. st.head \in slots
      BY <2>2
    <3>2. Max(slots) \in slots /\ \A s \in slots : s <= Max(slots)
      BY <1>1, <3>1, BoundedMax, Zenon
    <3> QED
      BY <3>1, <3>2
  <2> QED
    BY Zenon, <2>1, <2>2
<1> QED
  BY Zenon, <1>2 DEF Restored

\* So does every step, a restart included.
LEMMA StoredStep ==
    ASSUME ChainInv, StoreInv, [Next]_vars
    PROVE  StoreInv'
<1>1. CASE UNCHANGED <<chain, store, todo>>
  <2>1. chain' = chain /\ store' = store /\ todo' = todo
    BY <1>1
  <2>2. TodoIsHead'
    BY Zenon, <2>1 DEF StoreInv, TodoIsHead
  <2>3. TodoInOrder'
    BY Zenon, <2>1 DEF StoreInv, TodoInOrder
  <2> QED
    BY Zenon, <2>1, <2>2, <2>3 DEF StoreInv, Stored, Pending
<1>2. CASE UNCHANGED vars
  BY <1>1, <1>2, Zenon DEF vars
<1>3. CASE \E v \in Peers, b \in Blocks : ReceiveFinalityVote(v, b)
  BY <1>1, <1>3, Zenon DEF ReceiveFinalityVote, NodeUnchanged
<1>4. CASE \E slot \in Slots : ingest_finality_checkpoint(slot)
  BY <1>1, <1>4, Zenon DEF ingest_finality_checkpoint, NodeUnchanged
<1>5. CASE Restart
  <2>1. chain' = Restored(store) /\ todo' = <<>> /\ store' = store /\ store.head \in Nat
    BY Zenon, <1>5 DEF Restart, ChainInv
  <2>2. /\ chain'.head_slot = store.head
        /\ chain'.headers = [s \in DOMAIN chain'.headers |-> chain'.headers[s]]
        /\ \A s \in DOMAIN chain'.headers :
             s \in DOMAIN store.headers /\ chain'.headers[s] = store.headers[s]
    BY Zenon, <2>1, RestoredHead DEF StoreInv
  <2>3. DOMAIN todo' = {}
    BY <2>1
  <2> QED
    BY <2>1, <2>2, <2>3, Zenon DEF StoreInv, Stored, TodoIsHead, TodoInOrder
<1> QED
  BY <1>2, <1>3, <1>4, <1>5, CommitStored, ExtendStored, ContinueStored, Zenon DEF Next

\* The store starts empty, at head 0.
LEMMA StoredInit ==
    ASSUME Init
    PROVE  StoreInv
<1>1. /\ DOMAIN chain.headers = {} /\ DOMAIN todo = {}
      /\ chain.head_slot = 0 /\ store.head = 0
      /\ chain.headers = [s \in DOMAIN chain.headers |-> chain.headers[s]]
  BY DEF Init, genesis
<1> QED
  BY <1>1, Zenon DEF StoreInv, TodoIsHead, TodoInOrder

\* Between any two durable writes of a handler the store holds what StoreInv
\* says: put_block and put_head run in that order, for the chain's last block.
THEOREM StoreInvHolds == Spec => []StoreInv
<1>1. Init => StoreInv
  BY Zenon, StoredInit
<1>2. ChainInv /\ StoreInv /\ [Next]_vars => StoreInv'
  BY Zenon, StoredStep
<1> QED
  BY <1>1, <1>2, ChainInvHolds, PTL DEF Spec

\* A restart between two handlers reads back exactly the headers and the head
\* that were in memory, after any reorganisations and crashes: put_block comes
\* before put_head, and reorg_to_block moves the stored head down.
THEOREM RestartRestoresChainHolds == Spec => []RestartRestoresChain
<1>1. ChainInv /\ StoreInv => RestartRestoresChain
  <2> SUFFICES ASSUME ChainInv, StoreInv, Idle, Contiguous
               PROVE  [Restored(store) EXCEPT !.base_fee = chain.base_fee] = chain
    BY Zenon DEF RestartRestoresChain
  <2>1. /\ chain = [head_slot |-> chain.head_slot, headers |-> chain.headers,
                    base_fee |-> chain.base_fee]
        /\ store.head \in Nat
    BY Zenon DEF ChainInv, IsChain
  <2>2. ~Pending("block") /\ ~Pending("head")
    BY DEF Idle, Pending
  <2>3. store.head = chain.head_slot /\ \A s \in DOMAIN chain.headers : Stored(s)
    BY <2>2, Zenon DEF StoreInv
  <2> DEFINE slots == {s \in 1 .. store.head : s \in DOMAIN store.headers}
  <2>4. slots = DOMAIN chain.headers
    BY Zenon, <2>3 DEF Contiguous, Stored
  <2>5. Restored(store) = [head_slot |-> Restored(store).head_slot,
                           headers |-> [s \in slots |-> store.headers[s]],
                           base_fee |-> GENESIS_BASE_FEE]
    BY Zenon DEF Restored
  <2>6. Restored(store).head_slot = chain.head_slot
    BY <2>1, <2>3, RestoredHead, Zenon DEF StoreInv
  <2>7. [s \in slots |-> store.headers[s]] = chain.headers
    <3> HIDE DEF slots
    <3>1. DOMAIN chain.headers = slots /\ \A s \in slots : chain.headers[s] = store.headers[s]
      BY <2>3, <2>4, Zenon DEF Stored
    <3>2. chain.headers = [s \in DOMAIN chain.headers |-> chain.headers[s]]
      BY Zenon DEF StoreInv
    <3> QED
      BY Zenon, <3>1, <3>2
  <2> HIDE DEF slots
  <2> QED
    BY <2>1, <2>5, <2>6, <2>7
<1> QED
  BY <1>1, ChainInvHolds, StoreInvHolds, PTL

------------------------------------------------------------------------------
(***************************************************************************)
(* Without full-block gossip the chain has a header at every slot up to    *)
(* its head.  For a restart that needs the same of the store: its head     *)
(* only ever moves to the head of a chain the store holds in full.         *)
(***************************************************************************)
ContiguousInv == Contiguous /\ 1 .. store.head \subseteq DOMAIN store.headers

\* commit_canonical applies at the head, or goes back to a header it has.
LEMMA CommitContiguous ==
    ASSUME ChainInv, Contiguous, NEW b \in Blocks, commit_canonical(b)
    PROVE  Contiguous'
<1>1. (Applied(b) \/ Reorged(b)) /\ Node.chain = chain
  BY Zenon DEF commit_canonical, Node
<1>2. chain.head_slot \in Nat /\ SlotOf[b] \in Nat \ {0}
  BY Zenon, BlockAssumption DEF ChainInv, IsChain
<1>3. CASE Applied(b)
  <2>1. chain' = process_full_block(Node, b).chain /\ SlotOf[b] = chain.head_slot + 1
    BY <1>3, Zenon DEF Applied, Becomes
  <2>2. chain'.head_slot = SlotOf[b] /\ chain'.headers = With(chain.headers, SlotOf[b], b)
    BY <1>1, <2>1, AppliedChain, Zenon
  <2> QED
    BY <1>2, <2>1, <2>2 DEF Contiguous, With
<1>4. CASE Reorged(b)
  <2> DEFINE n == [chain |-> revert(chain, pre_slot(b)), state |-> revert_to(state, pre_slot(b))]
  <2>1. chain' = reorg_to_block(Node, b).chain /\ SlotOf[b] \in DOMAIN chain.headers
    BY <1>4, Zenon DEF Reorged, Becomes, HasHeader
  <2>2. CASE ~CanRevert(chain, pre_slot(b))
    <3>1. chain' = chain
      BY Zenon, <2>1, <2>2 DEF reorg_to_block, Node
    <3> QED
      BY <3>1, Zenon DEF Contiguous
  <2>3. CASE CanRevert(chain, pre_slot(b))
    <3>1. chain' = process_full_block(n, b).chain
      BY Zenon, <2>1, <2>3 DEF reorg_to_block, Node
    <3>2. DOMAIN n.chain.headers = 1 .. SlotOf[b] - 1
      <4>1. DOMAIN n.chain.headers = {s \in 1 .. chain.head_slot : s <= SlotOf[b] - 1}
        <5>1. n.chain.headers = [s \in {s \in DOMAIN chain.headers : s <= SlotOf[b] - 1}
                                   |-> chain.headers[s]]
          BY Zenon DEF revert, pre_slot
        <5> QED
          BY Zenon, <5>1 DEF Contiguous
      <4>2. SlotOf[b] <= chain.head_slot
        BY <1>2, <2>1 DEF Contiguous
      <4>3. {s \in 1 .. chain.head_slot : s <= SlotOf[b] - 1} = 1 .. SlotOf[b] - 1
        BY <1>2, <4>2
      <4> QED
        BY <4>1, <4>3, Zenon
    <3> HIDE DEF n
    <3>3. chain'.head_slot = SlotOf[b] /\ chain'.headers = With(n.chain.headers, SlotOf[b], b)
      BY <3>1, AppliedChain, Zenon
    <3> QED
      BY <1>2, <3>2, <3>3 DEF Contiguous, With
  <2> QED
    BY Zenon, <2>2, <2>3
<1> QED
  BY Zenon, <1>1, <1>3, <1>4

\* No step but full-block gossip leaves a gap.
LEMMA ContiguousStep ==
    ASSUME "gossip" \notin Inputs, ChainInv, StoreInv, ContiguousInv, [Next]_vars
    PROVE  ContiguousInv'
<1>1. CASE UNCHANGED <<chain, store>>
  BY <1>1, Zenon DEF ContiguousInv, Contiguous
<1>2. CASE UNCHANGED vars
  BY <1>1, <1>2, Zenon DEF vars
<1>3. CASE \/ \E v \in Peers, b \in Blocks : ReceiveFinalityVote(v, b)
           \/ \E slot \in Slots : ingest_finality_checkpoint(slot)
  BY <1>1, <1>3, Zenon DEF ReceiveFinalityVote, ingest_finality_checkpoint, NodeUnchanged
<1>4. ASSUME NEW b \in Blocks, commit_canonical(b) PROVE ContiguousInv'
  <2>1. Contiguous'
    BY <1>4, CommitContiguous, Zenon DEF ContiguousInv
  <2> QED
    BY <1>4, <2>1, Zenon DEF commit_canonical, ContiguousInv
<1>5. ASSUME NEW b \in Blocks, SyncResponse(b) PROVE ContiguousInv'
  <2>1. /\ chain' = process_full_block(Node, b).chain /\ Node.chain = chain
        /\ SlotOf[b] = chain.head_slot + 1 /\ store' = store
    BY <1>5, Zenon DEF SyncResponse, Becomes, Node
  <2>2. chain'.head_slot = SlotOf[b] /\ chain'.headers = With(chain.headers, SlotOf[b], b)
    BY <2>1, AppliedChain, Zenon
  <2>3. chain.head_slot \in Nat
    BY Zenon DEF ChainInv, IsChain
  <2>4. Contiguous'
    BY <2>1, <2>2, <2>3 DEF ContiguousInv, Contiguous, With
  <2> QED
    BY <2>1, <2>4, Zenon DEF ContiguousInv
<1>6. CASE Continue
  <2>1. chain' = chain /\ store'.head \in Nat /\ StoreInv'
    BY <1>6, ContinueStored, ContinuePreserves, Zenon
      DEF Continue, commit_jmt_writes, put_block, put_head, cast_finality_vote_and_persist, Step,
          ChainInv
  <2>2. DOMAIN store.headers \subseteq DOMAIN store'.headers
    BY <1>6 DEF Continue, commit_jmt_writes, put_block, put_head,
                cast_finality_vote_and_persist, ChainInv, With
  <2>3. CASE store'.head = store.head
    BY <2>1, <2>2, <2>3, Zenon DEF ContiguousInv, Contiguous
  <2>4. CASE store'.head # store.head
    <3>1. put_head /\ Head(todo).step = "head" /\ store'.headers = store.headers
      BY Zenon, <1>6, <2>4 DEF Continue, commit_jmt_writes, put_block, put_head, Step,
                        cast_finality_vote_and_persist, ChainInv
    <3>2. todo \in TodoType /\ todo # <<>> /\ todo' = Tail(todo)
      BY <3>1, Zenon DEF put_head, Step, Idle, ChainInv
    <3>3. /\ 1 \in DOMAIN todo /\ Head(todo) = todo[1] /\ \A i \in DOMAIN todo : i \in Nat \ {0}
      BY <3>2, TodoTail, Zenon
    <3>4. store'.head = chain.head_slot
      BY Zenon, <3>1, <3>3 DEF put_head, TodoBlock, StoreInv, TodoIsHead, ChainInv
    <3>5. ~Pending("block")
      BY <3>1, <3>3 DEF Pending, StoreInv, TodoInOrder
    <3>6. DOMAIN chain.headers \subseteq DOMAIN store.headers
      BY <3>5, Zenon DEF StoreInv, Stored
    <3> QED
      BY <2>1, <3>1, <3>4, <3>6, Zenon DEF ContiguousInv, Contiguous
  <2> QED
    BY Zenon, <2>3, <2>4
<1>7. CASE Restart
  <2>1. chain' = Restored(store) /\ store' = store /\ store.head \in Nat
    BY Zenon, <1>7 DEF Restart, ChainInv
  <2>2. /\ chain'.head_slot = store.head
        /\ DOMAIN chain'.headers = {s \in 1 .. store.head : s \in DOMAIN store.headers}
    BY Zenon, <2>1, RestoredHead DEF StoreInv
  <2> QED
    BY Zenon, <2>1, <2>2 DEF ContiguousInv, Contiguous
<1>8. ~ \E b \in Blocks : BlockGossip(b)
  BY Zenon DEF BlockGossip
<1> QED
  BY <1>2, <1>3, <1>4, <1>5, <1>6, <1>7, <1>8, Zenon DEF Next

\* A node that takes its blocks from certificates and from block sync has a
\* header at every slot up to its head, across reorganisations, crashes
\* between two durable writes and restarts.
THEOREM HeadersContiguousHolds ==
    ASSUME "gossip" \notin Inputs PROVE Spec => []HeadersContiguous
<1>1. Init => ContiguousInv
  <2> SUFFICES ASSUME Init PROVE ContiguousInv
    BY Zenon
  <2>1. DOMAIN chain.headers = {} /\ chain.head_slot = 0 /\ store.head = 0
    BY DEF Init, genesis
  <2> QED
    BY <2>1 DEF ContiguousInv, Contiguous
<1>2. ChainInv /\ StoreInv /\ ContiguousInv /\ [Next]_vars => ContiguousInv'
  BY Zenon, ContiguousStep
<1>3. ContiguousInv => HeadersContiguous
  BY Zenon DEF ContiguousInv, HeadersContiguous
<1> QED
  BY <1>1, <1>2, <1>3, ChainInvHolds, StoreInvHolds, PTL DEF Spec

------------------------------------------------------------------------------
(***************************************************************************)
(* The steps of a node that has run since genesis.                         *)
(***************************************************************************)
EffectsInv ==
    restarts = 0 =>
        /\ Sound(state, chain.headers, chain.head_slot)
        /\ DOMAIN state.pending = {} \/ (todo # <<>> /\ Head(todo).step = "flush")

\* Without full-block gossip the chain has no gaps.
Gapless == "gossip" \notin Inputs => Contiguous

\* commit_canonical keeps the invariant, applied forward, reorganised or halfway.
LEMMA CommitSound ==
    ASSUME EvenDepth, "gossip" \in Inputs => Unpruned, ChainInv, Gapless, EffectsInv,
           NEW b \in Blocks, commit_canonical(b)
    PROVE  EffectsInv'
<1> SUFFICES ASSUME restarts' = 0
             PROVE  /\ Sound(state', chain'.headers, chain'.head_slot)
                    /\ DOMAIN state'.pending = {} \/ (todo' # <<>> /\ Head(todo').step = "flush")
  BY Zenon DEF EffectsInv
<1>1. restarts = 0 /\ Idle /\ (Applied(b) \/ Reorged(b))
  BY Zenon DEF commit_canonical
<1>2. /\ Sound(state, chain.headers, chain.head_slot) /\ DOMAIN state.pending = {} /\ IsChain(chain)
  BY <1>1, Zenon DEF EffectsInv, Idle, ChainInv
<1>3. Node.chain = chain /\ Node.state = state /\ Node = [chain |-> Node.chain, state |-> Node.state]
  BY Zenon DEF Node
<1>4. Then(b, CommitSteps) => todo' # <<>> /\ Head(todo').step = "flush"
  BY DEF Then, CommitSteps
<1>5. chain.head_slot \in Nat /\ SlotOf[b] \in Nat /\ \A i \in DOMAIN chain.headers : i <= chain.head_slot
  BY Zenon, <1>2, BlockAssumption DEF IsChain
<1>6. CASE Applied(b)
  <2>1. /\ chain' = process_full_block(Node, b).chain /\ state' = process_full_block(Node, b).state
        /\ SlotOf[b] = chain.head_slot + 1 /\ Then(b, CommitSteps)
    BY <1>6, Zenon DEF Applied, Becomes
  <2>2. SlotOf[b] > chain.head_slot
    BY <1>5, <2>1
  <2>3. Sound(state', chain'.headers, chain'.head_slot)
    BY Zenon, <1>2, <1>3, <2>1, <2>2, ForwardSound
  <2> QED
    BY <1>4, <2>1, <2>3, Zenon
<1>7. CASE Reorged(b)
  <2>1. /\ chain' = reorg_to_block(Node, b).chain /\ state' = reorg_to_block(Node, b).state
        /\ HasHeader(chain, SlotOf[b]) /\ CanRevertTo(state, pre_slot(b))
        /\ CanRevert(chain, pre_slot(b)) => Then(b, CommitSteps)
    BY <1>3, <1>7, Zenon DEF Reorged, Becomes, MayReorg
  <2>2. CASE CanRevert(chain, pre_slot(b))
    <3>1. Sound(state', chain'.headers, chain'.head_slot)
      BY Zenon, <1>2, <1>3, <2>1, <2>2, ReorgSound
    <3> QED
      BY <1>4, <2>1, <2>2, <3>1, Zenon
  <2>3. CASE ~CanRevert(chain, pre_slot(b))
    <3>1. ~Contiguous
      BY SMTT(40), <1>5, <2>1, <2>3, BlockAssumption DEF Contiguous, CanRevert, HasHeader, pre_slot
    <3>2. Unpruned
      BY <3>1, Zenon DEF Gapless
    <3> QED
      BY Zenon, <1>2, <1>3, <2>1, <2>3, <3>2, HalfwaySound
  <2> QED
    BY Zenon, <2>2, <2>3
<1> QED
  BY Zenon, <1>1, <1>6, <1>7

\* Full-block gossip keeps it, also over a gap.
LEMMA GossipSound ==
    ASSUME EvenDepth, ChainInv, EffectsInv, NEW b \in Blocks, BlockGossip(b)
    PROVE  EffectsInv'
<1> SUFFICES ASSUME restarts' = 0
             PROVE  /\ Sound(state', chain'.headers, chain'.head_slot)
                    /\ todo' # <<>> /\ Head(todo').step = "flush"
  BY Zenon DEF EffectsInv
<1>1. /\ restarts = 0 /\ Then(b, <<"flush", "block", "head">>)
      /\ validate_header_with_checkpoint(chain, SlotOf[b], finality.checkpoint)
      /\ chain' = process_full_block(Node, b).chain /\ state' = process_full_block(Node, b).state
  BY Zenon DEF BlockGossip, Becomes
<1>2. Sound(state, chain.headers, chain.head_slot) /\ IsChain(chain)
  BY <1>1, Zenon DEF EffectsInv, ChainInv
<1>3. Node.chain = chain /\ Node.state = state
  BY Zenon DEF Node
<1>4. todo' # <<>> /\ Head(todo').step = "flush"
  BY <1>1 DEF Then
<1>5. SlotOf[b] > chain.head_slot
  <2>1. SlotOf[b] > 0
    BY BlockAssumption
  <2> QED
    BY Zenon, <1>1, <2>1 DEF validate_header_with_checkpoint, genesis
<1>6. Sound(state', chain'.headers, chain'.head_slot)
  BY Zenon, <1>1, <1>2, <1>3, <1>5, ForwardSound
<1> QED
  BY Zenon, <1>4, <1>6

\* commit_jmt_writes changes no value read and leaves no write deferred.
LEMMA FlushSound ==
    ASSUME NEW s, NEW h, NEW top, Sound(s, h, top)
    PROVE  Sound(flush_pending(s), h, top) /\ DOMAIN flush_pending(s).pending = {}
<1> DEFINE r == flush_pending(s)
<1>1. /\ IsStore(s) /\ UndoInv(s.undo, top) /\ \A k \in Keys : GoodFor(k, get(s, k))
      /\ \A i \in 0..top : Solid(h, i) /\ Reach(s.undo, i) => Right(s, h, i)
  BY Zenon DEF Sound
<1>2. IsStore(r) /\ r.undo = s.undo /\ DOMAIN r.pending = {} /\ \A k \in Keys : get(r, k) = get(s, k)
  BY Zenon, <1>1, FlushGet
<1> HIDE DEF r
<1>3. \A n : Right(s, h, n) => Right(r, h, n)
  BY <1>2, Zenon DEF Right, IsAfter
<1>4. Sound(r, h, top)
  BY <1>1, <1>2, <1>3, Zenon DEF Sound
<1> QED
  BY Zenon, <1>2, <1>4 DEF r

\* Every step keeps the invariant.
LEMMA EffectsStep ==
    ASSUME "sync" \notin Inputs, EvenDepth, "gossip" \in Inputs => Unpruned,
           ChainInv, Gapless, EffectsInv, [Next]_vars
    PROVE  EffectsInv'
<1>1. CASE UNCHANGED <<chain, state, todo, restarts>>
  BY <1>1, Zenon DEF EffectsInv
<1>2. CASE UNCHANGED vars
  BY <1>1, <1>2, Zenon DEF vars
<1>3. CASE \/ \E v \in Peers, b \in Blocks : ReceiveFinalityVote(v, b)
           \/ \E slot \in Slots : ingest_finality_checkpoint(slot)
  BY <1>1, <1>3, Zenon DEF ReceiveFinalityVote, ingest_finality_checkpoint, NodeUnchanged
<1>4. ~ \E b \in Blocks : SyncResponse(b)
  BY Zenon DEF SyncResponse
<1>5. CASE commit_jmt_writes
  <2>1. state' = flush_pending(state) /\ chain' = chain /\ restarts' = restarts
    BY <1>5, Zenon DEF commit_jmt_writes, Step
  <2> QED
    BY <2>1, FlushSound, Zenon DEF EffectsInv
<1>6. CASE put_block \/ put_head \/ cast_finality_vote_and_persist
  <2>1. state' = state /\ chain' = chain /\ restarts' = restarts
    BY <1>6, Zenon DEF put_block, put_head, cast_finality_vote_and_persist, Step
  <2>2. Head(todo).step # "flush"
    BY Zenon, <1>6 DEF put_block, put_head, cast_finality_vote_and_persist, Step
  <2> QED
    BY <2>1, <2>2, Zenon DEF EffectsInv
<1>7. CASE Restart
  <2>1. restarts' # 0
    BY <1>7 DEF Restart, ChainInv
  <2> QED
    BY <2>1, Zenon DEF EffectsInv
<1> QED
  BY <1>2, <1>3, <1>4, <1>5, <1>6, <1>7, CommitSound, GossipSound, Zenon DEF Next, Continue

\* The genesis state satisfies it.
LEMMA EffectsInit ==
    ASSUME EvenDepth, Init
    PROVE  EffectsInv
<1>1. state.pending = <<>> /\ state.undo = <<>> /\ state.cache = <<>> /\ chain.head_slot = 0
      /\ state.smt = [k \in Keys |-> GenesisValue(k)]
      /\ state = [smt |-> state.smt, cache |-> state.cache, pending |-> state.pending, undo |-> state.undo]
  BY Zenon DEF Init, genesis, GenesisState, open
<1>2. IsStore(state) /\ DOMAIN state.pending = {}
  BY <1>1 DEF IsStore
<1>3. \A k \in Keys : get(state, k) = GenesisValue(k)
  <2>1. DOMAIN state.cache = {}
    BY <1>1
  <2>2. \A k \in Keys : get(state, k) = state.smt[k]
    BY Zenon, <2>1 DEF get
  <2> HIDE DEF GenesisValue
  <2> QED
    BY Zenon, <1>1, <2>2
<1>4. ASSUME NEW k \in Keys PROVE GoodFor(k, get(state, k))
  <2> DEFINE x == [block |-> "genesis", part |-> "stake", price |-> 0]
  <2>1. CASE k \in Proposers
    <3>1. get(state, k) = <<x>>
      BY Zenon, <1>3, <2>1 DEF GenesisValue
    <3> HIDE DEF x
    <3>2. <<x>> \in Seq({x}) /\ <<x>> # <<>>
      OBVIOUS
    <3> QED
      BY Zenon, <3>1, <3>2, SeqOf DEF GoodFor
  <2>2. CASE k \notin Proposers
    <3>1. get(state, k) = <<>>
      BY Zenon, <1>3, <2>2 DEF GenesisValue, Absent
    <3>2. <<>> \in Seq({})
      OBVIOUS
    <3> QED
      BY <2>2, <3>1, <3>2, SeqOf, Zenon DEF GoodFor
  <2> QED
    BY Zenon, <2>1, <2>2
<1>5. Len(state.undo) = 0 /\ UndoInv(state.undo, 0)
  <2>1. Len(state.undo) = 0 /\ IsSeq(state.undo)
    BY <1>1 DEF IsSeq
  <2>2. \E m \in Nat : Len(state.undo) = 2 * m
    <3>1. Len(state.undo) = 2 * 0 /\ 0 \in Nat
      BY <2>1
    <3> QED
      BY <3>1, Zenon
  <2>3. Len(state.undo) <= MaxUndoDepth
    BY <2>1 DEF EvenDepth
  <2> QED
    BY <2>1, <2>2, <2>3 DEF UndoInv
<1>6. ASSUME NEW n \in 0..0 PROVE Right(state, chain.headers, n)
  <2>1. n = 0 /\ 0 \in Nat
    OBVIOUS
  <2>2. \A k : Expected(chain.headers, 0, k) = MarksOf(GenesisValue(k))
    BY <2>1, ExpectedFacts, Zenon
  <2>3. \A k, v : IsAfter(state, 0, k, v) => v = get(state, k)
    BY <1>5 DEF IsAfter
  <2> QED
    BY <1>3, <2>1, <2>2, <2>3, Zenon DEF Right
<1>7. Sound(state, chain.headers, 0)
  BY <1>2, <1>4, <1>5, <1>6, Zenon DEF Sound
<1> QED
  BY <1>1, <1>2, <1>7, Zenon DEF EffectsInv

\* For any blocks, any order of certificates and gossip and any number of
\* reorganisations: while a node that gets no blocks from sync has run since
\* genesis, and its chain has no gap, what it reads for a key is what the blocks
\* of the chain add, each once and in slot order.  The undo logs of
\* process_full_block and revert_to take back exactly what a replaced block did,
\* also at the depth where the oldest are pruned.  MAX_UNDO_DEPTH is even; with
\* full-block gossip, which can leave gaps, no log may have been pruned.
THEOREM EffectsFollowChainHolds ==
    ASSUME "sync" \notin Inputs, EvenDepth, "gossip" \in Inputs => Unpruned
    PROVE  Spec => []EffectsFollowChain
<1>1. Init => EffectsInv
  BY Zenon, EffectsInit
<1>2. ChainInv /\ Gapless /\ EffectsInv /\ [Next]_vars => EffectsInv'
  BY Zenon, EffectsStep
<1>3. ChainInv /\ EffectsInv => EffectsFollowChain
  <2> SUFFICES ASSUME ChainInv, EffectsInv, restarts = 0, Contiguous, NEW k \in Keys
               PROVE  MarksOf(get(state, k)) = Expected(chain.headers, chain.head_slot, k)
    BY Zenon DEF EffectsFollowChain
  <2> DEFINE top == chain.head_slot
  <2>1. Sound(state, chain.headers, top) /\ top \in Nat
    BY Zenon DEF EffectsInv, ChainInv, IsChain
  <2>2. Solid(chain.headers, top)
    BY Zenon DEF Solid, Contiguous
  <2>3. UndoInv(state.undo, top)
    BY <2>1, Zenon DEF Sound
  <2> HIDE DEF top
  <2>4. Len(state.undo) \in Nat
    BY Zenon, <2>1, <2>3, UndoLength
  <2>5. Reach(state.undo, top)
    <3>1. Len(state.undo) > 0 => state.undo[1].slot \in Nat /\ state.undo[1].slot <= top
      BY Zenon, <2>1, <2>3, UndoSlots
    <3>2. Len(state.undo) > 0 => state.undo[1].slot <= top + 1
      BY <2>1, <3>1
    <3> QED
      BY Zenon, <2>1, <2>4, <3>2, ReachAt
  <2>6. top \in 0..top
    BY <2>1
  <2>7. Right(state, chain.headers, top)
    BY <2>1, <2>2, <2>5, <2>6, Zenon DEF Sound
  <2>8. IsAfter(state, top, k, get(state, k))
    <3>1. \A i \in 1..Len(state.undo) : ~Restores(state.undo, top, k, i)
      BY Zenon, <2>1, <2>3, UndoSlots
    <3> QED
      BY <3>1, Zenon DEF IsAfter
  <2> QED
    BY <2>7, <2>8, Zenon DEF Right, top
<1>4. Spec => []Gapless
  <2>1. CASE "gossip" \in Inputs
    <3>1. Gapless
      BY <2>1, Zenon DEF Gapless
    <3> QED
      BY <3>1, PTL
  <2>2. CASE "gossip" \notin Inputs
    <3>1. HeadersContiguous => Gapless
      BY Zenon DEF HeadersContiguous, Gapless
    <3>2. Spec => []HeadersContiguous
      BY Zenon, <2>2, HeadersContiguousHolds
    <3> QED
      BY <3>1, <3>2, PTL
  <2> QED
    BY Zenon, <2>1, <2>2
<1> QED
  BY <1>1, <1>2, <1>3, <1>4, ChainInvHolds, PTL DEF Spec
==============================================================================
