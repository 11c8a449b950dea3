------------------------------ MODULE ChainSync ------------------------------
(***************************************************************************)
(* Catching up: a node asks its peers for their chain tip, downloads the   *)
(* blocks it misses in batches or, when it is far behind, their state in   *)
(* chunks, and executes or imports what it gets.  Meanwhile the peers move *)
(* on, consensus hands the node blocks of its own, the hard-final          *)
(* checkpoint advances, and answers come late, damaged or not at all.      *)
(*                                                                         *)
(* The chain is the one the network agreed on: some slots hold a block, a  *)
(* block writes one key.  A state is what the ledger holds for every key   *)
(* and its root is the state itself.  A chunk is one entry.                *)
(***************************************************************************)
EXTENDS Integers, Sequences, SequencesExt, FiniteSets, FiniteSetsExt, Functions, TLC

CONSTANTS
    SyncPeers,           \* who serves the node
    FirstHead,           \* the head of the peers when the node meets them
    Restarted,           \* peers that were restarted at that head
    SyncKeys,            \* keys of the state
    ChainSlots,          \* the slots that hold a block
    WrittenBy(_),        \* the key the block of a slot writes
    BATCH_SIZE,          \* SyncManager.batch_size
    SNAPSHOT_THRESHOLD,  \* slots behind beyond which the state is downloaded
    PIN_SLOTS,           \* slots after which a pinned snapshot expires
    CHUNK_MAX_RETRIES,
    MaxInFlight,         \* bound on the requests under way
    MaxImports,          \* bound on the snapshots imported
    MaxFaults            \* bound on answers damaged and requests failed

LOCAL S == INSTANCE StateManager WITH Keys <- SyncKeys, MaxUndoDepth <- 1

VARIABLES
    node,      \* chain head, state, SyncManager and the chunks collected
    peers,     \* head, tracked keys and pinned snapshot of every peer
    wire,      \* requests and their answers under way
    faults,    \* how many answers were damaged or requests failed
    imports    \* history: how many snapshots were imported, and the last that counted

sync_vars == <<node, peers, wire, faults, imports>>

LastSlot == Max(ChainSlots)

\* What the chain's state is after slot s.
StateAt(s) ==
    [k \in SyncKeys |-> <<Max({0} \cup {b \in ChainSlots : b <= s /\ WrittenBy(b) = k})>>]

NextBlock(s) == Min({b \in ChainSlots : b > s})

------------------------------------------------------------------------------
(***************************************************************************)
(* The answers of a peer.                                                  *)
(***************************************************************************)
NoPin == [root |-> <<>>, slot |-> -1, entries |-> <<>>]

\* export_snapshot: the tracked keys, in the order of a hash set.  They are
\* those written since the process started.
Exports(p) ==
    LET state == StateAt(peers[p].head)
    IN  {[root |-> state, slot |-> peers[p].head,
          entries |-> [i \in DOMAIN order |-> [key |-> order[i], value |-> state[order[i]]]]]
           : order \in SetToSeqs(peers[p].tracked)}

\* The first chunk request pins a snapshot, and a later one renews an old pin.
PinsFor(p) ==
    LET pin == peers[p].pin
    IN  IF pin = NoPin \/ peers[p].head > pin.slot + PIN_SLOTS THEN Exports(p) ELSE {pin}

NotFound == [kind |-> "NotFound"]

BlocksFrom(p, start, count) ==
    LET found == {b \in ChainSlots : b >= start /\ b <= peers[p].head}
        slots == SetToSortSeq(found, <)
    IN  SubSeq(slots, 1, IF Len(slots) < count THEN Len(slots) ELSE count)

\* handle_inbound_request, with the pin it leaves behind.
Respond(p, req, pin) ==
    CASE req.kind = "GetBlocks" ->
           LET blocks == BlocksFrom(p, req.start, req.count)
           IN  IF blocks = <<>> THEN NotFound
               ELSE [kind |-> "Blocks", blocks |-> blocks, damaged |-> Len(blocks) + 1]
      [] req.kind = "GetChunk" ->
           IF req.index >= Len(pin.entries) THEN NotFound
           ELSE [kind |-> "Chunk", root |-> pin.root, slot |-> pin.slot, index |-> req.index,
                 total |-> Len(pin.entries), entry |-> pin.entries[req.index + 1],
                 damaged |-> FALSE]

------------------------------------------------------------------------------
(***************************************************************************)
(* The node.                                                               *)
(***************************************************************************)
needs_sync(n) == n.local_tip < n.network_tip

slots_behind(n) == IF needs_sync(n) THEN n.network_tip - n.local_tip ELSE 0

advance_local_tip(n, slot) == [n EXCEPT !.local_tip = IF slot > @ THEN slot ELSE @]

update_network_tip(n, slot) == [n EXCEPT !.network_tip = IF slot > @ THEN slot ELSE @]

should_use_snapshot_sync(n) ==
    /\ ~n.initial_sync_done
    /\ n.chunks = <<>> /\ n.expected_root = <<>>
    /\ slots_behind(n) > SNAPSHOT_THRESHOLD

needs_next_chunk(n) == n.total_chunks > 0 /\ Len(n.chunks) < n.total_chunks

\* The chunks collected are forgotten, in each way the code forgets them.
ClearChunks(n) ==
    [n EXCEPT !.chunks = <<>>, !.expected_root = <<>>, !.total_chunks = 0]

AbortChunks(n) == [ClearChunks(n) EXCEPT !.retry_count = 0]

\* A request under way, and the answer once the peer has given it.
Request(id, p, req) == [id |-> id, peer |-> p, req |-> req, resp |-> <<>>]

FreeIds(n, msgs) == (1..MaxInFlight) \ (n.pending \cup {m.id : m \in msgs})

\* send_request, for a request the node keeps in pending.
Send(n, msgs, p, req) ==
    /\ FreeIds(n, msgs) # {}
    /\ LET id == Min(FreeIds(n, msgs))
       IN  /\ node' = [n EXCEPT !.pending = @ \cup {id}]
           /\ wire' = msgs \cup {Request(id, p, req)}

\* request_next_batch: blocks, or the first chunk of a snapshot.
request_next_batch(n, msgs) ==
    IF ~needs_sync(n) \/ n.pending # {}
      THEN node' = n /\ wire' = msgs
      ELSE \E p \in SyncPeers :
             IF should_use_snapshot_sync(n)
               THEN Send(ClearChunks(n), msgs, p, [kind |-> "GetChunk", index |-> 0])
               ELSE Send(n, msgs, p, [kind |-> "GetBlocks", start |-> n.local_tip + 1,
                                      count |-> Min({BATCH_SIZE, slots_behind(n)})])

\* SyncedBlocksApplied: what follows an answer.
ContinueSync(n, msgs) ==
    IF needs_next_chunk(n)
      THEN \E p \in SyncPeers : Send(n, msgs, p, [kind |-> "GetChunk", index |-> Len(n.chunks)])
      ELSE request_next_batch(n, msgs)

\* process_full_block, with the checks of validate_header_with_checkpoint.
Process(n, b) ==
    [advance_local_tip(n, b) EXCEPT
       !.head = b,
       !.state = S!update_batch_deferred(@, WrittenBy(b) :> <<b>>)]

Acceptable(n, b) == b >= n.checkpoint /\ (n.head = 0 \/ b > n.head)

\* Mutant of OnBlocks: a block that fails is passed over.
OnBlocksSkips(n, resp) ==
    FoldLeft(LAMBDA m, i : IF i # resp.damaged /\ Acceptable(m, resp.blocks[i])
                             THEN Process(m, resp.blocks[i]) ELSE m,
             n, [i \in DOMAIN resp.blocks |-> i])

\* on_response for Blocks: up to the first one that is damaged or refused.
OnBlocks(n, resp) ==
    LET Good(m, i) == i # resp.damaged /\ Acceptable(m, resp.blocks[i])
        Step(acc, i) == IF acc.going /\ Good(acc.node, i)
                          THEN [acc EXCEPT !.node = Process(@, resp.blocks[i])]
                          ELSE [acc EXCEPT !.going = FALSE]
    IN  FoldLeft(Step, [node |-> n, going |-> TRUE], [i \in DOMAIN resp.blocks |-> i]).node

\* check_snapshot_ws_anchor: the checkpoint carries the state root of its slot.
AnchorHolds(n, resp) ==
    n.checkpoint # 0 =>
      /\ resp.slot >= n.checkpoint
      /\ resp.slot = n.checkpoint => resp.root = StateAt(n.checkpoint)

\* The first chunk announces the snapshot.
StoreChunk(n, resp) ==
    [n EXCEPT !.expected_root = IF @ = <<>> THEN resp.root ELSE @,
              !.total_chunks = IF n.expected_root = <<>> THEN resp.total ELSE @,
              !.snapshot_slot = IF n.expected_root = <<>> THEN resp.slot ELSE @,
              !.retry_count = 0,
              !.chunks = Append(@, [index |-> resp.index, entry |-> resp.entry])]

\* Mutant of RootMatches: what was imported is not compared.
RootMatchesAny(tree, root) == TRUE

\* The check after the import.
RootMatches(tree, root) == tree = root

\* import_snapshot goes to the tree, past the cache and the deferred writes;
\* the root is compared afterwards.
ImportSnapshot(n) ==
    LET chunks == SortSeq(n.chunks, LAMBDA c, d : c.index < d.index)
        tree   == FoldLeft(LAMBDA t, c : S!update_all(t, c.entry.key :> c.entry.value),
                           n.state.smt, chunks)
        done   == [n EXCEPT !.state.smt = tree, !.chunks = <<>>, !.expected_root = <<>>]
    IN  IF RootMatches(tree, n.expected_root)
          THEN [advance_local_tip(done, n.snapshot_slot) EXCEPT !.initial_sync_done = TRUE]
          ELSE done

BadChunk(n) ==
    IF n.retry_count + 1 > CHUNK_MAX_RETRIES
      THEN AbortChunks(n)
      ELSE [n EXCEPT !.retry_count = @ + 1]

\* on_response.  n is the node without the request in its pending set.
OnResponse(n, resp) ==
    CASE resp.kind = "Blocks" -> OnBlocks(n, resp)
      [] resp.kind = "NotFound" -> IF n.total_chunks > 0 THEN AbortChunks(n) ELSE n
      [] resp.kind = "Chunk" ->
           IF ~AnchorHolds(n, resp) THEN AbortChunks(n)
           ELSE IF resp.damaged THEN BadChunk(n)
           ELSE LET m == StoreChunk(n, resp)
                IN  IF Len(m.chunks) >= resp.total THEN ImportSnapshot(m) ELSE m

\* The import of the chunks of n, which leaves the node as m.
Imported(n, m) ==
    [count |-> imports.count + 1,
     last  |-> IF RootMatches(m.state.smt, n.expected_root)
                 THEN [slot |-> n.snapshot_slot, state |-> m.state.smt]
                 ELSE imports.last]

ImportsNow(n, resp) ==
    /\ resp.kind = "Chunk"
    /\ AnchorHolds(n, resp) /\ ~resp.damaged
    /\ Len(n.chunks) + 1 >= resp.total

------------------------------------------------------------------------------
(***************************************************************************)
(* Actions.                                                                *)
(***************************************************************************)

\* A peer answers request_chain_tip, with its head of then or of now.  The
\* request is not kept in pending.
ChainTip(p) ==
    /\ \E slot \in {b \in ChainSlots : b <= peers[p].head} :
         ContinueSync(update_network_tip(node, slot), wire)
    /\ UNCHANGED <<peers, faults, imports>>

\* A QC whose block body is missing: request_block_by_hash asks every peer.
\* What they answer is not modelled here.
AskBody ==
    /\ \A m \in wire : m.req.kind # "GetBlockByHash"
    /\ Cardinality(FreeIds(node, wire)) >= Cardinality(SyncPeers)
    /\ \E id \in [SyncPeers -> FreeIds(node, wire)] :
           /\ IsInjective(id)
           /\ node' = [node EXCEPT !.pending = @ \cup Range(id)]
           /\ wire' = wire \cup {[Request(id[p], p, [kind |-> "GetBlockByHash"]) EXCEPT
                                    !.resp = [kind |-> "BlockByHash"]] : p \in SyncPeers}
    /\ UNCHANGED <<peers, faults, imports>>

\* sync_interval.tick().
Tick ==
    /\ needs_sync(node)
    /\ request_next_batch(node, wire)
    /\ UNCHANGED <<peers, faults, imports>>

\* A compact block that cannot be rebuilt raises the tip and asks for blocks.
BlockNotRebuilt(p) ==
    /\ request_next_batch(update_network_tip(node, peers[p].head), wire)
    /\ UNCHANGED <<peers, faults, imports>>

\* The answer of the peer, and one in which a block or the chunk is damaged.
Answers(m, pin) ==
    LET resp == Respond(m.peer, m.req, pin)
    IN  CASE resp.kind = "Blocks" -> {[resp EXCEPT !.damaged = i] : i \in 1..Len(resp.blocks) + 1}
          [] resp.kind = "Chunk" -> {[resp EXCEPT !.damaged = d] : d \in BOOLEAN}
          [] OTHER -> {resp}

Serve(m) ==
    /\ m.resp = <<>>
    /\ \E pin \in IF m.req.kind = "GetChunk" THEN PinsFor(m.peer) ELSE {peers[m.peer].pin} :
       \E resp \in Answers(m, pin) :
         /\ faults' = IF resp = Respond(m.peer, m.req, pin) THEN faults ELSE faults + 1
         /\ faults' <= MaxFaults
         /\ wire' = (wire \ {m}) \cup {[m EXCEPT !.resp = resp]}
         /\ peers' = [peers EXCEPT ![m.peer].pin = pin]
    /\ UNCHANGED <<node, imports>>

\* The Response arm of the event loop.  A BlockByHash answer only leaves the
\* pending set here; any other is followed by the next request.
SyncAnswer(m) ==
    /\ m.resp # <<>>
    /\ LET n    == [node EXCEPT !.pending = @ \ {m.id}]
           msgs == wire \ {m}
       IN  IF m.resp.kind = "BlockByHash"
             THEN node' = n /\ wire' = msgs /\ UNCHANGED imports
             ELSE LET after == OnResponse(n, m.resp)
                  IN  /\ ContinueSync(after, msgs)
                      /\ ImportsNow(n, m.resp) => imports.count < MaxImports
                      /\ imports' = IF ImportsNow(n, m.resp) THEN Imported(StoreChunk(n, m.resp), after)
                                    ELSE imports
    /\ UNCHANGED <<peers, faults>>

\* OutboundFailure is logged and nothing else.
Fail(m) ==
    /\ faults < MaxFaults
    /\ faults' = faults + 1
    /\ wire' = wire \ {m}
    /\ UNCHANGED <<node, peers, imports>>

\* Consensus commits the block after the node's head: it is executed, its writes
\* are flushed and on_block_processed moves the tip.
Commit ==
    /\ node.head = node.local_tip /\ node.head < LastSlot
    /\ LET b == NextBlock(node.head)
           n == Process(node, b)
       IN  /\ Acceptable(node, b)
           /\ node' = [n EXCEPT !.state = S!flush_pending(@),
                                !.initial_sync_done = @ \/ ~needs_sync(n)]
    /\ UNCHANGED <<peers, wire, faults, imports>>

\* The hard-final checkpoint reaches a slot some peer has passed.
Finalise(p) ==
    /\ peers[p].head > node.checkpoint
    /\ node' = [node EXCEPT !.checkpoint = peers[p].head]
    /\ UNCHANGED <<peers, wire, faults, imports>>

PeerAdvances(p) ==
    /\ peers[p].head < LastSlot
    /\ LET b == NextBlock(peers[p].head)
       IN  peers' = [peers EXCEPT ![p].head = b, ![p].tracked = @ \cup {WrittenBy(b)}]
    /\ UNCHANGED <<node, wire, faults, imports>>

SyncInit ==
    /\ node = [head |-> 0, state |-> S!open(StateAt(0)), local_tip |-> 0, network_tip |-> 0,
               initial_sync_done |-> FALSE, pending |-> {}, chunks |-> <<>>,
               expected_root |-> <<>>, total_chunks |-> 0, snapshot_slot |-> 0,
               retry_count |-> 0, checkpoint |-> 0]
    /\ peers = [p \in SyncPeers |->
                  [head |-> FirstHead, tracked |-> IF p \in Restarted THEN {} ELSE SyncKeys,
                   pin |-> NoPin]]
    /\ wire = {} /\ faults = 0
    /\ imports = [count |-> 0, last |-> [slot |-> 0, state |-> StateAt(0)]]

SyncNext ==
    \/ \E p \in SyncPeers : ChainTip(p) \/ BlockNotRebuilt(p) \/ Finalise(p) \/ PeerAdvances(p)
    \/ AskBody \/ Tick \/ Commit
    \/ \E m \in wire : Serve(m) \/ SyncAnswer(m) \/ Fail(m)

SyncSpec == SyncInit /\ [][SyncNext]_sync_vars

------------------------------------------------------------------------------
(***************************************************************************)
(* Properties.                                                             *)
(***************************************************************************)

\* Downloading blocks reproduces the chain: as long as the node has imported no
\* snapshot, what it reads is the state after its head and its tip is its head,
\* though slots are skipped, answers are late, damaged or of a lagging peer, and
\* consensus commits blocks the answer also holds.
BlockSyncExact ==
    imports.count = 0 => /\ node.head = node.local_tip
                    /\ \A k \in SyncKeys : S!get(node.state, k) = StateAt(node.head)[k]

\* A snapshot after which the node calls itself synced holds the state of the
\* slot it then starts from, though the chunks may come from several peers and
\* from pins of several slots.
SnapshotIsOfItsSlot == imports.last.state = StateAt(imports.last.slot)

\* What on_response claims by advancing the tip: the node's state is the one
\* after its local tip.
StateMatchesTip == \A k \in SyncKeys : S!get(node.state, k) = StateAt(node.local_tip)[k]
=============================================================================
