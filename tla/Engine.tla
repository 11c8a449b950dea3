------------------------------- MODULE Engine --------------------------------
(***************************************************************************)
(* The consensus engine of every validator (ValidatorEngine, with the      *)
(* ConsensusState it drives) and the part of the node's event loop that    *)
(* feeds it: proposals, votes, quorum certificates (QCs), view changes,    *)
(* fallback proposals, the canonical commit of a certified block, block    *)
(* sync and crash/restart.                                                 *)
(*                                                                         *)
(* The event loop runs one handler at a time, so a handler together with   *)
(* the follow-up actions it returns is one step.  Messages are broadcast   *)
(* into sets that only grow: a message can be lost (never received),       *)
(* late, reordered or received again.  A block is named by its slot, its   *)
(* view and a copy number: two blocks one leader builds for one (slot,     *)
(* view) differ in their timestamp and hence in their hash.                *)
(***************************************************************************)
EXTENDS Quorums, FiniteSets

CONSTANTS
    N,            \* committee size
    Up,           \* the members that run this code and are not down
    Byz,          \* the members that run other code
    MaxHeight,    \* bound: slots modelled
    MaxView,      \* bound: highest view a node may bump to
    MaxCopies,    \* bound: blocks built per (slot, view)
    MaxCrashes,   \* bound: crashes in a behaviour
    Delivery      \* what the network and the clock may do, of DeliveryModes

\* late   votes for slots below the target arrive
\* again  a vote is delivered a second time (direct delivery, then gossip)
\* slow   block bodies travel apart from their headers
\* echo   a node's own gossip is delivered back to it
\* qc     announced QCs arrive
\* sync   block sync
\* stall  the wall clock runs more than ten slots ahead of a stuck target
DeliveryModes == {"late", "again", "slow", "echo", "qc", "sync", "stall"}

ASSUME EngineAssumption ==
    /\ N \in Nat \ {0}
    /\ Byz \subseteq 0 .. N - 1
    /\ Up \subseteq (0 .. N - 1) \ Byz
    /\ 3 * Cardinality(Byz) < N
    /\ MaxHeight \in Nat \ {0}
    /\ MaxView \in Nat
    /\ MaxCopies \in Nat
    /\ MaxCrashes \in Nat
    /\ Delivery \subseteq DeliveryModes

Node == 0 .. N - 1
Slot == 1 .. MaxHeight
View == 0 .. MaxView
Block == [slot : 0 .. MaxHeight, view : View, copy : 0 .. MaxCopies]

\* The block of QuorumCert::empty(), the certificate every node starts with.
\* No block of a slot equals it, so it also stands for "no block".
Genesis == [slot |-> 0, view |-> 0, copy |-> 0]
None == Genesis
NoView == -1

\* A proposal: the block and the block its qc_previous certifies.
Proposal == [block : Block, qc : Block]

Quorum == quorum_for_committee(N)

\* is_view0_proposer and fallback_leader_index are one formula.
fallback_leader_index(slot, view) == (slot + view) % N
ProposerOf(b) == fallback_leader_index(b.slot, b.view)

VARIABLES
    \* what was broadcast
    proposals,    \* proposals
    signed,       \* <<voter, block>> votes signed, broadcast or not
    votesOut,     \* those of them that were broadcast
    vcOut,        \* <<voter, slot, highest_qc>> view-change messages
    qcOut,        \* blocks whose QC was announced
    \* on disk
    disk,         \* the persisted ConsensusState of each node
    seenProposals,\* first view-0 block seen for each slot
    seenVotes,    \* latest vote seen per slot and voter
    vcSelf,       \* <<slot, highest_qc>> of the view changes a node signed
    chain,        \* the block applied at each slot
    head_slot,    \* the last slot of chain
    \* in memory
    cs,           \* ConsensusState
    timeout,      \* TimeoutTracker
    buffered,     \* buffered_proposals
    deferred,     \* deferred_fallback_proposals
    votedView,    \* voted_view_per_slot
    built,        \* last_built_fallback_view_per_slot
    votes,        \* votes tallied
    vcs,          \* <<voter, slot>> view changes tallied (view_changes)
    seenVcs,      \* the view changes first seen (seen_view_changes)
    bodies,       \* pending_block_bodies
    wanted,       \* certified blocks whose body was requested by hash
    \* observations
    accused,      \* signers some node holds double-sign evidence against
    crashes       \* crashes so far

network == <<proposals, signed, votesOut, vcOut, qcOut>>
pools == <<buffered, deferred, votedView, built>>
vars == <<proposals, signed, votesOut, vcOut, qcOut, disk, seenProposals,
          seenVotes, vcSelf, chain, head_slot, cs, timeout, buffered, deferred, votedView,
          built, votes, vcs, seenVcs, bodies, wanted, accused, crashes>>

------------------------------------------------------------------------------
\* ConsensusState::new and TimeoutTracker::new.
NewState == [target |-> 1, view |-> 0, votedSlot |-> 0, votedAt |-> 0,
             hq |-> Genesis]
NewTrackerOneBehind(s) == [slot |-> s - 1, vcqc |-> FALSE]
NewTracker(s) == [slot |-> s, vcqc |-> FALSE]

Init ==
    /\ proposals = {} /\ signed = {} /\ votesOut = {} /\ vcOut = {} /\ qcOut = {}
    /\ disk = [i \in Node |-> NewState]
    /\ seenProposals = [i \in Node |-> [s \in Slot |-> None]]
    /\ seenVotes = [i \in Node |-> [s \in Slot |-> [j \in Node |-> None]]]
    /\ vcSelf = [i \in Node |-> {}]
    /\ chain = [i \in Node |-> [s \in Slot |-> None]]
    /\ head_slot = [i \in Node |-> 0]
    /\ cs = [i \in Node |-> NewState]
    /\ timeout = [i \in Node |-> NewTracker(1)]
    /\ buffered = [i \in Node |-> {}]
    /\ deferred = [i \in Node |-> {}]
    /\ votedView = [i \in Node |-> [s \in Slot |-> NoView]]
    /\ built = [i \in Node |-> [s \in Slot |-> 0]]
    /\ votes = [i \in Node |-> {}]
    /\ vcs = [i \in Node |-> {}]
    /\ seenVcs = [i \in Node |-> {}]
    /\ bodies = [i \in Node |-> {}]
    /\ wanted = [i \in Node |-> {}]
    /\ accused = {}
    /\ crashes = 0

------------------------------------------------------------------------------
(* The chain of a node, and the canonical commit of a certified block.     *)

\* ConsensusState::advance_target_height.
advance_target_height(c, h) ==
    IF h > c.target THEN [c EXCEPT !.target = h, !.view = 0] ELSE c

\* A body is at hand when it was received, or when the buffered header
\* commits to the empty body, as every fallback block does.
HasBody(b, buf, bod) == b \in bod \/ (b.view > 0 /\ \E p \in buf : p.block = b)

\* commit_canonical changes the chain when the slot is the next one (Applied)
\* or holds another block (Reorged); otherwise it is Idempotent or a Gap.
Changes(i, b) ==
    /\ chain[i][b.slot] # b
    /\ chain[i][b.slot] # None \/ b.slot = head_slot[i] + 1

(***************************************************************************)
(* ApplyCanonicalAfterQc for node i and certified block b.  c is i's       *)
(* consensus state as the calling handler leaves it, d what the handler    *)
(* has persisted, buf its buffered proposals, bod its bodies.  The target  *)
(* advances, and the timeout tracker is replaced, only after the block is  *)
(* applied; that persists c.  A block whose body is missing is requested.  *)
(***************************************************************************)
Commit(i, b, c, d, buf, bod) ==
    LET have == HasBody(b, buf, bod)
        moved == have /\ Changes(i, b)
        next == advance_target_height(c, b.slot + 1)
        advanced == moved /\ b.slot + 1 > c.target
        gap == chain[i][b.slot] = None /\ b.slot > head_slot[i] + 1
    IN  /\ chain' = IF moved
                    THEN [chain EXCEPT ![i] =
                            [s \in Slot |-> IF s < b.slot THEN chain[i][s]
                                            ELSE IF s = b.slot THEN b ELSE None]]
                    ELSE chain
        /\ head_slot' = IF moved THEN [head_slot EXCEPT ![i] = b.slot] ELSE head_slot
        /\ cs' = [cs EXCEPT ![i] = IF moved THEN next ELSE c]
        /\ disk' = [disk EXCEPT ![i] = IF advanced THEN next ELSE d]
        /\ timeout' = IF advanced
                      THEN [timeout EXCEPT ![i] = NewTracker(b.slot + 1)]
                      ELSE timeout
        /\ bodies' = [bodies EXCEPT ![i] = IF have /\ ~gap THEN bod \ {b} ELSE bod]
        /\ wanted' = [wanted EXCEPT ![i] = IF have THEN @ \ {b} ELSE @ \cup {b}]

------------------------------------------------------------------------------
(* Proposals.                                                              *)

\* A block for (slot, view) with a fresh timestamp.
FreshBlock(s, v) ==
    [slot |-> s, view |-> v,
     copy |-> 1 + Cardinality({p \in proposals : p.block.slot = s /\ p.block.view = v})]

CanBuildMore(s, v) == FreshBlock(s, v).copy <= MaxCopies

\* The view-0 leader has not yet recorded a block of its own for slot s.
check_proposer(i, s) ==
    /\ s <= MaxHeight
    /\ fallback_leader_index(s, 0) = i
    /\ seenProposals[i][s] = None

\* buffer_fallback_proposal needs the node's own view-change QC for the slot;
\* without it the proposal waits in deferred_fallback_proposals.
Recognised(t, p) == t.slot = p.block.slot /\ t.vcqc

\* buffer_proposal keeps a proposal unless the node already voted at its view
\* or a later one.
buffer_proposal(i, p) ==
    /\ p.block.view > votedView[i][p.block.slot]
    /\ p.block.view > 0 => Recognised(timeout[i], p)

(***************************************************************************)
(* The slot tick of the view-0 leader: check_proposer, build_proposal,     *)
(* broadcast, then buffer_proposal on its own block.  The guard against a  *)
(* second proposal is the node's own entry in seen_proposals, which        *)
(* buffer_proposal records unless the node has already voted in the slot.  *)
(***************************************************************************)
Propose(i) ==
    LET s == cs[i].target
        p == [block |-> FreshBlock(s, 0), qc |-> cs[i].hq]
    IN  /\ check_proposer(i, s)
        /\ CanBuildMore(s, 0)
        /\ proposals' = proposals \cup {p}
        /\ bodies' = [bodies EXCEPT ![i] = @ \cup {p.block}]
        /\ IF buffer_proposal(i, p)
           THEN /\ seenProposals' = [seenProposals EXCEPT ![i][s] = p.block]
                /\ buffered' = [buffered EXCEPT ![i] = @ \cup {p}]
           ELSE UNCHANGED <<seenProposals, buffered>>
        /\ UNCHANGED <<signed, votesOut, vcOut, qcOut, disk, seenVotes, vcSelf,
                       chain, head_slot, cs, timeout, deferred, votedView, built,
                       votes, vcs, seenVcs, wanted, accused, crashes>>

(***************************************************************************)
(* Receiving a proposal: buffer_proposal, with double-propose detection    *)
(* for view-0 blocks, then the one-slot catch-up through qc_previous,      *)
(* which raises highest_qc without persisting it.                          *)
(***************************************************************************)
RecvProposal(i, p) ==
    LET s == p.block.slot
        fresh == p.block.view > votedView[i][s]
        fallback == p.block.view > 0
        kept == buffer_proposal(i, p)
        buf == IF kept THEN buffered[i] \cup {p} ELSE buffered[i]
        bod == IF "slow" \in Delivery \/ fallback THEN bodies[i]
               ELSE bodies[i] \cup {p.block}
        catchUp == p.qc.slot = head_slot[i] + 1 /\ p.qc.slot > cs[i].hq.slot
    IN  /\ p \in proposals
        /\ p \notin buffered[i] \cup deferred[i]
        /\ "echo" \in Delivery \/ ProposerOf(p.block) # i
        /\ buffered' = [buffered EXCEPT ![i] = buf]
        /\ deferred' = [deferred EXCEPT ![i] =
                          IF fresh /\ fallback /\ ~kept THEN @ \cup {p} ELSE @]
        /\ IF kept /\ ~fallback
           THEN /\ seenProposals' = [seenProposals EXCEPT ![i][s] =
                                       IF @ = None THEN p.block ELSE @]
                /\ accused' = IF seenProposals[i][s] \in {None, p.block}
                              THEN accused ELSE accused \cup {ProposerOf(p.block)}
           ELSE UNCHANGED <<seenProposals, accused>>
        /\ IF catchUp
           THEN Commit(i, p.qc, [cs[i] EXCEPT !.hq = p.qc], disk[i], buf, bod)
           ELSE /\ bodies' = [bodies EXCEPT ![i] = bod]
                /\ UNCHANGED <<chain, head_slot, cs, disk, timeout, wanted>>
        /\ UNCHANGED <<network, seenVotes, vcSelf, votedView, built, votes, vcs,
                       seenVcs, crashes>>

\* A compact block is reconstructed and its body kept for a later commit.
RecvBody(i, b) ==
    /\ "slow" \in Delivery
    /\ \E p \in proposals : p.block = b
    /\ b.view = 0
    /\ b \notin bodies[i]
    /\ bodies' = [bodies EXCEPT ![i] = @ \cup {b}]
    /\ UNCHANGED <<network, disk, seenProposals, seenVotes, vcSelf, chain,
                   head_slot, cs, timeout, pools, votes, vcs, seenVcs, wanted,
                   accused, crashes>>

\* AnswerGetBlockByHash looks in the pending bodies, then among applied blocks.
AnswersFromPendingOnly(j, b) == b \in bodies[j]
AnswersBlockByHash(j, b) == b \in bodies[j] \/ chain[j][b.slot] = b

\* A peer that holds the body answers: the commit is retried.
RecoverBody(i, b) ==
    /\ b \in wanted[i]
    /\ \E j \in Up \ {i} : AnswersBlockByHash(j, b)
    /\ Commit(i, b, cs[i], disk[i], buffered[i], bodies[i] \cup {b})
    /\ UNCHANGED <<network, seenProposals, seenVotes, vcSelf, pools, votes, vcs,
                   seenVcs, accused, crashes>>

------------------------------------------------------------------------------
(* Votes and quorum certificates.                                          *)

Ballot(b) == <<b.slot, b.view>>

\* The (slot, view) order of create_vote's monotonicity check.
LaterOrSame(b, c) == b.slot > c.votedSlot \/ (b.slot = c.votedSlot /\ b.view >= c.votedAt)
Later(b, c) == b.slot > c.votedSlot \/ (b.slot = c.votedSlot /\ b.view > c.votedAt)

\* create_vote's two safety rules for proposal p in state c.
SafeToVote(p, c) == Later(p.block, c) /\ p.qc.slot >= c.hq.slot

\* The state create_vote leaves: the ballot is spent and a newer qc_previous
\* becomes highest_qc.
create_vote(p, c) ==
    [c EXCEPT !.votedSlot = p.block.slot, !.votedAt = p.block.view,
              !.hq = IF p.qc.slot > @.slot THEN p.qc ELSE @]

SignersOfSlot(b, vs) == {j \in Node : \E m \in vs : m[1] = j /\ m[2].slot = b.slot}
Signers(b, vs) == {j \in Node : <<j, b>> \in vs}
Certifies(b, vs) == Cardinality(Signers(b, vs)) >= Quorum

\* Same-view double-vote detection compares the views of two buffered blocks.
SameSlot(i, b, c) ==
    /\ \E p \in buffered[i] : p.block = b
    /\ \E p \in buffered[i] : p.block = c

SameView(i, b, c) ==
    /\ \E p \in buffered[i] : p.block = b
    /\ \E p \in buffered[i] : p.block = c
    /\ b.view = c.view

(***************************************************************************)
(* on_vote at node i for a vote m = <<voter, block>> it has not recorded   *)
(* as the voter's latest.  seen_votes is durable, the tally is not.  The   *)
(* QC is tried for the block voted for; it raises highest_qc and persists  *)
(* the state when it is for a higher slot.  c and d as in Commit.          *)
(***************************************************************************)
on_vote(i, m, c, d) ==
    LET s == m[2].slot
        prev == seenVotes[i][s][m[1]]
        double == prev # None /\ SameView(i, prev, m[2])
        tally == votes[i] \cup {m}
        qc == Certifies(m[2], tally)
        raised == qc /\ s > c.hq.slot
        c1 == IF raised THEN [c EXCEPT !.hq = m[2]] ELSE c
    IN  /\ prev # m[2]
        /\ accused' = IF double THEN accused \cup {m[1]} ELSE accused
        /\ seenVotes' = IF double THEN seenVotes
                        ELSE [seenVotes EXCEPT ![i][s][m[1]] = m[2]]
        /\ votes' = [votes EXCEPT ![i] = tally]
        /\ qcOut' = IF qc THEN qcOut \cup {m[2]} ELSE qcOut
        /\ IF qc
           THEN Commit(i, m[2], c1, IF raised THEN c1 ELSE d, buffered[i], bodies[i])
           ELSE /\ cs' = [cs EXCEPT ![i] = c]
                /\ disk' = [disk EXCEPT ![i] = d]
                /\ UNCHANGED <<chain, head_slot, timeout, bodies, wanted>>

\* The proposals select_and_vote picks from: those of the current view for the
\* target height, unless the node has voted there at this view or later.
select_and_vote(i) ==
    {p \in buffered[i] : /\ Ballot(p.block) = <<cs[i].target, cs[i].view>>
                         /\ cs[i].target <= MaxHeight
                         /\ votedView[i][cs[i].target] < cs[i].view}

(***************************************************************************)
(* The voting tick: select_and_vote picks a buffered proposal of the       *)
(* current view for the target height, create_vote and persist_consensus   *)
(* follow, the vote is tallied locally and then broadcast, except that a   *)
(* vote completing a QC whose body is missing is never broadcast.          *)
(***************************************************************************)
SelectAndVote(i) ==
    LET c == cs[i]
    IN  /\ \E p \in select_and_vote(i) :
             LET m == <<i, p.block>>
                 c1 == create_vote(p, c)
                 held == /\ Certifies(p.block, votes[i] \cup {m})
                         /\ ~HasBody(p.block, buffered[i], bodies[i])
             IN  /\ SafeToVote(p, c)
                 /\ signed' = signed \cup {m}
                 /\ votesOut' = IF held THEN votesOut ELSE votesOut \cup {m}
                 /\ on_vote(i, m, c1, c1)
        /\ votedView' = [votedView EXCEPT ![i][c.target] = c.view]
        /\ UNCHANGED <<proposals, vcOut, seenProposals, vcSelf, buffered,
                       deferred, built, vcs, seenVcs, crashes>>

\* A peer's vote arrives; a QC it completes is announced and committed.
RecvVote(i, m) ==
    /\ m \in votesOut
    /\ m[1] # i
    /\ "late" \in Delivery \/ m[2].slot >= cs[i].target
    /\ "again" \in Delivery \/ m \notin votes[i]
    /\ on_vote(i, m, cs[i], disk[i])
    /\ UNCHANGED <<proposals, signed, votesOut, vcOut, seenProposals, vcSelf,
                   pools, vcs, seenVcs, crashes>>

\* QcAnnounce: ignored at or below the head, otherwise highest_qc is raised
\* in memory only and the block is committed.
RecvQc(i, b) ==
    /\ "qc" \in Delivery
    /\ b \in qcOut
    /\ b.slot > head_slot[i]
    /\ Commit(i, b,
              IF b.slot > cs[i].hq.slot THEN [cs[i] EXCEPT !.hq = b] ELSE cs[i],
              disk[i], buffered[i], bodies[i])
    /\ UNCHANGED <<network, seenProposals, seenVotes, vcSelf, pools, votes, vcs,
                   seenVcs, accused, crashes>>

------------------------------------------------------------------------------
(* View changes and fallback proposals.                                    *)

\* try_build_fallback_proposal's guards, in state c with tracker t.
MayBuildFallback(i, c, t, buf) ==
    /\ c.target <= MaxHeight
    /\ t.slot = c.target
    /\ t.vcqc
    /\ fallback_leader_index(c.target, c.view) = i
    /\ built[i][c.target] < c.view
    /\ ~ \E p \in buf : /\ Ballot(p.block) = <<c.target, c.view>>
                        /\ c.view > 0 /\ ProposerOf(p.block) = i
    /\ CanBuildMore(c.target, c.view)

\* The fallback block names the builder's own highest_qc as its parent QC and
\* is staged, with its empty body, for the commit; its builder does not
\* buffer it.
BuildFallback(i, c, t, buf) ==
    IF MayBuildFallback(i, c, t, buf)
    THEN LET p == [block |-> FreshBlock(c.target, c.view), qc |-> c.hq]
         IN  /\ proposals' = proposals \cup {p}
             /\ bodies' = [bodies EXCEPT ![i] = @ \cup {p.block}]
             /\ built' = [built EXCEPT ![i][c.target] = c.view]
    ELSE UNCHANGED <<proposals, bodies, built>>

\* The deferred proposals that buffer once the view-change QC for s is there.
Drain(i, s) == {p \in deferred[i] : p.block.slot = s}

(***************************************************************************)
(* on_view_change at node i for m = <<voter, slot, qc>>, then the attempt  *)
(* to build a fallback: always after the node's own timeout, otherwise     *)
(* only when a QC formed.  A second message of the voter for the slot is a *)
(* duplicate or, with another qc, evidence.  The first view-change QC of   *)
(* the tracker bumps the view, persists it, and re-keys the tracker to the *)
(* message's slot; the fallback proposals deferred for that slot are then  *)
(* buffered.                                                               *)
(***************************************************************************)
on_view_change(i, m, own) ==
    LET current == m[2] >= cs[i].target
        prior == {x \in seenVcs[i] : x[1] = m[1] /\ x[2] = m[2]}
        fresh == current /\ prior = {}
        tally == IF fresh THEN vcs[i] \cup {<<m[1], m[2]>>} ELSE vcs[i]
        formed == fresh /\ Cardinality({x \in tally : x[2] = m[2]}) >= Quorum
        first == formed /\ ~timeout[i].vcqc
        c == IF first THEN [cs[i] EXCEPT !.view = @ + 1] ELSE cs[i]
        t == IF first THEN [slot |-> m[2], vcqc |-> TRUE] ELSE timeout[i]
        drained == IF first THEN Drain(i, m[2]) ELSE {}
        buf == buffered[i] \cup drained
    IN  /\ c.view <= MaxView
        /\ accused' = IF current /\ prior # {} /\ m \notin prior
                      THEN accused \cup {m[1]} ELSE accused
        /\ seenVcs' = IF fresh THEN [seenVcs EXCEPT ![i] = @ \cup {m}] ELSE seenVcs
        /\ vcs' = [vcs EXCEPT ![i] = tally]
        /\ cs' = [cs EXCEPT ![i] = c]
        /\ disk' = IF first THEN [disk EXCEPT ![i] = c] ELSE disk
        /\ timeout' = [timeout EXCEPT ![i] = t]
        /\ buffered' = [buffered EXCEPT ![i] = buf]
        /\ deferred' = [deferred EXCEPT ![i] = @ \ drained]
        /\ IF own \/ formed
           THEN BuildFallback(i, c, t, buf)
           ELSE UNCHANGED <<proposals, bodies, built>>

\* on_timeout signs nothing when a QC for the target height is at hand, and
\* only repeats a view change it already signed for the slot: it never signs
\* one with another highest_qc.
MaySignAnyViewChange(i, s) == cs[i].hq.slot < s
MaySignViewChange(i, s) ==
    /\ cs[i].hq.slot < s
    /\ \A x \in vcSelf[i] : x[1] = s => x[2] = cs[i].hq

\* A timer may fire, the proposal timer or the progress timer, as long as the
\* tracker holds no view-change QC.
is_timed_out(i) == ~timeout[i].vcqc

(***************************************************************************)
(* A timer fires and on_timeout signs a view change for the target height, *)
(* at most one per slot, persisted before it is sent.                      *)
(***************************************************************************)
Timeout(i) ==
    LET s == cs[i].target
    IN  /\ s <= MaxHeight
        /\ cs[i].view < MaxView
        /\ is_timed_out(i)
        /\ MaySignViewChange(i, s)
        /\ vcSelf' = [vcSelf EXCEPT ![i] = @ \cup {<<s, cs[i].hq>>}]
        /\ vcOut' = vcOut \cup {<<i, s, cs[i].hq>>}
        /\ on_view_change(i, <<i, s, cs[i].hq>>, TRUE)
        /\ UNCHANGED <<signed, votesOut, qcOut, seenProposals, seenVotes, chain,
                       head_slot, votedView, votes, wanted, crashes>>

RecvViewChange(i, m) ==
    /\ m \in vcOut
    /\ m[1] # i
    /\ on_view_change(i, m, FALSE)
    /\ UNCHANGED <<signed, votesOut, vcOut, qcOut, seenProposals, seenVotes,
                   vcSelf, chain, head_slot, votedView, votes, wanted, crashes>>

------------------------------------------------------------------------------
(* The wall clock, sync and restart.                                       *)

(***************************************************************************)
(* The wall clock enters a new slot: advance_slot persists the state and   *)
(* prunes what is older than ten slots.  Most pools are pruned below       *)
(* floor, which spares the target height; seen_votes, seen_view_changes    *)
(* and the node's own view changes are pruned below before, which does not.*)
(***************************************************************************)
AdvanceSlot(i) ==
    \E before \in IF "stall" \in Delivery THEN 0 .. MaxHeight + 1 ELSE {0} :
        LET floor == IF before < cs[i].target THEN before ELSE cs[i].target
            KeepProposals(ps) == {p \in ps : p.block.slot >= floor}
        IN  /\ disk' = [disk EXCEPT ![i] = cs[i]]
            /\ votes' = [votes EXCEPT ![i] = {m \in @ : m[2].slot >= floor}]
            /\ vcs' = [vcs EXCEPT ![i] = {m \in @ : m[2] >= floor}]
            /\ buffered' = [buffered EXCEPT ![i] = KeepProposals(@)]
            /\ deferred' = [deferred EXCEPT ![i] = KeepProposals(@)]
            /\ votedView' = [votedView EXCEPT ![i] =
                               [s \in Slot |-> IF s < floor THEN NoView ELSE @[s]]]
            /\ built' = [built EXCEPT ![i] =
                           [s \in Slot |-> IF s < floor THEN 0 ELSE @[s]]]
            /\ seenProposals' = [seenProposals EXCEPT ![i] =
                                   [s \in Slot |-> IF s < floor THEN None ELSE @[s]]]
            /\ seenVotes' = [seenVotes EXCEPT ![i] =
                               [s \in Slot |-> IF s < before
                                              THEN [j \in Node |-> None] ELSE @[s]]]
            /\ seenVcs' = [seenVcs EXCEPT ![i] = {m \in @ : m[2] >= before}]
            /\ vcSelf' = [vcSelf EXCEPT ![i] = {x \in @ : x[1] >= before}]
            /\ UNCHANGED <<network, chain, head_slot, cs, timeout, bodies, wanted,
                           accused, crashes>>

\* A sync response from j brings the next block; the target follows the head.
Sync(i, j) ==
    LET s == head_slot[i] + 1
        next == advance_target_height(cs[i], s + 1)
        advanced == s + 1 > cs[i].target
    IN  /\ "sync" \in Delivery
        /\ s <= MaxHeight
        /\ chain[j][s] # None
        /\ chain' = [chain EXCEPT ![i][s] = chain[j][s]]
        /\ head_slot' = [head_slot EXCEPT ![i] = s]
        /\ cs' = [cs EXCEPT ![i] = next]
        /\ disk' = IF advanced THEN [disk EXCEPT ![i] = next] ELSE disk
        /\ timeout' = IF advanced THEN [timeout EXCEPT ![i] = NewTracker(s + 1)]
                      ELSE timeout
        /\ UNCHANGED <<network, seenProposals, seenVotes, vcSelf, pools, votes,
                       vcs, seenVcs, bodies, wanted, accused, crashes>>

\* The ConsensusState a restarting node starts from.
AttachWithoutView(i) == [disk[i] EXCEPT !.view = 0]
attach_consensus_store(i) == disk[i]

\* A crash and restart: what was persisted is reloaded, everything else is as
\* in ValidatorEngine::new, the tracker at slot 1.
Restart(i) ==
    /\ crashes < MaxCrashes
    /\ crashes' = crashes + 1
    /\ cs' = [cs EXCEPT ![i] = attach_consensus_store(i)]
    /\ timeout' = [timeout EXCEPT ![i] = NewTracker(1)]
    /\ buffered' = [buffered EXCEPT ![i] = {}]
    /\ deferred' = [deferred EXCEPT ![i] = {}]
    /\ votedView' = [votedView EXCEPT ![i] = [s \in Slot |-> NoView]]
    /\ built' = [built EXCEPT ![i] = [s \in Slot |-> 0]]
    /\ votes' = [votes EXCEPT ![i] = {}]
    /\ vcs' = [vcs EXCEPT ![i] = {}]
    /\ seenVcs' = [seenVcs EXCEPT ![i] = {}]
    /\ bodies' = [bodies EXCEPT ![i] = {}]
    /\ wanted' = [wanted EXCEPT ![i] = {}]
    /\ UNCHANGED <<network, disk, seenProposals, seenVotes, vcSelf, chain, head_slot,
                   accused>>

------------------------------------------------------------------------------
(***************************************************************************)
(* The members in Byz sign any number of proposals for their own (slot,    *)
(* view), any vote and any view change.  They cannot forge a QC.           *)
(***************************************************************************)
OtherCode(i) ==
    /\ \/ /\ \E s \in Slot, v \in View : \E q \in {Genesis} \cup qcOut :
                /\ fallback_leader_index(s, v) = i
                /\ CanBuildMore(s, v)
                /\ q.slot < s
                /\ proposals' = proposals \cup {[block |-> FreshBlock(s, v), qc |-> q]}
          /\ UNCHANGED <<signed, votesOut, vcOut, qcOut>>
       \/ /\ \E p \in proposals :
                /\ signed' = signed \cup {<<i, p.block>>}
                /\ votesOut' = votesOut \cup {<<i, p.block>>}
          /\ UNCHANGED <<proposals, vcOut, qcOut>>
       \/ /\ MaxView > 0
          /\ \E s \in Slot : vcOut' = vcOut \cup {<<i, s, Genesis>>}
          /\ UNCHANGED <<proposals, signed, votesOut, qcOut>>
    /\ UNCHANGED <<disk, seenProposals, seenVotes, vcSelf, chain, head_slot, cs,
                   timeout, pools, votes, vcs, seenVcs, bodies, wanted, accused,
                   crashes>>

------------------------------------------------------------------------------
Receive(i) ==
    \/ \E p \in proposals : RecvProposal(i, p) \/ RecvBody(i, p.block)
    \/ \E b \in wanted[i] : RecoverBody(i, b)
    \/ \E m \in votesOut : RecvVote(i, m)
    \/ \E b \in qcOut : RecvQc(i, b)
    \/ \E m \in vcOut : RecvViewChange(i, m)
    \/ \E j \in Up \ {i} : Sync(i, j)

Next ==
    \/ \E i \in Up :
         \/ Propose(i) \/ SelectAndVote(i) \/ Timeout(i) \/ Receive(i)
         \/ AdvanceSlot(i) \/ Restart(i)
    \/ \E i \in Byz : OtherCode(i)

Spec == Init /\ [][Next]_vars

(***************************************************************************)
(* Fairness.  The event loop polls its timers for ever, so an enabled tick *)
(* is taken; and every consensus message from a running peer is eventually *)
(* delivered, by gossip or by the request-response fallback.  A compact    *)
(* block may be lost for good, and crashes are not fair.                   *)
(***************************************************************************)
Fairness ==
    \A i \in Up :
        /\ WF_vars(Propose(i))
        /\ WF_vars(SelectAndVote(i))
        /\ WF_vars(Timeout(i))
        /\ WF_vars(\E p \in proposals : RecvProposal(i, p))
        /\ WF_vars(\E b \in wanted[i] : RecoverBody(i, b))
        /\ WF_vars(\E b \in qcOut : RecvQc(i, b))
        /\ \A j \in Up \ {i} :
             /\ WF_vars(\E b \in Block : RecvVote(i, <<j, b>>))
             /\ WF_vars(\E m \in vcOut : m[1] = j /\ RecvViewChange(i, m))
             /\ WF_vars(Sync(i, j))

FairSpec == Spec /\ Fairness

------------------------------------------------------------------------------
(* Properties.                                                             *)

ConsensusState ==
    [target : 1 .. MaxHeight + 1, view : View, votedSlot : 0 .. MaxHeight,
     votedAt : View, hq : Block]

\* Every variable ranges over the values its Rust type can hold here.
TypeOK ==
    /\ proposals \subseteq Proposal
    /\ IsFiniteSet(proposals)
    /\ signed \subseteq Node \X Block
    /\ votesOut \subseteq Node \X Block
    /\ vcOut \subseteq Node \X Slot \X Block
    /\ qcOut \subseteq Block
    /\ disk \in [Node -> ConsensusState]
    /\ seenProposals \in [Node -> [Slot -> Block]]
    /\ seenVotes \in [Node -> [Slot -> [Node -> Block]]]
    /\ vcSelf \in [Node -> SUBSET (Slot \X Block)]
    /\ chain \in [Node -> [Slot -> Block]]
    /\ head_slot \in [Node -> 0 .. MaxHeight]
    /\ cs \in [Node -> ConsensusState]
    /\ timeout \in [Node -> [slot : 1 .. MaxHeight + 1, vcqc : BOOLEAN]]
    /\ buffered \in [Node -> SUBSET Proposal]
    /\ deferred \in [Node -> SUBSET Proposal]
    /\ votedView \in [Node -> [Slot -> View \cup {NoView}]]
    /\ built \in [Node -> [Slot -> View]]
    /\ votes \in [Node -> SUBSET (Node \X Block)]
    /\ vcs \in [Node -> SUBSET (Node \X Slot)]
    /\ seenVcs \in [Node -> SUBSET (Node \X Slot \X Block)]
    /\ bodies \in [Node -> SUBSET Block]
    /\ wanted \in [Node -> SUBSET Block]
    /\ accused \subseteq Node
    /\ crashes \in 0 .. MaxCrashes

\* The voting promise of module Ballots, with the same faulty members.
Voting == INSTANCE Ballots WITH
            Validators <- Node, Faulty <- Byz, Blocks <- Block,
            BallotOf <- [b \in Block |-> Ballot(b)], votes <- signed

\* The engine implements Ballots: across proposals, view changes, restarts
\* and redelivered messages no validator signs two blocks for one (slot, view).
VotingSpec == Voting!Spec

\* A quorum of the committee has signed b.
Certified(b) == Cardinality({j \in Node : <<j, b>> \in signed}) >= Quorum

\* No two blocks are certified at one (slot, view).
OneQcPerView ==
    \A b, c \in Block : Certified(b) /\ Certified(c) /\ Ballot(b) = Ballot(c) => b = c

\* A block is applied, and taken as highest_qc, only once a quorum signed it:
\* the QC-gated apply of commit_canonical, by whichever path it was reached
\* (own vote, peer vote, announced QC, embedded qc_previous, sync).
OnlyCertifiedApplied ==
    \A i \in Node :
        /\ \A s \in Slot : chain[i][s] # None => Certified(chain[i][s])
        /\ cs[i].hq # Genesis => Certified(cs[i].hq)

\* Two nodes that apply blocks of the same (slot, view) apply the same block,
\* even when its leader proposed several: what the code gives of S1.
AgreementWithinView ==
    \A i, j \in Node : \A s \in Slot :
        /\ chain[i][s] # None
        /\ chain[j][s] # None
        /\ Ballot(chain[i][s]) = Ballot(chain[j][s])
        => chain[i][s] = chain[j][s]

\* A fallback leader signs at most one block per (slot, view), also when it
\* restarts in between: the bumped view is persisted before it builds, and a
\* restarted leader that gathers the view changes again is in a new view.
OneFallbackPerView ==
    \A p, q \in proposals :
        /\ Ballot(p.block) = Ballot(q.block)
        /\ p.block.view > 0
        /\ ProposerOf(p.block) \notin Byz
        => p = q

\* A validator signs at most one view change per slot, also over restarts that
\* lose the highest_qc it signed with: the TPL-501 guard of on_timeout.
OneViewChangePerSlot ==
    \A m, n \in vcOut : m[1] = n[1] /\ m[2] = n[2] /\ m[1] \notin Byz => m = n

\* Double-sign evidence is never held against a member that runs this code.
HonestNeverAccused == accused \subseteq Byz

\* S1 of CONSENSUS_INVARIANTS.md: no two nodes have different blocks at one
\* height.
SingleBlockPerHeight ==
    \A i, j \in Node : \A s \in Slot :
        chain[i][s] # None /\ chain[j][s] # None => chain[i][s] = chain[j][s]

\* L5 of CONSENSUS_INVARIANTS.md: recovery goes on, view after view, until the
\* running quorum has committed every height.
RecoveryProgress == <>(\A i \in Up : head_slot[i] = MaxHeight)
==============================================================================
