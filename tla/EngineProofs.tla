---------------------------- MODULE EngineProofs -----------------------------
(***************************************************************************)
(* Type correctness of Engine, and Engine implements Ballots: whatever the *)
(* network, the clock, crashes and the faulty members do, no member that   *)
(* runs this code signs two blocks for one (slot, view).  Both hold for    *)
(* every committee size, every set of running and of faulty members, every *)
(* bound and every delivery mode.                                          *)
(***************************************************************************)
EXTENDS Engine, FiniteSetTheorems, TLAPS

------------------------------------------------------------------------------
(* What TypeOK says of the variables, group by group.                      *)

\* What was broadcast.
LEMMA MessageTypes ==
    ASSUME TypeOK
    PROVE  /\ proposals \subseteq Proposal
           /\ IsFiniteSet(proposals)
           /\ signed \subseteq Node \X Block
           /\ votesOut \subseteq Node \X Block
           /\ vcOut \subseteq Node \X Slot \X Block
           /\ qcOut \subseteq Block
  BY Zenon DEF TypeOK

\* The consensus states and the trackers.
LEMMA StateTypes ==
    ASSUME TypeOK
    PROVE  /\ disk \in [Node -> ConsensusState]
           /\ cs \in [Node -> ConsensusState]
           /\ timeout \in [Node -> [slot : 1 .. MaxHeight + 1, vcqc : BOOLEAN]]
  BY Zenon DEF TypeOK

\* The chains.
LEMMA ChainTypes ==
    ASSUME TypeOK
    PROVE  /\ chain \in [Node -> [Slot -> Block]]
           /\ head_slot \in [Node -> 0 .. MaxHeight]
  BY Zenon DEF TypeOK

\* The durable tables of on_vote, buffer_proposal and on_timeout.
LEMMA SeenTypes ==
    ASSUME TypeOK
    PROVE  /\ seenProposals \in [Node -> [Slot -> Block]]
           /\ seenVotes \in [Node -> [Slot -> [Node -> Block]]]
           /\ vcSelf \in [Node -> SUBSET (Slot \X Block)]
  BY Zenon DEF TypeOK

\* The pools of proposals and what was voted and built.
LEMMA PoolTypes ==
    ASSUME TypeOK
    PROVE  /\ buffered \in [Node -> SUBSET Proposal]
           /\ deferred \in [Node -> SUBSET Proposal]
           /\ votedView \in [Node -> [Slot -> View \cup {NoView}]]
           /\ built \in [Node -> [Slot -> View]]
  BY Zenon DEF TypeOK

\* The tallies of votes and view changes.
LEMMA TallyTypes ==
    ASSUME TypeOK
    PROVE  /\ votes \in [Node -> SUBSET (Node \X Block)]
           /\ vcs \in [Node -> SUBSET (Node \X Slot)]
           /\ seenVcs \in [Node -> SUBSET (Node \X Slot \X Block)]
  BY Zenon DEF TypeOK

\* Bodies, requests and observations.
LEMMA BodyTypes ==
    ASSUME TypeOK
    PROVE  /\ bodies \in [Node -> SUBSET Block]
           /\ wanted \in [Node -> SUBSET Block]
           /\ accused \subseteq Node
           /\ crashes \in 0 .. MaxCrashes
  BY Zenon DEF TypeOK

------------------------------------------------------------------------------
(* Type correctness of the operators.                                      *)

\* The members that are up, and the faulty ones, are members.
LEMMA UpIsNode == Up \subseteq Node /\ Byz \subseteq Node
  BY EngineAssumption DEF Node

\* Genesis and the absent block have the type of blocks.
LEMMA GenesisType == Genesis \in Block /\ None \in Block
  BY EngineAssumption DEF Genesis, None, Block, View

\* Replacing one node's entry of a table, or shrinking it.
LEMMA UpdateType ==
    ASSUME NEW T, NEW f \in [Node -> T], NEW i \in Node, NEW x \in T
    PROVE  [f EXCEPT ![i] = x] \in [Node -> T]
  OBVIOUS

\* A table that loses entries of one node keeps its type.
LEMMA ShrinkType ==
    ASSUME NEW A, NEW f \in [Node -> SUBSET A], NEW i \in Node, NEW V, V \subseteq f[i]
    PROVE  [f EXCEPT ![i] = V] \in [Node -> SUBSET A]
<1>1. V \in SUBSET A
  OBVIOUS
<1> QED
  BY <1>1, UpdateType

\* ConsensusState::new makes a consensus state.
LEMMA NewStateType == NewState \in ConsensusState
  BY EngineAssumption, GenesisType DEF NewState, ConsensusState, View

\* advance_target_height yields a consensus state.
LEMMA AdvanceType ==
    ASSUME NEW c \in ConsensusState, NEW h \in 1 .. MaxHeight + 1
    PROVE  advance_target_height(c, h) \in ConsensusState
<1>1. 0 \in View
  BY EngineAssumption DEF View
<1>2. [c EXCEPT !.target = h, !.view = 0] \in ConsensusState
  BY Zenon, <1>1 DEF ConsensusState
<1> QED
  BY <1>2, Zenon DEF advance_target_height

\* bump_view yields a consensus state.
LEMMA BumpViewType ==
    ASSUME NEW c \in ConsensusState, c.view + 1 <= MaxView
    PROVE  [c EXCEPT !.view = @ + 1] \in ConsensusState
<1>1. c.view + 1 \in View
  BY EngineAssumption DEF ConsensusState, View
<1> QED
  BY <1>1 DEF ConsensusState

\* Raising highest_qc yields a consensus state.
LEMMA RaiseType ==
    ASSUME NEW c \in ConsensusState, NEW b \in Block
    PROVE  [c EXCEPT !.hq = b] \in ConsensusState
  BY DEF ConsensusState

\* create_vote yields a consensus state.
LEMMA CreateVoteType ==
    ASSUME NEW c \in ConsensusState, NEW p \in Proposal
    PROVE  create_vote(p, c) \in ConsensusState
  BY Zenon, EngineAssumption DEF create_vote, ConsensusState, Proposal, Block, View

\* A block a leader may still build is within the bounds.
LEMMA FreshBlockType ==
    ASSUME TypeOK, NEW s \in Slot, NEW v \in View, CanBuildMore(s, v)
    PROVE  FreshBlock(s, v) \in Block
<1> DEFINE S == {p \in proposals : p.block.slot = s /\ p.block.view = v}
<1>1. IsFiniteSet(S)
  BY FS_Subset DEF TypeOK
<1>2. Cardinality(S) \in Nat
  BY <1>1, FS_CardinalityType
<1> QED
  BY <1>2, EngineAssumption DEF FreshBlock, CanBuildMore, Block, Slot, View

\* Commit keeps the types of what it writes.
LEMMA CommitType ==
    ASSUME TypeOK, NEW i \in Node, NEW b \in Block,
           NEW c \in ConsensusState, NEW d \in ConsensusState,
           NEW buf, NEW bod \in SUBSET Block,
           Commit(i, b, c, d, buf, bod)
    PROVE  /\ chain' \in [Node -> [Slot -> Block]]
           /\ head_slot' \in [Node -> 0 .. MaxHeight]
           /\ cs' \in [Node -> ConsensusState]
           /\ disk' \in [Node -> ConsensusState]
           /\ timeout' \in [Node -> [slot : 1 .. MaxHeight + 1, vcqc : BOOLEAN]]
           /\ bodies' \in [Node -> SUBSET Block]
           /\ wanted' \in [Node -> SUBSET Block]
<1> USE EngineAssumption, GenesisType
<1>1. b.slot \in 0 .. MaxHeight /\ b.slot + 1 \in 1 .. MaxHeight + 1
  BY DEF Block
<1>2. advance_target_height(c, b.slot + 1) \in ConsensusState
  BY <1>1, AdvanceType
<1>3. chain' \in [Node -> [Slot -> Block]]
  BY ChainTypes DEF Commit
<1>4. head_slot' \in [Node -> 0 .. MaxHeight]
  BY <1>1, ChainTypes DEF Commit
<1>5. cs' \in [Node -> ConsensusState] /\ disk' \in [Node -> ConsensusState]
  BY <1>2, StateTypes DEF Commit
<1>6. timeout' \in [Node -> [slot : 1 .. MaxHeight + 1, vcqc : BOOLEAN]]
  BY <1>1, StateTypes DEF Commit, NewTracker
<1>7. bodies' \in [Node -> SUBSET Block] /\ wanted' \in [Node -> SUBSET Block]
  BY BodyTypes DEF Commit
<1> QED
  BY <1>3, <1>4, <1>5, <1>6, <1>7

\* on_vote keeps the types of what it writes.
LEMMA OnVoteType ==
    ASSUME TypeOK, NEW i \in Node, NEW m \in Node \X Block,
           NEW c \in ConsensusState, NEW d \in ConsensusState,
           on_vote(i, m, c, d)
    PROVE  /\ chain' \in [Node -> [Slot -> Block]]
           /\ head_slot' \in [Node -> 0 .. MaxHeight]
           /\ cs' \in [Node -> ConsensusState]
           /\ disk' \in [Node -> ConsensusState]
           /\ timeout' \in [Node -> [slot : 1 .. MaxHeight + 1, vcqc : BOOLEAN]]
           /\ bodies' \in [Node -> SUBSET Block]
           /\ wanted' \in [Node -> SUBSET Block]
           /\ accused' \subseteq Node
           /\ seenVotes' \in [Node -> [Slot -> [Node -> Block]]]
           /\ votes' \in [Node -> SUBSET (Node \X Block)]
           /\ qcOut' \subseteq Block
<1> USE EngineAssumption
<1> DEFINE qc == Certifies(m[2], votes[i] \cup {m})
           raised == qc /\ m[2].slot > c.hq.slot
           c1 == IF raised THEN [c EXCEPT !.hq = m[2]] ELSE c
<1>1. m[1] \in Node /\ m[2] \in Block
  OBVIOUS
<1>2. c1 \in ConsensusState
  BY SMTT(40), <1>1 DEF ConsensusState
<1>3. accused' \subseteq Node /\ qcOut' \subseteq Block
  BY <1>1, BodyTypes, MessageTypes DEF on_vote
<1>4. seenVotes' \in [Node -> [Slot -> [Node -> Block]]]
  <2>1. \/ seenVotes' = seenVotes
        \/ seenVotes' = [seenVotes EXCEPT ![i][m[2].slot][m[1]] = m[2]]
    BY Zenon DEF on_vote
  <2>2. [seenVotes[i] EXCEPT ![m[2].slot][m[1]] = m[2]] \in [Slot -> [Node -> Block]]
    <3>1. seenVotes[i] \in [Slot -> [Node -> Block]]
      BY SeenTypes
    <3>2. CASE m[2].slot \in Slot
      BY <1>1, <3>1, <3>2
    <3>3. CASE m[2].slot \notin Slot
      BY Zenon, <1>1, <3>1, <3>3
    <3> QED
      BY <3>2, <3>3
  <2> QED
    BY ZenonT(40), <2>1, <2>2 DEF TypeOK
<1>5. votes' \in [Node -> SUBSET (Node \X Block)]
  BY <1>1, TallyTypes DEF on_vote
<1>6. CASE qc
  <2>1. Commit(i, m[2], c1, IF raised THEN c1 ELSE d, buffered[i], bodies[i])
    BY <1>6 DEF on_vote
  <2>2. (IF raised THEN c1 ELSE d) \in ConsensusState /\ bodies[i] \in SUBSET Block
    BY <1>2, BodyTypes
  <2> HIDE DEF c1, raised
  <2> QED
    BY SMTT(40), <2>1, <2>2, <1>1, <1>2, <1>3, <1>4, <1>5, CommitType
<1>7. CASE ~qc
  <2>1. /\ cs' = [cs EXCEPT ![i] = c] /\ disk' = [disk EXCEPT ![i] = d]
        /\ UNCHANGED <<chain, head_slot, timeout, bodies, wanted>>
    BY <1>7, Zenon DEF on_vote
  <2> QED
    BY Zenon, <2>1, <1>3, <1>4, <1>5 DEF TypeOK
<1> QED
  BY <1>6, <1>7

\* BuildFallback keeps the types of what it writes.
LEMMA BuildFallbackType ==
    ASSUME TypeOK, NEW i \in Node, NEW c \in ConsensusState, NEW t, NEW buf,
           BuildFallback(i, c, t, buf)
    PROVE  /\ proposals' \subseteq Proposal
           /\ IsFiniteSet(proposals')
           /\ bodies' \in [Node -> SUBSET Block]
           /\ built' \in [Node -> [Slot -> View]]
<1>1. CASE ~MayBuildFallback(i, c, t, buf)
  BY <1>1 DEF BuildFallback, TypeOK
<1>2. CASE MayBuildFallback(i, c, t, buf)
  <2> DEFINE p == [block |-> FreshBlock(c.target, c.view), qc |-> c.hq]
  <2>1. c.target \in Slot /\ c.view \in View /\ c.hq \in Block
    BY <1>2, EngineAssumption DEF MayBuildFallback, ConsensusState, Slot
  <2>2. FreshBlock(c.target, c.view) \in Block
    BY <1>2, <2>1, FreshBlockType DEF MayBuildFallback
  <2>3. p \in Proposal
    BY <2>1, <2>2 DEF Proposal
  <2>4. /\ proposals' = proposals \cup {p}
        /\ bodies' = [bodies EXCEPT ![i] = @ \cup {p.block}]
        /\ built' = [built EXCEPT ![i][c.target] = c.view]
    BY <1>2, Zenon DEF BuildFallback
  <2>5. proposals' \subseteq Proposal /\ IsFiniteSet(proposals')
    BY Zenon, <2>3, <2>4, FS_AddElement, MessageTypes
  <2>6. bodies' \in [Node -> SUBSET Block]
    BY <2>2, <2>4, BodyTypes
  <2>7. built' \in [Node -> [Slot -> View]]
    BY <2>1, <2>4, PoolTypes
  <2> QED
    BY <2>5, <2>6, <2>7
<1> QED
  BY <1>1, <1>2

\* on_view_change keeps the types of what it writes.
LEMMA OnViewChangeType ==
    ASSUME TypeOK, NEW i \in Node, NEW m \in Node \X Slot \X Block,
           NEW own \in BOOLEAN, on_view_change(i, m, own)
    PROVE  /\ proposals' \subseteq Proposal
           /\ IsFiniteSet(proposals')
           /\ bodies' \in [Node -> SUBSET Block]
           /\ built' \in [Node -> [Slot -> View]]
           /\ cs' \in [Node -> ConsensusState]
           /\ disk' \in [Node -> ConsensusState]
           /\ timeout' \in [Node -> [slot : 1 .. MaxHeight + 1, vcqc : BOOLEAN]]
           /\ buffered' \in [Node -> SUBSET Proposal]
           /\ deferred' \in [Node -> SUBSET Proposal]
           /\ vcs' \in [Node -> SUBSET (Node \X Slot)]
           /\ seenVcs' \in [Node -> SUBSET (Node \X Slot \X Block)]
           /\ accused' \subseteq Node
<1> DEFINE current == m[2] >= cs[i].target
           prior == {x \in seenVcs[i] : x[1] = m[1] /\ x[2] = m[2]}
           fresh == current /\ prior = {}
           tally == IF fresh THEN vcs[i] \cup {<<m[1], m[2]>>} ELSE vcs[i]
           formed == fresh /\ Cardinality({x \in tally : x[2] = m[2]}) >= Quorum
           first == formed /\ ~timeout[i].vcqc
           c == IF first THEN [cs[i] EXCEPT !.view = @ + 1] ELSE cs[i]
           t == IF first THEN [slot |-> m[2], vcqc |-> TRUE] ELSE timeout[i]
           drained == IF first THEN Drain(i, m[2]) ELSE {}
           buf == buffered[i] \cup drained
<1>1. m[1] \in Node /\ m[2] \in Slot /\ m[3] \in Block
  OBVIOUS
<1>2. /\ c.view <= MaxView
      /\ accused' = IF current /\ prior # {} /\ m \notin prior
                    THEN accused \cup {m[1]} ELSE accused
      /\ seenVcs' = IF fresh THEN [seenVcs EXCEPT ![i] = @ \cup {m}] ELSE seenVcs
      /\ vcs' = [vcs EXCEPT ![i] = tally]
      /\ cs' = [cs EXCEPT ![i] = c]
      /\ disk' = IF first THEN [disk EXCEPT ![i] = c] ELSE disk
      /\ timeout' = [timeout EXCEPT ![i] = t]
      /\ buffered' = [buffered EXCEPT ![i] = buf]
      /\ deferred' = [deferred EXCEPT ![i] = @ \ drained]
      /\ IF own \/ formed THEN BuildFallback(i, c, t, buf)
         ELSE UNCHANGED <<proposals, bodies, built>>
  BY Zenon DEF on_view_change
<1>3. c \in ConsensusState
  <2>1. cs[i] \in ConsensusState
    BY SMTT(40), StateTypes
  <2>2. CASE first
    <3>1. c = [cs[i] EXCEPT !.view = @ + 1]
      BY <2>2, Zenon
    <3>2. c.view = cs[i].view + 1
      BY <2>1, <3>1 DEF ConsensusState
    <3> QED
      BY <2>1, <3>1, <3>2, <1>2, BumpViewType
  <2>3. CASE ~first
    BY <2>1, <2>3, ZenonT(40)
  <2> QED
    BY <2>2, <2>3
<1>4. t \in [slot : 1 .. MaxHeight + 1, vcqc : BOOLEAN]
  BY <1>1, EngineAssumption DEF TypeOK, Slot
<1>5. tally \subseteq Node \X Slot
  BY SMTT(40), <1>1 DEF TypeOK
<1>6. drained \subseteq Proposal /\ buf \subseteq Proposal
  BY SMTT(40) DEF TypeOK, Drain
<1>7. accused' \subseteq Node
  <2>1. accused' = accused \/ accused' = accused \cup {m[1]}
    BY <1>2, Zenon
  <2>2. m[1] \in Node
    BY <1>1
  <2> QED
    BY <2>1, <2>2, BodyTypes
<1>8. seenVcs' \in [Node -> SUBSET (Node \X Slot \X Block)]
  BY <1>2, TallyTypes
<1> HIDE DEF tally, formed, first, c, t, drained, buf
<1>9. cs' \in [Node -> ConsensusState] /\ disk' \in [Node -> ConsensusState]
  BY <1>2, <1>3, StateTypes
<1>10. timeout' \in [Node -> [slot : 1 .. MaxHeight + 1, vcqc : BOOLEAN]]
  BY <1>2, <1>4, StateTypes
<1>11. buffered' \in [Node -> SUBSET Proposal] /\ deferred' \in [Node -> SUBSET Proposal]
  BY <1>2, <1>6, PoolTypes
<1>12. vcs' \in [Node -> SUBSET (Node \X Slot)]
  BY <1>2, <1>5, TallyTypes
<1>13. /\ proposals' \subseteq Proposal
       /\ IsFiniteSet(proposals')
       /\ bodies' \in [Node -> SUBSET Block]
       /\ built' \in [Node -> [Slot -> View]]
  <2>1. CASE own \/ formed
    BY SMTT(40), <2>1, <1>2, <1>3, BuildFallbackType
  <2>2. CASE ~(own \/ formed)
    BY <2>2, <1>2 DEF TypeOK
  <2> QED
    BY <2>1, <2>2
<1> QED
  BY <1>7, <1>8, <1>9, <1>10, <1>11, <1>12, <1>13

------------------------------------------------------------------------------
(* Type correctness.                                                       *)

\* The variables start with their types.
LEMMA InitType == Init => TypeOK
<1> USE EngineAssumption, GenesisType, NewStateType
<1>1. 1 \in 1 .. MaxHeight + 1 /\ 0 \in 0 .. MaxHeight /\ 0 \in View /\ 0 \in 0 .. MaxCrashes
  BY DEF View
<1>2. NewTracker(1) \in [slot : 1 .. MaxHeight + 1, vcqc : BOOLEAN]
  BY <1>1 DEF NewTracker
<1> QED
  BY <1>1, <1>2, FS_EmptySet DEF Init, TypeOK

\* A slot tick of the leader (check_proposer, build_proposal) keeps the types.
LEMMA ProposeType == ASSUME TypeOK, NEW i \in Node, Propose(i) PROVE TypeOK'
<1> DEFINE s == cs[i].target
           p == [block |-> FreshBlock(s, 0), qc |-> cs[i].hq]
<1>1. s \in Slot /\ 0 \in View /\ cs[i].hq \in Block
  BY EngineAssumption, StateTypes DEF Propose, check_proposer, ConsensusState, Slot, View
<1>2. FreshBlock(s, 0) \in Block
  BY <1>1, FreshBlockType DEF Propose
<1>3. p \in Proposal
  BY <1>1, <1>2 DEF Proposal
<1>4. p.block = FreshBlock(s, 0)
  OBVIOUS
<1>5. /\ proposals' = proposals \cup {p}
      /\ bodies' = [bodies EXCEPT ![i] = @ \cup {p.block}]
      /\ \/ UNCHANGED <<seenProposals, buffered>>
         \/ /\ seenProposals' = [seenProposals EXCEPT ![i][s] = p.block]
            /\ buffered' = [buffered EXCEPT ![i] = @ \cup {p}]
  BY Zenon DEF Propose
<1>6. UNCHANGED <<signed, votesOut, vcOut, qcOut, disk, seenVotes, vcSelf,
                  chain, head_slot, cs, timeout, deferred, votedView, built,
                  votes, vcs, seenVcs, wanted, accused, crashes>>
  BY Zenon DEF Propose
<1>7. proposals' \subseteq Proposal /\ IsFiniteSet(proposals')
  BY Zenon, <1>3, <1>5, FS_AddElement, MessageTypes
<1> HIDE DEF p, s
<1>8. bodies' \in [Node -> SUBSET Block]
  BY <1>2, <1>4, <1>5, BodyTypes
<1>9. /\ seenProposals' \in [Node -> [Slot -> Block]]
      /\ buffered' \in [Node -> SUBSET Proposal]
  <2>1. CASE UNCHANGED <<seenProposals, buffered>>
    BY <2>1, SeenTypes, PoolTypes
  <2>2. CASE /\ seenProposals' = [seenProposals EXCEPT ![i][s] = p.block]
             /\ buffered' = [buffered EXCEPT ![i] = @ \cup {p}]
    <3>1. buffered' \in [Node -> SUBSET Proposal]
      BY <2>2, <1>3, PoolTypes
    <3>2. seenProposals' \in [Node -> [Slot -> Block]]
      BY SMTT(40), <2>2, <1>1, <1>2, <1>4, SeenTypes
    <3> QED
      BY <3>1, <3>2
  <2> QED
    BY <1>5, <2>1, <2>2
<1> QED
  BY SMTT(40), <1>6, <1>7, <1>8, <1>9 DEF TypeOK

\* Receiving a proposal (buffer_proposal, on_embedded_qc) keeps the types.
LEMMA RecvProposalType ==
    ASSUME TypeOK, NEW i \in Node, NEW p, RecvProposal(i, p) PROVE TypeOK'
<1> DEFINE s == p.block.slot
           fresh == p.block.view > votedView[i][s]
           fallback == p.block.view > 0
           kept == buffer_proposal(i, p)
           buf == IF kept THEN buffered[i] \cup {p} ELSE buffered[i]
           bod == IF "slow" \in Delivery \/ fallback THEN bodies[i]
                  ELSE bodies[i] \cup {p.block}
           catchUp == p.qc.slot = head_slot[i] + 1 /\ p.qc.slot > cs[i].hq.slot
<1>1. p \in Proposal /\ p.block \in Block /\ p.qc \in Block
  BY DEF RecvProposal, TypeOK, Proposal
<1>2. ProposerOf(p.block) \in Node
  BY <1>1, EngineAssumption DEF ProposerOf, fallback_leader_index, Node, Block, View
<1>3. /\ buffered' = [buffered EXCEPT ![i] = buf]
      /\ deferred' = [deferred EXCEPT ![i] =
                         IF fresh /\ fallback /\ ~kept THEN @ \cup {p} ELSE @]
      /\ seenProposals' \in {seenProposals,
            [seenProposals EXCEPT ![i][s] = IF @ = None THEN p.block ELSE @]}
      /\ accused' \in {accused, accused \cup {ProposerOf(p.block)}}
  BY Zenon DEF RecvProposal
<1>4. \/ Commit(i, p.qc, [cs[i] EXCEPT !.hq = p.qc], disk[i], buf, bod)
      \/ /\ bodies' = [bodies EXCEPT ![i] = bod]
         /\ UNCHANGED <<chain, head_slot, cs, disk, timeout, wanted>>
  BY Zenon DEF RecvProposal
<1>5. UNCHANGED <<network, seenVotes, vcSelf, votedView, built, votes, vcs,
                  seenVcs, crashes>>
  BY ZenonT(40) DEF RecvProposal
<1>6. buf \in SUBSET Proposal /\ bod \in SUBSET Block
  BY <1>1 DEF TypeOK
<1>7. [cs[i] EXCEPT !.hq = p.qc] \in ConsensusState /\ disk[i] \in ConsensusState
  BY <1>1, RaiseType, StateTypes
<1> HIDE DEF buf, bod, kept, fresh, fallback
<1>8. buffered' \in [Node -> SUBSET Proposal] /\ deferred' \in [Node -> SUBSET Proposal]
  BY SMTT(40), <1>1, <1>3, <1>6, PoolTypes
<1>9. seenProposals' \in [Node -> [Slot -> Block]]
  <2>1. seenProposals[i] \in [Slot -> Block]
    BY SeenTypes
  <2>2. [seenProposals[i] EXCEPT ![s] = IF @ = None THEN p.block ELSE @] \in [Slot -> Block]
    BY Zenon, <1>1, <2>1
  <2> QED
    BY ZenonT(40), <1>3, <2>2 DEF TypeOK
<1>10. accused' \subseteq Node
  BY <1>2, <1>3, BodyTypes
<1>11. /\ chain' \in [Node -> [Slot -> Block]]
       /\ head_slot' \in [Node -> 0 .. MaxHeight]
       /\ cs' \in [Node -> ConsensusState]
       /\ disk' \in [Node -> ConsensusState]
       /\ timeout' \in [Node -> [slot : 1 .. MaxHeight + 1, vcqc : BOOLEAN]]
       /\ bodies' \in [Node -> SUBSET Block]
       /\ wanted' \in [Node -> SUBSET Block]
  <2>1. CASE Commit(i, p.qc, [cs[i] EXCEPT !.hq = p.qc], disk[i], buf, bod)
    BY <2>1, <1>1, <1>6, <1>7, CommitType, ZenonT(40)
  <2>2. CASE /\ bodies' = [bodies EXCEPT ![i] = bod]
             /\ UNCHANGED <<chain, head_slot, cs, disk, timeout, wanted>>
    BY SMTT(40), <2>2, <1>6, BodyTypes, ChainTypes, StateTypes
  <2> QED
    BY <1>4, <2>1, <2>2
<1> QED
  BY ZenonT(40), <1>5, <1>8, <1>9, <1>10, <1>11 DEF TypeOK, network

\* Receiving a body late keeps the types.
LEMMA RecvBodyType ==
    ASSUME TypeOK, NEW i \in Node, NEW b, RecvBody(i, b) PROVE TypeOK'
<1>1. b \in Block
  <2>1. \E p \in proposals : p.block = b
    BY Zenon DEF RecvBody
  <2> QED
    BY <2>1, MessageTypes DEF Proposal
<1>2. bodies' \in [Node -> SUBSET Block]
  <2>1. bodies' = [bodies EXCEPT ![i] = bodies[i] \cup {b}]
    BY Zenon DEF RecvBody
  <2>2. bodies[i] \cup {b} \in SUBSET Block
    BY <1>1, BodyTypes
  <2> QED
    BY <2>1, <2>2, BodyTypes, UpdateType
<1> QED
  BY Zenon, <1>2 DEF RecvBody, TypeOK, network, pools

\* Recovering a body by hash (GetBlockByHash) keeps the types.
LEMMA RecoverBodyType ==
    ASSUME TypeOK, NEW i \in Node, NEW b, RecoverBody(i, b) PROVE TypeOK'
<1>1. b \in Block
  <2>1. b \in wanted[i]
    BY Zenon DEF RecoverBody
  <2> QED
    BY <2>1, BodyTypes
<1>2. /\ cs[i] \in ConsensusState /\ disk[i] \in ConsensusState
      /\ bodies[i] \cup {b} \in SUBSET Block
  BY <1>1, StateTypes, BodyTypes
<1>3. Commit(i, b, cs[i], disk[i], buffered[i], bodies[i] \cup {b})
  BY Zenon DEF RecoverBody
<1> QED
  BY ZenonT(40), <1>1, <1>2, <1>3, CommitType DEF RecoverBody, TypeOK, network, pools

\* The voting tick (select_and_vote, on_proposal) keeps the types.
LEMMA SelectAndVoteType ==
    ASSUME TypeOK, NEW i \in Node, SelectAndVote(i) PROVE TypeOK'
<1>1. cs[i] \in ConsensusState /\ cs[i].target \in Slot /\ cs[i].view \in View
  <2>1. cs[i].target <= MaxHeight
    BY Zenon DEF SelectAndVote, select_and_vote
  <2> QED
    BY <2>1, EngineAssumption, StateTypes DEF ConsensusState, Slot
<1>2. PICK p \in buffered[i] :
          /\ signed' = signed \cup {<<i, p.block>>}
          /\ votesOut' \in {votesOut, votesOut \cup {<<i, p.block>>}}
          /\ on_vote(i, <<i, p.block>>, create_vote(p, cs[i]), create_vote(p, cs[i]))
  BY Zenon DEF SelectAndVote, select_and_vote
<1>3. p \in Proposal /\ p.block \in Block
  BY DEF TypeOK, Proposal
<1>4. create_vote(p, cs[i]) \in ConsensusState
  BY <1>1, <1>3, CreateVoteType
<1>5. <<i, p.block>> \in Node \X Block
  BY <1>3
<1>6. votedView' \in [Node -> [Slot -> View \cup {NoView}]]
  <2>1. votedView' = [votedView EXCEPT ![i][cs[i].target] = cs[i].view]
    BY Zenon DEF SelectAndVote
  <2>2. [votedView[i] EXCEPT ![cs[i].target] = cs[i].view] \in [Slot -> View \cup {NoView}]
    BY <1>1, PoolTypes
  <2> QED
    BY <2>1, <2>2, PoolTypes, UpdateType
<1>7. UNCHANGED <<proposals, vcOut, seenProposals, vcSelf, buffered, deferred,
                  built, vcs, seenVcs, crashes>>
  BY Zenon DEF SelectAndVote
<1>8. signed' \subseteq Node \X Block /\ votesOut' \subseteq Node \X Block
  BY SMTT(40), <1>2, <1>5, MessageTypes
<1> QED
  BY ZenonT(40), <1>2, <1>4, <1>5, <1>6, <1>7, <1>8, OnVoteType DEF TypeOK

\* Receiving a vote (on_vote, try_form_qc) keeps the types.
LEMMA RecvVoteType ==
    ASSUME TypeOK, NEW i \in Node, NEW m, RecvVote(i, m) PROVE TypeOK'
<1>1. m \in Node \X Block /\ cs[i] \in ConsensusState /\ disk[i] \in ConsensusState
  <2>1. m \in votesOut
    BY Zenon DEF RecvVote
  <2> QED
    BY <2>1, StateTypes, MessageTypes
<1>2. on_vote(i, m, cs[i], disk[i])
  BY Zenon DEF RecvVote
<1>3. UNCHANGED <<proposals, signed, votesOut, vcOut, seenProposals, vcSelf,
                  pools, vcs, seenVcs, crashes>>
  BY Zenon DEF RecvVote
<1> QED
  BY ZenonT(40), <1>1, <1>2, <1>3, OnVoteType DEF TypeOK, pools

\* An announced QC keeps the types.
LEMMA RecvQcType ==
    ASSUME TypeOK, NEW i \in Node, NEW b, RecvQc(i, b) PROVE TypeOK'
<1> DEFINE c == IF b.slot > cs[i].hq.slot THEN [cs[i] EXCEPT !.hq = b] ELSE cs[i]
<1>1. b \in Block
  <2>1. b \in qcOut
    BY Zenon DEF RecvQc
  <2> QED
    BY <2>1, MessageTypes
<1>2. cs[i] \in ConsensusState /\ disk[i] \in ConsensusState /\ bodies[i] \in SUBSET Block
  BY StateTypes, BodyTypes
<1>3. c \in ConsensusState
  BY <1>1, <1>2, RaiseType
<1>4. Commit(i, b, c, disk[i], buffered[i], bodies[i])
  BY Zenon DEF RecvQc
<1>5. UNCHANGED <<network, seenProposals, seenVotes, vcSelf, pools, votes, vcs,
                  seenVcs, accused, crashes>>
  BY ZenonT(40) DEF RecvQc
<1> HIDE DEF c
<1> QED
  BY ZenonT(40), <1>1, <1>2, <1>3, <1>4, <1>5, CommitType DEF TypeOK, network, pools

\* A timeout (on_timeout) keeps the types.
LEMMA TimeoutType ==
    ASSUME TypeOK, NEW i \in Node, Timeout(i) PROVE TypeOK'
<1> DEFINE m == <<i, cs[i].target, cs[i].hq>>
<1>1. cs[i].target \in Slot /\ cs[i].hq \in Block
  <2>1. cs[i].target <= MaxHeight
    BY Zenon DEF Timeout
  <2> QED
    BY <2>1, EngineAssumption, StateTypes DEF ConsensusState, Slot
<1>2. m \in Node \X Slot \X Block
  BY <1>1
<1>3. on_view_change(i, m, TRUE)
  BY Zenon DEF Timeout
<1>4. vcSelf' \in [Node -> SUBSET (Slot \X Block)]
  <2>1. vcSelf' = [vcSelf EXCEPT ![i] = vcSelf[i] \cup {<<cs[i].target, cs[i].hq>>}]
    BY Zenon DEF Timeout
  <2>2. vcSelf[i] \cup {<<cs[i].target, cs[i].hq>>} \in SUBSET (Slot \X Block)
    BY <1>1, SeenTypes
  <2> QED
    BY <2>1, <2>2, SeenTypes, UpdateType
<1>5. vcOut' \subseteq Node \X Slot \X Block
  <2>1. vcOut' = vcOut \cup {m}
    BY Zenon DEF Timeout
  <2> QED
    BY <1>2, <2>1, MessageTypes
<1>6. UNCHANGED <<signed, votesOut, qcOut, seenProposals, seenVotes, chain,
                  head_slot, votedView, votes, wanted, crashes>>
  BY ZenonT(40) DEF Timeout
<1> HIDE DEF m
<1> QED
  BY ZenonT(40), <1>2, <1>3, <1>4, <1>5, <1>6, OnViewChangeType DEF TypeOK

\* Receiving a view change (on_view_change) keeps the types.
LEMMA RecvViewChangeType ==
    ASSUME TypeOK, NEW i \in Node, NEW m, RecvViewChange(i, m) PROVE TypeOK'
<1>1. m \in Node \X Slot \X Block
  <2>1. m \in vcOut
    BY Zenon DEF RecvViewChange
  <2> QED
    BY <2>1, MessageTypes
<1>2. on_view_change(i, m, FALSE)
  BY Zenon DEF RecvViewChange
<1>3. UNCHANGED <<signed, votesOut, vcOut, qcOut, seenProposals, seenVotes,
                  vcSelf, chain, head_slot, votedView, votes, wanted, crashes>>
  BY Zenon DEF RecvViewChange
<1> QED
  BY ZenonT(40), <1>1, <1>2, <1>3, OnViewChangeType DEF TypeOK

\* advance_slot, with its persisting and pruning, keeps the types.
LEMMA AdvanceSlotType ==
    ASSUME TypeOK, NEW i \in Node, AdvanceSlot(i) PROVE TypeOK'
<1> DEFINE floor(x) == IF x < cs[i].target THEN x ELSE cs[i].target
           Keep(ps, x) == {p \in ps : p.block.slot >= floor(x)}
           V(x) == {m \in votes[i] : m[2].slot >= floor(x)}
           C(x) == {m \in vcs[i] : m[2] >= floor(x)}
           W(x) == [s \in Slot |-> IF s < floor(x) THEN NoView ELSE votedView[i][s]]
           L(x) == [s \in Slot |-> IF s < floor(x) THEN 0 ELSE built[i][s]]
           P(x) == [s \in Slot |-> IF s < floor(x) THEN None ELSE seenProposals[i][s]]
           Q(x) == [s \in Slot |-> IF s < x THEN [j \in Node |-> None] ELSE seenVotes[i][s]]
           R(x) == {m \in seenVcs[i] : m[2] >= x}
           S(x) == {y \in vcSelf[i] : y[1] >= x}
<1>1. PICK x :
        /\ disk' = [disk EXCEPT ![i] = cs[i]]
        /\ votes' = [votes EXCEPT ![i] = V(x)]
        /\ vcs' = [vcs EXCEPT ![i] = C(x)]
        /\ buffered' = [buffered EXCEPT ![i] = Keep(buffered[i], x)]
        /\ deferred' = [deferred EXCEPT ![i] = Keep(deferred[i], x)]
        /\ votedView' = [votedView EXCEPT ![i] = W(x)]
        /\ built' = [built EXCEPT ![i] = L(x)]
        /\ seenProposals' = [seenProposals EXCEPT ![i] = P(x)]
        /\ seenVotes' = [seenVotes EXCEPT ![i] = Q(x)]
        /\ seenVcs' = [seenVcs EXCEPT ![i] = R(x)]
        /\ vcSelf' = [vcSelf EXCEPT ![i] = S(x)]
  BY ZenonT(40) DEF AdvanceSlot
<1>2. UNCHANGED <<network, chain, head_slot, cs, timeout, bodies, wanted, accused, crashes>>
  BY Zenon DEF AdvanceSlot
<1>3. disk' \in [Node -> ConsensusState]
  BY <1>1, StateTypes, UpdateType
<1>4. votes' \in [Node -> SUBSET (Node \X Block)]
  <2>1. V(x) \subseteq votes[i]
    BY Zenon
  <2> QED
    BY <1>1, <2>1, TallyTypes, ShrinkType
<1>5. vcs' \in [Node -> SUBSET (Node \X Slot)]
  <2>1. C(x) \subseteq vcs[i]
    BY Zenon
  <2> QED
    BY <1>1, <2>1, TallyTypes, ShrinkType
<1>6. buffered' \in [Node -> SUBSET Proposal]
  <2>1. Keep(buffered[i], x) \subseteq buffered[i]
    BY Zenon
  <2> QED
    BY <1>1, <2>1, PoolTypes, ShrinkType
<1>7. deferred' \in [Node -> SUBSET Proposal]
  <2>1. Keep(deferred[i], x) \subseteq deferred[i]
    BY Zenon
  <2> QED
    BY <1>1, <2>1, PoolTypes, ShrinkType
<1>8. votedView' \in [Node -> [Slot -> View \cup {NoView}]]
  <2>1. W(x) \in [Slot -> View \cup {NoView}]
    BY PoolTypes
  <2> QED
    BY <1>1, <2>1, PoolTypes, UpdateType
<1>9. built' \in [Node -> [Slot -> View]]
  <2>1. L(x) \in [Slot -> View]
    BY PoolTypes, EngineAssumption DEF View
  <2> QED
    BY <1>1, <2>1, PoolTypes, UpdateType
<1>10. seenProposals' \in [Node -> [Slot -> Block]]
  <2>1. P(x) \in [Slot -> Block]
    BY SeenTypes, GenesisType
  <2> QED
    BY <1>1, <2>1, SeenTypes, UpdateType
<1>11. seenVotes' \in [Node -> [Slot -> [Node -> Block]]]
  <2>1. Q(x) \in [Slot -> [Node -> Block]]
    BY SeenTypes, GenesisType
  <2> QED
    BY <1>1, <2>1, SeenTypes, UpdateType
<1>12. seenVcs' \in [Node -> SUBSET (Node \X Slot \X Block)]
  <2>1. R(x) \subseteq seenVcs[i]
    BY Zenon
  <2> QED
    BY <1>1, <2>1, TallyTypes, ShrinkType
<1>13. vcSelf' \in [Node -> SUBSET (Slot \X Block)]
  <2>1. S(x) \subseteq vcSelf[i]
    BY Zenon
  <2> QED
    BY <1>1, <2>1, SeenTypes, ShrinkType
<1> HIDE DEF floor, Keep, V, C, W, L, P, Q, R, S
<1> QED
  BY Zenon, <1>2, <1>3, <1>4, <1>5, <1>6, <1>7, <1>8, <1>9, <1>10, <1>11, <1>12, <1>13
     DEF TypeOK, network

\* A sync response keeps the types.
LEMMA SyncType ==
    ASSUME TypeOK, NEW i \in Node, NEW j \in Node, Sync(i, j) PROVE TypeOK'
<1> USE EngineAssumption
<1> DEFINE s == head_slot[i] + 1
           next == advance_target_height(cs[i], s + 1)
<1>1. s \in Slot /\ s \in 0 .. MaxHeight /\ s + 1 \in 1 .. MaxHeight + 1
  <2>1. s <= MaxHeight
    BY Zenon DEF Sync
  <2> QED
    BY <2>1, ChainTypes DEF Slot
<1>2. next \in ConsensusState
  BY <1>1, AdvanceType DEF TypeOK
<1>3. /\ chain' = [chain EXCEPT ![i][s] = chain[j][s]]
      /\ head_slot' = [head_slot EXCEPT ![i] = s]
      /\ cs' = [cs EXCEPT ![i] = next]
      /\ disk' = [disk EXCEPT ![i] = next] \/ disk' = disk
      /\ timeout' = [timeout EXCEPT ![i] = NewTracker(s + 1)] \/ timeout' = timeout
      /\ UNCHANGED <<network, seenProposals, seenVotes, vcSelf, pools, votes,
                     vcs, seenVcs, bodies, wanted, accused, crashes>>
  BY ZenonT(40) DEF Sync
<1> HIDE DEF s, next
<1>4. chain' \in [Node -> [Slot -> Block]]
  <2>1. chain[j][s] \in Block /\ chain[i] \in [Slot -> Block]
    BY <1>1, ChainTypes
  <2>2. [chain[i] EXCEPT ![s] = chain[j][s]] \in [Slot -> Block]
    BY Zenon, <2>1
  <2> QED
    BY <2>2, <1>3, ChainTypes, UpdateType
<1>4a. head_slot' \in [Node -> 0 .. MaxHeight]
  BY <1>1, <1>3, ChainTypes
<1>5. cs' \in [Node -> ConsensusState] /\ disk' \in [Node -> ConsensusState]
  <2>1. cs' \in [Node -> ConsensusState]
    BY <1>2, <1>3, StateTypes
  <2>2. CASE disk' = [disk EXCEPT ![i] = next]
    BY <1>2, <2>1, <2>2, StateTypes
  <2>3. CASE disk' = disk
    BY SMTT(40), <2>1, <2>3, StateTypes
  <2> QED
    BY <1>3, <2>2, <2>3
<1>6. timeout' \in [Node -> [slot : 1 .. MaxHeight + 1, vcqc : BOOLEAN]]
  <2>1. NewTracker(s + 1) \in [slot : 1 .. MaxHeight + 1, vcqc : BOOLEAN]
    BY <1>1 DEF NewTracker
  <2>2. CASE timeout' = [timeout EXCEPT ![i] = NewTracker(s + 1)]
    BY <2>1, <2>2, StateTypes
  <2>3. CASE timeout' = timeout
    BY SMTT(40), <2>3, StateTypes
  <2> QED
    BY <1>3, <2>2, <2>3
<1> QED
  BY Zenon, <1>3, <1>4, <1>4a, <1>5, <1>6 DEF TypeOK, network, pools

\* A crash and attach_consensus_store keeps the types.
LEMMA RestartType ==
    ASSUME TypeOK, NEW i \in Node, Restart(i) PROVE TypeOK'
<1> USE EngineAssumption
<1>1. crashes' \in 0 .. MaxCrashes
  BY BodyTypes DEF Restart
<1>2. cs' \in [Node -> ConsensusState]
  BY StateTypes DEF Restart, attach_consensus_store
<1>3. timeout' \in [Node -> [slot : 1 .. MaxHeight + 1, vcqc : BOOLEAN]]
  BY StateTypes DEF Restart, NewTracker
<1>4. votedView' \in [Node -> [Slot -> View \cup {NoView}]] /\ built' \in [Node -> [Slot -> View]]
  BY SMTT(40), PoolTypes DEF Restart, View
<1> QED
  BY ZenonT(40), <1>1, <1>2, <1>3, <1>4 DEF Restart, TypeOK, network

\* A member that runs other code keeps the types.
LEMMA OtherCodeType ==
    ASSUME TypeOK, NEW i \in Node, OtherCode(i) PROVE TypeOK'
<1>1. /\ proposals' \subseteq Proposal /\ IsFiniteSet(proposals')
      /\ signed' \subseteq Node \X Block /\ votesOut' \subseteq Node \X Block
      /\ vcOut' \subseteq Node \X Slot \X Block /\ qcOut' \subseteq Block
  <2>1. CASE /\ \E s \in Slot, v \in View : \E q \in {Genesis} \cup qcOut :
                   /\ CanBuildMore(s, v)
                   /\ proposals' = proposals \cup {[block |-> FreshBlock(s, v), qc |-> q]}
             /\ UNCHANGED <<signed, votesOut, vcOut, qcOut>>
    <3>1. PICK s \in Slot, v \in View : \E q \in {Genesis} \cup qcOut :
                   /\ CanBuildMore(s, v)
                   /\ proposals' = proposals \cup {[block |-> FreshBlock(s, v), qc |-> q]}
      BY <2>1
    <3>2. PICK q \in {Genesis} \cup qcOut :
                   /\ CanBuildMore(s, v)
                   /\ proposals' = proposals \cup {[block |-> FreshBlock(s, v), qc |-> q]}
      BY SMTT(40), <3>1
    <3>3. FreshBlock(s, v) \in Block /\ q \in Block
      BY ZenonT(40), <3>2, FreshBlockType, GenesisType DEF TypeOK
    <3>4. [block |-> FreshBlock(s, v), qc |-> q] \in Proposal
      BY SMTT(40), <3>3 DEF Proposal
    <3>5. proposals' \subseteq Proposal /\ IsFiniteSet(proposals')
      BY ZenonT(40), <3>2, <3>4, FS_AddElement, MessageTypes
    <3> QED
      BY Zenon, <2>1, <3>5, MessageTypes
  <2>2. CASE /\ \E p \in proposals :
                   /\ signed' = signed \cup {<<i, p.block>>}
                   /\ votesOut' = votesOut \cup {<<i, p.block>>}
             /\ UNCHANGED <<proposals, vcOut, qcOut>>
    BY <2>2, MessageTypes DEF Proposal
  <2>3. CASE /\ \E s \in Slot : vcOut' = vcOut \cup {<<i, s, Genesis>>}
             /\ UNCHANGED <<proposals, signed, votesOut, qcOut>>
    BY <2>3, GenesisType, MessageTypes
  <2> QED
    BY <2>1, <2>2, <2>3, ZenonT(40) DEF OtherCode
<1> QED
  BY Zenon, <1>1 DEF OtherCode, TypeOK, pools

\* Every step of the engine, of the network and of a faulty member keeps TypeOK.
LEMMA NextType == TypeOK /\ [Next]_vars => TypeOK'
<1> SUFFICES ASSUME TypeOK, [Next]_vars PROVE TypeOK'
  OBVIOUS
<1>1. CASE UNCHANGED vars
  BY Zenon, <1>1 DEF vars, TypeOK
<1>2. ASSUME NEW i \in Up, Receive(i) PROVE TypeOK'
  BY <1>2, UpIsNode, RecvProposalType, RecvBodyType, RecoverBodyType, RecvVoteType,
     RecvQcType, RecvViewChangeType, SyncType, Zenon DEF Receive
<1>3. ASSUME NEW i \in Up, Propose(i) \/ SelectAndVote(i) \/ Timeout(i)
                           \/ AdvanceSlot(i) \/ Restart(i)
      PROVE TypeOK'
  BY <1>3, UpIsNode, ProposeType, SelectAndVoteType, TimeoutType, AdvanceSlotType,
     RestartType, Zenon
<1>4. ASSUME NEW i \in Byz, OtherCode(i) PROVE TypeOK'
  BY <1>4, UpIsNode, OtherCodeType, Zenon
<1> QED
  BY <1>1, <1>2, <1>3, <1>4, Zenon DEF Next

\* Every variable keeps the type its Rust counterpart has: in particular no
\* target runs past the slot after the last, no view past the bound, and the
\* timeout tracker always names a slot.
THEOREM TypeCorrect == Spec => []TypeOK
<1>1. Init => TypeOK
  BY InitType
<1>2. TypeOK /\ [Next]_vars => TypeOK'
  BY NextType
<1> QED
  BY <1>1, <1>2, PTL DEF Spec

------------------------------------------------------------------------------
(* The voting promise.                                                     *)

\* c and d record the same last ballot.
SameBallot(c, d) == c.votedSlot = d.votedSlot /\ c.votedAt = d.votedAt

(***************************************************************************)
(* The strengthening of the voting promise: the last ballot on disk is the *)
(* one in memory, because persist_consensus follows create_vote in the     *)
(* same step, and every vote a member that runs this code ever signed is   *)
(* at or before its last ballot.                                           *)
(***************************************************************************)
VoteInv ==
    /\ \A i \in Node : SameBallot(disk[i], cs[i])
    /\ \A m \in signed : m[1] \notin Byz => ~Later(m[2], cs[m[1]])

\* What every step but SelectAndVote does to the last ballots: nothing.
KeepsBallots ==
    \A j \in Node : SameBallot(cs[j], cs'[j]) /\ SameBallot(cs[j], disk'[j])

\* advance_target_height leaves the last ballot.
LEMMA AdvanceBallot ==
    ASSUME NEW c \in ConsensusState, NEW h \in 1 .. MaxHeight + 1
    PROVE  SameBallot(c, advance_target_height(c, h))
  BY DEF SameBallot, advance_target_height, ConsensusState

\* Raising highest_qc leaves the last ballot.
LEMMA RaiseBallot ==
    ASSUME NEW c \in ConsensusState, NEW b
    PROVE  SameBallot(c, [c EXCEPT !.hq = b])
  BY DEF SameBallot, ConsensusState

\* Having the same last ballot is an equivalence.
LEMMA SameBallotEquiv ==
    ASSUME NEW c, NEW d, NEW e
    PROVE  /\ SameBallot(c, c)
           /\ SameBallot(c, d) => SameBallot(d, c)
           /\ SameBallot(c, d) /\ SameBallot(d, e) => SameBallot(c, e)
  BY DEF SameBallot

\* Commit leaves the last ballot of node i at that of the state it is given.
LEMMA CommitBallot ==
    ASSUME TypeOK, NEW i \in Node, NEW b \in Block,
           NEW c \in ConsensusState, NEW d \in ConsensusState, SameBallot(c, d),
           NEW buf, NEW bod, Commit(i, b, c, d, buf, bod)
    PROVE  /\ SameBallot(c, cs'[i]) /\ SameBallot(c, disk'[i])
           /\ \A j \in Node \ {i} : cs'[j] = cs[j] /\ disk'[j] = disk[j]
<1> DEFINE next == advance_target_height(c, b.slot + 1)
<1>1. b.slot + 1 \in 1 .. MaxHeight + 1
  BY EngineAssumption DEF Block
<1>2. SameBallot(c, next) /\ SameBallot(c, c)
  BY <1>1, AdvanceBallot, SameBallotEquiv
<1>3. /\ cs' = [cs EXCEPT ![i] = next] \/ cs' = [cs EXCEPT ![i] = c]
      /\ disk' = [disk EXCEPT ![i] = next] \/ disk' = [disk EXCEPT ![i] = d]
  BY Zenon DEF Commit
<1> HIDE DEF next
<1> QED
  BY <1>2, <1>3 DEF TypeOK

\* on_vote, likewise.
LEMMA OnVoteBallot ==
    ASSUME TypeOK, NEW i \in Node, NEW m \in Node \X Block,
           NEW c \in ConsensusState, NEW d \in ConsensusState, SameBallot(c, d),
           on_vote(i, m, c, d)
    PROVE  /\ SameBallot(c, cs'[i]) /\ SameBallot(c, disk'[i])
           /\ \A j \in Node \ {i} : cs'[j] = cs[j] /\ disk'[j] = disk[j]
<1> DEFINE qc == Certifies(m[2], votes[i] \cup {m})
           raised == qc /\ m[2].slot > c.hq.slot
           c1 == IF raised THEN [c EXCEPT !.hq = m[2]] ELSE c
           d1 == IF raised THEN c1 ELSE d
<1>1. m[2] \in Block
  OBVIOUS
<1>2. c1 \in ConsensusState /\ SameBallot(c, c1)
  <2>1. [c EXCEPT !.hq = m[2]] \in ConsensusState /\ SameBallot(c, [c EXCEPT !.hq = m[2]])
    BY <1>1, RaiseType, RaiseBallot, Zenon
  <2>2. SameBallot(c, c)
    BY DEF SameBallot
  <2>3. c1 = [c EXCEPT !.hq = m[2]] \/ c1 = c
    BY Zenon
  <2> HIDE DEF c1
  <2> QED
    BY <2>1, <2>2, <2>3, Zenon
<1>3. \/ Commit(i, m[2], c1, d1, buffered[i], bodies[i])
      \/ cs' = [cs EXCEPT ![i] = c] /\ disk' = [disk EXCEPT ![i] = d]
  BY Zenon DEF on_vote
<1>4. d1 = c1 \/ d1 = d
  OBVIOUS
<1> HIDE DEF c1, d1
<1>5. d1 \in ConsensusState /\ SameBallot(c1, d1)
  BY <1>2, <1>4, SameBallotEquiv
<1>6. CASE Commit(i, m[2], c1, d1, buffered[i], bodies[i])
  <2>1. /\ SameBallot(c1, cs'[i]) /\ SameBallot(c1, disk'[i])
        /\ \A j \in Node \ {i} : cs'[j] = cs[j] /\ disk'[j] = disk[j]
    BY <1>1, <1>2, <1>5, <1>6, CommitBallot, ZenonT(40)
  <2> QED
    BY <1>2, <2>1 DEF SameBallot
<1>7. CASE cs' = [cs EXCEPT ![i] = c] /\ disk' = [disk EXCEPT ![i] = d]
  BY SMTT(40), <1>7, SameBallotEquiv DEF TypeOK
<1> QED
  BY <1>3, <1>6, <1>7

\* A handler that leaves its node's last ballot leaves all of them.
LEMMA LocalBallot ==
    ASSUME VoteInv, NEW i \in Node,
           SameBallot(cs[i], cs'[i]), SameBallot(cs[i], disk'[i]),
           \A j \in Node \ {i} : cs'[j] = cs[j] /\ disk'[j] = disk[j]
    PROVE  KeepsBallots
  BY Zenon DEF VoteInv, KeepsBallots, SameBallot

\* A step that leaves memory and disk keeps every last ballot.
LEMMA StutterBallot == ASSUME VoteInv, UNCHANGED <<cs, disk>> PROVE KeepsBallots
  BY DEF VoteInv, KeepsBallots, SameBallot

\* Receiving a proposal (buffer_proposal, on_embedded_qc) keeps every last
\* ballot.
LEMMA RecvProposalBallot ==
    ASSUME TypeOK, VoteInv, NEW i \in Node, NEW p, RecvProposal(i, p)
    PROVE  KeepsBallots
<1> DEFINE c == [cs[i] EXCEPT !.hq = p.qc]
<1>1. p.qc \in Block /\ cs[i] \in ConsensusState /\ disk[i] \in ConsensusState
  BY DEF RecvProposal, TypeOK, Proposal
<1>2. c \in ConsensusState /\ SameBallot(cs[i], c)
  BY <1>1, RaiseType, RaiseBallot, Zenon
<1>3. \/ \E buf, bod : Commit(i, p.qc, c, disk[i], buf, bod)
      \/ UNCHANGED <<cs, disk>>
  BY Zenon DEF RecvProposal
<1> HIDE DEF c
<1>4. SameBallot(c, disk[i])
  BY <1>2 DEF VoteInv, SameBallot
<1>5. CASE \E buf, bod : Commit(i, p.qc, c, disk[i], buf, bod)
  <2>1. /\ SameBallot(c, cs'[i]) /\ SameBallot(c, disk'[i])
        /\ \A j \in Node \ {i} : cs'[j] = cs[j] /\ disk'[j] = disk[j]
    BY <1>1, <1>2, <1>4, <1>5, CommitBallot, ZenonT(40)
  <2>2. SameBallot(cs[i], cs'[i]) /\ SameBallot(cs[i], disk'[i])
    BY <1>2, <2>1 DEF SameBallot
  <2> QED
    BY <2>1, <2>2, LocalBallot, Zenon
<1>6. CASE UNCHANGED <<cs, disk>>
  BY <1>6, StutterBallot, Zenon
<1> QED
  BY <1>3, <1>5, <1>6

\* Recovering a body by hash (GetBlockByHash) keeps every last ballot.
LEMMA RecoverBodyBallot ==
    ASSUME TypeOK, VoteInv, NEW i \in Node, NEW b, RecoverBody(i, b)
    PROVE  KeepsBallots
<1>1. /\ b \in Block /\ cs[i] \in ConsensusState /\ disk[i] \in ConsensusState
      /\ SameBallot(cs[i], disk[i])
  BY DEF RecoverBody, TypeOK, VoteInv, SameBallot
<1>2. Commit(i, b, cs[i], disk[i], buffered[i], bodies[i] \cup {b})
  BY Zenon DEF RecoverBody
<1> QED
  BY <1>1, <1>2, CommitBallot, LocalBallot, ZenonT(40)

\* Receiving a vote (on_vote, try_form_qc) keeps every last ballot.
LEMMA RecvVoteBallot ==
    ASSUME TypeOK, VoteInv, NEW i \in Node, NEW m, RecvVote(i, m)
    PROVE  KeepsBallots
<1>1. /\ m \in Node \X Block /\ cs[i] \in ConsensusState /\ disk[i] \in ConsensusState
      /\ SameBallot(cs[i], disk[i])
  BY DEF RecvVote, TypeOK, VoteInv, SameBallot
<1>2. on_vote(i, m, cs[i], disk[i])
  BY ZenonT(40) DEF RecvVote
<1> QED
  BY <1>1, <1>2, OnVoteBallot, LocalBallot, ZenonT(40)

\* An announced QC keeps every last ballot.
LEMMA RecvQcBallot ==
    ASSUME TypeOK, VoteInv, NEW i \in Node, NEW b, RecvQc(i, b)
    PROVE  KeepsBallots
<1> DEFINE c == IF b.slot > cs[i].hq.slot THEN [cs[i] EXCEPT !.hq = b] ELSE cs[i]
<1>1. b \in Block /\ cs[i] \in ConsensusState /\ disk[i] \in ConsensusState
  BY DEF RecvQc, TypeOK
<1>2. c \in ConsensusState /\ SameBallot(cs[i], c)
  <2>1. /\ [cs[i] EXCEPT !.hq = b] \in ConsensusState
        /\ SameBallot(cs[i], [cs[i] EXCEPT !.hq = b])
    BY <1>1, RaiseType, RaiseBallot, Zenon
  <2>2. SameBallot(cs[i], cs[i])
    BY DEF SameBallot
  <2> QED
    BY <1>1, <2>1, <2>2, Zenon
<1>3. Commit(i, b, c, disk[i], buffered[i], bodies[i])
  BY Zenon DEF RecvQc
<1> HIDE DEF c
<1>4. SameBallot(c, disk[i])
  BY <1>2 DEF VoteInv, SameBallot
<1>5. /\ SameBallot(c, cs'[i]) /\ SameBallot(c, disk'[i])
      /\ \A j \in Node \ {i} : cs'[j] = cs[j] /\ disk'[j] = disk[j]
  BY <1>1, <1>2, <1>3, <1>4, CommitBallot, ZenonT(40)
<1>6. SameBallot(cs[i], cs'[i]) /\ SameBallot(cs[i], disk'[i])
  BY <1>2, <1>5 DEF SameBallot
<1> QED
  BY <1>5, <1>6, LocalBallot, Zenon

\* on_view_change, of the own message or another's, keeps every last ballot.
LEMMA OnViewChangeBallot ==
    ASSUME TypeOK, VoteInv, NEW i \in Node, NEW m, NEW own, on_view_change(i, m, own)
    PROVE  KeepsBallots
<1> DEFINE c == [cs[i] EXCEPT !.view = @ + 1]
<1>1. \/ cs' = [cs EXCEPT ![i] = c] /\ disk' = [disk EXCEPT ![i] = c]
      \/ cs' = [cs EXCEPT ![i] = cs[i]] /\ disk' = disk
  BY Zenon DEF on_view_change
<1>2. SameBallot(cs[i], c)
  BY DEF SameBallot, TypeOK, ConsensusState
<1> HIDE DEF c
<1>3. SameBallot(cs[i], cs'[i]) /\ SameBallot(cs[i], disk'[i])
  <2>1. cs'[i] \in {c, cs[i]} /\ disk'[i] \in {c, disk[i]}
    BY <1>1, StateTypes
  <2>2. SameBallot(cs[i], disk[i]) /\ SameBallot(cs[i], cs[i])
    BY DEF VoteInv, SameBallot
  <2> QED
    BY <1>2, <2>1, <2>2, Zenon
<1>4. \A j \in Node \ {i} : cs'[j] = cs[j] /\ disk'[j] = disk[j]
  BY <1>1, StateTypes
<1> QED
  BY <1>3, <1>4, LocalBallot, Zenon

\* A sync response keeps every last ballot.
LEMMA SyncBallot ==
    ASSUME TypeOK, VoteInv, NEW i \in Node, NEW j \in Node, Sync(i, j)
    PROVE  KeepsBallots
<1> DEFINE s == head_slot[i] + 1
           next == advance_target_height(cs[i], s + 1)
<1>1. s + 1 \in 1 .. MaxHeight + 1 /\ cs[i] \in ConsensusState
  <2>1. s <= MaxHeight
    BY Zenon DEF Sync
  <2> QED
    BY <2>1, EngineAssumption, ChainTypes, StateTypes
<1>2. SameBallot(cs[i], next)
  BY <1>1, AdvanceBallot, Zenon
<1>3. /\ cs' = [cs EXCEPT ![i] = next]
      /\ disk' = [disk EXCEPT ![i] = next] \/ disk' = disk
  BY Zenon DEF Sync
<1> HIDE DEF s, next
<1>4. SameBallot(cs[i], cs'[i]) /\ SameBallot(cs[i], disk'[i])
  <2>1. cs'[i] = next /\ disk'[i] \in {next, disk[i]}
    BY <1>3, StateTypes
  <2> QED
    BY <1>2, <2>1, SameBallotEquiv, Zenon DEF VoteInv
<1>5. \A k \in Node \ {i} : cs'[k] = cs[k] /\ disk'[k] = disk[k]
  BY <1>3, StateTypes
<1> QED
  BY <1>4, <1>5, LocalBallot, ZenonT(40)

\* advance_slot, with its persisting and pruning, keeps every last ballot.
LEMMA AdvanceSlotBallot ==
    ASSUME TypeOK, VoteInv, NEW i \in Node, AdvanceSlot(i) PROVE KeepsBallots
<1>1. cs' = cs /\ disk' = [disk EXCEPT ![i] = cs[i]]
  BY Zenon DEF AdvanceSlot
<1> QED
  BY <1>1 DEF TypeOK, VoteInv, KeepsBallots, SameBallot

\* A crash and attach_consensus_store keeps every last ballot.
LEMMA RestartBallot ==
    ASSUME TypeOK, VoteInv, NEW i \in Node, Restart(i) PROVE KeepsBallots
<1>1. disk' = disk /\ cs' = [cs EXCEPT ![i] = disk[i]]
  BY Zenon DEF Restart, attach_consensus_store
<1> QED
  BY <1>1 DEF TypeOK, VoteInv, KeepsBallots, SameBallot

\* At the start no vote was signed.
LEMMA InitVote == Init => VoteInv
  BY DEF Init, VoteInv, SameBallot

\* A step of a member that runs this code either leaves all votes and last
\* ballots alone or is that member's voting tick.
LEMMA CodeStep ==
    ASSUME TypeOK, VoteInv, NEW i \in Up,
           \/ Propose(i) \/ Timeout(i) \/ Receive(i) \/ AdvanceSlot(i) \/ Restart(i)
    PROVE  KeepsBallots /\ signed' = signed
<1> USE UpIsNode
<1>1. CASE Propose(i)
  <2>1. UNCHANGED <<signed, cs, disk>>
    BY <1>1, Zenon DEF Propose
  <2> QED
    BY <2>1, StutterBallot
<1>2. CASE Timeout(i)
  <2>1. signed' = signed /\ \E m : on_view_change(i, m, TRUE)
    BY <1>2, Zenon DEF Timeout
  <2> QED
    BY <2>1, OnViewChangeBallot, Zenon
<1>3. CASE Receive(i)
  <2>1. ASSUME NEW p \in proposals, RecvProposal(i, p) PROVE KeepsBallots /\ signed' = signed
    BY <2>1, RecvProposalBallot, Zenon DEF RecvProposal, network
  <2>2. ASSUME NEW b, RecvBody(i, b) PROVE KeepsBallots /\ signed' = signed
    <3>1. UNCHANGED <<signed, cs, disk>>
      BY <2>2, Zenon DEF RecvBody, network
    <3> QED
      BY <3>1, StutterBallot
  <2>3. ASSUME NEW b, RecoverBody(i, b) PROVE KeepsBallots /\ signed' = signed
    BY <2>3, RecoverBodyBallot, Zenon DEF RecoverBody, network
  <2>4. ASSUME NEW m, RecvVote(i, m) PROVE KeepsBallots /\ signed' = signed
    BY <2>4, RecvVoteBallot, Zenon DEF RecvVote
  <2>5. ASSUME NEW b, RecvQc(i, b) PROVE KeepsBallots /\ signed' = signed
    BY <2>5, RecvQcBallot, Zenon DEF RecvQc, network
  <2>6. ASSUME NEW m, RecvViewChange(i, m) PROVE KeepsBallots /\ signed' = signed
    BY <2>6, OnViewChangeBallot, Zenon DEF RecvViewChange
  <2>7. ASSUME NEW j \in Up, Sync(i, j) PROVE KeepsBallots /\ signed' = signed
    BY <2>7, SyncBallot, Zenon DEF Sync, network
  <2> QED
    BY <1>3, <2>1, <2>2, <2>3, <2>4, <2>5, <2>6, <2>7, ZenonT(40) DEF Receive
<1>4. CASE AdvanceSlot(i)
  BY <1>4, AdvanceSlotBallot, ZenonT(40) DEF AdvanceSlot, network
<1>5. CASE Restart(i)
  BY <1>5, RestartBallot, Zenon DEF Restart, network
<1> QED
  BY <1>1, <1>2, <1>3, <1>4, <1>5

\* The voting tick signs one block, of a ballot later than every one before.
LEMMA VoteStep ==
    ASSUME TypeOK, VoteInv, NEW i \in Up, SelectAndVote(i)
    PROVE  /\ VoteInv'
           /\ \E b \in Block : /\ signed' = signed \cup {<<i, b>>}
                               /\ Later(b, cs[i])
<1>0. i \in Node
  BY UpIsNode
<1>1. cs[i] \in ConsensusState
  BY <1>0, StateTypes
<1>2. PICK p \in buffered[i] :
          /\ signed' = signed \cup {<<i, p.block>>}
          /\ Later(p.block, cs[i])
          /\ on_vote(i, <<i, p.block>>, create_vote(p, cs[i]), create_vote(p, cs[i]))
  BY ZenonT(40) DEF SelectAndVote, select_and_vote, SafeToVote
<1>3. p \in Proposal /\ p.block \in Block
  BY <1>0, PoolTypes DEF Proposal
<1> DEFINE c == create_vote(p, cs[i])
<1>4. c \in ConsensusState /\ SameBallot(c, c)
  BY <1>1, <1>3, CreateVoteType DEF SameBallot
<1>5. c.votedSlot = p.block.slot /\ c.votedAt = p.block.view
  BY <1>1 DEF create_vote, ConsensusState
<1> HIDE DEF c
<1>6. /\ SameBallot(c, cs'[i]) /\ SameBallot(c, disk'[i])
      /\ \A j \in Node \ {i} : cs'[j] = cs[j] /\ disk'[j] = disk[j]
  <2>1. <<i, p.block>> \in Node \X Block
    BY <1>0, <1>3
  <2> QED
    BY <1>0, <1>2, <1>4, <2>1, OnVoteBallot, ZenonT(40) DEF c
<1>7. \A j \in Node : SameBallot(disk'[j], cs'[j])
  BY ZenonT(40), <1>6 DEF VoteInv, SameBallot
<1>8. ASSUME NEW m \in signed', m[1] \notin Byz PROVE ~Later(m[2], cs'[m[1]])
  <2>0. signed \subseteq Node \X Block /\ <<i, p.block>> \in Node \X Block
    BY <1>0, <1>3, MessageTypes
  <2>1. m[1] \in Node /\ m[2] \in Block
    BY <1>2, <2>0
  <2>2. CASE m[1] # i
    <3>1. m # <<i, p.block>>
      BY <2>2
    <3>2. m \in signed /\ cs'[m[1]] = cs[m[1]]
      BY <1>2, <1>6, <2>1, <2>2, <3>1, Zenon
    <3> QED
      BY <3>2, <1>8, Zenon DEF VoteInv
  <2>3. CASE m = <<i, p.block>>
    <3>1. m[1] = i /\ m[2] = p.block
      BY <2>3
    <3>2. cs'[i].votedSlot = p.block.slot /\ cs'[i].votedAt = p.block.view
      BY <1>5, <1>6 DEF SameBallot
    <3>3. ~Later(p.block, cs'[i])
      <4>1. p.block.slot \in Int /\ p.block.view \in Int
        BY <1>3, EngineAssumption DEF Block, View
      <4> QED
        BY <3>2, <4>1 DEF Later
    <3> QED
      BY <3>1, <3>3, Zenon
  <2>4. CASE m[1] = i /\ m \in signed
    <3>1. ~Later(m[2], cs[i])
      BY <2>4, <1>8, Zenon DEF VoteInv
    <3>2. cs'[i].votedSlot = p.block.slot /\ cs'[i].votedAt = p.block.view
      BY <1>5, <1>6 DEF SameBallot
    <3>3. /\ p.block.slot \in Int /\ p.block.view \in Int
          /\ m[2].slot \in Int /\ m[2].view \in Int
          /\ cs[i].votedSlot \in Int /\ cs[i].votedAt \in Int
      <4>1. \A b \in Block : b.slot \in Int /\ b.view \in Int
        BY EngineAssumption DEF Block, View
      <4>2. cs[i].votedSlot \in Int /\ cs[i].votedAt \in Int
        BY <1>1, EngineAssumption DEF View, ConsensusState
      <4> QED
        BY <1>3, <2>1, <4>1, <4>2, Zenon
    <3>4. ~Later(m[2], cs'[i])
      BY <1>2, <3>1, <3>2, <3>3 DEF Later
    <3> QED
      BY <2>4, <3>4, Zenon
  <2>5. m \in signed \/ m = <<i, p.block>>
    BY <1>2, <1>8
  <2> QED
    BY <2>2, <2>3, <2>4, <2>5, Zenon
<1>9. VoteInv'
  BY <1>7, <1>8, Zenon DEF VoteInv, Later
<1> QED
  BY <1>2, <1>3, <1>9, Zenon

\* Every step keeps VoteInv and maps to a step of Ballots or to a stutter.
LEMMA NextVote ==
    TypeOK /\ VoteInv /\ [Next]_vars => VoteInv' /\ [Voting!Next]_signed
<1> SUFFICES ASSUME TypeOK, VoteInv, [Next]_vars PROVE VoteInv' /\ [Voting!Next]_signed
  OBVIOUS
<1>1. ASSUME KeepsBallots,
             signed' = signed \/ \E v \in Byz, b \in Block : signed' = signed \cup {<<v, b>>}
      PROVE  VoteInv'
  <2>1. \A j \in Node : SameBallot(disk'[j], cs'[j])
    BY <1>1 DEF KeepsBallots, SameBallot
  <2>2. ASSUME NEW m \in signed', m[1] \notin Byz PROVE ~Later(m[2], cs'[m[1]])
    <3>1. m \in signed
      <4>1. CASE signed' = signed
        BY <2>2, <4>1
      <4>2. ASSUME NEW v \in Byz, NEW b \in Block, signed' = signed \cup {<<v, b>>}
            PROVE  m \in signed
        BY <2>2, <4>2
      <4> QED
        BY <1>1, <4>1, <4>2, Zenon
    <3>2. m[1] \in Node
      BY <3>1, MessageTypes
    <3>3. SameBallot(cs[m[1]], cs'[m[1]])
      BY <1>1, <3>2, Zenon DEF KeepsBallots
    <3>4. ~Later(m[2], cs[m[1]])
      BY <2>2, <3>1, Zenon DEF VoteInv
    <3> QED
      BY <3>3, <3>4 DEF SameBallot, Later
  <2> QED
    BY <2>1, <2>2 DEF VoteInv, Later
<1>2. CASE UNCHANGED vars
  <2>1. UNCHANGED <<signed, cs, disk>>
    BY <1>2 DEF vars
  <2> QED
    BY <2>1, <1>1, StutterBallot
<1>3. ASSUME NEW i \in Up,
             Propose(i) \/ Timeout(i) \/ Receive(i) \/ AdvanceSlot(i) \/ Restart(i)
      PROVE  VoteInv' /\ [Voting!Next]_signed
  <2>1. KeepsBallots /\ signed' = signed
    BY <1>3, CodeStep, Zenon
  <2> QED
    BY <1>1, <2>1
<1>4. ASSUME NEW i \in Up, SelectAndVote(i) PROVE VoteInv' /\ [Voting!Next]_signed
  <2>1. PICK b \in Block : signed' = signed \cup {<<i, b>>} /\ Later(b, cs[i])
    BY <1>4, VoteStep, Zenon
  <2>2. i \in Node /\ i \notin Byz
    BY EngineAssumption DEF Node
  <2>3. ASSUME NEW d \in Block, <<i, d>> \in signed, Ballot(d) = Ballot(b) PROVE FALSE
    <3>1. ~Later(d, cs[i])
      <4>1. <<i, d>>[1] = i /\ <<i, d>>[2] = d
        OBVIOUS
      <4> QED
        BY <2>2, <2>3, <4>1, Zenon DEF VoteInv
    <3>2. d.slot = b.slot /\ d.view = b.view
      BY <2>3 DEF Ballot
    <3> QED
      BY <3>1, <3>2, <2>1 DEF Later
  <2>4. Voting!Cast(i, b)
    BY <2>1, <2>3 DEF Voting!Cast
  <2>5. VoteInv'
    BY <1>4, VoteStep, Zenon
  <2> QED
    BY <2>2, <2>4, <2>5 DEF Voting!Next
<1>5. ASSUME NEW i \in Byz, OtherCode(i) PROVE VoteInv' /\ [Voting!Next]_signed
  <2>1. i \in Node /\ UNCHANGED <<cs, disk>>
    BY <1>5, UpIsNode, ZenonT(40) DEF OtherCode
  <2>2. signed' = signed \/ \E b \in Block : signed' = signed \cup {<<i, b>>}
    BY Zenon, <1>5 DEF OtherCode, TypeOK, Proposal
  <2>3. VoteInv'
    BY <1>1, <2>1, <2>2, StutterBallot
  <2>4. [Voting!Next]_signed
    BY <2>1, <2>2 DEF Voting!Next, Voting!Cast
  <2> QED
    BY <2>3, <2>4
<1> QED
  BY <1>2, <1>3, <1>4, <1>5, Zenon DEF Next

\* The engine implements Ballots: a validator that runs create_vote, persists
\* the spent ballot before it broadcasts and reloads it on restart never signs
\* two blocks for one (slot, view).
THEOREM EngineImplementsBallots == Spec => VotingSpec
<1>1. Init => VoteInv /\ Voting!Init
  BY InitVote DEF Init, Voting!Init
<1> QED
  BY <1>1, InitType, NextType, NextVote, PTL DEF Spec, VotingSpec, Voting!Spec

------------------------------------------------------------------------------
(* What follows from it.                                                   *)

\* A member that runs this code has at most one vote per (slot, view).
LEMMA OneVote == Spec => []Voting!OneVotePerBallot
<1>1. Voting!Init => Voting!OneVotePerBallot
  BY DEF Voting!Init, Voting!OneVotePerBallot
<1>2. Voting!OneVotePerBallot /\ [Voting!Next]_signed => Voting!OneVotePerBallot'
  <2> SUFFICES ASSUME Voting!OneVotePerBallot, [Voting!Next]_signed
               PROVE  Voting!OneVotePerBallot'
    OBVIOUS
  <2>1. CASE UNCHANGED signed
    BY <2>1 DEF Voting!OneVotePerBallot
  <2>2. ASSUME NEW v \in Node, NEW b \in Block, Voting!Cast(v, b)
        PROVE  Voting!OneVotePerBallot'
    BY <2>2 DEF Voting!OneVotePerBallot, Voting!Cast
  <2> QED
    BY <2>1, <2>2 DEF Voting!Next
<1> QED
  BY <1>1, <1>2, EngineImplementsBallots, PTL DEF VotingSpec, Voting!Spec
==============================================================================
