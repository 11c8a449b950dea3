------------------------- MODULE EngineGuardProofs ---------------------------
(***************************************************************************)
(* What the engine's guards against signing twice give, for every value of *)
(* the constants: one fallback block per (slot, view), one view change per *)
(* slot, and evidence only against members that did sign twice.            *)
(***************************************************************************)
EXTENDS EngineProofs

------------------------------------------------------------------------------
(***************************************************************************)
(* One fallback block per view.  A fallback leader remembers what it built *)
(* in memory only (last_built_fallback_view_per_slot), so the argument is  *)
(* about the view: it is persisted whenever it is bumped, and a restarted  *)
(* leader has no view-change QC, hence builds nothing before it bumps the  *)
(* view again.                                                             *)
(***************************************************************************)
\* c and d are at the same target height and view.
SameHeight(c, d) == c.target = d.target /\ c.view = d.view

\* Node i will not build another block for the (slot, view) of b.
Spent(i, b) ==
    \/ b.slot < cs[i].target
    \/ b.slot = cs[i].target /\ b.view < cs[i].view
    \/ /\ b.slot = cs[i].target /\ b.view = cs[i].view
       /\ built[i][b.slot] = b.view \/ ~timeout[i].vcqc

\* The fallback blocks of members that run this code.
IsFallback(p) == p.block.view > 0 /\ ProposerOf(p.block) \notin Byz

FallbackInv ==
    /\ \A i \in Node : SameHeight(disk[i], cs[i])
    /\ \A p \in proposals : IsFallback(p) => Spent(ProposerOf(p.block), p.block)
    /\ OneFallbackPerView

\* What every handler but the building of a fallback does at node i: the target
\* and the view move forward, or the tracker and what was built stay.
Forward(i) ==
    /\ SameHeight(disk'[i], cs'[i])
    /\ \/ cs'[i].target > cs[i].target
       \/ cs'[i].target = cs[i].target /\ cs'[i].view > cs[i].view
       \/ /\ SameHeight(cs[i], cs'[i])
          /\ timeout'[i].vcqc =>
               /\ timeout[i].vcqc
               /\ \A s \in Slot : s = cs[i].target => built'[i][s] = built[i][s]

Elsewhere(i) ==
    \A j \in Node \ {i} : /\ cs'[j] = cs[j] /\ disk'[j] = disk[j]
                          /\ timeout'[j] = timeout[j] /\ built'[j] = built[j]

\* The proposer of a block is a member of the committee.
LEMMA ProposerIsNode == ASSUME NEW b \in Block PROVE ProposerOf(b) \in Node
  BY EngineAssumption DEF ProposerOf, fallback_leader_index, Block, View, Node

\* A step that goes forward keeps what is spent.
LEMMA ForwardSpent ==
    ASSUME TypeOK, TypeOK', NEW i \in Node, Forward(i), Elsewhere(i),
           NEW j \in Node, NEW b \in Block, Spent(j, b)
    PROVE  Spent(j, b)'
<1>1. CASE j # i
  <2>1. cs'[j] = cs[j] /\ timeout'[j] = timeout[j] /\ built'[j] = built[j]
    BY <1>1, Zenon DEF Elsewhere
  <2> QED
    BY <2>1, Zenon DEF Spent
<1>2. CASE j = i
  <2>1. /\ cs[i].target \in Nat /\ cs[i].view \in Nat
        /\ cs'[i].target \in Nat /\ cs'[i].view \in Nat
        /\ b.slot \in Nat /\ b.view \in Nat
        /\ b.slot = cs[i].target => b.slot \in Slot
    <3>1. cs[i] \in ConsensusState /\ cs'[i] \in ConsensusState
      <4>1. cs \in [Node -> ConsensusState] /\ cs' \in [Node -> ConsensusState]
        BY Zenon DEF TypeOK
      <4> QED
        BY <4>1
    <3> QED
      BY <3>1, EngineAssumption DEF ConsensusState, Block, View, Slot
  <2> QED
    BY <1>2, <2>1 DEF Spent, Forward, SameHeight
<1> QED
  BY <1>1, <1>2

\* A step that goes forward, and adds no fallback block, keeps the invariant.
LEMMA ForwardFallback ==
    ASSUME TypeOK, TypeOK', FallbackInv, NEW i \in Node, Forward(i), Elsewhere(i),
           \A p \in proposals' : p \in proposals \/ ~IsFallback(p)
    PROVE  FallbackInv'
<1>1. \A j \in Node : SameHeight(disk'[j], cs'[j])
  <2> TAKE j \in Node
  <2>1. CASE j = i
    BY <2>1, Zenon DEF Forward
  <2>2. CASE j # i
    BY <2>2, Zenon DEF Elsewhere, FallbackInv
  <2> QED
    BY <2>1, <2>2
<1>2. ASSUME NEW p \in proposals', IsFallback(p)
      PROVE  Spent(ProposerOf(p.block), p.block)'
  <2>1. p \in proposals /\ p.block \in Block
    BY <1>2, MessageTypes DEF Proposal
  <2>2. Spent(ProposerOf(p.block), p.block) /\ ProposerOf(p.block) \in Node
    BY <1>2, <2>1, ProposerIsNode, Zenon DEF FallbackInv
  <2> QED
    BY <2>1, <2>2, ForwardSpent, Zenon
<1>3. OneFallbackPerView'
  <2> SUFFICES ASSUME NEW p \in proposals', NEW q \in proposals',
                      Ballot(p.block) = Ballot(q.block),
                      p.block.view > 0, ProposerOf(p.block) \notin Byz
               PROVE  p = q
    BY Zenon DEF OneFallbackPerView
  <2>1. q.block.view = p.block.view /\ q.block.slot = p.block.slot
    BY DEF Ballot
  <2>2. IsFallback(p) /\ IsFallback(q)
    BY <2>1, Zenon DEF IsFallback, ProposerOf
  <2>3. p \in proposals /\ q \in proposals
    BY <2>2, Zenon
  <2> QED
    BY <2>3, Zenon DEF FallbackInv, OneFallbackPerView
<1> QED
  BY <1>1, <1>2, <1>3, Zenon DEF FallbackInv, IsFallback, ProposerOf, fallback_leader_index

\* Commit advances the target and replaces the tracker, or leaves both.
LEMMA CommitForward ==
    ASSUME TypeOK, NEW i \in Node, NEW b \in Block,
           NEW c \in ConsensusState, NEW d \in ConsensusState,
           SameHeight(c, cs[i]), SameHeight(d, cs[i]),
           NEW buf, NEW bod, Commit(i, b, c, d, buf, bod), built' = built
    PROVE  Forward(i) /\ Elsewhere(i)
<1> DEFINE moved == HasBody(b, buf, bod) /\ Changes(i, b)
           next == advance_target_height(c, b.slot + 1)
           advanced == moved /\ b.slot + 1 > c.target
<1>1. /\ cs' = [cs EXCEPT ![i] = IF moved THEN next ELSE c]
      /\ disk' = [disk EXCEPT ![i] = IF advanced THEN next ELSE d]
      /\ timeout' = IF advanced THEN [timeout EXCEPT ![i] = NewTracker(b.slot + 1)]
                    ELSE timeout
  BY Zenon DEF Commit
<1>2. b.slot + 1 > c.target => next.target > c.target
  BY DEF advance_target_height, ConsensusState
<1>3. ~(b.slot + 1 > c.target) => next = c
  BY Zenon DEF advance_target_height
<1> HIDE DEF moved, next
<1>4. Elsewhere(i)
  <2> SUFFICES ASSUME NEW j \in Node \ {i}
               PROVE  /\ cs'[j] = cs[j] /\ disk'[j] = disk[j]
                      /\ timeout'[j] = timeout[j] /\ built'[j] = built[j]
    BY Zenon DEF Elsewhere
  <2>1. timeout'[j] = timeout[j]
    BY <1>1, StateTypes
  <2>2. cs'[j] = cs[j] /\ disk'[j] = disk[j]
    BY <1>1, StateTypes
  <2> QED
    BY <2>1, <2>2
<1>5. CASE advanced
  <2>1. cs'[i] = next /\ disk'[i] = next
    BY <1>1, <1>5, StateTypes
  <2> QED
    BY <1>2, <1>4, <1>5, <2>1, Zenon DEF Forward, SameHeight
<1>6. CASE ~advanced
  <2>1. cs'[i] = c /\ disk'[i] = d /\ timeout' = timeout
    BY <1>1, <1>3, <1>6, StateTypes
  <2> QED
    BY <1>4, <2>1, Zenon DEF Forward, SameHeight
<1> QED
  BY <1>5, <1>6

\* Raising highest_qc leaves the target and the view.
LEMMA RaiseHeight ==
    ASSUME NEW c \in ConsensusState, NEW b
    PROVE  SameHeight([c EXCEPT !.hq = b], c)
  BY DEF SameHeight, ConsensusState

\* Being at the same height is an equivalence.
LEMMA SameHeightEquiv ==
    ASSUME NEW c, NEW d, NEW e
    PROVE  /\ SameHeight(c, c)
           /\ SameHeight(c, d) => SameHeight(d, c)
           /\ SameHeight(c, d) /\ SameHeight(d, e) => SameHeight(c, e)
  BY DEF SameHeight

\* A handler that writes node i's state at the same height, and no tracker.
LEMMA QuietForward ==
    ASSUME TypeOK, NEW i \in Node, NEW c, NEW d, SameHeight(c, cs[i]), SameHeight(d, cs[i]),
           cs' = [cs EXCEPT ![i] = c], disk' = [disk EXCEPT ![i] = d],
           timeout' = timeout, built' = built
    PROVE  Forward(i) /\ Elsewhere(i)
<1>1. cs'[i] = c /\ disk'[i] = d
  BY StateTypes
<1>2. Forward(i)
  BY <1>1, Zenon DEF Forward, SameHeight
<1>3. Elsewhere(i)
  BY StateTypes DEF Elsewhere
<1> QED
  BY <1>2, <1>3

\* on_vote, with the commit it may lead to, only goes forward.
LEMMA OnVoteForward ==
    ASSUME TypeOK, NEW i \in Node, NEW m \in Node \X Block,
           NEW c \in ConsensusState, NEW d \in ConsensusState,
           SameHeight(c, cs[i]), SameHeight(d, cs[i]), on_vote(i, m, c, d), built' = built
    PROVE  Forward(i) /\ Elsewhere(i)
<1> DEFINE raised == Certifies(m[2], votes[i] \cup {m}) /\ m[2].slot > c.hq.slot
           up == [c EXCEPT !.hq = m[2]]
           c1 == IF raised THEN up ELSE c
           d1 == IF raised THEN c1 ELSE d
<1>1. m[2] \in Block
  OBVIOUS
<1>2. \/ Commit(i, m[2], c1, d1, buffered[i], bodies[i])
      \/ cs' = [cs EXCEPT ![i] = c] /\ disk' = [disk EXCEPT ![i] = d] /\ timeout' = timeout
  BY Zenon DEF on_vote
<1>3. up \in ConsensusState /\ SameHeight(up, cs[i])
  <2>1. up \in ConsensusState /\ SameHeight(up, c)
    BY <1>1, RaiseType, RaiseHeight, Zenon
  <2> QED
    BY <2>1, SameHeightEquiv
<1> HIDE DEF raised, up
<1>4. c1 \in ConsensusState /\ d1 \in ConsensusState
      /\ SameHeight(c1, cs[i]) /\ SameHeight(d1, cs[i])
  BY <1>3, Zenon
<1> HIDE DEF c1, d1
<1>5. CASE Commit(i, m[2], c1, d1, buffered[i], bodies[i])
  BY <1>1, <1>4, <1>5, CommitForward, Zenon
<1>6. CASE cs' = [cs EXCEPT ![i] = c] /\ disk' = [disk EXCEPT ![i] = d] /\ timeout' = timeout
  BY <1>6, QuietForward, Zenon
<1> QED
  BY <1>2, <1>5, <1>6

\* The ballots before the target height and view of c.
Below(c, b) == b.slot < c.target \/ (b.slot = c.target /\ b.view < c.view)

\* Building a fallback at (c.target, c.view), when what node i built before is
\* for earlier ballots.
LEMMA BuildFallbackKeeps ==
    ASSUME TypeOK, TypeOK', FallbackInv, NEW i \in Node, NEW c \in ConsensusState,
           NEW t, NEW buf, MayBuildFallback(i, c, t, buf), BuildFallback(i, c, t, buf),
           cs'[i] = c, SameHeight(disk'[i], c),
           \A j \in Node \ {i} : cs'[j] = cs[j] /\ disk'[j] = disk[j] /\ timeout'[j] = timeout[j],
           \A q \in proposals : IsFallback(q) /\ ProposerOf(q.block) = i => Below(c, q.block)
    PROVE  FallbackInv'
<1> DEFINE p == [block |-> FreshBlock(c.target, c.view), qc |-> c.hq]
<1>1. /\ proposals' = proposals \cup {p}
      /\ built' = [built EXCEPT ![i][c.target] = c.view]
      /\ fallback_leader_index(c.target, c.view) = i
  BY Zenon DEF BuildFallback, MayBuildFallback
<1>2. c.target \in Slot
  BY EngineAssumption DEF MayBuildFallback, ConsensusState, Slot
<1>3. /\ p.block.slot = c.target /\ p.block.view = c.view /\ ProposerOf(p.block) = i
      /\ Ballot(p.block) = <<c.target, c.view>>
  BY <1>1 DEF FreshBlock, ProposerOf, Ballot
<1> HIDE DEF p
<1>4. /\ built'[i][c.target] = c.view
      /\ \A j \in Node \ {i} : built'[j] = built[j]
  BY <1>1, <1>2, PoolTypes
<1>5. \A j \in Node : SameHeight(disk'[j], cs'[j])
  BY Zenon DEF FallbackInv
<1>6. ASSUME NEW q \in proposals', IsFallback(q) PROVE Spent(ProposerOf(q.block), q.block)'
  <2>1. CASE q = p
    BY <1>3, <1>4, <2>1, Zenon DEF Spent
  <2>2. CASE q # p /\ ProposerOf(q.block) = i
    <3>1. Below(c, q.block)
      BY <1>1, <1>6, <2>2, Zenon
    <3> QED
      BY <2>2, <3>1, Zenon DEF Below, Spent
  <2>3. CASE q # p /\ ProposerOf(q.block) # i
    <3>1. q \in proposals /\ q.block \in Block
      BY <1>1, <2>3, MessageTypes DEF Proposal
    <3>2. ProposerOf(q.block) \in Node \ {i} /\ Spent(ProposerOf(q.block), q.block)
      BY <1>6, <2>3, <3>1, ProposerIsNode, Zenon DEF FallbackInv
    <3> HIDE DEF IsFallback
    <3> QED
      BY <1>4, <3>2, Zenon DEF Spent
  <2> QED
    BY <2>1, <2>2, <2>3, Zenon
<1>7. OneFallbackPerView'
  <2>1. ASSUME NEW q \in proposals, Ballot(q.block) = Ballot(p.block),
               q.block.view > 0, ProposerOf(q.block) \notin Byz
        PROVE  FALSE
    <3>1. q.block.slot = c.target /\ q.block.view = c.view
      BY <1>3, <2>1 DEF Ballot
    <3>2. ProposerOf(q.block) = i /\ IsFallback(q)
      BY <1>1, <2>1, <3>1, Zenon DEF ProposerOf, IsFallback
    <3>3. Below(c, q.block)
      BY <3>2, Zenon
    <3> QED
      BY <3>1, <3>3 DEF Below, ConsensusState, View
  <2>2. ASSUME NEW q \in proposals', NEW r \in proposals', Ballot(q.block) = Ballot(r.block),
               q.block.view > 0, ProposerOf(q.block) \notin Byz
        PROVE  q = r
    <3>1. r.block.view = q.block.view /\ ProposerOf(r.block) = ProposerOf(q.block)
      BY <2>2 DEF Ballot, ProposerOf
    <3>2. CASE q \in proposals /\ r \in proposals
      BY <2>2, <3>2, Zenon DEF FallbackInv, OneFallbackPerView
    <3>3. CASE q = p /\ r \in proposals
      <4>1. r.block.view > 0 /\ ProposerOf(r.block) \notin Byz
        BY <2>2, <3>1, Zenon
      <4> QED
        BY <2>1, <2>2, <3>3, <4>1, Zenon
    <3>4. CASE r = p /\ q \in proposals
      BY <2>1, <2>2, <3>4, Zenon
    <3> QED
      BY <1>1, <2>2, <3>2, <3>3, <3>4
  <2> QED
    BY <2>2, Zenon DEF OneFallbackPerView
<1> QED
  BY <1>5, <1>6, <1>7, Zenon DEF FallbackInv, IsFallback, ProposerOf, fallback_leader_index

\* on_view_change: a first view-change QC bumps the view, and a block is built
\* for a view of which none was built since the view was bumped.
LEMMA OnViewChangeFallback ==
    ASSUME TypeOK, TypeOK', FallbackInv, NEW i \in Node, NEW m, NEW own,
           on_view_change(i, m, own)
    PROVE  FallbackInv'
<1> DEFINE bumped == [cs[i] EXCEPT !.view = @ + 1]
<1>1. PICK c, t, buf :
        /\ cs' = [cs EXCEPT ![i] = c]
        /\ timeout' = [timeout EXCEPT ![i] = t]
        /\ \/ c = bumped /\ disk' = [disk EXCEPT ![i] = c]
           \/ c = cs[i] /\ t = timeout[i] /\ disk' = disk
        /\ BuildFallback(i, c, t, buf) \/ UNCHANGED <<proposals, bodies, built>>
  BY ZenonT(30) DEF on_view_change
<1>2. bumped.target = cs[i].target /\ bumped.view = cs[i].view + 1
  BY StateTypes DEF ConsensusState
<1> HIDE DEF bumped
<1>3. /\ cs'[i] = c /\ timeout'[i] = t
      /\ disk'[i] = c \/ (c = cs[i] /\ disk'[i] = disk[i])
      /\ \A j \in Node \ {i} : cs'[j] = cs[j] /\ disk'[j] = disk[j] /\ timeout'[j] = timeout[j]
  BY <1>1, StateTypes
<1>4. SameHeight(disk'[i], c) /\ c \in ConsensusState
  <2>1. SameHeight(disk[i], cs[i])
    BY Zenon DEF FallbackInv
  <2>2. cs'[i] \in ConsensusState
    BY Zenon DEF TypeOK
  <2> QED
    BY <1>3, <2>1, <2>2, Zenon DEF SameHeight
<1>5. cs[i].target \in Nat /\ cs[i].view \in Nat
  BY StateTypes, EngineAssumption DEF ConsensusState, View
<1>6. CASE UNCHANGED <<proposals, built>>
  <2>1. Forward(i) /\ Elsewhere(i)
    BY <1>1, <1>2, <1>3, <1>4, <1>5, <1>6 DEF Forward, Elsewhere, SameHeight
  <2> QED
    BY <1>6, <2>1, ForwardFallback, Zenon
<1>7. CASE MayBuildFallback(i, c, t, buf) /\ BuildFallback(i, c, t, buf)
  <2>1. ASSUME NEW q \in proposals, IsFallback(q), ProposerOf(q.block) = i
        PROVE  Below(c, q.block)
    <3>1. Spent(i, q.block) /\ q.block \in Block
      <4>1. Spent(i, q.block)
        BY <2>1, Zenon DEF FallbackInv
      <4>2. q.block \in Block
        BY MessageTypes DEF Proposal
      <4> QED
        BY <4>1, <4>2
    <3>2. q.block.slot \in Nat /\ q.block.view \in Nat
      BY <3>1 DEF Block, View
    <3>3. CASE c = bumped
      BY <1>2, <1>5, <3>1, <3>2, <3>3 DEF Spent, Below
    <3>4. CASE c = cs[i] /\ t = timeout[i]
      <4>1. built[i][cs[i].target] < cs[i].view /\ timeout[i].vcqc
        BY <1>7, <3>4, Zenon DEF MayBuildFallback
      <4> QED
        BY <1>5, <3>1, <3>2, <3>4, <4>1 DEF Spent, Below
    <3> QED
      BY <1>1, <3>3, <3>4
  <2> QED
    BY <1>3, <1>4, <1>7, <2>1, BuildFallbackKeeps, ZenonT(30)
<1> QED
  BY <1>1, <1>6, <1>7, Zenon DEF BuildFallback

\* The steps of node i that build no fallback go forward.
LEMMA CodeForward ==
    ASSUME TypeOK, FallbackInv, NEW i \in Up,
           \/ Propose(i) \/ SelectAndVote(i) \/ AdvanceSlot(i) \/ Restart(i)
           \/ \E p \in proposals : RecvProposal(i, p) \/ RecvBody(i, p.block)
           \/ \E b \in wanted[i] : RecoverBody(i, b)
           \/ \E m \in votesOut : RecvVote(i, m)
           \/ \E b \in qcOut : RecvQc(i, b)
           \/ \E j \in Up \ {i} : Sync(i, j)
    PROVE  Forward(i) /\ Elsewhere(i)
<1>0. /\ i \in Node /\ cs[i] \in ConsensusState /\ disk[i] \in ConsensusState
      /\ SameHeight(cs[i], cs[i]) /\ SameHeight(disk[i], cs[i])
  BY UpIsNode, StateTypes DEF FallbackInv, SameHeight
<1>1. ASSUME UNCHANGED <<cs, disk, timeout, built>> PROVE Forward(i) /\ Elsewhere(i)
  BY <1>0, <1>1, Zenon DEF Forward, Elsewhere, SameHeight
<1>2. CASE Propose(i)
  BY <1>1, <1>2, Zenon DEF Propose
<1>3. CASE SelectAndVote(i)
  <2>1. PICK p \in buffered[i] :
          on_vote(i, <<i, p.block>>, create_vote(p, cs[i]), create_vote(p, cs[i]))
    BY <1>3, Zenon DEF SelectAndVote, select_and_vote
  <2>2. built' = built
    BY <1>3, Zenon DEF SelectAndVote
  <2>3. p \in Proposal /\ p.block \in Block
    <3>1. buffered \in [Node -> SUBSET Proposal]
      BY PoolTypes, Zenon
    <3>2. p \in Proposal
      BY <1>0, <3>1
    <3> QED
      BY <3>2 DEF Proposal
  <2> DEFINE c == create_vote(p, cs[i])
             v == <<i, p.block>>
  <2>4. c \in ConsensusState /\ v \in Node \X Block
    BY <1>0, <2>3, CreateVoteType
  <2>5. SameHeight(c, cs[i])
    BY <1>0 DEF create_vote, SameHeight, ConsensusState
  <2>6. on_vote(i, v, c, c)
    BY <2>1
  <2> HIDE DEF c, v
  <2> QED
    BY <1>0, <2>2, <2>4, <2>5, <2>6, OnVoteForward, Zenon
<1>4. CASE AdvanceSlot(i)
  <2>1. PICK x \in IF "stall" \in Delivery THEN 0 .. MaxHeight + 1 ELSE {0} :
                 /\ built' = [built EXCEPT ![i] =
                       [s \in Slot |->
                          IF s < (IF x < cs[i].target THEN x ELSE cs[i].target) THEN 0
                          ELSE built[i][s]]]
                 /\ disk' = [disk EXCEPT ![i] = cs[i]]
                 /\ UNCHANGED <<cs, timeout>>
    BY <1>4, Zenon DEF AdvanceSlot
  <2> DEFINE floor == IF x < cs[i].target THEN x ELSE cs[i].target
             kept == [s \in Slot |-> IF s < floor THEN 0 ELSE built[i][s]]
  <2>. x \in Int
    BY EngineAssumption
  <2>2. ASSUME NEW s \in Slot, s = cs[i].target PROVE kept[s] = built[i][s]
    <3>1. ~(s < floor)
      BY <1>0, <2>2, EngineAssumption, x \in Int DEF ConsensusState, Slot
    <3> QED
      BY <3>1
  <2>3. built'[i] = kept /\ \A j \in Node \ {i} : built'[j] = built[j]
    BY <1>0, <2>1, PoolTypes
  <2>4. disk'[i] = cs[i] /\ \A j \in Node \ {i} : disk'[j] = disk[j]
    BY <1>0, <2>1, StateTypes
  <2> HIDE DEF kept
  <2> QED
    BY <2>1, <2>2, <2>3, <2>4, Zenon DEF Forward, Elsewhere, SameHeight
<1>5. CASE Restart(i)
  <2>1. /\ cs' = [cs EXCEPT ![i] = disk[i]] /\ disk' = disk
        /\ timeout' = [timeout EXCEPT ![i] = NewTracker(1)]
        /\ built' = [built EXCEPT ![i] = [s \in Slot |-> 0]]
    BY <1>5, Zenon DEF Restart, attach_consensus_store
  <2>2. cs'[i] = disk[i] /\ \A j \in Node \ {i} : cs'[j] = cs[j]
    BY <1>0, <2>1, StateTypes
  <2>3. ~timeout'[i].vcqc /\ \A j \in Node \ {i} : timeout'[j] = timeout[j]
    BY <1>0, <2>1, StateTypes DEF NewTracker
  <2>4. \A j \in Node \ {i} : built'[j] = built[j]
    BY <1>0, <2>1, PoolTypes
  <2> QED
    BY <1>0, <2>1, <2>2, <2>3, <2>4, Zenon DEF Forward, Elsewhere, SameHeight
<1>6. ASSUME NEW p \in proposals, RecvProposal(i, p) PROVE Forward(i) /\ Elsewhere(i)
  <2> DEFINE c == [cs[i] EXCEPT !.hq = p.qc]
  <2>1. \/ \E buf, bod : Commit(i, p.qc, c, disk[i], buf, bod)
        \/ UNCHANGED <<cs, disk, timeout>>
    BY <1>6, Zenon DEF RecvProposal
  <2>2. built' = built
    BY <1>6, Zenon DEF RecvProposal
  <2>3. p.qc \in Block
    BY MessageTypes DEF Proposal
  <2>4. c \in ConsensusState /\ SameHeight(c, cs[i])
    BY <1>0, <2>3, RaiseType, RaiseHeight, Zenon
  <2> HIDE DEF c
  <2> QED
    BY <1>0, <1>1, <2>1, <2>2, <2>3, <2>4, CommitForward, Zenon
<1>7. ASSUME NEW b, RecvBody(i, b) PROVE Forward(i) /\ Elsewhere(i)
  BY <1>1, <1>7, Zenon DEF RecvBody, pools
<1>8. ASSUME NEW b \in wanted[i], RecoverBody(i, b) PROVE Forward(i) /\ Elsewhere(i)
  <2>1. Commit(i, b, cs[i], disk[i], buffered[i], bodies[i] \cup {b}) /\ built' = built
    BY <1>8, Zenon DEF RecoverBody, pools
  <2>2. b \in Block
    BY <1>0, BodyTypes
  <2> QED
    BY <1>0, <2>1, <2>2, CommitForward, Zenon
<1>9. ASSUME NEW m \in votesOut, RecvVote(i, m) PROVE Forward(i) /\ Elsewhere(i)
  <2>1. on_vote(i, m, cs[i], disk[i]) /\ built' = built
    BY <1>9, Zenon DEF RecvVote, pools
  <2>2. m \in Node \X Block
    BY MessageTypes
  <2> QED
    BY <1>0, <2>1, <2>2, OnVoteForward, Zenon
<1>10. ASSUME NEW b \in qcOut, RecvQc(i, b) PROVE Forward(i) /\ Elsewhere(i)
  <2> DEFINE up == [cs[i] EXCEPT !.hq = b]
             c == IF b.slot > cs[i].hq.slot THEN up ELSE cs[i]
  <2>1. Commit(i, b, c, disk[i], buffered[i], bodies[i]) /\ built' = built
    BY <1>10, Zenon DEF RecvQc, pools
  <2>2. b \in Block
    BY MessageTypes
  <2>3. up \in ConsensusState /\ SameHeight(up, cs[i])
    BY <1>0, <2>2, RaiseType, RaiseHeight, Zenon
  <2> HIDE DEF up
  <2>4. c \in ConsensusState /\ SameHeight(c, cs[i])
    BY <1>0, <2>3, Zenon
  <2> HIDE DEF c
  <2> QED
    BY <1>0, <2>1, <2>2, <2>4, CommitForward, Zenon
<1>11. ASSUME NEW j \in Up \ {i}, Sync(i, j) PROVE Forward(i) /\ Elsewhere(i)
  <2> DEFINE h == head_slot[i] + 2
             next == advance_target_height(cs[i], head_slot[i] + 1 + 1)
             advanced == head_slot[i] + 1 + 1 > cs[i].target
  <2>1. /\ cs' = [cs EXCEPT ![i] = next]
        /\ disk' = IF advanced THEN [disk EXCEPT ![i] = next] ELSE disk
        /\ timeout' = IF advanced THEN [timeout EXCEPT ![i] = NewTracker(head_slot[i] + 1 + 1)]
                      ELSE timeout
        /\ built' = built
    BY <1>11, Zenon DEF Sync, pools
  <2>2. advanced => next.target > cs[i].target
    BY <1>0, ChainTypes DEF advance_target_height, ConsensusState
  <2>3. ~advanced => next = cs[i]
    BY Zenon DEF advance_target_height
  <2> HIDE DEF next, advanced
  <2>4. /\ cs'[i] = next /\ disk'[i] = IF advanced THEN next ELSE disk[i]
        /\ ~advanced => timeout' = timeout
    BY <1>0, <2>1, StateTypes
  <2>5. Elsewhere(i)
    <3> SUFFICES ASSUME NEW k \in Node \ {i}
                 PROVE  cs'[k] = cs[k] /\ disk'[k] = disk[k] /\ timeout'[k] = timeout[k]
      BY <2>1, Zenon DEF Elsewhere
    <3>1. cs'[k] = cs[k] /\ disk'[k] = disk[k]
      BY <2>1, StateTypes
    <3>2. timeout'[k] = timeout[k]
      BY <2>1, StateTypes
    <3> QED
      BY <3>1, <3>2
  <2>6. CASE advanced
    BY <2>2, <2>4, <2>5, <2>6, Zenon DEF Forward, SameHeight
  <2>7. CASE ~advanced
    BY <1>0, <2>1, <2>3, <2>4, <2>5, <2>7, Zenon DEF Forward, SameHeight
  <2> QED
    BY <2>6, <2>7
<1> QED
  BY <1>2, <1>3, <1>4, <1>5, <1>6, <1>7, <1>8, <1>9, <1>10, <1>11, Zenon

\* At the start no fallback block was built.
LEMMA InitFallback == Init => FallbackInv
  BY Zenon DEF Init, FallbackInv, OneFallbackPerView, SameHeight

\* Every step keeps what is spent spent, and fallback blocks one per view.
LEMMA NextFallback == TypeOK /\ TypeOK' /\ FallbackInv /\ [Next]_vars => FallbackInv'
<1> SUFFICES ASSUME TypeOK, TypeOK', FallbackInv, [Next]_vars PROVE FallbackInv'
  OBVIOUS
<1>1. CASE UNCHANGED vars
  BY <1>1, Zenon DEF vars, FallbackInv, OneFallbackPerView, SameHeight, Spent
<1>2. ASSUME NEW i \in Up, NEW m, NEW own, on_view_change(i, m, own) PROVE FallbackInv'
  BY <1>2, UpIsNode, OnViewChangeFallback, Zenon
<1>3. ASSUME NEW i \in Up, Propose(i) PROVE FallbackInv'
  <2>1. proposals' = proposals \cup {[block |-> FreshBlock(cs[i].target, 0), qc |-> cs[i].hq]}
    BY <1>3, Zenon DEF Propose
  <2>2. \A p \in proposals' : p \in proposals \/ ~IsFallback(p)
    BY <2>1 DEF IsFallback, FreshBlock
  <2>3. Forward(i) /\ Elsewhere(i) /\ i \in Node
    BY <1>3, CodeForward, UpIsNode, Zenon
  <2> QED
    BY <2>2, <2>3, ForwardFallback, Zenon
<1>4. ASSUME NEW i \in Up, proposals' = proposals, Forward(i), Elsewhere(i) PROVE FallbackInv'
  BY <1>4, UpIsNode, ForwardFallback, Zenon
<1>5. ASSUME NEW i \in Up, SelectAndVote(i) \/ AdvanceSlot(i) \/ Restart(i) PROVE FallbackInv'
  <2>1. proposals' = proposals
    BY <1>5, Zenon DEF SelectAndVote, AdvanceSlot, Restart, network
  <2>2. Forward(i) /\ Elsewhere(i)
    BY <1>5, CodeForward, Zenon
  <2> QED
    BY <1>4, <2>1, <2>2
<1>6. ASSUME NEW i \in Up, Receive(i), ~ \E m : on_view_change(i, m, FALSE) PROVE FallbackInv'
  <2>1. \/ \E p \in proposals : RecvProposal(i, p) \/ RecvBody(i, p.block)
        \/ \E b \in wanted[i] : RecoverBody(i, b)
        \/ \E m \in votesOut : RecvVote(i, m)
        \/ \E b \in qcOut : RecvQc(i, b)
        \/ \E j \in Up \ {i} : Sync(i, j)
    BY <1>6, Zenon DEF Receive, RecvViewChange
  <2>2. proposals' = proposals
    BY <2>1, Zenon DEF RecvProposal, RecvBody, RecoverBody, RecvVote, RecvQc, Sync, network
  <2>3. Forward(i) /\ Elsewhere(i)
    BY <2>1, CodeForward, Zenon
  <2> QED
    BY <1>4, <2>2, <2>3
<1>7. ASSUME NEW i \in Byz, OtherCode(i) PROVE FallbackInv'
  <2>1. UNCHANGED <<disk, cs, timeout, built>>
    BY <1>7, Zenon DEF OtherCode, pools
  <2>2. \/ \E s \in Slot, v \in View : \E q :
              /\ fallback_leader_index(s, v) = i
              /\ proposals' = proposals \cup {[block |-> FreshBlock(s, v), qc |-> q]}
        \/ proposals' = proposals
    BY <1>7, Zenon DEF OtherCode
  <2>3. \A p \in proposals' : p \in proposals \/ ~IsFallback(p)
    <3>1. CASE proposals' = proposals
      BY <3>1, Zenon
    <3>2. ASSUME NEW s \in Slot, NEW v \in View, NEW q, fallback_leader_index(s, v) = i,
                 proposals' = proposals \cup {[block |-> FreshBlock(s, v), qc |-> q]}
          PROVE  \A p \in proposals' : p \in proposals \/ ~IsFallback(p)
      <4>1. FreshBlock(s, v).slot = s /\ FreshBlock(s, v).view = v
        BY DEF FreshBlock
      <4>2. ProposerOf(FreshBlock(s, v)) = i
        BY <3>2, <4>1, Zenon DEF ProposerOf
      <4> QED
        <5> SUFFICES ASSUME NEW p \in proposals', p \notin proposals PROVE ~IsFallback(p)
          OBVIOUS
        <5>1. p.block = FreshBlock(s, v)
          BY <3>2
        <5> QED
          BY <4>2, <5>1, Zenon DEF IsFallback
    <3> QED
      BY <2>2, <3>1, <3>2, Zenon
  <2>4. i \in Node /\ Forward(i) /\ Elsewhere(i)
    <3>1. i \in Node
      BY EngineAssumption, Zenon DEF Node
    <3> QED
      BY <2>1, <3>1, Zenon DEF Forward, Elsewhere, SameHeight, FallbackInv
  <2> QED
    BY <2>3, <2>4, ForwardFallback, Zenon
<1> QED
  BY <1>1, <1>2, <1>3, <1>5, <1>6, <1>7, Zenon DEF Next, Timeout

\* A fallback leader that runs this code signs at most one block per (slot,
\* view), whatever crashes come between: persist_consensus follows the bump of
\* the view, and try_build_fallback_proposal needs a view-change QC gathered
\* since the last restart.
THEOREM FallbackOnce == Spec => []OneFallbackPerView
<1>1. FallbackInv => OneFallbackPerView
  BY Zenon DEF FallbackInv
<1> QED
  BY <1>1, InitType, NextType, InitFallback, NextFallback, PTL DEF Spec

------------------------------------------------------------------------------
(***************************************************************************)
(* One view change per slot.  What a member signed is in its persisted     *)
(* table of own view changes, which on_timeout consults.  The table is     *)
(* pruned more than ten slots below the wall clock, so the argument needs  *)
(* that the clock does not run that far ahead of a stuck target.           *)
(***************************************************************************)
ViewChangeInv ==
    /\ \A m \in vcOut : m[1] \notin Byz => <<m[2], m[3]>> \in vcSelf[m[1]]
    /\ \A i \in Node : \A x, y \in vcSelf[i] : x[1] = y[1] => x = y

\* At the start no view change was signed.
LEMMA InitViewChange == Init => ViewChangeInv
  BY DEF Init, ViewChangeInv

\* A timeout (on_timeout) keeps the table of own view changes complete.
LEMMA TimeoutViewChange ==
    ASSUME TypeOK, ViewChangeInv, NEW i \in Node, Timeout(i)
    PROVE  ViewChangeInv'
<1> DEFINE s == cs[i].target
           h == cs[i].hq
<1>1. /\ vcSelf' = [vcSelf EXCEPT ![i] = @ \cup {<<s, h>>}]
      /\ vcOut' = vcOut \cup {<<i, s, h>>}
      /\ \A x \in vcSelf[i] : x[1] = s => x[2] = h
  BY Zenon DEF Timeout, MaySignViewChange
<1> HIDE DEF s, h
<1>2. \A x \in vcSelf[i] : x = <<x[1], x[2]>>
  BY SeenTypes
<1>3. /\ vcSelf'[i] = vcSelf[i] \cup {<<s, h>>}
      /\ \A j \in Node \ {i} : vcSelf'[j] = vcSelf[j]
  BY <1>1, SeenTypes
<1>4. ASSUME NEW m \in vcOut', m[1] \notin Byz PROVE <<m[2], m[3]>> \in vcSelf'[m[1]]
  <2>1. CASE m = <<i, s, h>>
    BY <1>3, <2>1
  <2>2. CASE m \in vcOut
    <3>1. m[1] \in Node
      BY <2>2, MessageTypes
    <3>2. <<m[2], m[3]>> \in vcSelf[m[1]]
      BY <1>4, <2>2, Zenon DEF ViewChangeInv
    <3> QED
      BY <1>3, <3>1, <3>2, Zenon
  <2> QED
    BY <1>1, <2>1, <2>2
<1>5. ASSUME NEW j \in Node, NEW x \in vcSelf'[j], NEW y \in vcSelf'[j], x[1] = y[1]
      PROVE  x = y
  <2>1. CASE j # i
    BY <1>3, <1>5, <2>1, Zenon DEF ViewChangeInv
  <2>2. CASE j = i
    <3>1. CASE x \in vcSelf[i] /\ y \in vcSelf[i]
      BY <1>5, <3>1, Zenon DEF ViewChangeInv
    <3>2. CASE x \in vcSelf[i] /\ y = <<s, h>>
      BY <1>1, <1>2, <1>5, <3>2
    <3>3. CASE x = <<s, h>> /\ y \in vcSelf[i]
      BY <1>1, <1>2, <1>5, <3>3
    <3>4. CASE x = <<s, h>> /\ y = <<s, h>>
      BY <3>4
    <3> QED
      BY <1>3, <1>5, <2>2, <3>1, <3>2, <3>3, <3>4
  <2> QED
    BY <2>1, <2>2
<1> QED
  BY <1>4, <1>5, Zenon DEF ViewChangeInv

\* Every step keeps the table of own view changes complete.
LEMMA NextViewChange ==
    ASSUME "stall" \notin Delivery
    PROVE  TypeOK /\ ViewChangeInv /\ [Next]_vars => ViewChangeInv'
<1> SUFFICES ASSUME TypeOK, ViewChangeInv, [Next]_vars PROVE ViewChangeInv'
  OBVIOUS
<1>1. CASE UNCHANGED <<vcOut, vcSelf>>
  BY <1>1, Zenon DEF ViewChangeInv
<1>2. CASE UNCHANGED vars
  BY <1>1, <1>2, Zenon DEF vars
<1>3. ASSUME NEW i \in Up, Propose(i) \/ SelectAndVote(i) \/ Restart(i) PROVE ViewChangeInv'
  BY <1>1, <1>3, Zenon DEF Propose, SelectAndVote, Restart, network
<1>4. ASSUME NEW i \in Up, Receive(i) PROVE ViewChangeInv'
  <2>1. UNCHANGED <<vcOut, vcSelf>>
    BY <1>4, Zenon DEF Receive, RecvProposal, RecvBody, RecoverBody, RecvVote, RecvQc,
                       RecvViewChange, Sync, network
  <2> QED
    BY <1>1, <2>1
<1>5. ASSUME NEW i \in Up, AdvanceSlot(i) PROVE ViewChangeInv'
  <2>1. /\ vcSelf' = [vcSelf EXCEPT ![i] = {x \in vcSelf[i] : x[1] >= 0}]
        /\ vcOut' = vcOut
    <3>1. PICK before \in {0} :
              /\ vcSelf' = [vcSelf EXCEPT ![i] = {x \in @ : x[1] >= before}]
              /\ vcOut' = vcOut
      BY <1>5, Zenon DEF AdvanceSlot, network
    <3> QED
      BY <3>1
  <2>2. {x \in vcSelf[i] : x[1] >= 0} = vcSelf[i]
    BY <1>5, UpIsNode, SeenTypes, EngineAssumption DEF Slot
  <2>3. vcSelf' = vcSelf
    BY <2>1, <2>2, SeenTypes
  <2> QED
    BY <1>1, <2>1, <2>3
<1>6. ASSUME NEW i \in Up, Timeout(i) PROVE ViewChangeInv'
  BY <1>6, TimeoutViewChange, UpIsNode, Zenon
<1>7. ASSUME NEW i \in Byz, OtherCode(i) PROVE ViewChangeInv'
  <2>1. vcSelf' = vcSelf /\ (vcOut' = vcOut \/ \E s \in Slot : vcOut' = vcOut \cup {<<i, s, Genesis>>})
    BY <1>7, Zenon DEF OtherCode
  <2>2. \A m \in vcOut' : m \in vcOut \/ m[1] \in Byz
    BY <2>1
  <2> QED
    BY <2>1, <2>2, Zenon DEF ViewChangeInv
<1> QED
  BY <1>2, <1>3, <1>4, <1>5, <1>6, <1>7, Zenon DEF Next

\* A validator signs at most one view change per slot, over any number of
\* restarts, as long as the wall clock stays within ten slots of its target:
\* the guard of on_timeout reads a table that was persisted before sending.
THEOREM ViewChangeOnce ==
    ASSUME "stall" \notin Delivery PROVE Spec => []OneViewChangePerSlot
<1>1. TypeOK /\ ViewChangeInv => OneViewChangePerSlot
  <2> SUFFICES ASSUME TypeOK, ViewChangeInv, NEW m \in vcOut, NEW n \in vcOut,
                      m[1] = n[1], m[2] = n[2], m[1] \notin Byz
               PROVE  m = n
    BY Zenon DEF OneViewChangePerSlot
  <2>1. /\ m[1] \in Node /\ m = <<m[1], m[2], m[3]>> /\ n = <<n[1], n[2], n[3]>>
    BY MessageTypes
  <2>2. <<m[2], m[3]>> \in vcSelf[m[1]] /\ <<n[2], n[3]>> \in vcSelf[m[1]]
    BY Zenon DEF ViewChangeInv
  <2>3. <<m[2], m[3]>>[1] = <<n[2], n[3]>>[1]
    OBVIOUS
  <2>4. <<m[2], m[3]>> = <<n[2], n[3]>>
    BY <2>1, <2>2, <2>3, Zenon DEF ViewChangeInv
  <2>5. m[3] = n[3]
    BY <2>4
  <2> QED
    BY <2>1, <2>5, Zenon
<1> QED
  BY <1>1, InitType, NextType, InitViewChange, NextViewChange, PTL DEF Spec

------------------------------------------------------------------------------
(***************************************************************************)
(* Evidence is true.  A member held in accused signed two different        *)
(* view-0 blocks for one slot, or votes for two blocks of one (slot,       *)
(* view), or two view changes for one slot, whoever they are and whatever  *)
(* the network does.                                                       *)
(***************************************************************************)
TwoProposals(j) ==
    \E p, q \in proposals : /\ ProposerOf(p.block) = j /\ p.block.view = 0
                            /\ Ballot(p.block) = Ballot(q.block) /\ p.block # q.block

TwoVotes(j) ==
    \E b, c \in Block : /\ <<j, b>> \in signed /\ <<j, c>> \in signed
                        /\ Ballot(b) = Ballot(c) /\ b # c

TwoViewChanges(j) == \E m, n \in vcOut : m[1] = j /\ n[1] = j /\ m[2] = n[2] /\ m # n

EvidenceIsTrue == \A j \in accused : TwoProposals(j) \/ TwoVotes(j) \/ TwoViewChanges(j)

\* The tables detection compares with hold only what was signed: the view-0
\* blocks proposed for s, and the blocks of s that j voted for.
Proposed(s) == {b \in Block : b.slot = s /\ b.view = 0 /\ \E p \in proposals : p.block = b}
Voted(j, s) == {b \in Block : b.slot = s /\ <<j, b>> \in signed}

MessagesReal ==
    /\ votesOut \subseteq signed
    /\ \A p \in proposals : p.block.slot \in Slot
    /\ \A m \in signed : m[2].slot \in Slot

TablesReal ==
    /\ \A i \in Node, s \in Slot : seenProposals[i][s] \in {None} \cup Proposed(s)
    /\ \A i, j \in Node, s \in Slot : seenVotes[i][s][j] \in {None} \cup Voted(j, s)
    /\ \A i \in Node : seenVcs[i] \subseteq vcOut

EvidenceInv == MessagesReal /\ TablesReal /\ EvidenceIsTrue

\* What is signed stays signed.
MessagesStay == proposals \subseteq proposals' /\ signed \subseteq signed' /\ vcOut \subseteq vcOut'

\* A step changes the tables and accuses as the messages out after it allow.
ProposalsSeen ==
    \A i \in Node, s \in Slot :
        seenProposals'[i][s] \in {None, seenProposals[i][s]} \cup Proposed(s)'
VotesSeen ==
    \A i, j \in Node, s \in Slot :
        seenVotes'[i][s][j] \in {None, seenVotes[i][s][j]} \cup Voted(j, s)'
VcsSeen == \A i \in Node : seenVcs'[i] \subseteq seenVcs[i] \cup vcOut'
AccusesWell ==
    \A j \in accused' : j \in accused \/ (TwoProposals(j) \/ TwoVotes(j) \/ TwoViewChanges(j))'

\* A step that keeps what was signed, reads the tables and accuses as above
\* keeps the invariant.
LEMMA EvidenceFrom ==
    ASSUME TypeOK, EvidenceInv, MessagesStay, MessagesReal', ProposalsSeen, VotesSeen, VcsSeen,
           AccusesWell
    PROVE  EvidenceInv'
<1>1. \A s : Proposed(s) \subseteq Proposed(s)'
  BY Zenon DEF Proposed, MessagesStay
<1>2. \A j, s : Voted(j, s) \subseteq Voted(j, s)'
  BY Zenon DEF Voted, MessagesStay
<1>3. \A i \in Node, s \in Slot : seenProposals'[i][s] \in {None} \cup Proposed(s)'
  BY <1>1, Zenon DEF ProposalsSeen, EvidenceInv, TablesReal
<1>4. \A i, j \in Node, s \in Slot : seenVotes'[i][s][j] \in {None} \cup Voted(j, s)'
  BY <1>2, Zenon DEF VotesSeen, EvidenceInv, TablesReal
<1>5. \A i \in Node : seenVcs'[i] \subseteq vcOut'
  BY Zenon DEF VcsSeen, EvidenceInv, TablesReal, MessagesStay
<1>6. ASSUME NEW j \in accused' PROVE (TwoProposals(j) \/ TwoVotes(j) \/ TwoViewChanges(j))'
  <2>1. CASE j \in accused
    <3>1. TwoProposals(j) => TwoProposals(j)'
      BY Zenon DEF TwoProposals, MessagesStay
    <3>2. TwoVotes(j) => TwoVotes(j)'
      BY Zenon DEF TwoVotes, MessagesStay
    <3>3. TwoViewChanges(j) => TwoViewChanges(j)'
      BY Zenon DEF TwoViewChanges, MessagesStay
    <3> QED
      BY <2>1, <3>1, <3>2, <3>3, Zenon DEF EvidenceInv, EvidenceIsTrue
  <2> QED
    BY <1>6, <2>1, Zenon DEF AccusesWell
<1>7. TablesReal'
  BY <1>3, <1>4, <1>5, Zenon DEF TablesReal, None, Genesis
<1>8. EvidenceIsTrue'
  BY <1>6, Zenon DEF EvidenceIsTrue
<1> QED
  BY <1>7, <1>8, Zenon DEF EvidenceInv

\* on_vote records a signed vote, and accuses a member of two that it signed.
LEMMA OnVoteEvidence ==
    ASSUME TypeOK, EvidenceInv, NEW i \in Node, NEW m \in Node \X Block, NEW c, NEW d,
           on_vote(i, m, c, d), m \in signed', m[2].slot \in Slot, signed \subseteq signed'
    PROVE  VotesSeen /\ AccusesWell
<1> DEFINE s == m[2].slot
           prev == seenVotes[i][s][m[1]]
           double == prev # None /\ SameView(i, prev, m[2])
<1>0. /\ prev # m[2]
      /\ accused' = IF double THEN accused \cup {m[1]} ELSE accused
      /\ seenVotes' = IF double THEN seenVotes ELSE [seenVotes EXCEPT ![i][s][m[1]] = m[2]]
  BY Zenon DEF on_vote
<1>1. m[1] \in Node /\ m[2] \in Block /\ m = <<m[1], m[2]>> /\ prev \in Block
  BY SeenTypes
<1>2. m[2] \in Voted(m[1], s)'
  BY <1>1, Zenon DEF Voted
<1> HIDE DEF double
<1>3. VotesSeen
  <2> SUFFICES ASSUME NEW k \in Node, NEW j \in Node, NEW t \in Slot,
                      seenVotes'[k][t][j] # seenVotes[k][t][j]
               PROVE  seenVotes'[k][t][j] \in Voted(j, t)'
    BY Zenon DEF VotesSeen
  <2>1. seenVotes' = [seenVotes EXCEPT ![i][s][m[1]] = m[2]]
    BY <1>0, Zenon
  <2>2. k = i /\ t = s /\ j = m[1] /\ seenVotes'[k][t][j] = m[2]
    <3>1. seenVotes \in [Node -> [Slot -> [Node -> Block]]] /\ s \in Slot /\ m[1] \in Node
      BY <1>1, SeenTypes, Zenon
    <3>2. ASSUME NEW S \in Slot, NEW H \in Node, NEW B,
                 seenVotes' = [seenVotes EXCEPT ![i][S][H] = B]
          PROVE  k = i /\ t = S /\ j = H /\ seenVotes'[k][t][j] = B
      BY <3>1, <3>2
    <3> QED
      BY <2>1, <3>1, <3>2, Zenon
  <2> QED
    BY <1>2, <2>2, Zenon
<1>4. AccusesWell
  <2> SUFFICES ASSUME NEW j \in accused', j \notin accused PROVE TwoVotes(j)'
    BY Zenon DEF AccusesWell
  <2>1. double /\ j = m[1]
    BY <1>0, Zenon
  <2>2. prev \in Voted(m[1], s)
    BY <1>1, <2>1, Zenon DEF double, EvidenceInv, TablesReal
  <2>3. Ballot(prev) = Ballot(m[2])
    BY <2>1, <2>2, Zenon DEF double, Voted, SameView, Ballot
  <2>4. <<j, prev>> \in signed' /\ <<j, m[2]>> \in signed'
    BY <1>1, <2>1, <2>2, Zenon DEF Voted
  <2> QED
    BY <1>0, <1>1, <2>3, <2>4, Zenon DEF TwoVotes
<1> QED
  BY <1>3, <1>4

\* on_view_change remembers what was sent, and accuses a member of two view
\* changes for one slot that it sent.
LEMMA OnViewChangeEvidence ==
    ASSUME TypeOK, EvidenceInv, NEW i \in Node, NEW m, NEW own, on_view_change(i, m, own),
           m \in vcOut', vcOut \subseteq vcOut'
    PROVE  VcsSeen /\ AccusesWell
<1> DEFINE prior == {x \in seenVcs[i] : x[1] = m[1] /\ x[2] = m[2]}
<1>1. /\ seenVcs' = seenVcs \/ seenVcs' = [seenVcs EXCEPT ![i] = @ \cup {m}]
      /\ accused' # accused => prior # {} /\ m \notin prior /\ accused' = accused \cup {m[1]}
  BY Zenon DEF on_view_change
<1>2. VcsSeen
  <2> SUFFICES ASSUME NEW k \in Node PROVE seenVcs'[k] \subseteq seenVcs[k] \cup vcOut'
    BY Zenon DEF VcsSeen
  <2>1. seenVcs'[k] = seenVcs[k] \/ seenVcs'[k] = seenVcs[k] \cup {m}
    BY <1>1, TallyTypes
  <2> QED
    BY <2>1
<1>3. AccusesWell
  <2> SUFFICES ASSUME NEW j \in accused', j \notin accused PROVE TwoViewChanges(j)'
    BY Zenon DEF AccusesWell
  <2>1. PICK x \in prior : m \notin prior /\ j = m[1]
    BY <1>1
  <2>2. x \in vcOut' /\ x # m /\ x[1] = j /\ x[2] = m[2]
    BY <2>1, Zenon DEF EvidenceInv, TablesReal
  <2> QED
    BY <2>1, <2>2, Zenon DEF TwoViewChanges
<1> QED
  BY <1>2, <1>3

\* A step that changes none of the tables and accuses nobody.
LEMMA QuietTables ==
    /\ seenProposals' = seenProposals => ProposalsSeen
    /\ seenVotes' = seenVotes => VotesSeen
    /\ seenVcs' = seenVcs => VcsSeen
    /\ accused' = accused => AccusesWell
  BY Zenon DEF ProposalsSeen, VotesSeen, VcsSeen, AccusesWell

\* What a fallback adds to the proposals is for a slot of the model.
LEMMA FallbackReal ==
    ASSUME TypeOK, EvidenceInv, NEW i \in Node, NEW m \in Node \X Slot \X Block, NEW own,
           on_view_change(i, m, own)
    PROVE  /\ proposals \subseteq proposals'
           /\ \A p \in proposals' : p.block.slot \in Slot
<1> DEFINE Real(c) == proposals' = proposals \cup {[block |-> FreshBlock(c.target, c.view), qc |-> c.hq]}
<1>1. \/ proposals' = proposals
      \/ \E c, t, buf : /\ c = cs[i] \/ c = [cs[i] EXCEPT !.view = @ + 1]
                        /\ BuildFallback(i, c, t, buf)
  BY Zenon DEF on_view_change
<1>2. cs[i].target \in 1 .. MaxHeight + 1 /\ cs[i] \in ConsensusState
  BY StateTypes DEF ConsensusState
<1>3. ASSUME NEW c, NEW t, NEW buf, c = cs[i] \/ c = [cs[i] EXCEPT !.view = @ + 1],
             BuildFallback(i, c, t, buf)
      PROVE  proposals' = proposals \/ (c.target \in Slot /\ Real(c))
  <2>1. c.target = cs[i].target
    BY <1>2, <1>3 DEF ConsensusState
  <2>2. proposals' = proposals \/ (c.target <= MaxHeight /\ Real(c))
    BY <1>3, Zenon DEF BuildFallback, MayBuildFallback
  <2> QED
    BY <1>2, <2>1, <2>2, EngineAssumption DEF Slot
<1>4. CASE proposals' = proposals
  BY <1>4, Zenon DEF EvidenceInv, MessagesReal
<1>5. ASSUME NEW c, c.target \in Slot, Real(c)
      PROVE  proposals \subseteq proposals' /\ \A p \in proposals' : p.block.slot \in Slot
  <2>1. FreshBlock(c.target, c.view).slot = c.target
    BY DEF FreshBlock
  <2>2. \A p \in proposals' : p \in proposals \/ p.block = FreshBlock(c.target, c.view)
    BY <1>5
  <2> QED
    BY <1>5, <2>1, <2>2, Zenon DEF EvidenceInv, MessagesReal
<1> HIDE DEF Real
<1> QED
  BY <1>1, <1>3, <1>4, <1>5, Zenon

\* A slot tick of the leader (check_proposer, build_proposal) keeps evidence
\* and the tables it comes from true.
LEMMA ProposeEvidence ==
    ASSUME TypeOK, EvidenceInv, NEW i \in Node, Propose(i) PROVE EvidenceInv'
<1> DEFINE s == cs[i].target
           b == FreshBlock(s, 0)
           p == [block |-> b, qc |-> cs[i].hq]
<1>1. /\ s <= MaxHeight /\ CanBuildMore(s, 0)
      /\ proposals' = proposals \cup {p}
      /\ seenProposals' = seenProposals \/ seenProposals' = [seenProposals EXCEPT ![i][s] = p.block]
      /\ UNCHANGED <<signed, votesOut, vcOut, seenVotes, seenVcs, accused>>
  BY Zenon DEF Propose, check_proposer
<1>2. s \in Slot /\ b \in Block /\ b.slot = s /\ b.view = 0 /\ p.block = b
  <2>1. s \in Slot /\ 0 \in View
    BY <1>1, StateTypes, EngineAssumption DEF ConsensusState, Slot, View
  <2>2. b \in Block
    BY <1>1, <2>1, FreshBlockType, Zenon
  <2> QED
    BY <2>1, <2>2 DEF FreshBlock
<1> HIDE DEF s, b, p
<1>3. MessagesStay
  BY <1>1, Zenon DEF MessagesStay
<1>4. MessagesReal'
  BY <1>1, <1>2, Zenon DEF EvidenceInv, MessagesReal
<1>5. \A t : t = s => b \in Proposed(t)'
  BY <1>1, <1>2, Zenon DEF Proposed
<1>6. ProposalsSeen
  <2> SUFFICES ASSUME NEW k \in Node, NEW t \in Slot, seenProposals'[k][t] # seenProposals[k][t]
               PROVE  seenProposals'[k][t] \in Proposed(t)'
    BY Zenon DEF ProposalsSeen
  <2>1. k = i /\ t = s /\ seenProposals'[k][t] = b
    BY <1>1, <1>2, SeenTypes
  <2> QED
    BY <1>5, <2>1, Zenon
<1> QED
  BY <1>1, <1>3, <1>4, <1>6, QuietTables, EvidenceFrom, Zenon

\* The voting tick (select_and_vote, on_proposal) keeps evidence and the tables
\* it comes from true.
LEMMA SelectAndVoteEvidence ==
    ASSUME TypeOK, EvidenceInv, NEW i \in Node, SelectAndVote(i) PROVE EvidenceInv'
<1>1. PICK p \in select_and_vote(i) :
          /\ signed' = signed \cup {<<i, p.block>>}
          /\ votesOut' = votesOut \/ votesOut' = votesOut \cup {<<i, p.block>>}
          /\ on_vote(i, <<i, p.block>>, create_vote(p, cs[i]), create_vote(p, cs[i]))
  BY Zenon DEF SelectAndVote
<1>2. UNCHANGED <<proposals, vcOut, seenProposals, seenVcs>>
  BY Zenon DEF SelectAndVote
<1>3. p \in Proposal /\ Ballot(p.block) = <<cs[i].target, cs[i].view>> /\ cs[i].target <= MaxHeight
  BY PoolTypes DEF select_and_vote
<1> DEFINE m == <<i, p.block>>
<1>4. p.block \in Block /\ p.block.slot \in Slot
  BY <1>3, StateTypes, EngineAssumption DEF Proposal, Ballot, ConsensusState, Slot
<1>5. m \in Node \X Block /\ m[2].slot \in Slot /\ m \in signed' /\ signed \subseteq signed'
  BY <1>1, <1>4
<1>6. MessagesReal'
  BY <1>1, <1>2, <1>5, Zenon DEF EvidenceInv, MessagesReal
<1>7. MessagesStay
  BY <1>1, <1>2, Zenon DEF MessagesStay
<1>8. VotesSeen /\ AccusesWell
  BY <1>1, <1>5, OnVoteEvidence, Zenon
<1> QED
  BY <1>2, <1>6, <1>7, <1>8, QuietTables, EvidenceFrom, Zenon

\* Receiving a proposal (buffer_proposal, on_embedded_qc) keeps evidence and
\* the tables it comes from true.
LEMMA RecvProposalEvidence ==
    ASSUME TypeOK, EvidenceInv, NEW i \in Node, NEW p \in proposals, RecvProposal(i, p)
    PROVE  EvidenceInv'
<1> DEFINE s == p.block.slot
           kept == buffer_proposal(i, p) /\ ~(p.block.view > 0)
<1>1. /\ UNCHANGED <<proposals, signed, votesOut, vcOut, seenVotes, seenVcs>>
      /\ kept => /\ seenProposals' = [seenProposals EXCEPT ![i][s] = IF @ = None THEN p.block ELSE @]
                 /\ accused' = IF seenProposals[i][s] \in {None, p.block}
                               THEN accused ELSE accused \cup {ProposerOf(p.block)}
      /\ ~kept => UNCHANGED <<seenProposals, accused>>
  BY Zenon DEF RecvProposal, network
<1>2. s \in Slot /\ p.block \in Block /\ p \in Proposal
  BY MessageTypes DEF EvidenceInv, MessagesReal, Proposal
<1>3. kept => p.block.view = 0
  BY <1>2, EngineAssumption DEF Block, View
<1>4. kept => p.block \in Proposed(s)
  BY <1>2, <1>3, Zenon DEF Proposed
<1> HIDE DEF kept
<1>5. Proposed(s) = Proposed(s)'
  BY <1>1, Zenon DEF Proposed
<1>6. ProposalsSeen
  <2> SUFFICES ASSUME NEW k \in Node, NEW t \in Slot, seenProposals'[k][t] # seenProposals[k][t]
               PROVE  seenProposals'[k][t] \in Proposed(t)'
    BY Zenon DEF ProposalsSeen
  <2>1. kept
    BY <1>1, Zenon
  <2>2. seenProposals' = [seenProposals EXCEPT ![i][s] = IF @ = None THEN p.block ELSE @]
    BY <1>1, <2>1, Zenon
  <2>3. k = i /\ t = s /\ seenProposals'[k][t] = p.block
    BY <1>2, <2>2, SeenTypes
  <2> QED
    BY <1>4, <1>5, <2>1, <2>3, Zenon
<1>7. AccusesWell
  <2> SUFFICES ASSUME NEW j \in accused', j \notin accused PROVE TwoProposals(j)'
    BY Zenon DEF AccusesWell
  <2>1. kept /\ j = ProposerOf(p.block) /\ seenProposals[i][s] \notin {None, p.block}
    BY <1>1, Zenon
  <2>2. seenProposals[i][s] \in Proposed(s) /\ seenProposals[i][s] # p.block
    BY <1>2, <2>1, Zenon DEF EvidenceInv, TablesReal
  <2>3. PICK q \in proposals : q.block = seenProposals[i][s] /\ q.block.slot = s /\ q.block.view = 0
    BY <2>2, Zenon DEF Proposed
  <2>4. Ballot(p.block) = Ballot(q.block)
    BY <1>3, <2>1, <2>3, Zenon DEF Ballot
  <2>5. TwoProposals(j)
    BY <1>3, <2>1, <2>2, <2>3, <2>4, Zenon DEF TwoProposals
  <2> QED
    BY <1>1, <2>5, Zenon DEF TwoProposals
<1>8. MessagesStay /\ MessagesReal'
  BY <1>1, Zenon DEF MessagesStay, EvidenceInv, MessagesReal
<1> QED
  BY <1>1, <1>6, <1>7, <1>8, QuietTables, EvidenceFrom, Zenon

\* Receiving a vote (on_vote, try_form_qc) keeps evidence and the tables it
\* comes from true.
LEMMA RecvVoteEvidence ==
    ASSUME TypeOK, EvidenceInv, NEW i \in Node, NEW m \in votesOut, RecvVote(i, m)
    PROVE  EvidenceInv'
<1>1. /\ on_vote(i, m, cs[i], disk[i])
      /\ UNCHANGED <<proposals, signed, votesOut, vcOut, seenProposals, seenVcs>>
  BY Zenon DEF RecvVote
<1>2. m \in Node \X Block /\ m \in signed /\ m[2].slot \in Slot
  BY MessageTypes, Zenon DEF EvidenceInv, MessagesReal
<1>3. VotesSeen /\ AccusesWell
  BY <1>1, <1>2, OnVoteEvidence, Zenon
<1>4. MessagesStay /\ MessagesReal'
  BY <1>1, Zenon DEF MessagesStay, EvidenceInv, MessagesReal
<1> QED
  BY <1>1, <1>3, <1>4, QuietTables, EvidenceFrom, Zenon

\* A timeout (on_timeout) keeps evidence and the tables it comes from true.
LEMMA TimeoutEvidence ==
    ASSUME TypeOK, EvidenceInv, NEW i \in Node, Timeout(i) PROVE EvidenceInv'
<1> DEFINE m == <<i, cs[i].target, cs[i].hq>>
<1>1. /\ vcOut' = vcOut \cup {m} /\ on_view_change(i, m, TRUE) /\ cs[i].target <= MaxHeight
      /\ UNCHANGED <<signed, votesOut, seenProposals, seenVotes>>
  BY Zenon DEF Timeout
<1>2. m \in Node \X Slot \X Block
  BY <1>1, StateTypes, EngineAssumption DEF ConsensusState, Slot
<1> HIDE DEF m
<1>3. VcsSeen /\ AccusesWell
  BY <1>1, OnViewChangeEvidence, Zenon
<1>4. MessagesStay /\ MessagesReal'
  BY <1>1, <1>2, FallbackReal, Zenon DEF MessagesStay, EvidenceInv, MessagesReal
<1> QED
  BY <1>1, <1>3, <1>4, QuietTables, EvidenceFrom, Zenon

\* Receiving a view change (on_view_change) keeps evidence and the tables it
\* comes from true.
LEMMA RecvViewChangeEvidence ==
    ASSUME TypeOK, EvidenceInv, NEW i \in Node, NEW m \in vcOut, RecvViewChange(i, m)
    PROVE  EvidenceInv'
<1>1. /\ on_view_change(i, m, FALSE)
      /\ UNCHANGED <<signed, votesOut, vcOut, seenProposals, seenVotes>>
  BY Zenon DEF RecvViewChange
<1>2. m \in Node \X Slot \X Block
  BY MessageTypes
<1>3. VcsSeen /\ AccusesWell
  BY <1>1, OnViewChangeEvidence, Zenon
<1>4. MessagesStay /\ MessagesReal'
  BY <1>1, <1>2, FallbackReal, Zenon DEF MessagesStay, EvidenceInv, MessagesReal
<1> QED
  BY <1>1, <1>3, <1>4, QuietTables, EvidenceFrom, Zenon

\* Pruning and restarting only empty the tables.
LEMMA AdvanceSlotEvidence ==
    ASSUME TypeOK, EvidenceInv, NEW i \in Node, AdvanceSlot(i) PROVE EvidenceInv'
<1>1. PICK before \in IF "stall" \in Delivery THEN 0 .. MaxHeight + 1 ELSE {0} :
          /\ seenProposals' = [seenProposals EXCEPT ![i] =
                [s \in Slot |-> IF s < (IF before < cs[i].target THEN before ELSE cs[i].target)
                                THEN None ELSE @[s]]]
          /\ seenVotes' = [seenVotes EXCEPT ![i] =
                [s \in Slot |-> IF s < before THEN [j \in Node |-> None] ELSE @[s]]]
          /\ seenVcs' = [seenVcs EXCEPT ![i] = {m \in @ : m[2] >= before}]
          /\ UNCHANGED <<network, accused>>
  BY Zenon DEF AdvanceSlot
<1>2. ProposalsSeen
  <2> SUFFICES ASSUME NEW k \in Node, NEW s \in Slot
               PROVE  seenProposals'[k][s] \in {None, seenProposals[k][s]}
    BY Zenon DEF ProposalsSeen
  <2> QED
    BY <1>1, SeenTypes
<1>3. VotesSeen
  <2> SUFFICES ASSUME NEW k \in Node, NEW j \in Node, NEW s \in Slot
               PROVE  seenVotes'[k][s][j] \in {None, seenVotes[k][s][j]}
    BY Zenon DEF VotesSeen
  <2> QED
    BY <1>1, SeenTypes
<1>4. VcsSeen
  <2> SUFFICES ASSUME NEW k \in Node PROVE seenVcs'[k] \subseteq seenVcs[k]
    BY Zenon DEF VcsSeen
  <2> QED
    BY <1>1, TallyTypes
<1>5. MessagesStay /\ MessagesReal' /\ accused' = accused
  BY <1>1, Zenon DEF network, MessagesStay, EvidenceInv, MessagesReal
<1> QED
  BY <1>2, <1>3, <1>4, <1>5, QuietTables, EvidenceFrom, Zenon

\* A crash and attach_consensus_store keeps evidence and the tables it comes
\* from true.
LEMMA RestartEvidence ==
    ASSUME TypeOK, EvidenceInv, NEW i \in Node, Restart(i) PROVE EvidenceInv'
<1>1. /\ seenVcs' = [seenVcs EXCEPT ![i] = {}]
      /\ UNCHANGED <<network, seenProposals, seenVotes, accused>>
  BY Zenon DEF Restart
<1>2. VcsSeen
  <2> SUFFICES ASSUME NEW k \in Node PROVE seenVcs'[k] \subseteq seenVcs[k]
    BY Zenon DEF VcsSeen
  <2> QED
    BY <1>1, TallyTypes
<1>3. MessagesStay /\ MessagesReal'
  BY <1>1, Zenon DEF network, MessagesStay, EvidenceInv, MessagesReal
<1> QED
  BY <1>1, <1>2, <1>3, QuietTables, EvidenceFrom, Zenon

\* A member that runs other code keeps evidence and the tables it comes from
\* true.
LEMMA OtherCodeEvidence ==
    ASSUME TypeOK, EvidenceInv, NEW i \in Byz, OtherCode(i) PROVE EvidenceInv'
<1>0. UNCHANGED <<seenProposals, seenVotes, seenVcs, accused>>
  BY Zenon DEF OtherCode
<1>1. ASSUME NEW s \in Slot, NEW v \in View, NEW q,
             proposals' = proposals \cup {[block |-> FreshBlock(s, v), qc |-> q]},
             UNCHANGED <<signed, votesOut, vcOut>>
      PROVE  MessagesStay /\ MessagesReal'
  <2>1. \A p \in proposals' : p \in proposals \/ p.block.slot = s
    BY <1>1 DEF FreshBlock
  <2> QED
    BY <1>1, <2>1, Zenon DEF MessagesStay, EvidenceInv, MessagesReal
<1>2. ASSUME NEW p \in proposals, signed' = signed \cup {<<i, p.block>>},
             votesOut' = votesOut \cup {<<i, p.block>>}, UNCHANGED <<proposals, vcOut>>
      PROVE  MessagesStay /\ MessagesReal'
  <2>1. <<i, p.block>>[2].slot \in Slot
    BY Zenon DEF EvidenceInv, MessagesReal
  <2> QED
    BY <1>2, <2>1, Zenon DEF MessagesStay, EvidenceInv, MessagesReal
<1>3. ASSUME vcOut \subseteq vcOut', UNCHANGED <<proposals, signed, votesOut>>
      PROVE  MessagesStay /\ MessagesReal'
  BY <1>3, Zenon DEF MessagesStay, EvidenceInv, MessagesReal
<1>4. MessagesStay /\ MessagesReal'
  BY <1>1, <1>2, <1>3, Zenon DEF OtherCode
<1> QED
  BY <1>0, <1>4, QuietTables, EvidenceFrom, Zenon

\* At the start nobody is accused and the tables are empty.
LEMMA InitEvidence == Init => EvidenceInv
<1> SUFFICES ASSUME Init PROVE EvidenceInv
  OBVIOUS
<1>1. MessagesReal /\ EvidenceIsTrue
  BY Zenon DEF Init, MessagesReal, EvidenceIsTrue
<1>2. TablesReal
  <2>1. \A i \in Node, s \in Slot : seenProposals[i][s] = None
    BY Zenon DEF Init
  <2>2. \A i, j \in Node, s \in Slot : seenVotes[i][s][j] = None
    BY Zenon DEF Init
  <2>3. \A i \in Node : seenVcs[i] = {}
    BY Zenon DEF Init
  <2> QED
    BY <2>1, <2>2, <2>3, Zenon DEF TablesReal
<1> QED
  BY <1>1, <1>2 DEF EvidenceInv

\* Every step keeps evidence true.
LEMMA NextEvidence == TypeOK /\ EvidenceInv /\ [Next]_vars => EvidenceInv'
<1> SUFFICES ASSUME TypeOK, EvidenceInv, [Next]_vars PROVE EvidenceInv'
  OBVIOUS
<1>1. CASE UNCHANGED <<network, seenProposals, seenVotes, seenVcs, accused>>
  <2>1. MessagesStay /\ MessagesReal'
    BY <1>1, Zenon DEF network, MessagesStay, EvidenceInv, MessagesReal
  <2> QED
    BY <1>1, <2>1, QuietTables, EvidenceFrom, Zenon
<1>2. CASE UNCHANGED vars
  BY <1>1, <1>2, Zenon DEF vars, network
<1>3. ASSUME NEW i \in Up, Receive(i) PROVE EvidenceInv'
  <2>1. ASSUME \/ \E p \in proposals : RecvBody(i, p.block)
               \/ \E b \in wanted[i] : RecoverBody(i, b)
               \/ \E b \in qcOut : RecvQc(i, b)
               \/ \E j \in Up \ {i} : Sync(i, j)
        PROVE  EvidenceInv'
    BY <1>1, <2>1, Zenon DEF RecvBody, RecoverBody, RecvQc, Sync
  <2> QED
    BY <1>3, <2>1, UpIsNode, RecvProposalEvidence, RecvVoteEvidence, RecvViewChangeEvidence,
       Zenon DEF Receive
<1>4. ASSUME NEW i \in Up, \/ Propose(i) \/ SelectAndVote(i) \/ Timeout(i)
                           \/ AdvanceSlot(i) \/ Restart(i)
      PROVE  EvidenceInv'
  BY <1>4, UpIsNode, ProposeEvidence, SelectAndVoteEvidence, TimeoutEvidence,
     AdvanceSlotEvidence, RestartEvidence, Zenon
<1> QED
  BY <1>2, <1>3, <1>4, OtherCodeEvidence, Zenon DEF Next

\* Whoever a node holds double-sign evidence against did sign twice, under every
\* delivery mode, bound and set of members that run other code: what
\* on_proposal, on_vote and on_view_change compare with was itself signed.
THEOREM AccusedSignedTwice == Spec => []EvidenceIsTrue
<1>1. EvidenceInv => EvidenceIsTrue
  BY DEF EvidenceInv
<1> QED
  BY <1>1, InitType, NextType, InitEvidence, NextEvidence, PTL DEF Spec

\* Each member that runs this code has built at most one view-0 block per slot.
OneProposalPerSlot ==
    \A p, q \in proposals :
        /\ Ballot(p.block) = Ballot(q.block) /\ p.block.view = 0
        /\ ProposerOf(p.block) \notin Byz
        => p.block = q.block

\* Evidence is never held against a member that runs this code, as long as none
\* of them has built two view-0 blocks for one slot (which the code does not
\* exclude) and the wall clock stays within ten slots of a stuck target: votes
\* and view changes of such members never make evidence.
THEOREM HonestAccusedOnlyOfProposals ==
    ASSUME "stall" \notin Delivery PROVE Spec => [](OneProposalPerSlot => HonestNeverAccused)
<1>1. TypeOK /\ EvidenceIsTrue /\ Voting!OneVotePerBallot /\ OneViewChangePerSlot
        => (OneProposalPerSlot => HonestNeverAccused)
  <2> SUFFICES ASSUME TypeOK, EvidenceIsTrue, Voting!OneVotePerBallot, OneViewChangePerSlot,
                      OneProposalPerSlot, NEW j \in accused, j \notin Byz
               PROVE  FALSE
    BY Zenon DEF HonestNeverAccused
  <2>1. j \in Node
    BY BodyTypes
  <2>2. ~TwoProposals(j)
    BY Zenon DEF TwoProposals, OneProposalPerSlot
  <2>3. ~TwoVotes(j)
    BY <2>1 DEF TwoVotes, Voting!OneVotePerBallot
  <2>4. ~TwoViewChanges(j)
    BY Zenon DEF TwoViewChanges, OneViewChangePerSlot
  <2> QED
    BY <2>2, <2>3, <2>4, Zenon DEF EvidenceIsTrue
<1> QED
  BY <1>1, TypeCorrect, AccusedSignedTwice, OneVote, ViewChangeOnce, PTL
==============================================================================
