------------------------- MODULE EngineSafetyProofs --------------------------
(***************************************************************************)
(* No two blocks are certified at one (slot, view), and Engine applies     *)
(* certified blocks only: whichever path a block takes to a                *)
(* node's chain or to its highest_qc (its own vote, a peer's vote, an      *)
(* announced QC, the QC inside a proposal, a body fetched by hash, sync, a *)
(* restart), a quorum of the committee has signed it.                      *)
(***************************************************************************)
EXTENDS EngineProofs

\* Any two quorums P and Q of a committee V share a member outside F: each has
\* at least two thirds of V, so they overlap in a third, and F has less.
LEMMA QuorumsShareHonest ==
    ASSUME NEW V, IsFiniteSet(V), NEW F \in SUBSET V,
           3 * Cardinality(F) < Cardinality(V),
           NEW P \in SUBSET V, NEW Q \in SUBSET V,
           Cardinality(P) >= quorum_for_committee(Cardinality(V)),
           Cardinality(Q) >= quorum_for_committee(Cardinality(V))
    PROVE  \E v \in V \ F : v \in P /\ v \in Q
<1> DEFINE n == Cardinality(V)
<1>1. IsFiniteSet(P) /\ IsFiniteSet(Q) /\ IsFiniteSet(F) /\ IsFiniteSet(P \cap Q)
  BY FS_Subset
<1>2. n \in Nat /\ Cardinality(F) \in Nat /\ Cardinality(P) \in Nat /\ Cardinality(Q) \in Nat
  BY <1>1, FS_CardinalityType
<1>3. Cardinality(P \cap Q) = Cardinality(P) + Cardinality(Q) - Cardinality(P \cup Q)
  <2>1. Cardinality(P \cup Q) = Cardinality(P) + Cardinality(Q) - Cardinality(P \cap Q)
    BY <1>1, FS_Union
  <2>2. Cardinality(P \cap Q) \in Nat
    BY <1>1, FS_CardinalityType
  <2> QED
    BY <1>2, <2>1, <2>2
<1>4. Cardinality(P \cup Q) <= n /\ Cardinality(P \cup Q) \in Nat
  <2>1. P \cup Q \in SUBSET V
    OBVIOUS
  <2> QED
    BY <2>1, FS_Subset, FS_CardinalityType
<1>5. Cardinality(P \cap Q) > Cardinality(F)
  BY <1>2, <1>3, <1>4 DEF quorum_for_committee
<1>6. ~(P \cap Q \subseteq F)
  <2>1. SUFFICES ASSUME P \cap Q \subseteq F PROVE FALSE
    OBVIOUS
  <2>2. Cardinality(P \cap Q) <= Cardinality(F)
    BY <1>1, <2>1, FS_Subset
  <2> QED
    BY <2>2, <1>1, <1>2, <1>5, FS_CardinalityType
<1> QED
  BY <1>6

\* The committee has N members (EngineAssumption).
LEMMA CommitteeSize == IsFiniteSet(Node) /\ Cardinality(Node) = N
  BY SMTT(40), EngineAssumption, FS_Interval DEF Node

\* At every moment the votes signed so far certify at most one block per (slot,
\* view), so try_form_qc never yields two QCs for one view, whichever nodes run
\* it and whichever votes reached them.
THEOREM EngineOneQcPerView == Spec => []OneQcPerView
<1>1. Voting!OneVotePerBallot => OneQcPerView
  <2> SUFFICES ASSUME Voting!OneVotePerBallot, NEW b \in Block, NEW c \in Block,
                      Certified(b), Certified(c), Ballot(b) = Ballot(c)
               PROVE  b = c
    BY DEF OneQcPerView
  <2> DEFINE P == {j \in Node : <<j, b>> \in signed}
             Q == {j \in Node : <<j, c>> \in signed}
  <2>1. Byz \in SUBSET Node /\ 3 * Cardinality(Byz) < Cardinality(Node)
    BY EngineAssumption, CommitteeSize, UpIsNode
  <2>2. /\ P \in SUBSET Node /\ Q \in SUBSET Node
        /\ Cardinality(P) >= quorum_for_committee(Cardinality(Node))
        /\ Cardinality(Q) >= quorum_for_committee(Cardinality(Node))
    BY CommitteeSize DEF Certified, Quorum
  <2> HIDE DEF P, Q
  <2>3. PICK v \in Node \ Byz : v \in P /\ v \in Q
    BY <2>1, <2>2, CommitteeSize, QuorumsShareHonest
  <2> QED
    BY <2>3 DEF Voting!OneVotePerBallot, P, Q
<1> QED
  BY <1>1, OneVote, PTL

------------------------------------------------------------------------------
(***************************************************************************)
(* Certified blocks.                                                       *)
(***************************************************************************)
\* The blocks a quorum has signed, and the empty certificate.
CertSet == {b \in Block : b = Genesis \/ Certified(b)}

(***************************************************************************)
(* The strengthening of OnlyCertifiedApplied: every place a certificate or *)
(* a certified block can come from holds only members of CertSet, and the  *)
(* votes a node tallies were signed.                                       *)
(***************************************************************************)
MessagesCertified ==
    /\ votesOut \subseteq signed
    /\ qcOut \subseteq CertSet
    /\ \A p \in proposals : p.qc \in CertSet

StatesCertified ==
    /\ chain \in [Node -> [Slot -> CertSet]]
    /\ \A i \in Node : /\ cs[i].hq \in CertSet /\ disk[i].hq \in CertSet
                       /\ wanted[i] \subseteq CertSet

PoolsReceived ==
    \A i \in Node : /\ votes[i] \subseteq signed
                    /\ buffered[i] \subseteq proposals
                    /\ deferred[i] \subseteq proposals

CertInv == MessagesCertified /\ StatesCertified /\ PoolsReceived

\* What CertInv says of each node's states, and what says it of their successors.
LEMMA StatesOf ==
    ASSUME CertInv
    PROVE  \A i \in Node : /\ cs[i].hq \in CertSet /\ disk[i].hq \in CertSet
                           /\ wanted[i] \subseteq CertSet
  BY Zenon DEF CertInv, StatesCertified

\* What is to show of chains, highest_qc and wanted bodies.
LEMMA StatesFrom ==
    ASSUME chain' \in [Node -> [Slot -> CertSet']],
           \A i \in Node : cs'[i].hq \in CertSet' /\ disk'[i].hq \in CertSet',
           \A i \in Node : wanted'[i] \subseteq CertSet'
    PROVE  StatesCertified'
  BY Zenon DEF StatesCertified

\* Pools that only lose entries hold what was received.
LEMMA PoolsFrom ==
    ASSUME CertInv, signed' = signed, proposals' = proposals,
           \A j \in Node : /\ votes'[j] \subseteq votes[j]
                           /\ buffered'[j] \subseteq buffered[j]
                           /\ deferred'[j] \subseteq deferred[j]
    PROVE  PoolsReceived'
<1>1. ASSUME NEW j \in Node
      PROVE  /\ votes[j] \subseteq signed
             /\ buffered[j] \subseteq proposals /\ deferred[j] \subseteq proposals
  BY Zenon DEF CertInv, PoolsReceived
<1>2. ASSUME NEW j \in Node
      PROVE  /\ votes'[j] \subseteq signed'
             /\ buffered'[j] \subseteq proposals' /\ deferred'[j] \subseteq proposals'
  BY <1>1
<1> QED
  BY <1>2, Zenon DEF PoolsReceived

\* More votes never make a certified block uncertified.
LEMMA CardMono ==
    ASSUME NEW S, NEW T, S \subseteq T, T \subseteq Node, Cardinality(S) >= Quorum
    PROVE  Cardinality(T) >= Quorum
<1>1. IsFiniteSet(T) /\ IsFiniteSet(S) /\ Cardinality(S) <= Cardinality(T)
  BY CommitteeSize, FS_Subset
<1>2. Cardinality(S) \in Nat /\ Cardinality(T) \in Nat
  BY <1>1, FS_CardinalityType
<1>3. Quorum \in Int
  BY EngineAssumption DEF Quorum, quorum_for_committee
<1> QED
  BY <1>1, <1>2, <1>3

\* A certified block stays certified as more is signed.
LEMMA CertSetGrows == ASSUME signed \subseteq signed' PROVE CertSet \subseteq CertSet'
<1> SUFFICES ASSUME NEW b \in Block, Certified(b) PROVE Certified(b)'
  BY DEF CertSet
<1> DEFINE S == {j \in Node : <<j, b>> \in signed}
           T == {j \in Node : <<j, b>> \in signed'}
<1>1. S \subseteq T /\ T \subseteq Node /\ Cardinality(S) >= Quorum
  BY DEF Certified
<1>2. Cardinality(T) >= Quorum
  <2> HIDE DEF S, T
  <2> QED
    BY <1>1, CardMono
<1> QED
  BY <1>2 DEF Certified, Node, Quorum

\* Genesis and the absent block count as certified.
LEMMA GenesisCert == None \in CertSet /\ None \in CertSet' /\ Genesis \in CertSet'
  BY GenesisType DEF CertSet, None, Genesis, Block, View

\* The QC of try_form_qc over signed votes certifies the block it names.
LEMMA TallyCertifies ==
    ASSUME NEW b \in Block, NEW vs, vs \subseteq signed', Certifies(b, vs)
    PROVE  b \in CertSet'
<1> DEFINE S == Signers(b, vs)
           T == {j \in Node : <<j, b>> \in signed'}
<1>1. S \subseteq T /\ T \subseteq Node /\ Cardinality(S) >= Quorum
  BY DEF Certifies, Signers
<1>2. Cardinality(T) >= Quorum
  <2> HIDE DEF S, T
  <2> QED
    BY <1>1, CardMono
<1> QED
  BY <1>2 DEF CertSet, Certified, Node, Quorum, Block, View

\* advance_target_height leaves highest_qc.
LEMMA HqAdvance ==
    ASSUME NEW c \in ConsensusState, NEW h
    PROVE  advance_target_height(c, h).hq = c.hq
  BY DEF advance_target_height, ConsensusState

\* Raising highest_qc sets it.
LEMMA HqRaise ==
    ASSUME NEW c \in ConsensusState, NEW b
    PROVE  [c EXCEPT !.hq = b].hq = b
  BY DEF ConsensusState

\* A chain of certified blocks stays one as more are certified.
LEMMA ChainGrows ==
    ASSUME NEW S, NEW T, S \subseteq T, NEW f \in [Node -> [Slot -> S]]
    PROVE  f \in [Node -> [Slot -> T]]
<1>1. ASSUME NEW i \in Node PROVE f[i] \in [Slot -> T]
  <2>1. f[i] \in [Slot -> S]
    OBVIOUS
  <2> QED
    BY <2>1
<1> QED
  BY <1>1

\* Putting an element into one node's pool, or taking it out.
LEMMA PoolUpdate ==
    ASSUME NEW A, NEW f \in [Node -> SUBSET A], NEW i \in Node, NEW x, NEW g,
           \/ g = [f EXCEPT ![i] = @ \cup {x}]
           \/ g = [f EXCEPT ![i] = @ \ {x}]
           \/ g = [f EXCEPT ![i] = @]
           \/ g = f
    PROVE  \A j \in Node : g[j] \subseteq f[j] \cup {x}
<1> TAKE j \in Node
<1>1. CASE g = [f EXCEPT ![i] = @ \cup {x}]
  BY <1>1
<1>2. CASE g = [f EXCEPT ![i] = @ \ {x}]
  BY <1>2
<1>3. CASE g = [f EXCEPT ![i] = @] \/ g = f
  BY <1>3
<1> QED
  BY <1>1, <1>2, <1>3

\* What Commit writes is certified when the block and the states it is given
\* are.
LEMMA CommitCert ==
    ASSUME TypeOK, CertInv, CertSet \subseteq CertSet', NEW i \in Node,
           NEW b \in Block, b \in CertSet',
           NEW c \in ConsensusState, c.hq \in CertSet',
           NEW d \in ConsensusState, d.hq \in CertSet',
           NEW buf, NEW bod, Commit(i, b, c, d, buf, bod)
    PROVE  StatesCertified'
<1> DEFINE next == advance_target_height(c, b.slot + 1)
           cut == [s \in Slot |-> IF s < b.slot THEN chain[i][s]
                                  ELSE IF s = b.slot THEN b ELSE None]
<1>1. next.hq \in CertSet'
  BY HqAdvance
<1>2. /\ chain' = [chain EXCEPT ![i] = cut] \/ chain' = chain
      /\ cs' = [cs EXCEPT ![i] = next] \/ cs' = [cs EXCEPT ![i] = c]
      /\ disk' = [disk EXCEPT ![i] = next] \/ disk' = [disk EXCEPT ![i] = d]
      /\ \/ wanted' = [wanted EXCEPT ![i] = @ \ {b}]
         \/ wanted' = [wanted EXCEPT ![i] = @ \cup {b}]
  BY Zenon DEF Commit
<1>3. cut \in [Slot -> CertSet']
  BY GenesisCert DEF CertInv, StatesCertified
<1> HIDE DEF next, cut
<1>4. chain' \in [Node -> [Slot -> CertSet']]
  <2>1. chain \in [Node -> [Slot -> CertSet']]
    BY ChainGrows, Zenon DEF CertInv, StatesCertified
  <2>2. CASE chain' = [chain EXCEPT ![i] = cut]
    BY SMTT(40), <1>3, <2>1, <2>2
  <2> QED
    BY <1>2, <2>1, <2>2
<1>5. \A j \in Node : cs'[j].hq \in CertSet'
  BY Zenon, <1>1, <1>2 DEF CertInv, StatesCertified, TypeOK
<1>6. \A j \in Node : disk'[j].hq \in CertSet'
  BY ZenonT(40), <1>1, <1>2 DEF CertInv, StatesCertified, TypeOK
<1>7. \A j \in Node : wanted'[j] \subseteq CertSet'
  <2>1. \A j \in Node : wanted'[j] \subseteq wanted[j] \cup {b}
    <3>1. wanted \in [Node -> SUBSET Block]
      BY DEF TypeOK
    <3> QED
      BY <3>1, <1>2, PoolUpdate, Zenon
  <2>2. \A j \in Node : wanted[j] \subseteq CertSet
    BY DEF CertInv, StatesCertified
  <2> QED
    BY <2>1, <2>2
<1> QED
  BY <1>4, <1>5, <1>6, <1>7 DEF StatesCertified

\* on_vote, for a vote that was signed.
LEMMA OnVoteCert ==
    ASSUME TypeOK, CertInv, signed \subseteq signed', NEW i \in Node,
           NEW m \in Node \X Block, m \in signed',
           NEW c \in ConsensusState, c.hq \in CertSet',
           NEW d \in ConsensusState, d.hq \in CertSet', on_vote(i, m, c, d)
    PROVE  /\ StatesCertified'
           /\ \A j \in Node : votes'[j] \subseteq signed'
           /\ qcOut' \subseteq CertSet'
<1> DEFINE qc == Certifies(m[2], votes[i] \cup {m})
           raised == qc /\ m[2].slot > c.hq.slot
           c1 == IF raised THEN [c EXCEPT !.hq = m[2]] ELSE c
           d1 == IF raised THEN c1 ELSE d
<1>0. CertSet \subseteq CertSet'
  BY CertSetGrows
<1>1. m[2] \in Block
  OBVIOUS
<1>2. votes[i] \cup {m} \subseteq signed'
  BY DEF CertInv, PoolsReceived
<1>3. qc => m[2] \in CertSet'
  BY <1>1, <1>2, TallyCertifies
<1>4. /\ votes' = [votes EXCEPT ![i] = votes[i] \cup {m}]
      /\ qcOut' = IF qc THEN qcOut \cup {m[2]} ELSE qcOut
      /\ IF qc THEN Commit(i, m[2], c1, d1, buffered[i], bodies[i])
         ELSE /\ cs' = [cs EXCEPT ![i] = c] /\ disk' = [disk EXCEPT ![i] = d]
              /\ UNCHANGED <<chain, wanted>>
  BY Zenon DEF on_vote
<1>5. c1 = [c EXCEPT !.hq = m[2]] \/ c1 = c
  BY Zenon
<1>6. d1 = c1 \/ d1 = d
  BY Zenon
<1>7. [c EXCEPT !.hq = m[2]] \in ConsensusState /\ [c EXCEPT !.hq = m[2]].hq = m[2]
  BY <1>1, RaiseType, HqRaise, ZenonT(40)
<1> HIDE DEF qc, c1, d1
<1>8. \A j \in Node : votes'[j] \subseteq signed'
  <2> TAKE j \in Node
  <2>1. votes'[j] = IF j = i THEN votes[i] \cup {m} ELSE votes[j]
    BY <1>4, TallyTypes
  <2>2. votes[j] \subseteq signed
    BY Zenon DEF CertInv, PoolsReceived
  <2> QED
    BY <1>2, <2>1, <2>2
<1>9. qcOut' \subseteq CertSet'
  BY <1>0, <1>3, <1>4 DEF CertInv, MessagesCertified
<1>10. CASE qc
  <2>1. c1 \in ConsensusState /\ c1.hq \in CertSet'
    BY <1>3, <1>5, <1>7, <1>10, Zenon
  <2>2. d1 \in ConsensusState /\ d1.hq \in CertSet'
    BY <1>6, <2>1, Zenon
  <2>3. Commit(i, m[2], c1, d1, buffered[i], bodies[i])
    BY <1>4, <1>10, Zenon
  <2>4. StatesCertified'
    BY <1>0, <1>1, <1>3, <1>10, <2>1, <2>2, <2>3, CommitCert, ZenonT(40)
  <2> QED
    BY <2>4, <1>8, <1>9
<1>11. CASE ~qc
  <2>1. /\ cs' = [cs EXCEPT ![i] = c] /\ disk' = [disk EXCEPT ![i] = d]
        /\ UNCHANGED <<chain, wanted>>
    BY <1>4, <1>11, Zenon
  <2>2. chain' \in [Node -> [Slot -> CertSet']]
    BY <1>0, <2>1, ChainGrows, ZenonT(40) DEF CertInv, StatesCertified
  <2>3. ASSUME NEW j \in Node
        PROVE  cs'[j].hq \in CertSet' /\ disk'[j].hq \in CertSet'
    <3>1. cs[j].hq \in CertSet /\ disk[j].hq \in CertSet
      BY StatesOf, Zenon
    <3>2. (cs'[j] = c \/ cs'[j] = cs[j]) /\ (disk'[j] = d \/ disk'[j] = disk[j])
      BY <2>1, StateTypes
    <3> QED
      BY <1>0, <3>1, <3>2
  <2>4. ASSUME NEW j \in Node PROVE wanted'[j] \subseteq CertSet'
    BY <1>0, <2>1, StatesOf
  <2>5. StatesCertified'
    BY <2>2, <2>3, <2>4, StatesFrom, Zenon
  <2> QED
    BY <2>5, <1>8, <1>9
<1> QED
  BY <1>10, <1>11

\* What a step leaves alone stays certified while the votes only grow.
LEMMA StatesKept ==
    ASSUME CertInv, CertSet \subseteq CertSet', UNCHANGED <<chain, cs, disk, wanted>>
    PROVE  StatesCertified'
<1>1. chain' \in [Node -> [Slot -> CertSet']]
  BY ChainGrows, Zenon DEF CertInv, StatesCertified
<1> QED
  BY <1>1 DEF CertInv, StatesCertified

\* At the start the chains are empty and highest_qc is genesis.
LEMMA InitCert == Init => CertInv
<1> SUFFICES ASSUME Init PROVE CertInv
  OBVIOUS
<1>1. \A i \in Node : cs[i].hq = Genesis /\ disk[i].hq = Genesis
  BY DEF Init, NewState
<1>2. Genesis \in CertSet
  BY GenesisCert DEF None
<1> QED
  BY <1>1, <1>2, GenesisCert
  DEF Init, CertInv, MessagesCertified, StatesCertified, PoolsReceived

\* A proposal carries its builder's highest_qc.
LEMMA ProposeCert ==
    ASSUME TypeOK, CertInv, NEW i \in Node, Propose(i) PROVE CertInv'
<1> DEFINE p == [block |-> FreshBlock(cs[i].target, 0), qc |-> cs[i].hq]
<1>1. /\ proposals' = proposals \cup {p}
      /\ \/ buffered' = buffered
         \/ buffered' = [buffered EXCEPT ![i] = @ \cup {p}]
      /\ UNCHANGED <<signed, votesOut, qcOut, disk, chain, cs, deferred, votes, wanted>>
  BY Zenon DEF Propose
<1>2. p.qc = cs[i].hq
  OBVIOUS
<1> HIDE DEF p
<1>3. CertSet \subseteq CertSet'
  BY <1>1, CertSetGrows
<1>4. MessagesCertified'
  BY <1>1, <1>2, <1>3 DEF CertInv, MessagesCertified, StatesCertified
<1>5. StatesCertified'
  BY <1>1, <1>3, StatesKept
<1>6. PoolsReceived'
  <2>1. buffered \in [Node -> SUBSET Proposal]
    BY DEF TypeOK
  <2>2. \A j \in Node : buffered'[j] \subseteq buffered[j] \cup {p}
    BY <1>1, <2>1, PoolUpdate, Zenon
  <2> QED
    BY SMTT(40), <1>1, <2>2 DEF CertInv, PoolsReceived
<1> QED
  BY <1>4, <1>5, <1>6 DEF CertInv

\* Receiving a proposal (buffer_proposal, on_embedded_qc) keeps blocks
\* certified wherever they are.
LEMMA RecvProposalCert ==
    ASSUME TypeOK, CertInv, NEW i \in Node, NEW p \in proposals, RecvProposal(i, p)
    PROVE  CertInv'
<1> DEFINE c == [cs[i] EXCEPT !.hq = p.qc]
<1>1. /\ buffered' = [buffered EXCEPT ![i] = @ \cup {p}]
         \/ buffered' = [buffered EXCEPT ![i] = @]
      /\ deferred' = [deferred EXCEPT ![i] = @ \cup {p}]
         \/ deferred' = [deferred EXCEPT ![i] = @]
      /\ UNCHANGED <<network, votes>>
  BY Zenon DEF RecvProposal
<1>2. \/ \E buf, bod : Commit(i, p.qc, c, disk[i], buf, bod)
      \/ UNCHANGED <<chain, cs, disk, wanted>>
  BY ZenonT(40) DEF RecvProposal
<1>3. p.qc \in Block /\ cs[i] \in ConsensusState /\ disk[i] \in ConsensusState
  BY DEF TypeOK, Proposal
<1>4. c \in ConsensusState /\ c.hq = p.qc
  BY <1>3, RaiseType, HqRaise, ZenonT(40)
<1> HIDE DEF c
<1>5. signed \subseteq signed' /\ CertSet \subseteq CertSet'
  BY <1>1, CertSetGrows DEF network
<1>6. p.qc \in CertSet' /\ disk[i].hq \in CertSet'
  BY <1>5 DEF CertInv, MessagesCertified, StatesCertified
<1>7. StatesCertified'
  <2>1. CASE \E buf, bod : Commit(i, p.qc, c, disk[i], buf, bod)
    BY <2>1, <1>3, <1>4, <1>5, <1>6, CommitCert, ZenonT(40)
  <2> QED
    BY SMTT(40), <1>2, <2>1, <1>5, StatesKept
<1>8. MessagesCertified'
  BY <1>1, <1>5 DEF CertInv, MessagesCertified, network
<1>9. PoolsReceived'
  <2>1. buffered \in [Node -> SUBSET Proposal] /\ deferred \in [Node -> SUBSET Proposal]
    BY DEF TypeOK
  <2>2. \A j \in Node : buffered'[j] \subseteq buffered[j] \cup {p}
    BY <1>1, <2>1, PoolUpdate, Zenon
  <2>3. \A j \in Node : deferred'[j] \subseteq deferred[j] \cup {p}
    BY <1>1, <2>1, PoolUpdate, Zenon
  <2> QED
    BY SMTT(40), <1>1, <2>2, <2>3 DEF CertInv, PoolsReceived, network
<1> QED
  BY <1>7, <1>8, <1>9 DEF CertInv

\* Recovering a body by hash (GetBlockByHash) keeps blocks certified wherever
\* they are.
LEMMA RecoverBodyCert ==
    ASSUME TypeOK, CertInv, NEW i \in Node, NEW b, RecoverBody(i, b) PROVE CertInv'
<1>1. /\ b \in wanted[i]
      /\ Commit(i, b, cs[i], disk[i], buffered[i], bodies[i] \cup {b})
      /\ UNCHANGED <<network, pools, votes>>
  BY Zenon DEF RecoverBody
<1>2. CertSet \subseteq CertSet'
  <2>1. signed' = signed
    BY <1>1, Zenon DEF network
  <2> QED
    BY <2>1, CertSetGrows
<1>3. b \in Block /\ cs[i] \in ConsensusState /\ disk[i] \in ConsensusState
  <2>1. b \in wanted[i]
    BY <1>1, Zenon
  <2> QED
    BY <2>1, StateTypes, BodyTypes
<1>4. b \in CertSet' /\ cs[i].hq \in CertSet' /\ disk[i].hq \in CertSet'
  BY <1>1, <1>2 DEF CertInv, StatesCertified
<1>5. StatesCertified'
  BY <1>1, <1>2, <1>3, <1>4, CommitCert, ZenonT(40)
<1>6. MessagesCertified' /\ PoolsReceived'
  BY <1>1, <1>2 DEF CertInv, MessagesCertified, PoolsReceived, network, pools
<1> QED
  BY <1>5, <1>6 DEF CertInv

\* An announced QC keeps blocks certified wherever they are.
LEMMA RecvQcCert ==
    ASSUME TypeOK, CertInv, NEW i \in Node, NEW b, RecvQc(i, b) PROVE CertInv'
<1> DEFINE c == IF b.slot > cs[i].hq.slot THEN [cs[i] EXCEPT !.hq = b] ELSE cs[i]
<1>1. /\ b \in qcOut
      /\ Commit(i, b, c, disk[i], buffered[i], bodies[i])
      /\ UNCHANGED <<network, pools, votes>>
  BY Zenon DEF RecvQc
<1>2. CertSet \subseteq CertSet'
  <2>1. signed' = signed
    BY <1>1, Zenon DEF network
  <2> QED
    BY <2>1, CertSetGrows
<1>3. b \in Block /\ cs[i] \in ConsensusState /\ disk[i] \in ConsensusState
  <2>1. b \in qcOut
    BY <1>1, Zenon
  <2> QED
    BY <2>1, StateTypes, MessageTypes
<1>4. b \in CertSet' /\ cs[i].hq \in CertSet' /\ disk[i].hq \in CertSet'
  BY <1>1, <1>2 DEF CertInv, MessagesCertified, StatesCertified
<1>5. c \in ConsensusState /\ c.hq \in CertSet'
  <2>1. [cs[i] EXCEPT !.hq = b] \in ConsensusState /\ [cs[i] EXCEPT !.hq = b].hq = b
    BY <1>3, RaiseType, HqRaise, Zenon
  <2>2. c = [cs[i] EXCEPT !.hq = b] \/ c = cs[i]
    BY Zenon
  <2> HIDE DEF c
  <2> QED
    BY <1>3, <1>4, <2>1, <2>2, Zenon
<1> HIDE DEF c
<1>6. StatesCertified'
  BY <1>1, <1>2, <1>3, <1>4, <1>5, CommitCert, ZenonT(40)
<1>7. MessagesCertified' /\ PoolsReceived'
  BY <1>1, <1>2 DEF CertInv, MessagesCertified, PoolsReceived, network, pools
<1> QED
  BY <1>6, <1>7 DEF CertInv

\* Receiving a vote (on_vote, try_form_qc) keeps blocks certified wherever they
\* are.
LEMMA RecvVoteCert ==
    ASSUME TypeOK, CertInv, NEW i \in Node, NEW m, RecvVote(i, m) PROVE CertInv'
<1>1. /\ m \in votesOut
      /\ on_vote(i, m, cs[i], disk[i])
      /\ UNCHANGED <<proposals, signed, votesOut, pools>>
  BY Zenon DEF RecvVote
<1>2. signed \subseteq signed' /\ CertSet \subseteq CertSet'
  <2>1. signed' = signed
    BY <1>1, Zenon
  <2> QED
    BY <2>1, CertSetGrows
<1>3. m \in Node \X Block /\ cs[i] \in ConsensusState /\ disk[i] \in ConsensusState
  <2>1. m \in votesOut
    BY <1>1, Zenon
  <2> QED
    BY <2>1, StateTypes, MessageTypes
<1>4. m \in signed' /\ cs[i].hq \in CertSet' /\ disk[i].hq \in CertSet'
  BY <1>1, <1>2 DEF CertInv, MessagesCertified, StatesCertified
<1>5. /\ StatesCertified'
      /\ \A j \in Node : votes'[j] \subseteq signed'
      /\ qcOut' \subseteq CertSet'
  BY <1>1, <1>2, <1>3, <1>4, OnVoteCert, ZenonT(40)
<1>6. MessagesCertified' /\ PoolsReceived'
  BY <1>1, <1>2, <1>5 DEF CertInv, MessagesCertified, PoolsReceived, pools
<1> QED
  BY <1>5, <1>6 DEF CertInv

\* The vote a node casts is signed before it is tallied, and the highest_qc
\* create_vote adopts is the one inside the proposal.
LEMMA SelectAndVoteCert ==
    ASSUME TypeOK, CertInv, NEW i \in Node, SelectAndVote(i) PROVE CertInv'
<1>1. PICK p \in buffered[i] :
          /\ signed' = signed \cup {<<i, p.block>>}
          /\ votesOut' = votesOut \/ votesOut' = votesOut \cup {<<i, p.block>>}
          /\ on_vote(i, <<i, p.block>>, create_vote(p, cs[i]), create_vote(p, cs[i]))
  BY Zenon DEF SelectAndVote, select_and_vote
<1>2. UNCHANGED <<proposals, buffered, deferred>>
  BY ZenonT(40) DEF SelectAndVote
<1> DEFINE c == create_vote(p, cs[i])
           m == <<i, p.block>>
<1>3. p \in Proposal /\ p.block \in Block /\ p.qc \in Block /\ cs[i] \in ConsensusState
  BY StateTypes, PoolTypes DEF Proposal
<1>4. signed \subseteq signed' /\ CertSet \subseteq CertSet'
  <2>1. signed \subseteq signed'
    BY <1>1, Zenon
  <2> QED
    BY <2>1, CertSetGrows
<1>5. p.qc \in CertSet' /\ cs[i].hq \in CertSet'
  BY <1>4 DEF CertInv, MessagesCertified, StatesCertified, PoolsReceived
<1>6. c.hq = p.qc \/ c.hq = cs[i].hq
  BY <1>3 DEF create_vote, ConsensusState
<1>7. c \in ConsensusState
  BY <1>3, CreateVoteType
<1>8. m \in Node \X Block /\ m \in signed'
  BY <1>1, <1>3
<1>9. on_vote(i, m, c, c)
  BY <1>1
<1> HIDE DEF c, m
<1>10. c.hq \in CertSet'
  BY <1>5, <1>6
<1>11. /\ StatesCertified'
       /\ \A j \in Node : votes'[j] \subseteq signed'
       /\ qcOut' \subseteq CertSet'
  BY <1>4, <1>7, <1>8, <1>9, <1>10, OnVoteCert, ZenonT(40)
<1>12. MessagesCertified' /\ PoolsReceived'
  BY <1>1, <1>2, <1>4, <1>11 DEF CertInv, MessagesCertified, PoolsReceived
<1> QED
  BY <1>11, <1>12 DEF CertInv

\* A view change moves no highest_qc; a fallback block carries its builder's.
LEMMA OnViewChangeCert ==
    ASSUME TypeOK, CertInv, NEW i \in Node, NEW m, NEW own, on_view_change(i, m, own),
           UNCHANGED <<signed, votesOut, qcOut, chain, votes, wanted>>
    PROVE  CertInv'
<1> DEFINE bumped == [cs[i] EXCEPT !.view = @ + 1]
<1>1. \E c, t, buf :
        /\ c = bumped \/ c = cs[i]
        /\ cs' = [cs EXCEPT ![i] = c]
        /\ disk' = [disk EXCEPT ![i] = c] \/ disk' = disk
        /\ BuildFallback(i, c, t, buf) \/ UNCHANGED <<proposals, bodies, built>>
  BY Zenon DEF on_view_change
<1>2. PICK c :
        /\ c = bumped \/ c = cs[i]
        /\ cs' = [cs EXCEPT ![i] = c]
        /\ disk' = [disk EXCEPT ![i] = c] \/ disk' = disk
        /\ \E t, buf : BuildFallback(i, c, t, buf) \/ UNCHANGED <<proposals, bodies, built>>
  BY <1>1, ZenonT(40)
<1>3. bumped.hq = cs[i].hq
  BY DEF TypeOK, ConsensusState
<1> HIDE DEF bumped
<1>4. CertSet \subseteq CertSet' /\ c.hq \in CertSet'
  <2>1. CertSet \subseteq CertSet'
    BY CertSetGrows
  <2>2. cs[i].hq \in CertSet
    BY StatesOf, Zenon
  <2>3. c.hq = cs[i].hq
    BY <1>2, <1>3, Zenon
  <2> QED
    BY <2>1, <2>2, <2>3
<1>5. \A j \in Node : cs'[j].hq \in CertSet' /\ disk'[j].hq \in CertSet'
  <2> TAKE j \in Node
  <2>1. cs[j].hq \in CertSet /\ disk[j].hq \in CertSet
    BY StatesOf, Zenon
  <2>2. cs'[j] = c \/ cs'[j] = cs[j]
    BY <1>2, StateTypes, Zenon
  <2>3. disk'[j] = c \/ disk'[j] = disk[j]
    BY <1>2, StateTypes, Zenon
  <2> QED
    BY <1>4, <2>1, <2>2, <2>3
<1>6. chain' \in [Node -> [Slot -> CertSet']]
  BY <1>4, ChainGrows, ZenonT(40) DEF CertInv, StatesCertified
<1>7. StatesCertified'
  <2>1. \A j \in Node : wanted'[j] \subseteq CertSet'
    BY <1>4, StatesOf
  <2> QED
    BY <1>5, <1>6, <2>1, StatesFrom, Zenon
<1>8. proposals \subseteq proposals' /\ \A p \in proposals' \ proposals : p.qc = c.hq
  <2>1. \/ proposals' = proposals
        \/ proposals' = proposals \cup {[block |-> FreshBlock(c.target, c.view), qc |-> c.hq]}
    BY <1>2, Zenon DEF BuildFallback
  <2> QED
    BY <2>1
<1>9. MessagesCertified'
  BY <1>4, <1>8 DEF CertInv, MessagesCertified
<1>10. PoolsReceived'
  <2>1. \E S \in SUBSET deferred[i] :
          /\ buffered' = [buffered EXCEPT ![i] = buffered[i] \cup S]
          /\ deferred' = [deferred EXCEPT ![i] = @ \ S]
    <3>1. Drain(i, m[2]) \in SUBSET deferred[i] /\ {} \in SUBSET deferred[i]
      BY DEF Drain
    <3> QED
      BY <3>1, Zenon DEF on_view_change
  <2>2. PICK S \in SUBSET deferred[i] :
          /\ buffered' = [buffered EXCEPT ![i] = buffered[i] \cup S]
          /\ deferred' = [deferred EXCEPT ![i] = @ \ S]
    BY ZenonT(40), <2>1
  <2>3. ASSUME NEW j \in Node
        PROVE  buffered'[j] \subseteq proposals' /\ deferred'[j] \subseteq proposals'
    <3>1. /\ buffered'[j] = IF j = i THEN buffered[i] \cup S ELSE buffered[j]
          /\ deferred'[j] = IF j = i THEN deferred[i] \ S ELSE deferred[j]
      BY <2>2 DEF TypeOK
    <3> QED
      BY <3>1, <1>8 DEF CertInv, PoolsReceived
  <2> QED
    BY <2>3 DEF CertInv, PoolsReceived
<1> QED
  BY <1>7, <1>9, <1>10 DEF CertInv

\* advance_slot, with its persisting and pruning, keeps blocks certified
\* wherever they are.
LEMMA AdvanceSlotCert ==
    ASSUME TypeOK, CertInv, NEW i \in Node, AdvanceSlot(i) PROVE CertInv'
<1>1. /\ disk' = [disk EXCEPT ![i] = cs[i]]
      /\ UNCHANGED <<network, chain, cs, wanted>>
  BY Zenon DEF AdvanceSlot
<1>2. CertSet \subseteq CertSet'
  BY <1>1, CertSetGrows DEF network
<1>3. chain' \in [Node -> [Slot -> CertSet']]
  BY <1>1, <1>2, ChainGrows, ZenonT(40) DEF CertInv, StatesCertified
<1>4. StatesCertified'
  <2>1. ASSUME NEW j \in Node PROVE cs'[j].hq \in CertSet' /\ disk'[j].hq \in CertSet'
    <3>1. cs[j].hq \in CertSet /\ disk[j].hq \in CertSet /\ cs[i].hq \in CertSet
      BY StatesOf, Zenon
    <3>2. cs'[j] = cs[j] /\ (disk'[j] = cs[i] \/ disk'[j] = disk[j])
      BY <1>1, StateTypes
    <3> QED
      BY <1>2, <3>1, <3>2
  <2>2. ASSUME NEW j \in Node PROVE wanted'[j] \subseteq CertSet'
    BY <1>1, <1>2, StatesOf
  <2> QED
    BY <1>3, <2>1, <2>2, StatesFrom, Zenon
<1>5. MessagesCertified'
  BY <1>1, <1>2 DEF CertInv, MessagesCertified, network
<1>6. ASSUME NEW j \in Node
      PROVE  /\ votes'[j] \subseteq votes[j]
             /\ buffered'[j] \subseteq buffered[j] /\ deferred'[j] \subseteq deferred[j]
  <2> DEFINE floor(x) == IF x < cs[i].target THEN x ELSE cs[i].target
             Keep(ps, x) == {p \in ps : p.block.slot >= floor(x)}
  <2>1. PICK before :
          /\ votes' = [votes EXCEPT ![i] = {m \in @ : m[2].slot >= floor(before)}]
          /\ buffered' = [buffered EXCEPT ![i] = Keep(@, before)]
          /\ deferred' = [deferred EXCEPT ![i] = Keep(@, before)]
    BY ZenonT(40) DEF AdvanceSlot
  <2> DEFINE V == {m \in votes[i] : m[2].slot >= floor(before)}
             B == Keep(buffered[i], before)
             D == Keep(deferred[i], before)
  <2>2. V \subseteq votes[i] /\ B \subseteq buffered[i] /\ D \subseteq deferred[i]
    BY Zenon
  <2>3. /\ votes' = [votes EXCEPT ![i] = V]
        /\ buffered' = [buffered EXCEPT ![i] = B]
        /\ deferred' = [deferred EXCEPT ![i] = D]
    BY <2>1, Zenon
  <2> HIDE DEF V, B, D
  <2>4. votes'[j] \subseteq votes[j]
    BY <2>2, <2>3, TallyTypes
  <2>5. buffered'[j] \subseteq buffered[j] /\ deferred'[j] \subseteq deferred[j]
    BY <2>2, <2>3, PoolTypes
  <2> QED
    BY <2>4, <2>5
<1>7. PoolsReceived'
  BY <1>1, <1>6, PoolsFrom DEF network
<1> QED
  BY <1>4, <1>5, <1>7 DEF CertInv

\* A sync response keeps blocks certified wherever they are.
LEMMA SyncCert ==
    ASSUME TypeOK, CertInv, NEW i \in Node, NEW j \in Node, Sync(i, j) PROVE CertInv'
<1> DEFINE s == head_slot[i] + 1
           next == advance_target_height(cs[i], s + 1)
<1>1. /\ chain' = [chain EXCEPT ![i][s] = chain[j][s]]
      /\ cs' = [cs EXCEPT ![i] = next]
      /\ disk' = [disk EXCEPT ![i] = next] \/ disk' = disk
      /\ UNCHANGED <<network, pools, votes, wanted>>
  BY Zenon DEF Sync
<1>2. s \in Slot /\ cs[i] \in ConsensusState
  <2>1. s <= MaxHeight
    BY Zenon DEF Sync
  <2> QED
    BY <2>1, EngineAssumption, ChainTypes, StateTypes DEF Slot
<1>3. next.hq = cs[i].hq
  BY <1>2, HqAdvance
<1> HIDE DEF s, next
<1>4. CertSet \subseteq CertSet'
  BY <1>1, CertSetGrows DEF network
<1>5. chain' \in [Node -> [Slot -> CertSet']]
  <2>1. chain \in [Node -> [Slot -> CertSet']]
    BY <1>4, ChainGrows, Zenon DEF CertInv, StatesCertified
  <2>2. chain[j][s] \in CertSet' /\ chain[i] \in [Slot -> CertSet']
    BY <1>2, <2>1
  <2>3. [chain[i] EXCEPT ![s] = chain[j][s]] \in [Slot -> CertSet']
    BY ZenonT(40), <2>2
  <2> QED
    BY <1>1, <2>1, <2>3
<1>6. \A k \in Node : cs'[k].hq \in CertSet' /\ disk'[k].hq \in CertSet'
  BY <1>1, <1>3, <1>4 DEF CertInv, StatesCertified, TypeOK
<1>7. StatesCertified'
  <2>1. \A k \in Node : wanted'[k] \subseteq CertSet'
    BY <1>1, <1>4, StatesOf
  <2> QED
    BY <1>5, <1>6, <2>1, StatesFrom, Zenon
<1>8. MessagesCertified' /\ PoolsReceived'
  BY <1>1, <1>4 DEF CertInv, MessagesCertified, PoolsReceived, network, pools
<1> QED
  BY <1>7, <1>8 DEF CertInv

\* What a restart reloads is what was certified when it was persisted.
LEMMA RestartCert ==
    ASSUME TypeOK, CertInv, NEW i \in Node, Restart(i) PROVE CertInv'
<1>1. /\ cs' = [cs EXCEPT ![i] = disk[i]]
      /\ wanted' = [wanted EXCEPT ![i] = {}]
      /\ votes' = [votes EXCEPT ![i] = {}]
      /\ buffered' = [buffered EXCEPT ![i] = {}]
      /\ deferred' = [deferred EXCEPT ![i] = {}]
      /\ UNCHANGED <<network, disk, chain>>
  BY Zenon DEF Restart, attach_consensus_store
<1>2. CertSet \subseteq CertSet'
  BY <1>1, CertSetGrows DEF network
<1>3. chain' \in [Node -> [Slot -> CertSet']]
  BY <1>1, <1>2, ChainGrows, ZenonT(40) DEF CertInv, StatesCertified
<1>4. ASSUME NEW j \in Node
      PROVE  /\ cs'[j] = cs[j] \/ cs'[j] = disk[j]
             /\ wanted'[j] \subseteq wanted[j]
  BY <1>1, StateTypes, BodyTypes
<1>5. ASSUME NEW j \in Node
      PROVE  /\ votes'[j] \subseteq votes[j]
             /\ buffered'[j] \subseteq buffered[j] /\ deferred'[j] \subseteq deferred[j]
  BY <1>1, TallyTypes, PoolTypes
<1>6. StatesCertified'
  <2>1. ASSUME NEW j \in Node PROVE cs'[j].hq \in CertSet' /\ disk'[j].hq \in CertSet'
    <3>1. cs[j].hq \in CertSet /\ disk[j].hq \in CertSet /\ disk'[j] = disk[j]
      BY <1>1, StatesOf, Zenon
    <3> QED
      BY <1>2, <1>4, <3>1
  <2>2. ASSUME NEW j \in Node PROVE wanted'[j] \subseteq CertSet'
    BY <1>2, <1>4, StatesOf
  <2> QED
    BY <1>3, <2>1, <2>2, StatesFrom, Zenon
<1>7. MessagesCertified'
  BY <1>1, <1>2 DEF CertInv, MessagesCertified, network
<1>8. PoolsReceived'
  BY <1>1, <1>5, PoolsFrom DEF network
<1> QED
  BY <1>6, <1>7, <1>8, Zenon DEF CertInv

\* A member that runs other code keeps blocks certified wherever they are.
LEMMA OtherCodeCert ==
    ASSUME TypeOK, CertInv, NEW i \in Node, OtherCode(i) PROVE CertInv'
<1>1. UNCHANGED <<qcOut, disk, chain, cs, pools, votes, wanted>>
  BY ZenonT(40) DEF OtherCode
<1>2. /\ signed \subseteq signed' /\ proposals \subseteq proposals'
      /\ votesOut' \ votesOut \subseteq signed'
      /\ \A p \in proposals' \ proposals : p.qc = Genesis \/ p.qc \in qcOut
  <2>1. CASE \E b, q : /\ q \in {Genesis} \cup qcOut
                        /\ proposals' = proposals \cup {[block |-> b, qc |-> q]}
                        /\ UNCHANGED <<signed, votesOut>>
    BY <2>1
  <2>2. CASE \E m : /\ signed' = signed \cup {m} /\ votesOut' = votesOut \cup {m}
                    /\ proposals' = proposals
    BY <2>2
  <2>3. CASE UNCHANGED <<proposals, signed, votesOut>>
    BY <2>3
  <2> QED
    BY <2>1, <2>2, <2>3, Zenon DEF OtherCode
<1>3. CertSet \subseteq CertSet'
  BY <1>2, CertSetGrows
<1>4. StatesCertified'
  BY <1>1, <1>3, StatesKept
<1>5. MessagesCertified'
  <2>1. /\ votesOut \subseteq signed /\ qcOut \subseteq CertSet
        /\ \A p \in proposals : p.qc \in CertSet
    BY Zenon DEF CertInv, MessagesCertified
  <2>2. votesOut' \subseteq signed' /\ qcOut' \subseteq CertSet'
    BY <1>1, <1>2, <1>3, <2>1
  <2>3. ASSUME NEW p \in proposals' PROVE p.qc \in CertSet'
    BY <1>2, <1>3, <2>1, GenesisCert
  <2> QED
    BY <2>2, <2>3, Zenon DEF MessagesCertified
<1>6. PoolsReceived'
  BY <1>1, <1>2 DEF CertInv, PoolsReceived, pools
<1> QED
  BY <1>4, <1>5, <1>6 DEF CertInv

\* A step that leaves certificates, votes and pools alone.
LEMMA QuietCert ==
    ASSUME CertInv, UNCHANGED <<network, disk, chain, cs, pools, votes, wanted>>
    PROVE  CertInv'
<1>1. CertSet \subseteq CertSet'
  BY CertSetGrows DEF network
<1>2. StatesCertified'
  BY SMTT(40), <1>1, StatesKept
<1>3. MessagesCertified' /\ PoolsReceived'
  BY <1>1 DEF CertInv, MessagesCertified, PoolsReceived, network, pools
<1> QED
  BY <1>2, <1>3 DEF CertInv

\* Every step keeps CertInv.
LEMMA NextCert == TypeOK /\ CertInv /\ [Next]_vars => CertInv'
<1> SUFFICES ASSUME TypeOK, CertInv, [Next]_vars PROVE CertInv'
  OBVIOUS
<1> USE UpIsNode
<1>1. CASE UNCHANGED vars
  <2>1. UNCHANGED <<network, disk, chain, cs, pools, votes, wanted>>
    BY <1>1 DEF vars, network, pools
  <2> QED
    BY SMTT(40), <2>1, QuietCert
<1>2. ASSUME NEW i \in Up, Receive(i) PROVE CertInv'
  <2>1. ASSUME NEW b, RecvBody(i, b) PROVE CertInv'
    BY <2>1, QuietCert, Zenon DEF RecvBody
  <2>2. ASSUME NEW m, RecvViewChange(i, m) PROVE CertInv'
    BY <2>2, OnViewChangeCert, Zenon DEF RecvViewChange
  <2> QED
    BY <1>2, <2>1, <2>2, RecvProposalCert, RecoverBodyCert, RecvVoteCert, RecvQcCert,
       SyncCert, ZenonT(40) DEF Receive
<1>3. ASSUME NEW i \in Up, Timeout(i) PROVE CertInv'
  BY <1>3, OnViewChangeCert, Zenon DEF Timeout
<1>4. ASSUME NEW i \in Up, Propose(i) \/ SelectAndVote(i) \/ AdvanceSlot(i) \/ Restart(i)
      PROVE  CertInv'
  BY <1>4, ProposeCert, SelectAndVoteCert, AdvanceSlotCert, RestartCert, Zenon
<1>5. ASSUME NEW i \in Byz, OtherCode(i) PROVE CertInv'
  BY <1>5, OtherCodeCert, Zenon
<1> QED
  BY <1>1, <1>2, <1>3, <1>4, <1>5, ZenonT(40) DEF Next

\* No node ever applies a block, or holds as highest_qc a certificate, that a
\* quorum of the committee did not sign: the QC gate in front of
\* commit_canonical holds on every path that leads there.
THEOREM AppliedIsCertified == Spec => []OnlyCertifiedApplied
<1>1. TypeOK /\ CertInv => OnlyCertifiedApplied
  BY DEF CertInv, StatesCertified, OnlyCertifiedApplied, CertSet, None
<1> QED
  BY <1>1, InitType, NextType, InitCert, NextCert, PTL DEF Spec

\* Nodes that apply blocks of one (slot, view) apply the same block, since both
\* blocks are certified and a view certifies one block.
THEOREM AgreementInEveryView == Spec => []AgreementWithinView
<1>1. TypeOK /\ OneQcPerView /\ OnlyCertifiedApplied => AgreementWithinView
  <2> SUFFICES ASSUME TypeOK, OneQcPerView, OnlyCertifiedApplied,
                      NEW i \in Node, NEW j \in Node, NEW s \in Slot,
                      chain[i][s] # None, chain[j][s] # None,
                      Ballot(chain[i][s]) = Ballot(chain[j][s])
               PROVE  chain[i][s] = chain[j][s]
    BY DEF AgreementWithinView
  <2>1. chain[i][s] \in Block /\ chain[j][s] \in Block
    <3>1. chain \in [Node -> [Slot -> Block]]
      BY ChainTypes, Zenon
    <3>2. chain[i] \in [Slot -> Block] /\ chain[j] \in [Slot -> Block]
      BY <3>1, Zenon
    <3> QED
      BY <3>2, Zenon
  <2>2. Certified(chain[i][s]) /\ Certified(chain[j][s])
    BY Zenon DEF OnlyCertifiedApplied
  <2> QED
    BY <2>1, <2>2, Zenon DEF OneQcPerView
<1> QED
  BY <1>1, TypeCorrect, EngineOneQcPerView, AppliedIsCertified, PTL
==============================================================================
