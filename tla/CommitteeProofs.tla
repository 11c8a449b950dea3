--------------------------- MODULE CommitteeProofs ---------------------------
(***************************************************************************)
(* Proofs about what the members of the committee do together: the ballots *)
(* they cast, the transactions they decrypt and the offences they report.  *)
(***************************************************************************)
EXTENDS Ballots, Decryption, Evidence, FiniteSetTheorems, WellFoundedInduction, TLAPS

\* Any two quorums P and Q of a committee V share a member outside F: each has
\* at least two thirds of V, so they overlap in a third, and F has less.
LEMMA QuorumsShareHonest ==
    ASSUME NEW V, IsFiniteSet(V), NEW F \in SUBSET V,
           3 * Cardinality(F) < Cardinality(V),
           NEW P \in SUBSET V, NEW Q \in SUBSET V,
           Cardinality(P) >= quorum_for_committee(Cardinality(V)),
           Cardinality(Q) >= quorum_for_committee(Cardinality(V))
    PROVE  \E v \in V \ F : v \in P /\ v \in Q
<1> DEFINE n == Cardinality(V)
<1>1. IsFiniteSet(P) /\ IsFiniteSet(Q) /\ IsFiniteSet(F) /\ IsFiniteSet(P \cap Q)
  BY Zenon, FS_Subset
<1>2. n \in Nat /\ Cardinality(F) \in Nat /\ Cardinality(P) \in Nat /\ Cardinality(Q) \in Nat
  BY Zenon, <1>1, FS_CardinalityType
<1>3. Cardinality(P \cap Q) = Cardinality(P) + Cardinality(Q) - Cardinality(P \cup Q)
  <2>1. Cardinality(P \cup Q) = Cardinality(P) + Cardinality(Q) - Cardinality(P \cap Q)
    BY Zenon, <1>1, FS_Union
  <2>2. Cardinality(P \cap Q) \in Nat
    BY Zenon, <1>1, FS_CardinalityType
  <2> QED
    BY <1>2, <2>1, <2>2
<1>4. Cardinality(P \cup Q) <= n /\ Cardinality(P \cup Q) \in Nat
  <2>1. P \cup Q \in SUBSET V
    BY Zenon
  <2> QED
    BY Zenon, <2>1, FS_Subset, FS_CardinalityType
<1>5. Cardinality(P \cap Q) > Cardinality(F)
  BY <1>2, <1>3, <1>4 DEF quorum_for_committee
<1>6. ~(P \cap Q \subseteq F)
  <2>1. SUFFICES ASSUME P \cap Q \subseteq F PROVE FALSE
    BY Zenon
  <2>2. Cardinality(P \cap Q) <= Cardinality(F)
    BY Zenon, <1>1, <2>1, FS_Subset
  <2> QED
    BY <2>2, <1>1, <1>2, <1>5, FS_CardinalityType
<1> QED
  BY Zenon, <1>6

------------------------------------------------------------------------------
(***************************************************************************)
(* Ballots, for every committee, every set of faulty members smaller than  *)
(* a third of it, and every set of blocks.                                 *)
(***************************************************************************)
\* Ballots is type-correct.
THEOREM TypeCorrect == Spec => []TypeOK
<1>1. Init => TypeOK
  BY Zenon DEF Init, TypeOK
<1>2. TypeOK /\ [Next]_votes => TypeOK'
  BY DEF TypeOK, Next, Cast
<1> QED
  BY <1>1, <1>2, PTL DEF Spec

\* An honest validator never votes for two blocks of one (slot, view).
THEOREM NoDoubleVote == Spec => []OneVotePerBallot
<1>1. Init => OneVotePerBallot
  BY Zenon DEF Init, OneVotePerBallot
<1>2. OneVotePerBallot /\ [Next]_votes => OneVotePerBallot'
  <2> SUFFICES ASSUME OneVotePerBallot, [Next]_votes PROVE OneVotePerBallot'
    BY Zenon
  <2>1. CASE UNCHANGED votes
    BY Zenon, <2>1 DEF OneVotePerBallot
  <2>2. ASSUME NEW v \in Validators, NEW b \in Blocks, Cast(v, b)
        PROVE  OneVotePerBallot'
    BY Zenon, <2>2 DEF OneVotePerBallot, Cast
  <2> QED
    BY Zenon, <2>1, <2>2 DEF Next
<1> QED
  BY <1>1, <1>2, PTL DEF Spec

\* At every moment the votes certify at most one block per (slot, view): two
\* certificates have an honest signer in common, who voted for one block only.
THEOREM OneQcPerView ==
    ASSUME FaultsBounded
    PROVE  Spec => []OneQcPerBallot
<1>1. OneVotePerBallot => OneQcPerBallot
  <2> SUFFICES ASSUME OneVotePerBallot,
                      NEW b \in Blocks, NEW c \in Blocks,
                      BallotOf[b] = BallotOf[c], Certified(b), Certified(c)
               PROVE  b = c
    BY Zenon DEF OneQcPerBallot
  <2>1. PICK v \in Validators \ Faulty : v \in Voters(b) /\ v \in Voters(c)
    BY QuorumsShareHonest DEF FaultsBounded, Certified, Voters
  <2> QED
    BY Zenon, <2>1 DEF OneVotePerBallot, Voters
<1> QED
  BY <1>1, NoDoubleVote, PTL

------------------------------------------------------------------------------
(***************************************************************************)
(* Threshold decryption.  A share exists only once its sender has applied  *)
(* the block, wherever the share is: under way, waiting, or in a           *)
(* decryptor.  A batch that a node has opened has no decryptor there any   *)
(* more, and a block is applied once, so nothing of it comes twice.        *)
(***************************************************************************)
Effects == [kind : {"plain", "decrypted", "refused"}, slot : BlockSlots]

DecTypes ==
    /\ head \in [Members -> 0..LastSlot]
    /\ effects \in [Members -> Seq(Effects)]
    /\ decryptor \in [Members -> [Encrypted -> SUBSET Members]]
    /\ queued \in [Members -> [Encrypted -> SUBSET Members]]
    /\ shareNet \subseteq [from : Members, to : Members, slot : Encrypted]

SharesAfterOrder ==
    /\ \A msg \in shareNet : head[msg.from] >= msg.slot
    /\ \A m \in Members, s \in Encrypted :
         /\ \A w \in decryptor[m][s] \cup queued[m][s] : head[w] >= s
         /\ decryptor[m][s] # NoDecryptor => head[m] >= s

\* What node m has done, given what it has applied and what it still decrypts.
LogInv(log, top, pend) ==
    /\ \A i \in 1..Len(log) : log[i].slot <= top
    /\ \A i \in 1..Len(log) : log[i].kind # "plain" =>
         log[i].slot \in Encrypted /\ pend[log[i].slot] = NoDecryptor
    /\ \A i, j \in 1..Len(log) : log[i] = log[j] => i = j

DecInv ==
    /\ DecTypes
    /\ SharesAfterOrder
    /\ \A m \in Members : LogInv(effects[m], head[m], decryptor[m])
    /\ OpenedAfterOrder

\* The members that have applied the block of slot s.
HaveApplied(s) == {w \in Members : head[w] >= s}

\* Before the first block nobody has applied, opened or sent anything.
LEMMA DecInitHolds == ASSUME DecInit PROVE DecInv
<1>1. \A m \in Members : effects[m] = <<>> /\ head[m] = 0
  BY Zenon DEF DecInit
<1>2. DecTypes
  <2>1. <<>> \in Seq(Effects) /\ 0 \in 0..LastSlot
    BY DecryptionAssumption
  <2> QED
    BY Zenon, <2>1 DEF DecTypes, DecInit, NoDecryptor
<1>3. SharesAfterOrder
  BY Zenon DEF SharesAfterOrder, DecInit, NoDecryptor
<1>4. \A m \in Members : LogInv(effects[m], head[m], decryptor[m])
  BY <1>1 DEF LogInv
<1>5. OpenedAfterOrder
  BY <1>1 DEF OpenedAfterOrder, Opened
<1> QED
  BY <1>2, <1>3, <1>4, <1>5, Zenon DEF DecInv

\* A set of members with a quorum in it is one.
LEMMA QuorumHasApplied ==
    ASSUME NEW T \in SUBSET Members, NEW S \in SUBSET T, Cardinality(S) >= DecryptThreshold
    PROVE  Cardinality(T) >= DecryptThreshold
<1>1. IsFiniteSet(T)
  BY Zenon, DecryptionAssumption, FS_Subset
<1>2. IsFiniteSet(S) /\ Cardinality(S) <= Cardinality(T)
  BY Zenon, <1>1, FS_Subset
<1>3. Cardinality(S) \in Nat /\ Cardinality(T) \in Nat /\ Cardinality(Members) \in Nat
  BY Zenon, <1>1, <1>2, DecryptionAssumption, FS_CardinalityType
<1> QED
  BY <1>2, <1>3 DEF DecryptThreshold

\* A head that moves forward keeps what a quorum has applied.
LEMMA OpenedStays ==
    ASSUME DecTypes, DecTypes', \A w \in Members : head'[w] >= head[w], NEW s \in BlockSlots,
           Cardinality(HaveApplied(s)) >= DecryptThreshold
    PROVE  Cardinality(HaveApplied(s)') >= DecryptThreshold
<1>1. HaveApplied(s) \subseteq HaveApplied(s)'
  BY DecryptionAssumption DEF HaveApplied, DecTypes, BlockSlots
<1> QED
  BY Zenon, <1>1, QuorumHasApplied DEF HaveApplied

\* Entry e is new to the log, and of a block that is applied by then.
NewEntry(log, e, top, top2, pend, pend2) ==
    /\ log \in Seq(Effects) /\ e \in Effects /\ top \in Nat /\ top2 \in Nat
    /\ LogInv(log, top, pend) /\ top <= top2 /\ e.slot <= top2
    /\ \A i \in 1..Len(log) : log[i] # e
    /\ \A s \in Encrypted : s <= top /\ pend[s] = NoDecryptor => pend2[s] = NoDecryptor
    /\ e.kind # "plain" => e.slot \in Encrypted /\ pend2[e.slot] = NoDecryptor

\* A new entry keeps the log free of repetitions (effects is append-only).
LEMMA LogGrows ==
    ASSUME NEW log, NEW e, NEW top, NEW top2, NEW pend, NEW pend2,
           NewEntry(log, e, top, top2, pend, pend2)
    PROVE  /\ Append(log, e) \in Seq(Effects)
           /\ LogInv(Append(log, e), top2, pend2)
           /\ \A i \in 1..Len(Append(log, e)) :
                Append(log, e)[i] = e \/ (i \in 1..Len(log) /\ Append(log, e)[i] = log[i])
<1> DEFINE new == Append(log, e)
           n == Len(log) + 1
<1>0. /\ log \in Seq(Effects) /\ e \in Effects /\ top \in Nat /\ top2 \in Nat
      /\ LogInv(log, top, pend) /\ top <= top2 /\ e.slot <= top2
      /\ \A i \in 1..Len(log) : log[i] # e
      /\ \A s \in Encrypted : s <= top /\ pend[s] = NoDecryptor => pend2[s] = NoDecryptor
      /\ e.kind # "plain" => e.slot \in Encrypted /\ pend2[e.slot] = NoDecryptor
  BY Zenon DEF NewEntry
<1>1. /\ new \in Seq(Effects) /\ Len(log) \in Nat /\ Len(new) = n
      /\ new[n] = e /\ \A i \in 1..Len(log) : new[i] = log[i] /\ log[i] \in Effects
  BY <1>0
<1> HIDE DEF new
<1>2. \A i \in 1..Len(new) : (i = n /\ new[i] = e) \/ (i \in 1..Len(log) /\ new[i] = log[i])
  BY <1>1
<1>3. \A i \in 1..Len(new) : new[i].slot <= top2
  <2>1. ASSUME NEW i \in 1..Len(log) PROVE log[i].slot <= top2
    <3>1. log[i].slot <= top
      BY <1>0, Zenon DEF LogInv
    <3>2. log[i].slot \in Int
      <4>1. log[i] \in Effects
        BY Zenon, <1>1
      <4> QED
        BY <4>1 DEF Effects, BlockSlots
    <3>3. top \in Int /\ top2 \in Int /\ top <= top2
      BY <1>0
    <3> QED
      BY <3>1, <3>2, <3>3
  <2> QED
    BY <1>0, <1>2, <2>1, Zenon
<1>4. \A i \in 1..Len(new) : new[i].kind # "plain" =>
        new[i].slot \in Encrypted /\ pend2[new[i].slot] = NoDecryptor
  <2>1. \A i \in 1..Len(log) : log[i].kind # "plain" =>
          log[i].slot \in Encrypted /\ pend2[log[i].slot] = NoDecryptor
    BY <1>0, Zenon DEF LogInv
  <2> QED
    BY <1>0, <1>2, <2>1, Zenon
<1>5. \A i, j \in 1..Len(new) : new[i] = new[j] => i = j
  <2> SUFFICES ASSUME NEW i \in 1..Len(new), NEW j \in 1..Len(new), new[i] = new[j]
               PROVE  i = j
    BY Zenon
  <2>1. \A k, l \in 1..Len(log) : log[k] = log[l] => k = l
    BY <1>0, Zenon DEF LogInv
  <2> QED
    BY Zenon, <1>0, <1>2, <2>1
<1>6. LogInv(new, top2, pend2)
  BY <1>3, <1>4, <1>5, Zenon DEF LogInv
<1> QED
  BY <1>1, <1>2, <1>6, Zenon DEF new

\* A log that stays while the head may move and decryptors may go.
LEMMA LogStays ==
    ASSUME NEW log \in Seq(Effects), NEW top \in Nat, NEW top2 \in Nat, NEW pend, NEW pend2,
           LogInv(log, top, pend), top <= top2,
           \A s \in Encrypted : s <= top /\ pend[s] = NoDecryptor => pend2[s] = NoDecryptor
    PROVE  LogInv(log, top2, pend2)
<1>1. \A i \in 1..Len(log) : log[i].slot \in Int /\ log[i].slot <= top
  <2>1. \A i \in 1..Len(log) : log[i] \in Effects
    OBVIOUS
  <2> QED
    BY <2>1 DEF LogInv, Effects, BlockSlots
<1>2. \A i \in 1..Len(log) : log[i].slot <= top2
  BY <1>1
<1> QED
  BY <1>2, Zenon DEF LogInv

\* Nobody else opens a batch: OpenedAfterOrder after a step of node m.
LEMMA OpenedStep ==
    ASSUME DecInv, DecTypes', NEW m \in Members,
           \A w \in Members : head'[w] >= head[w],
           \A w \in Members \ {m} : effects'[w] = effects[w],
           \A s \in BlockSlots : Opened(m, s)' =>
               Opened(m, s) \/ Cardinality(HaveApplied(s)') >= DecryptThreshold
    PROVE  OpenedAfterOrder'
<1> SUFFICES ASSUME NEW w \in Members, NEW s \in BlockSlots, Opened(w, s)'
             PROVE  Cardinality(HaveApplied(s)') >= DecryptThreshold
  BY Zenon DEF OpenedAfterOrder, HaveApplied
<1>1. CASE Opened(w, s)
  <2>1. Cardinality(HaveApplied(s)) >= DecryptThreshold
    BY <1>1, Zenon DEF DecInv, OpenedAfterOrder, HaveApplied
  <2> QED
    BY <2>1, OpenedStays, Zenon DEF DecInv
<1>2. CASE ~Opened(w, s)
  <2>1. w = m
    BY <1>2, Zenon DEF Opened
  <2> QED
    BY <1>2, <2>1, Zenon
<1> QED
  BY Zenon, <1>1, <1>2

\* What a node keeps and logs when it applies the block of slot s.
Leaves(m, s, d, log) ==
    \/ log = <<Plain(s)>> /\ d = Kicked(m, s)
    \/ /\ log = <<Plain(s), Refused(s)>> /\ d = NoDecryptor
       /\ s \in Encrypted /\ all_ready(Kicked(m, s))

\* Applying the next block (apply_canonical_after_qc, or the node's own vote)
\* keeps the invariant, whether the batch waits, fails at once or is absent.
LEMMA ApplyKeeps ==
    ASSUME DecInv, NEW m \in Members, NEW s, s = head[m] + 1, NEW d, NEW log,
           ApplyBlock(m, s, d, log), Leaves(m, s, d, log)
    PROVE  DecInv'
<1>1. /\ s \in BlockSlots
      /\ head' = [head EXCEPT ![m] = s]
      /\ effects' = [effects EXCEPT ![m] = @ \o log]
      /\ IF s \in Encrypted
         THEN /\ decryptor' = [decryptor EXCEPT ![m][s] = d]
              /\ queued' = [queued EXCEPT ![m][s] = {}]
              /\ shareNet' = shareNet \cup ShareMsgs(m, s)
         ELSE UNCHANGED <<decryptor, queued, shareNet>>
  BY Zenon DEF ApplyBlock
<1>2. /\ head[m] \in Nat /\ s \in Nat /\ head[m] < s /\ s <= LastSlot
      /\ head'[m] = s /\ \A w \in Members \ {m} : head'[w] = head[w]
  BY <1>1, DecryptionAssumption DEF DecInv, DecTypes, BlockSlots
<1>20. /\ effects[m] \in Seq(Effects) /\ effects'[m] = effects[m] \o log
       /\ \A w \in Members \ {m} : effects'[w] = effects[w]
  BY Zenon, <1>1 DEF DecInv, DecTypes
<1>3. s \in Encrypted => queued[m][s] \in SUBSET Members /\ d \in SUBSET Members
  BY DEF DecInv, DecTypes, Kicked, NoDecryptor, Leaves
<1>4. /\ decryptor' \in [Members -> [Encrypted -> SUBSET Members]]
      /\ queued' \in [Members -> [Encrypted -> SUBSET Members]]
      /\ shareNet' \subseteq [from : Members, to : Members, slot : Encrypted]
      /\ \A w \in Members, t \in Encrypted : <<w, t>> # <<m, s>> =>
           decryptor'[w][t] = decryptor[w][t] /\ queued'[w][t] = queued[w][t]
      /\ s \in Encrypted => decryptor'[m][s] = d /\ queued'[m][s] = {}
      /\ \A msg \in shareNet' : msg \in shareNet \/ (msg.from = m /\ msg.slot = s)
  <2>1. CASE s \in Encrypted
    <3>1. /\ decryptor' = [decryptor EXCEPT ![m][s] = d]
          /\ queued' = [queued EXCEPT ![m][s] = {}]
          /\ shareNet' = shareNet \cup ShareMsgs(m, s)
      BY Zenon, <1>1, <2>1
    <3>2. /\ decryptor' \in [Members -> [Encrypted -> SUBSET Members]]
          /\ queued' \in [Members -> [Encrypted -> SUBSET Members]]
      BY Zenon, <2>1, <3>1, <1>3 DEF DecInv, DecTypes
    <3>3. shareNet' \subseteq [from : Members, to : Members, slot : Encrypted]
      BY Zenon, <2>1, <3>1 DEF DecInv, DecTypes, ShareMsgs
    <3>4. \A msg \in shareNet' : msg \in shareNet \/ (msg.from = m /\ msg.slot = s)
      BY Zenon, <3>1 DEF ShareMsgs
    <3>5. ASSUME NEW w \in Members, NEW t \in Encrypted, <<w, t>> # <<m, s>>
          PROVE  decryptor'[w][t] = decryptor[w][t] /\ queued'[w][t] = queued[w][t]
      BY Zenon, <3>1, <3>5 DEF DecInv, DecTypes
    <3>6. decryptor'[m][s] = d /\ queued'[m][s] = {}
      BY Zenon, <2>1, <3>1 DEF DecInv, DecTypes
    <3> QED
      BY <3>2, <3>3, <3>4, <3>5, <3>6, Zenon
  <2>2. CASE s \notin Encrypted
    BY <1>1, <2>2, Zenon DEF DecInv, DecTypes
  <2> QED
    BY Zenon, <2>1, <2>2
<1>5. \A w \in Members : head'[w] >= head[w] /\ head[w] \in Nat /\ head'[w] \in Nat
  <2>1. ASSUME NEW w \in Members
        PROVE  head'[w] >= head[w] /\ head[w] \in Nat /\ head'[w] \in Nat
    <3>1. head \in [Members -> 0..LastSlot] /\ head[w] \in Nat
      BY DecryptionAssumption DEF DecInv, DecTypes
    <3> QED
      BY <1>2, <3>1
  <2> QED
    BY <2>1, Zenon
<1>6. \A t \in Encrypted : t \in Nat /\ t \in BlockSlots
  BY DecryptionAssumption DEF BlockSlots
<1>7. s \in Encrypted => \A w \in Kicked(m, s) : w \in Members /\ head'[w] >= s
  BY <1>2, <1>3, <1>5, <1>6 DEF Kicked, DecInv, SharesAfterOrder
<1>8. SharesAfterOrder'
  <2>1. ASSUME NEW msg \in shareNet' PROVE head'[msg.from] >= msg.slot
    <3>1. CASE msg \in shareNet
      <4>1. msg.from \in Members /\ msg.slot \in Nat /\ head[msg.from] >= msg.slot
        BY Zenon, <3>1, <1>6 DEF DecInv, DecTypes, SharesAfterOrder
      <4> QED
        BY <4>1, <1>5
    <3>2. CASE msg.from = m /\ msg.slot = s
      BY <3>2, <1>2
    <3> QED
      BY <1>4, <2>1, <3>1, <3>2, Zenon
  <2>2. ASSUME NEW w \in Members, NEW t \in Encrypted
        PROVE  /\ \A x \in decryptor'[w][t] \cup queued'[w][t] : head'[x] >= t
               /\ decryptor'[w][t] # NoDecryptor => head'[w] >= t
    <3>1. CASE <<w, t>> # <<m, s>>
      <4>1. /\ decryptor'[w][t] = decryptor[w][t] /\ queued'[w][t] = queued[w][t]
            /\ decryptor[w][t] \cup queued[w][t] \subseteq Members
        BY <1>4, <3>1 DEF DecInv, DecTypes
      <4>2. /\ \A x \in decryptor[w][t] \cup queued[w][t] : head[x] >= t
            /\ decryptor[w][t] # NoDecryptor => head[w] >= t
        BY Zenon DEF DecInv, SharesAfterOrder
      <4> QED
        BY <4>1, <4>2, <1>5, <1>6
    <3>2. CASE w = m /\ t = s
      BY <3>2, <1>2, <1>4, <1>7 DEF NoDecryptor, Leaves
    <3> QED
      BY Zenon, <3>1, <3>2
  <2> QED
    BY <2>1, <2>2, Zenon DEF SharesAfterOrder
<1> DEFINE one == Append(effects[m], Plain(s))
           both == Append(one, Refused(s))
<1>9. /\ effects[m] \o <<Plain(s)>> = one
      /\ effects[m] \o <<Plain(s), Refused(s)>> = both
      /\ Plain(s) \in Effects /\ Plain(s).kind = "plain" /\ Plain(s).slot = s
      /\ Refused(s) \in Effects /\ Refused(s).kind # "plain" /\ Refused(s).slot = s
      /\ Refused(s) # Plain(s)
      /\ \A t : Plain(s) \notin {Ran(t), Refused(t)}
      /\ \A t : Refused(s) \in {Ran(t), Refused(t)} => t = s
  <2>1. /\ Plain(s) \in Effects /\ Plain(s).kind = "plain" /\ Plain(s).slot = s
        /\ Refused(s) \in Effects /\ Refused(s).kind # "plain" /\ Refused(s).slot = s
    BY Zenon, <1>1 DEF Plain, Refused, Effects
  <2>2. /\ Refused(s) # Plain(s)
        /\ \A t : Plain(s) \notin {Ran(t), Refused(t)}
        /\ \A t : Refused(s) \in {Ran(t), Refused(t)} => t = s
    BY Zenon DEF Plain, Refused, Ran
  <2>3. \A p, q \in Effects : /\ effects[m] \o <<p>> = Append(effects[m], p)
                             /\ effects[m] \o <<p, q>> = Append(Append(effects[m], p), q)
    BY <1>20
  <2> QED
    BY <2>1, <2>2, <2>3, Zenon
<1>10. /\ LogInv(effects[m], head[m], decryptor[m])
       /\ \A i \in 1..Len(effects[m]) : effects[m][i] # Plain(s) /\ effects[m][i] # Refused(s)
  <2>1. LogInv(effects[m], head[m], decryptor[m])
    BY Zenon DEF DecInv
  <2>2. \A i \in 1..Len(effects[m]) : effects[m][i].slot <= head[m]
    BY <2>1, Zenon DEF LogInv
  <2>3. ASSUME NEW i \in 1..Len(effects[m])
        PROVE  effects[m][i] # Plain(s) /\ effects[m][i] # Refused(s)
    <3>1. effects[m][i].slot <= head[m]
      BY <2>2, Zenon
    <3>2. effects[m][i].slot # s
      BY <1>2, <3>1
    <3> QED
      BY <1>9, <3>2, Zenon
  <2> QED
    BY <2>1, <2>3, Zenon
<1>11. \A t \in Encrypted : t <= head[m] /\ decryptor[m][t] = NoDecryptor
                               => decryptor'[m][t] = NoDecryptor
  BY <1>2, <1>4, <1>6
<1>12. /\ one \in Seq(Effects) /\ LogInv(one, s, decryptor'[m])
       /\ \A i \in 1..Len(one) : one[i] = Plain(s) \/ (i \in 1..Len(effects[m]) /\ one[i] = effects[m][i])
  <2>1. head[m] <= s /\ Plain(s).slot <= s
    BY <1>2, <1>9
  <2>2. \A i \in 1..Len(effects[m]) : effects[m][i] # Plain(s)
    BY <1>10, Zenon
  <2>3. Plain(s).kind # "plain" => Plain(s).slot \in Encrypted /\ decryptor'[m][Plain(s).slot] = NoDecryptor
    BY <1>9, Zenon
  <2>4. NewEntry(effects[m], Plain(s), head[m], s, decryptor[m], decryptor'[m])
    BY <1>2, <1>20, <1>9, <1>10, <1>11, <2>1, <2>2, <2>3, Zenon DEF NewEntry
  <2> QED
    BY <2>4, LogGrows, Zenon
<1> HIDE DEF one
<1>13. /\ effects'[m] \in Seq(Effects) /\ LogInv(effects'[m], s, decryptor'[m])
       /\ \A t : Opened(m, t)' => Opened(m, t) \/ (t = s /\ s \in Encrypted /\ all_ready(Kicked(m, s)))
  <2>1. CASE log = <<Plain(s)>>
    <3>1. effects'[m] = one
      BY <1>20, <1>9, <2>1, Zenon
    <3> QED
      BY <3>1, <1>9, <1>12, Zenon DEF Opened
  <2>2. CASE /\ log = <<Plain(s), Refused(s)>> /\ d = NoDecryptor
             /\ s \in Encrypted /\ all_ready(Kicked(m, s))
    <3>1. effects'[m] = both
      BY <1>20, <1>9, <2>2, Zenon
    <3>2. \A i \in 1..Len(one) : one[i] # Refused(s)
      BY <1>9, <1>10, <1>12, Zenon
    <3>4. s <= s /\ Refused(s).slot <= s
      BY <1>2, <1>9
    <3>5. Refused(s).slot \in Encrypted /\ decryptor'[m][Refused(s).slot] = NoDecryptor
      BY <1>4, <1>9, <2>2, Zenon
    <3>6. \A t \in Encrypted : t <= s /\ decryptor'[m][t] = NoDecryptor => decryptor'[m][t] = NoDecryptor
      BY Zenon
    <3>3. /\ both \in Seq(Effects) /\ LogInv(both, s, decryptor'[m])
          /\ \A i \in 1..Len(both) : both[i] = Refused(s) \/ (i \in 1..Len(one) /\ both[i] = one[i])
      <4>1. NewEntry(one, Refused(s), s, s, decryptor'[m], decryptor'[m])
        BY <1>2, <1>9, <1>12, <3>2, <3>4, <3>5, <3>6, Zenon DEF NewEntry
      <4> QED
        BY <4>1, LogGrows, Zenon
    <3> HIDE DEF both
    <3> QED
      <4>1. \A i \in 1..Len(both) : \/ both[i] = Refused(s) \/ both[i] = Plain(s)
                                     \/ \E j \in 1..Len(effects[m]) : both[i] = effects[m][j]
        BY <3>3, <1>12, Zenon
      <4>2. ASSUME NEW t, NEW i \in 1..Len(both), both[i] \in {Ran(t), Refused(t)}
            PROVE  Opened(m, t) \/ t = s
        <5>1. CASE both[i] = Refused(s)
          BY <4>2, <5>1, <1>9
        <5>2. CASE both[i] = Plain(s)
          BY Zenon, <4>2, <5>2, <1>9
        <5>3. CASE \E j \in 1..Len(effects[m]) : both[i] = effects[m][j]
          BY Zenon, <4>2, <5>3 DEF Opened
        <5> QED
          BY <4>1, <4>2, <5>1, <5>2, <5>3, Zenon
      <4> QED
        BY <3>1, <3>3, <4>2, <2>2, Zenon DEF Opened
  <2> QED
    BY Zenon, <2>1, <2>2 DEF Leaves
<1>14. DecTypes'
  <2>1. effects' \in [Members -> Seq(Effects)] /\ head' \in [Members -> 0..LastSlot]
    <3>1. effects' = [w \in Members |-> effects'[w]] /\ head' = [w \in Members |-> head'[w]]
      BY Zenon, <1>1 DEF DecInv, DecTypes
    <3>2. \A w \in Members : effects'[w] \in Seq(Effects) /\ head'[w] \in 0..LastSlot
      <4>1. head'[m] \in 0..LastSlot /\ effects'[m] \in Seq(Effects)
        BY <1>2, <1>13
      <4>2. \A w \in Members : effects[w] \in Seq(Effects) /\ head[w] \in 0..LastSlot
        BY Zenon DEF DecInv, DecTypes
      <4> QED
        BY <1>2, <1>20, <4>1, <4>2, Zenon
    <3> QED
      BY Zenon, <3>1, <3>2
  <2> QED
    BY <1>4, <2>1, Zenon DEF DecTypes
<1>15. \A w \in Members : LogInv(effects[w], head[w], decryptor[w])'
  <2>1. ASSUME NEW w \in Members \ {m} PROVE decryptor'[w] = decryptor[w]
    BY Zenon, <1>1, <2>1 DEF DecInv, DecTypes
  <2> QED
    BY <1>2, <1>20, <1>13, <2>1, Zenon DEF DecInv
<1>16. ASSUME NEW t \in BlockSlots, Opened(m, t)', ~Opened(m, t)
       PROVE  Cardinality(HaveApplied(t)') >= DecryptThreshold
  <2>1. t = s /\ s \in Encrypted /\ Cardinality(Kicked(m, s)) >= DecryptThreshold
    BY <1>13, <1>16, Zenon DEF all_ready
  <2>2. Kicked(m, s) \subseteq HaveApplied(t)' /\ HaveApplied(t)' \subseteq Members
    BY Zenon, <1>7, <2>1 DEF HaveApplied
  <2> QED
    BY <2>1, <2>2, QuorumHasApplied, Zenon
<1>17. OpenedAfterOrder'
  <2>1. \A w \in Members : head'[w] >= head[w]
    BY <1>5, Zenon
  <2> QED
    BY <1>20, <1>14, <1>16, <2>1, OpenedStep, Zenon
<1> QED
  BY <1>8, <1>14, <1>15, <1>17, Zenon DEF DecInv

\* A step that only drops decryptors or queued shares of node m, or sends
\* shares of blocks it has applied.
LEMMA QuietKeeps ==
    ASSUME DecInv, NEW m \in Members, UNCHANGED <<head, effects>>, DecTypes',
           \A msg \in shareNet' : msg \in shareNet \/ (msg.from = m /\ head[m] >= msg.slot),
           \A w \in Members, t \in Encrypted :
               /\ decryptor'[w][t] \in {decryptor[w][t], NoDecryptor}
               /\ queued'[w][t] \in {queued[w][t], {}}
    PROVE  DecInv'
<1>1. SharesAfterOrder'
  <2>1. \A msg \in shareNet' : head'[msg.from] >= msg.slot
    BY Zenon DEF DecInv, SharesAfterOrder
  <2>2. ASSUME NEW w \in Members, NEW t \in Encrypted
        PROVE  /\ \A x \in decryptor'[w][t] \cup queued'[w][t] : head'[x] >= t
               /\ decryptor'[w][t] # NoDecryptor => head'[w] >= t
    <3>1. /\ \A x \in decryptor[w][t] \cup queued[w][t] : head[x] >= t
          /\ decryptor[w][t] # NoDecryptor => head[w] >= t
      BY Zenon DEF DecInv, SharesAfterOrder
    <3>2. /\ decryptor'[w][t] \in {decryptor[w][t], NoDecryptor}
          /\ queued'[w][t] \in {queued[w][t], {}}
      BY Zenon
    <3> QED
      BY <3>1, <3>2, Zenon DEF NoDecryptor
  <2> QED
    BY <2>1, <2>2, Zenon DEF SharesAfterOrder
<1>2. ASSUME NEW w \in Members PROVE LogInv(effects[w], head[w], decryptor[w])'
  <2>1. LogInv(effects[w], head[w], decryptor[w]) /\ head[w] \in Nat /\ effects[w] \in Seq(Effects)
    BY DecryptionAssumption DEF DecInv, DecTypes
  <2>2. \A t \in Encrypted : decryptor[w][t] = NoDecryptor => decryptor'[w][t] = NoDecryptor
    BY Zenon
  <2>3. LogInv(effects[w], head[w], decryptor'[w])
    BY <2>1, <2>2, Zenon DEF LogInv
  <2> QED
    BY <2>3, Zenon
<1>3. OpenedAfterOrder'
  BY Zenon DEF DecInv, OpenedAfterOrder, Opened
<1> QED
  BY <1>1, <1>2, <1>3, Zenon DEF DecInv

\* The retry sends shares of blocks the node has applied, and nothing else.
LEMMA RetryKeeps == ASSUME DecInv, NEW m \in Members, RetryShares(m) PROVE DecInv'
<1> DEFINE stuck == {s \in Encrypted : decryptor[m][s] # NoDecryptor /\ ~all_ready(decryptor[m][s])}
<1>1. /\ shareNet' = shareNet \cup UNION {ShareMsgs(m, s) : s \in stuck}
      /\ UNCHANGED <<head, effects, decryptor, queued>>
  BY Zenon DEF RetryShares
<1>2. \A s \in stuck : s \in Encrypted /\ head[m] >= s
  BY Zenon DEF DecInv, SharesAfterOrder
<1> HIDE DEF stuck
<1>3. ASSUME NEW msg \in shareNet', msg \notin shareNet
      PROVE  /\ msg \in [from : Members, to : Members, slot : Encrypted]
             /\ msg.from = m /\ head[m] >= msg.slot
  <2>1. PICK s \in stuck : msg \in ShareMsgs(m, s)
    BY Zenon, <1>1, <1>3
  <2> QED
    BY Zenon, <1>2, <2>1 DEF ShareMsgs
<1>4. DecTypes'
  BY <1>1, <1>3, Zenon DEF DecInv, DecTypes
<1> QED
  BY <1>1, <1>3, <1>4, QuietKeeps, Zenon

\* The clean-up of old slots, and a restart, only forget shares.
LEMMA CleanupKeeps ==
    ASSUME DecInv, NEW m \in Members, Cleanup(m) \/ RestartNode(m) PROVE DecInv'
<1>1. UNCHANGED <<head, effects, shareNet>>
  BY Zenon DEF Cleanup, RestartNode
<1>2. \E old \in SUBSET Encrypted :
        /\ decryptor' = [decryptor EXCEPT ![m] = [s \in Encrypted |-> IF s \in old THEN NoDecryptor ELSE decryptor[m][s]]]
        /\ queued' = [queued EXCEPT ![m] = [s \in Encrypted |-> IF s \in old THEN {} ELSE queued[m][s]]]
  <2>1. CASE Cleanup(m)
    <3> DEFINE old == {s \in Encrypted : s + DECRYPT_WINDOW <= head[m]}
    <3> WITNESS old \in SUBSET Encrypted
    <3> QED
      BY <2>1, Zenon DEF Cleanup
  <2>2. CASE RestartNode(m)
    <3> WITNESS Encrypted \in SUBSET Encrypted
    <3> QED
      BY Zenon, <2>2 DEF RestartNode
  <2> QED
    BY Zenon, <2>1, <2>2
<1>3. PICK old \in SUBSET Encrypted :
        /\ decryptor' = [decryptor EXCEPT ![m] = [s \in Encrypted |-> IF s \in old THEN NoDecryptor ELSE decryptor[m][s]]]
        /\ queued' = [queued EXCEPT ![m] = [s \in Encrypted |-> IF s \in old THEN {} ELSE queued[m][s]]]
  BY <1>2, Zenon
<1>4. DecTypes'
  BY Zenon, <1>1, <1>3 DEF DecInv, DecTypes, NoDecryptor
<1>5. ASSUME NEW w \in Members, NEW t \in Encrypted
      PROVE  /\ decryptor'[w][t] \in {decryptor[w][t], NoDecryptor}
             /\ queued'[w][t] \in {queued[w][t], {}}
  BY Zenon, <1>3 DEF DecInv, DecTypes
<1> QED
  BY <1>1, <1>4, <1>5, QuietKeeps, Zenon

\* The shares of one slot change at one node.
LEMMA PutShares ==
    ASSUME NEW f \in [Members -> [Encrypted -> SUBSET Members]], NEW m \in Members,
           NEW s \in Encrypted, NEW d \in SUBSET Members
    PROVE  [f EXCEPT ![m][s] = d] \in [Members -> [Encrypted -> SUBSET Members]]
  BY Zenon

\* A share that arrives is queued, added, or completes the batch, which runs and
\* gives up its decryptor (handle_decryption_shares).
LEMMA ShareKeeps == ASSUME DecInv, NEW m \in Members, AddDecryptionShares(m) PROVE DecInv'
<1>1. PICK msg \in shareNet :
        LET s == msg.slot
            has == decryptor[m][s] \cup {msg.from}
        IN  /\ shareNet' = shareNet \ {msg}
            /\ head' = head
            /\ \/ /\ decryptor[m][s] = NoDecryptor
                  /\ queued' = [queued EXCEPT ![m][s] = @ \cup {msg.from}]
                  /\ UNCHANGED <<effects, decryptor>>
               \/ /\ decryptor[m][s] # NoDecryptor /\ all_ready(has)
                  /\ effects' = [effects EXCEPT ![m] = Append(@, Ran(s))]
                  /\ decryptor' = [decryptor EXCEPT ![m][s] = NoDecryptor]
                  /\ UNCHANGED queued
               \/ /\ decryptor[m][s] # NoDecryptor
                  /\ decryptor' = [decryptor EXCEPT ![m][s] = has]
                  /\ UNCHANGED <<effects, queued>>
  BY Zenon DEF AddDecryptionShares
<1> DEFINE s == msg.slot
           from == msg.from
           has == decryptor[m][s] \cup {from}
<1>2. /\ shareNet' = shareNet \ {msg} /\ head' = head
      /\ \/ /\ decryptor[m][s] = NoDecryptor
            /\ queued' = [queued EXCEPT ![m][s] = @ \cup {from}]
            /\ UNCHANGED <<effects, decryptor>>
         \/ /\ decryptor[m][s] # NoDecryptor /\ all_ready(has)
            /\ effects' = [effects EXCEPT ![m] = Append(@, Ran(s))]
            /\ decryptor' = [decryptor EXCEPT ![m][s] = NoDecryptor]
            /\ UNCHANGED queued
         \/ /\ decryptor[m][s] # NoDecryptor
            /\ decryptor' = [decryptor EXCEPT ![m][s] = has]
            /\ UNCHANGED <<effects, queued>>
  BY <1>1, Zenon
<1>3. /\ from \in Members /\ s \in Encrypted /\ s \in BlockSlots /\ head[from] >= s
      /\ has \in SUBSET Members
  <2>1. msg \in [from : Members, to : Members, slot : Encrypted]
    BY Zenon DEF DecInv, DecTypes
  <2>2. from \in Members /\ s \in Encrypted /\ s \in BlockSlots
    BY Zenon, <2>1, DecryptionAssumption DEF BlockSlots
  <2>3. head[from] >= s
    BY Zenon DEF DecInv, SharesAfterOrder
  <2>4. decryptor[m][s] \in SUBSET Members
    BY <2>2 DEF DecInv, DecTypes
  <2> QED
    BY <2>2, <2>3, <2>4, Zenon
<1> HIDE DEF s, from
<1>4. /\ \A x \in has \cup queued[m][s] : head[x] >= s
      /\ decryptor[m][s] # NoDecryptor => head[m] >= s
  BY <1>3, Zenon DEF DecInv, SharesAfterOrder
<1> HIDE DEF has
<1>5. /\ decryptor' \in [Members -> [Encrypted -> SUBSET Members]]
      /\ queued' \in [Members -> [Encrypted -> SUBSET Members]]
      /\ shareNet' \subseteq [from : Members, to : Members, slot : Encrypted]
  <2>1. shareNet' \subseteq [from : Members, to : Members, slot : Encrypted]
    BY <1>2, Zenon DEF DecInv, DecTypes
  <2>2. /\ decryptor \in [Members -> [Encrypted -> SUBSET Members]]
        /\ queued \in [Members -> [Encrypted -> SUBSET Members]]
    BY Zenon DEF DecInv, DecTypes
  <2>3. decryptor' \in [Members -> [Encrypted -> SUBSET Members]]
    <3>1. \/ decryptor' = decryptor
          \/ decryptor' = [decryptor EXCEPT ![m][s] = {}]
          \/ decryptor' = [decryptor EXCEPT ![m][s] = has]
      BY <1>2, Zenon DEF NoDecryptor
    <3>2. \A d \in SUBSET Members :
            [decryptor EXCEPT ![m][s] = d] \in [Members -> [Encrypted -> SUBSET Members]]
      BY Zenon, <1>3, <2>2, PutShares
    <3>3. {} \in SUBSET Members /\ has \in SUBSET Members
      BY Zenon, <1>3
    <3> QED
      BY <2>2, <3>1, <3>2, <3>3, Zenon
  <2>4. queued' \in [Members -> [Encrypted -> SUBSET Members]]
    <3>1. queued' = queued \/ queued' = [queued EXCEPT ![m][s] = queued[m][s] \cup {from}]
      BY <1>2, Zenon
    <3>2. queued[m][s] \cup {from} \in SUBSET Members
      <4>1. queued[m][s] \in SUBSET Members /\ from \in Members
        BY <1>3, <2>2, Zenon
      <4> QED
        BY Zenon, <4>1
    <3>3. \A d \in SUBSET Members :
            [queued EXCEPT ![m][s] = d] \in [Members -> [Encrypted -> SUBSET Members]]
      BY Zenon, <1>3, <2>2, PutShares
    <3> QED
      BY <2>2, <3>1, <3>2, <3>3, Zenon
  <2> QED
    BY Zenon, <2>1, <2>3, <2>4
<1>6. \A w \in Members, t \in Encrypted :
        /\ decryptor'[w][t] = decryptor[w][t]
           \/ (w = m /\ t = s /\ decryptor[m][s] # NoDecryptor /\ decryptor'[w][t] \in {NoDecryptor, has})
        /\ queued'[w][t] = queued[w][t]
           \/ (w = m /\ t = s /\ queued'[w][t] = queued[m][s] \cup {from})
  BY <1>2 DEF DecInv, DecTypes
<1>7. SharesAfterOrder'
  <2>1. \A x \in shareNet' : head'[x.from] >= x.slot
    BY <1>2, Zenon DEF DecInv, SharesAfterOrder
  <2>2. ASSUME NEW w \in Members, NEW t \in Encrypted
        PROVE  /\ \A x \in decryptor'[w][t] \cup queued'[w][t] : head'[x] >= t
               /\ decryptor'[w][t] # NoDecryptor => head'[w] >= t
    <3>1. /\ \A x \in decryptor[w][t] \cup queued[w][t] : head[x] >= t
          /\ decryptor[w][t] # NoDecryptor => head[w] >= t
      BY Zenon DEF DecInv, SharesAfterOrder
    <3>2. \A x \in decryptor'[w][t] : head[x] >= t
      BY <1>4, <1>6, <3>1, Zenon DEF NoDecryptor
    <3>3. \A x \in queued'[w][t] : head[x] >= t
      <4>1. from \in has
        BY Zenon DEF has
      <4>2. CASE queued'[w][t] = queued[w][t]
        BY <3>1, <4>2, Zenon
      <4>3. CASE w = m /\ t = s /\ queued'[w][t] = queued[m][s] \cup {from}
        BY <1>4, <4>1, <4>3, Zenon
      <4> QED
        BY <1>6, <4>2, <4>3, Zenon
    <3>4. decryptor'[w][t] # NoDecryptor => head[w] >= t
      BY <1>4, <1>6, <3>1, Zenon
    <3> QED
      BY <1>2, <3>2, <3>3, <3>4, Zenon
  <2> QED
    BY <2>1, <2>2, Zenon DEF SharesAfterOrder
<1>8. \A w \in Members : \A t \in Encrypted :
        decryptor[w][t] = NoDecryptor => decryptor'[w][t] = NoDecryptor
  BY <1>6, Zenon
<1>9. \A w \in Members : /\ LogInv(effects[w], head[w], decryptor[w]) /\ head[w] \in Nat
                         /\ effects[w] \in Seq(Effects) /\ head[w] >= head[w]
  BY DecryptionAssumption DEF DecInv, DecTypes
<1>10. CASE effects' = effects
  <2>1. DecTypes'
    BY <1>2, <1>5, <1>10, Zenon DEF DecInv, DecTypes
  <2>2. ASSUME NEW w \in Members PROVE LogInv(effects[w], head[w], decryptor'[w])
    <3>1. LogInv(effects[w], head[w], decryptor[w])
      BY <1>9, Zenon
    <3>2. \A t \in Encrypted : decryptor[w][t] = NoDecryptor => decryptor'[w][t] = NoDecryptor
      BY <1>8, Zenon
    <3> QED
      BY <3>1, <3>2, Zenon DEF LogInv
  <2>3. OpenedAfterOrder'
    <3>1. OpenedAfterOrder
      BY Zenon DEF DecInv
    <3>2. head' = head
      BY <1>2, Zenon
    <3> QED
      BY <1>10, <3>1, <3>2, Zenon DEF OpenedAfterOrder, Opened
  <2> QED
    BY <1>2, <1>7, <1>10, <2>1, <2>2, <2>3, Zenon DEF DecInv
<1>11. CASE /\ decryptor[m][s] # NoDecryptor /\ all_ready(has)
            /\ effects' = [effects EXCEPT ![m] = Append(@, Ran(s))]
            /\ decryptor' = [decryptor EXCEPT ![m][s] = NoDecryptor]
  <2>1. /\ effects'[m] = Append(effects[m], Ran(s))
        /\ \A w \in Members \ {m} : effects'[w] = effects[w]
        /\ decryptor'[m][s] = NoDecryptor
    BY Zenon, <1>3, <1>11 DEF DecInv, DecTypes
  <2>2. /\ Ran(s) \in Effects /\ Ran(s).kind # "plain" /\ Ran(s).slot = s
        /\ \A t : Ran(s) \in {Ran(t), Refused(t)} => t = s
    BY Zenon, <1>3 DEF Ran, Refused, Effects
  <2>3. \A i \in 1..Len(effects[m]) : effects[m][i] # Ran(s)
    <3>1. \A i \in 1..Len(effects[m]) :
            effects[m][i].kind # "plain" => decryptor[m][effects[m][i].slot] = NoDecryptor
      BY <1>9, Zenon DEF LogInv
    <3> QED
      BY Zenon, <1>11, <2>2, <3>1
  <2>4. NewEntry(effects[m], Ran(s), head[m], head[m], decryptor[m], decryptor'[m])
    <3>1. Ran(s).slot <= head[m] /\ head[m] <= head[m]
      BY Zenon, <1>3, <1>4, <1>9, <1>11, <2>2 DEF BlockSlots
    <3> QED
      BY <1>3, <1>8, <1>9, <2>1, <2>2, <2>3, <3>1, Zenon DEF NewEntry
  <2>5. /\ effects'[m] \in Seq(Effects) /\ LogInv(effects'[m], head[m], decryptor'[m])
        /\ \A i \in 1..Len(effects'[m]) :
             effects'[m][i] = Ran(s) \/ (i \in 1..Len(effects[m]) /\ effects'[m][i] = effects[m][i])
    <3> DEFINE new == Append(effects[m], Ran(s))
    <3>1. /\ new \in Seq(Effects) /\ LogInv(new, head[m], decryptor'[m])
          /\ \A i \in 1..Len(new) :
               new[i] = Ran(s) \/ (i \in 1..Len(effects[m]) /\ new[i] = effects[m][i])
      BY <2>4, LogGrows, Zenon
    <3>2. effects'[m] = new
      BY Zenon, <2>1
    <3> HIDE DEF new
    <3> QED
      BY Zenon, <3>1, <3>2
  <2>6. DecTypes'
    <3>1. effects' = [w \in Members |-> effects'[w]]
      BY Zenon, <1>11 DEF DecInv, DecTypes
    <3>2. \A w \in Members : effects'[w] \in Seq(Effects)
      BY <1>9, <2>1, <2>5, Zenon
    <3>3. effects' \in [Members -> Seq(Effects)]
      BY Zenon, <3>1, <3>2
    <3> QED
      BY <1>2, <1>5, <3>3, Zenon DEF DecInv, DecTypes
  <2>7. ASSUME NEW w \in Members PROVE LogInv(effects[w], head[w], decryptor[w])'
    <3>1. CASE w = m
      BY <1>2, <2>5, <3>1, Zenon
    <3>2. CASE w # m
      <4>1. LogInv(effects[w], head[w], decryptor'[w])
        BY <1>8, <1>9, Zenon DEF LogInv
      <4> QED
        BY <1>2, <2>1, <3>2, <4>1, Zenon
    <3> QED
      BY Zenon, <3>1, <3>2
  <2>8. ASSUME NEW t \in BlockSlots, Opened(m, t)', ~Opened(m, t)
        PROVE  Cardinality(HaveApplied(t)') >= DecryptThreshold
    <3>1. PICK i \in 1..Len(effects'[m]) : effects'[m][i] \in {Ran(t), Refused(t)}
      BY <2>8, Zenon DEF Opened
    <3>2. effects'[m][i] = Ran(s)
      BY <2>5, <2>8, <3>1, Zenon DEF Opened
    <3>3. t = s
      BY <2>2, <3>1, <3>2
    <3>4. has \subseteq HaveApplied(t)' /\ HaveApplied(t)' \subseteq Members
      BY Zenon, <1>2, <1>3, <1>4, <3>3 DEF HaveApplied
    <3> QED
      BY <1>11, <3>4, QuorumHasApplied, Zenon DEF all_ready
  <2>9. OpenedAfterOrder'
    <3>1. \A w \in Members : head'[w] >= head[w]
      BY <1>2, <1>9, Zenon
    <3> QED
      BY <2>1, <2>6, <2>8, <3>1, OpenedStep, Zenon
  <2> QED
    BY <1>7, <2>6, <2>7, <2>9, Zenon DEF DecInv
<1> QED
  BY Zenon, <1>2, <1>10, <1>11

\* Every step of every node keeps the invariant.
LEMMA DecStep == ASSUME DecInv, [DecNext]_dec_vars PROVE DecInv'
<1>1. CASE UNCHANGED dec_vars
  <2>1. UNCHANGED <<head, effects, decryptor, queued, shareNet>>
    BY Zenon, <1>1 DEF dec_vars
  <2>2. DecTypes'
    BY <2>1, Zenon DEF DecInv, DecTypes
  <2>3. SharesAfterOrder'
    BY <2>1, Zenon DEF DecInv, SharesAfterOrder
  <2>4. \A m \in Members : LogInv(effects[m], head[m], decryptor[m])'
    BY <2>1, Zenon DEF DecInv, LogInv
  <2>5. OpenedAfterOrder'
    BY <2>1, Zenon DEF DecInv, OpenedAfterOrder, Opened
  <2> QED
    BY <2>2, <2>3, <2>4, <2>5, Zenon DEF DecInv
<1>2. ASSUME NEW m \in Members, ApplyCanonicalAfterQc(m) PROVE DecInv'
  BY <1>2, ApplyKeeps, Zenon DEF ApplyCanonicalAfterQc, Leaves
<1>3. ASSUME NEW m \in Members, ApplyOnOwnVote(m) PROVE DecInv'
  <2> DEFINE s == head[m] + 1
             ready == s \in Encrypted /\ all_ready(Kicked(m, s))
  <2>1. ApplyBlock(m, s, IF ready THEN NoDecryptor ELSE Kicked(m, s),
                         IF ready THEN <<Plain(s), Refused(s)>> ELSE <<Plain(s)>>)
    BY <1>3, Zenon DEF ApplyOnOwnVote
  <2>2. CASE ready
    BY <2>1, <2>2, ApplyKeeps, Zenon DEF Leaves
  <2>3. CASE ~ready
    BY <2>1, <2>3, ApplyKeeps, Zenon DEF Leaves
  <2> QED
    BY Zenon, <2>2, <2>3
<1> QED
  BY <1>1, <1>2, <1>3, ShareKeeps, RetryKeeps, CleanupKeeps, Zenon DEF DecNext

\* A share is sent only by a member that has applied the block, and no batch is
\* opened without a quorum of shares: for every committee, every window and
\* every order of blocks, shares, retries, clean-ups and restarts.
THEOREM DecInvHolds == DecSpec => []DecInv
<1>1. DecInit => DecInv
  BY Zenon, DecInitHolds
<1>2. DecInv /\ [DecNext]_dec_vars => DecInv'
  BY Zenon, DecStep
<1> QED
  BY <1>1, <1>2, PTL DEF DecSpec

\* A node opens a block's encrypted transactions only when a quorum of the
\* committee has applied the block: "the decryption happens AFTER ordering is
\* committed" (decryption.rs).
THEOREM OrderBeforeContents == DecSpec => []OpenedAfterOrder
<1>1. DecInv => OpenedAfterOrder
  BY Zenon DEF DecInv
<1> QED
  BY <1>1, DecInvHolds, PTL

\* No node executes a batch twice, nor applies a block's plain transactions
\* twice: execution removes the decryptor, and a late share is only queued.
THEOREM BatchExecutedOnce == DecSpec => []DecryptedOnce
<1>1. DecInv => DecryptedOnce
  BY Zenon DEF DecInv, LogInv, DecryptedOnce
<1> QED
  BY <1>1, DecInvHolds, PTL

------------------------------------------------------------------------------
(***************************************************************************)
(* Induction and recursion over the naturals, for the lists that a         *)
(* proposal carries.                                                       *)
(***************************************************************************)
\* Every non-empty set of naturals has a least member.
LEMMA LeastNat ==
    ASSUME NEW T \in SUBSET Nat, T # {}
    PROVE  \E x \in T : \A y \in T : x <= y
<1>1. PICK x \in T : \A y \in T : ~(<<y, x>> \in OpToRel(<, Nat))
  BY Zenon, NatLessThanWellFounded, WFMin
<1>2. ASSUME NEW y \in Nat, y < x
      PROVE  <<y, x>> \in OpToRel(<, Nat)
  <2> DEFINE p == <<y, x>>
  <2>1. p \in Nat \X Nat /\ p[1] < p[2]
    BY Zenon, <1>2
  <2> HIDE DEF p
  <2>2. p \in OpToRel(<, Nat)
    BY <2>1, Zenon DEF OpToRel
  <2> QED
    BY Zenon, <2>2 DEF p
<1>3. \A y \in T : ~(y < x)
  BY Zenon, <1>1, <1>2
<1> QED
  BY <1>3

\* A set of naturals with 0 in it and closed under successor has them all.
LEMMA NatByInduction ==
    ASSUME NEW P \in SUBSET Nat, 0 \in P, \A n \in P : n + 1 \in P
    PROVE  P = Nat
<1> DEFINE T == Nat \ P
<1>1. CASE T = {}
  BY Zenon, <1>1
<1>2. CASE T # {}
  <2>1. PICK x \in T : \A y \in T : x <= y
    BY <1>2, LeastNat, Zenon
  <2>2. x \in Nat \ {0} /\ x - 1 \in Nat
    BY <2>1
  <2>3. x - 1 \in P
    BY <2>1, <2>2
  <2> QED
    BY <2>1, <2>2, <2>3
<1> QED
  BY Zenon, <1>1, <1>2

\* The steps of a recursion stay in S, and the values of f come from them.
StaysIn(S, step) == \A i \in Nat, x \in S : step[<<i, x>>] \in S
Follows(f, base, step, n) == f[0] = base /\ \A i \in 1..n : f[i] = step[<<i, f[i - 1]>>]

\* A value for 0, and for each number one that follows from the one before:
\* there is a function with these values.
LEMMA NatRecursion ==
    ASSUME NEW S, NEW base \in S, NEW step, StaysIn(S, step), NEW n \in Nat
    PROVE  \E f \in [0..n -> S] : Follows(f, base, step, n)
<1> DEFINE Fits(f, m) == f[0] = base /\ \A i \in 1..m : f[i] = step[<<i, f[i - 1]>>]
           P == {m \in Nat : \E f \in [0..m -> S] : Fits(f, m)}
<1>1. 0 \in P
  <2>1. [i \in 0..0 |-> base] \in [0..0 -> S] /\ Fits([i \in 0..0 |-> base], 0)
    OBVIOUS
  <2> QED
    BY Zenon, <2>1
<1>2. ASSUME NEW m \in P PROVE m + 1 \in P
  <2>1. m \in Nat /\ \E f \in [0..m -> S] : Fits(f, m)
    BY Zenon
  <2>2. PICK f \in [0..m -> S] : Fits(f, m)
    BY Zenon, <2>1
  <2> DEFINE h == [i \in 0..(m + 1) |-> IF i = m + 1 THEN step[<<m + 1, f[m]>>] ELSE f[i]]
  <2>3. step[<<m + 1, f[m]>>] \in S
    BY <2>1 DEF StaysIn
  <2>4. h \in [0..(m + 1) -> S]
    BY <2>1, <2>3
  <2>5. Fits(h, m + 1)
    <3>1. h[0] = base
      BY <2>1, <2>2
    <3>2. ASSUME NEW i \in 1..(m + 1) PROVE h[i] = step[<<i, h[i - 1]>>]
      <4>1. CASE i = m + 1
        <5>1. m + 1 \in 0..(m + 1) /\ m \in 0..(m + 1) /\ m # m + 1 /\ i - 1 = m
          BY <2>1, <4>1
        <5>2. h[m + 1] = step[<<m + 1, f[m]>>] /\ h[m] = f[m]
          BY <5>1, Zenon
        <5> HIDE DEF h
        <5> QED
          BY Zenon, <4>1, <5>1, <5>2
      <4>2. CASE i \in 1..m
        <5>1. f[i] = step[<<i, f[i - 1]>>]
          BY Zenon, <2>2, <4>2
        <5>2. h[i] = f[i] /\ h[i - 1] = f[i - 1]
          BY <2>1, <4>2
        <5> QED
          BY Zenon, <5>1, <5>2
      <4> QED
        BY <2>1, <4>1, <4>2
    <3> QED
      BY Zenon, <3>1, <3>2
  <2> HIDE DEF h, Fits
  <2> QED
    BY <2>1, <2>4, <2>5
<1> HIDE DEF P
<1>3. P = Nat
  <2>1. P \subseteq Nat
    BY Zenon DEF P
  <2> QED
    BY <1>1, <1>2, <2>1, NatByInduction, Zenon
<1> QED
  BY Zenon, <1>3 DEF P, Follows

------------------------------------------------------------------------------
(***************************************************************************)
(* Slashing evidence.  What a validator has accepted is queued, and every  *)
(* change of a queue is written in the step that makes it; the registry    *)
(* pays a finder for an ejection exactly once.                             *)
(***************************************************************************)
\* The keys of evidence records.
Keys == {Key(o) : o \in Offences}

Entry == [status : {"active", "ejected"}, paid : {0, 1}]

\* An entry is ejected once its punishment is paid for.
RegistryInv(r) == r \in [Committee -> Entry] /\ \A s \in Committee : r[s].paid = 1 => r[s].status = "ejected"

\* execute_slash ejects whom it pays for, and pays for nobody ejected.
LEMMA SlashKeeps ==
    ASSUME NEW r, RegistryInv(r), NEW k \in Keys
    PROVE  RegistryInv(execute_slash(r, k))
<1>1. k.signer \in Committee
  BY EvidenceAssumption DEF Keys, Key
<1>2. CASE r[k.signer].status = "ejected"
  BY Zenon, <1>2 DEF execute_slash
<1>3. CASE r[k.signer].status # "ejected"
  <2>1. r[k.signer].paid = 0
    BY Zenon, <1>1, <1>3 DEF RegistryInv, Entry
  <2> DEFINE e == [status |-> "ejected", paid |-> 1]
  <2>2. execute_slash(r, k) = [r EXCEPT ![k.signer] = e]
    BY <1>1, <1>3, <2>1 DEF execute_slash, RegistryInv
  <2>3. e \in Entry /\ e.status = "ejected"
    BY Zenon DEF Entry
  <2> HIDE DEF e
  <2> QED
    BY Zenon, <1>1, <2>2, <2>3 DEF RegistryInv
<1> QED
  BY Zenon, <1>2, <1>3

\* So does a proposal's whole list of slashes, one after another.
LEMMA PunishedKeeps ==
    ASSUME NEW r, RegistryInv(r), NEW slash \in Seq(Keys)
    PROVE  RegistryInv(Punished(r, slash)[Len(slash)])
<1> DEFINE n == Len(slash)
           S == {x \in [Committee -> Entry] : RegistryInv(x)}
           step == [p \in Nat \X S |-> IF p[1] \in 1..n THEN execute_slash(p[2], slash[p[1]]) ELSE p[2]]
<1>1. n \in Nat /\ \A i \in 1..n : slash[i] \in Keys
  OBVIOUS
<1>2. r \in S
  BY Zenon DEF RegistryInv
<1>3. \A i \in Nat, x \in S : step[<<i, x>>] \in S
  <2> SUFFICES ASSUME NEW i \in Nat, NEW x \in S PROVE step[<<i, x>>] \in S
    BY Zenon
  <2>1. step[<<i, x>>] = IF i \in 1..n THEN execute_slash(x, slash[i]) ELSE x
    BY Zenon
  <2>2. i \in 1..n => RegistryInv(execute_slash(x, slash[i]))
    BY Zenon, <1>1, SlashKeeps
  <2> HIDE DEF step
  <2> QED
    BY Zenon, <2>1, <2>2 DEF RegistryInv
<1>4. PICK f \in [0..n -> S] : f[0] = r /\ \A i \in 1..n : f[i] = step[<<i, f[i - 1]>>]
  <2>1. n \in Nat
    OBVIOUS
  <2> HIDE DEF n, S, step
  <2>2. StaysIn(S, step)
    BY Zenon, <1>3 DEF StaysIn
  <2>3. \E f \in [0..n -> S] : Follows(f, r, step, n)
    BY <1>2, <2>1, <2>2, NatRecursion, Zenon
  <2> QED
    BY Zenon, <2>3 DEF Follows
<1>5. \A i \in 1..n : f[i] = execute_slash(f[i - 1], slash[i])
  <2> SUFFICES ASSUME NEW i \in 1..n PROVE f[i] = execute_slash(f[i - 1], slash[i])
    BY Zenon
  <2>1. f[i - 1] \in S /\ i \in Nat
    BY <1>1
  <2>2. step[<<i, f[i - 1]>>] = execute_slash(f[i - 1], slash[i])
    BY Zenon, <2>1
  <2> QED
    BY Zenon, <1>4, <2>2
<1> HIDE DEF S
<1>6. f = [i \in 0..n |-> IF i = 0 THEN r ELSE execute_slash(f[i - 1], slash[i])]
  BY <1>1, <1>4, <1>5
<1> DEFINE g == Punished(r, slash)
<1>7. g = [i \in 0..n |-> IF i = 0 THEN r ELSE execute_slash(g[i - 1], slash[i])]
  BY <1>6, Zenon DEF Punished
<1> HIDE DEF g
<1> DEFINE P == {i \in Nat : i <= n => RegistryInv(g[i])}
<1>8. 0 \in P
  <2>1. g[0] = r
    BY <1>1, <1>7
  <2> QED
    BY Zenon, <2>1
<1>9. ASSUME NEW i \in P PROVE i + 1 \in P
  <2> SUFFICES ASSUME i + 1 <= n PROVE RegistryInv(g[i + 1])
    BY <1>9
  <2>1. i \in Nat /\ RegistryInv(g[i])
    BY <1>1, <1>9
  <2>2. g[i + 1] = execute_slash(g[i], slash[i + 1]) /\ slash[i + 1] \in Keys
    BY <1>1, <1>7, <2>1
  <2> QED
    BY <2>1, <2>2, SlashKeeps, Zenon
<1>10. P = Nat
  <2>1. P \subseteq Nat
    BY Zenon
  <2> HIDE DEF P
  <2> QED
    BY <1>8, <1>9, <2>1, NatByInduction, Zenon
<1> QED
  BY <1>1, <1>10 DEF g

(***************************************************************************)
(* What the disk has is what a restart finds: the queues in memory.  Every *)
(* change of a queue is written in the step that makes it.                 *)
(***************************************************************************)
EngineState == [slot : Nat, pending : Seq(Keys), pending_vc : Seq(Keys),
                broadcast : Seq(Keys), seen : SUBSET Keys]

QueueInv(e, d, h) ==
    /\ e \in EngineState
    /\ d \in [pending : Seq(Keys), broadcast : Seq(Keys), seen : SUBSET Keys]
    /\ d.pending = e.pending /\ d.broadcast = e.broadcast
    /\ h \subseteq Range(e.pending)

EvInv ==
    /\ DOMAIN engine = Watchers /\ DOMAIN disk = Watchers /\ DOMAIN held = Watchers
    /\ \A v \in Watchers : QueueInv(engine[v], disk[v], held[v])
    /\ relayed \subseteq Keys
    /\ \A p \in proposals : p.slash \in Seq(Keys)
    /\ RegistryInv(registry)

\* A validator may take a step that leaves it with e and writes what it changed.
LEMMA PersistedKeeps ==
    ASSUME EvInv, NEW v \in Watchers, NEW e \in EngineState, NEW h,
           h \subseteq Range(e.pending), Persisted(v, e),
           DOMAIN held' = Watchers, held'[v] = h,
           \A w \in Watchers \ {v} : held'[w] = held[w]
    PROVE  /\ DOMAIN engine' = Watchers /\ DOMAIN disk' = Watchers /\ DOMAIN held' = Watchers
           /\ \A w \in Watchers : QueueInv(engine[w], disk[w], held[w])'
<1>1. /\ engine' = [engine EXCEPT ![v] = e]
      /\ disk' = IF e # engine[v] THEN [disk EXCEPT ![v] = Queues(e)] ELSE disk
  BY Zenon DEF Persisted, persist_evidence_state
<1>2. QueueInv(e, Queues(e), h)
  BY Zenon DEF QueueInv, Queues, EngineState
<1>3. QueueInv(engine[v], disk[v], held[v])
  BY Zenon DEF EvInv
<1>4. e = engine[v] => QueueInv(e, disk[v], h)
  BY <1>3, Zenon DEF QueueInv
<1>5. DOMAIN engine = Watchers /\ DOMAIN disk = Watchers /\ DOMAIN held = Watchers
  BY Zenon DEF EvInv
<1>6. /\ engine'[v] = e /\ held'[v] = h
      /\ disk'[v] = IF e # engine[v] THEN Queues(e) ELSE disk[v]
      /\ \A w \in Watchers \ {v} :
           engine'[w] = engine[w] /\ disk'[w] = disk[w] /\ held'[w] = held[w]
      /\ DOMAIN engine' = Watchers /\ DOMAIN disk' = Watchers /\ DOMAIN held' = Watchers
  BY Zenon, <1>1, <1>5
<1>7. QueueInv(engine[v], disk[v], held[v])'
  BY Zenon, <1>2, <1>4, <1>6
<1>8. ASSUME NEW w \in Watchers \ {v} PROVE QueueInv(engine[w], disk[w], held[w])'
  BY <1>6, <1>8, Zenon DEF EvInv
<1> QED
  BY <1>6, <1>7, <1>8, Zenon

\* ingest_evidence keeps what is pending and adds what it accepts.
LEMMA IngestType ==
    ASSUME NEW e \in EngineState, NEW k \in Keys, NEW h, h \subseteq Range(e.pending)
    PROVE  /\ ingest_evidence(e, k) \in EngineState
           /\ h \subseteq Range(ingest_evidence(e, k).pending)
           /\ Accepts(e, k) => k \in Range(ingest_evidence(e, k).pending)
<1>1. CASE ~Accepts(e, k)
  BY Zenon, <1>1 DEF ingest_evidence
<1>2. CASE Accepts(e, k)
  <2> DEFINE p == Append(e.pending, k)
             b == Append(e.broadcast, k)
  <2>1. /\ p \in Seq(Keys) /\ b \in Seq(Keys)
        /\ Range(e.pending) \subseteq Range(p) /\ k \in Range(p)
    <3>1. e.pending \in Seq(Keys) /\ e.broadcast \in Seq(Keys)
      BY Zenon DEF EngineState
    <3>2. \A q \in Seq(Keys) : /\ Append(q, k) \in Seq(Keys)
                               /\ DOMAIN Append(q, k) = 1..(Len(q) + 1) /\ DOMAIN q = 1..Len(q)
                               /\ Len(q) \in Nat /\ Append(q, k)[Len(q) + 1] = k
                               /\ \A i \in 1..Len(q) : Append(q, k)[i] = q[i]
      OBVIOUS
    <3>3. \A q \in Seq(Keys) : Range(q) \subseteq Range(Append(q, k)) /\ k \in Range(Append(q, k))
      BY <3>2 DEF Range
    <3> QED
      BY <3>1, <3>2, <3>3, Zenon
  <2>2. ingest_evidence(e, k) = [e EXCEPT !.seen = @ \cup {k}, !.pending = p, !.broadcast = b]
    BY Zenon, <1>2 DEF ingest_evidence
  <2> HIDE DEF p, b
  <2>3. /\ e.slot \in Nat /\ e.pending_vc \in Seq(Keys) /\ e.seen \in SUBSET Keys
        /\ e = [slot |-> e.slot, pending |-> e.pending, pending_vc |-> e.pending_vc,
                broadcast |-> e.broadcast, seen |-> e.seen]
    BY Zenon DEF EngineState
  <2>4. ingest_evidence(e, k) = [slot |-> e.slot, pending |-> p, pending_vc |-> e.pending_vc,
                                 broadcast |-> b, seen |-> e.seen \cup {k}]
    BY Zenon, <2>2, <2>3
  <2>5. ingest_evidence(e, k).pending = p
    BY <2>4
  <2>6. ingest_evidence(e, k) \in EngineState
    <3>1. e.seen \cup {k} \in SUBSET Keys
      BY <2>3, Zenon
    <3> QED
      BY <2>1, <2>3, <2>4, <3>1 DEF EngineState
  <2> QED
    BY <2>1, <2>5, <2>6, Zenon
<1> QED
  BY Zenon, <1>1, <1>2

\* ingest_view_change leaves the queue alone.
LEMMA IngestViewChangeType ==
    ASSUME NEW e \in EngineState, NEW k \in Keys
    PROVE  /\ ingest_view_change_evidence(e, k) \in EngineState
           /\ ingest_view_change_evidence(e, k).pending = e.pending
<1> DEFINE q == Append(e.pending_vc, k)
<1>1. q \in Seq(Keys)
  BY DEF EngineState
<1>2. \/ ingest_view_change_evidence(e, k) = e
      \/ ingest_view_change_evidence(e, k) = [e EXCEPT !.seen = @ \cup {k}, !.pending_vc = q]
  BY Zenon DEF ingest_view_change_evidence
<1> HIDE DEF q
<1>3. /\ e.slot \in Nat /\ e.pending \in Seq(Keys) /\ e.broadcast \in Seq(Keys)
      /\ e.seen \in SUBSET Keys /\ e.seen \cup {k} \in SUBSET Keys
      /\ e = [slot |-> e.slot, pending |-> e.pending, pending_vc |-> e.pending_vc,
              broadcast |-> e.broadcast, seen |-> e.seen]
  BY Zenon DEF EngineState
<1>4. CASE ingest_view_change_evidence(e, k) = [e EXCEPT !.seen = @ \cup {k}, !.pending_vc = q]
  <2>1. ingest_view_change_evidence(e, k) =
          [slot |-> e.slot, pending |-> e.pending, pending_vc |-> q,
           broadcast |-> e.broadcast, seen |-> e.seen \cup {k}]
    BY Zenon, <1>3, <1>4
  <2> QED
    BY <1>1, <1>3, <2>1 DEF EngineState
<1> QED
  BY <1>2, <1>4, Zenon

\* Forgetting the seen keys leaves the queue alone.
LEMMA ForgetType ==
    ASSUME NEW e \in EngineState, NEW kept \in SUBSET Keys
    PROVE  LET f == [e EXCEPT !.slot = @ + 1, !.seen = kept]
           IN  f \in EngineState /\ f.pending = e.pending /\ f.broadcast = e.broadcast
<1>1. e.slot + 1 \in Nat
  BY DEF EngineState
<1> QED
  BY Zenon, <1>1 DEF EngineState

\* Draining the queue for a proposal leaves a well-formed engine.
LEMMA DrainType ==
    ASSUME NEW e \in EngineState
    PROVE  /\ drain_broadcast_evidence(e) \in EngineState
           /\ drain_broadcast_evidence(e).pending = e.pending
           /\ drain_pending_evidence(e) \in EngineState
           /\ Range(e.broadcast) \subseteq Keys
<1>1. <<>> \in Seq(Keys)
  OBVIOUS
<1>2. Range(e.broadcast) \subseteq Keys
  <2>1. e.broadcast \in Seq(Keys)
    BY Zenon DEF EngineState
  <2>2. \A q \in Seq(Keys) : \A i \in DOMAIN q : q[i] \in Keys
    OBVIOUS
  <2> QED
    BY Zenon, <2>1, <2>2 DEF Range
<1>3. /\ drain_broadcast_evidence(e) \in EngineState
      /\ drain_broadcast_evidence(e).pending = e.pending
  BY Zenon, <1>1 DEF drain_broadcast_evidence, EngineState
<1>4. drain_pending_evidence(e) \in EngineState
  BY Zenon, <1>1 DEF drain_pending_evidence, EngineState
<1> QED
  BY Zenon, <1>2, <1>3, <1>4

\* What Note records of evidence k, for a validator that ends with at least what
\* ingest_evidence queues.
LEMMA NoteKeeps ==
    ASSUME EvInv, NEW v \in Watchers, NEW k \in Keys, Note(v, k), NEW e \in EngineState,
           e.pending = ingest_evidence(engine[v], k).pending, Persisted(v, e)
    PROVE  /\ DOMAIN engine' = Watchers /\ DOMAIN disk' = Watchers /\ DOMAIN held' = Watchers
           /\ \A w \in Watchers : QueueInv(engine[w], disk[w], held[w])'
<1> DEFINE h == IF Accepts(engine[v], k) THEN held[v] \cup {k} ELSE held[v]
<1>1. /\ DOMAIN held' = Watchers /\ held'[v] = h
      /\ \A w \in Watchers \ {v} : held'[w] = held[w]
  BY Zenon DEF Note, EvInv
<1>2. h \subseteq Range(e.pending)
  <2>1. engine[v] \in EngineState /\ held[v] \subseteq Range(engine[v].pending)
    BY Zenon DEF EvInv, QueueInv
  <2>2. /\ held[v] \subseteq Range(ingest_evidence(engine[v], k).pending)
        /\ Accepts(engine[v], k) => k \in Range(ingest_evidence(engine[v], k).pending)
    BY <2>1, IngestType, Zenon
  <2> QED
    BY Zenon, <2>2
<1> HIDE DEF h
<1> QED
  BY <1>1, <1>2, PersistedKeeps, Zenon

\* Every step of every validator keeps the invariant.
LEMMA EvStep == ASSUME EvInv, [EvNext]_ev_vars PROVE EvInv'
<1> DEFINE Queued == /\ DOMAIN engine = Watchers /\ DOMAIN disk = Watchers
                     /\ DOMAIN held = Watchers
                     /\ \A w \in Watchers : QueueInv(engine[w], disk[w], held[w])
<1>1. \A v \in Watchers : /\ engine[v] \in EngineState /\ engine[v].pending \in Seq(Keys)
                            /\ held[v] \subseteq Range(engine[v].pending)
                            /\ Range(engine[v].broadcast) \subseteq Keys
  <2>1. \A v \in Watchers : engine[v] \in EngineState /\ held[v] \subseteq Range(engine[v].pending)
    BY Zenon DEF EvInv, QueueInv
  <2>2. \A v \in Watchers : engine[v].pending \in Seq(Keys)
    BY Zenon, <2>1 DEF EngineState
  <2> QED
    BY <2>1, <2>2, DrainType, Zenon
<1>2. /\ Queued /\ RegistryInv(registry) /\ relayed \subseteq Keys
      /\ \A p \in proposals : p.slash \in Seq(Keys)
  BY Zenon DEF EvInv
<1>3. \A o \in Offences : Key(o) \in Keys
  BY Zenon DEF Keys
<1>4. ASSUME NEW v \in Watchers, NEW o \in Offences, DoublePropose(v, o) PROVE EvInv'
  <2> DEFINE e == ingest_evidence(engine[v], Key(o))
  <2>1. /\ Persisted(v, drain_broadcast_evidence(e)) /\ Note(v, Key(o))
        /\ relayed' = relayed \cup Range(e.broadcast)
        /\ UNCHANGED <<proposals, registry>>
    BY <1>4, Zenon DEF DoublePropose
  <2>2. e \in EngineState
    BY <1>1, <1>3, IngestType, Zenon
  <2> HIDE DEF e
  <2>3. /\ drain_broadcast_evidence(e) \in EngineState
        /\ drain_broadcast_evidence(e).pending = e.pending /\ Range(e.broadcast) \subseteq Keys
    BY <2>2, DrainType, Zenon
  <2>4. Queued'
    BY <1>3, <2>1, <2>3, NoteKeeps, Zenon DEF e
  <2>5. relayed' \subseteq Keys
    BY <1>2, <2>1, <2>3, Zenon
  <2> QED
    BY <1>2, <2>1, <2>4, <2>5, Zenon DEF EvInv
<1>5. ASSUME NEW v \in Watchers, NEW k \in Keys,
             Persisted(v, ingest_evidence(engine[v], k)), Note(v, k),
             UNCHANGED <<relayed, proposals, registry>>
      PROVE  EvInv'
  <2>1. ingest_evidence(engine[v], k) \in EngineState
    BY <1>1, IngestType, Zenon
  <2>2. Queued'
    BY <1>5, <2>1, NoteKeeps, Zenon
  <2> QED
    BY <1>2, <1>5, <2>2, Zenon DEF EvInv
<1>6. ASSUME NEW v \in Watchers, NEW o \in Offences, DoubleVote(v, o) PROVE EvInv'
  BY <1>3, <1>5, <1>6, Zenon DEF DoubleVote
<1>7. ASSUME NEW v \in Watchers, NEW k \in relayed, HearEvidence(v, k) PROVE EvInv'
  BY <1>2, <1>5, <1>7, Zenon DEF HearEvidence
<1>8. ASSUME NEW v \in Watchers, NEW o \in Offences, DoubleViewChange(v, o) PROVE EvInv'
  <2> DEFINE e == ingest_view_change_evidence(engine[v], Key(o))
  <2>1. Persisted(v, e) /\ UNCHANGED <<relayed, proposals, registry, held>>
    BY <1>8, Zenon DEF DoubleViewChange
  <2>2. e \in EngineState /\ e.pending = engine[v].pending
    <3>1. engine[v] \in EngineState /\ Key(o) \in Keys
      BY <1>1, <1>3, Zenon
    <3> QED
      BY <3>1, IngestViewChangeType, Zenon
  <2> HIDE DEF e
  <2>3. Queued'
    BY <1>1, <1>2, <2>1, <2>2, PersistedKeeps, Zenon
  <2> QED
    BY <1>2, <2>1, <2>3, Zenon DEF EvInv
<1>9. ASSUME NEW v \in Watchers, ProposeSlashes(v) PROVE EvInv'
  <2> DEFINE e == drain_broadcast_evidence(drain_pending_evidence(engine[v]))
             p == [n |-> made, slash |-> engine[v].pending]
  <2>1. /\ Persisted(v, e) /\ held' = [held EXCEPT ![v] = {}] /\ UNCHANGED registry
        /\ proposals' = proposals \cup {p}
        /\ relayed' = relayed \cup Range(engine[v].broadcast)
    BY <1>9, Zenon DEF ProposeSlashes
  <2>2. e \in EngineState /\ p.slash \in Seq(Keys)
    BY Zenon, <1>1, DrainType
  <2> HIDE DEF e, p
  <2>3. /\ DOMAIN held' = Watchers /\ held'[v] = {}
        /\ \A w \in Watchers \ {v} : held'[w] = held[w]
    BY Zenon, <1>2, <2>1
  <2>4. Queued'
    <3>1. {} \subseteq Range(e.pending)
      BY Zenon
    <3> QED
      BY <2>1, <2>2, <2>3, <3>1, PersistedKeeps, Zenon
  <2>5. relayed' \subseteq Keys /\ \A q \in proposals' : q.slash \in Seq(Keys)
    BY <1>1, <1>2, <2>1, <2>2, Zenon
  <2> QED
    BY <1>2, <2>1, <2>4, <2>5, Zenon DEF EvInv
<1>10. ASSUME NEW p \in proposals, CommitProposal(p) PROVE EvInv'
  <2>1. /\ registry' = Punished(registry, p.slash)[Len(p.slash)] /\ proposals' = proposals \ {p}
        /\ UNCHANGED <<engine, disk, relayed, held>>
    BY <1>10, Zenon DEF CommitProposal
  <2>2. RegistryInv(registry)'
    BY <1>2, <2>1, PunishedKeeps, Zenon
  <2>3. \A q \in proposals' : q.slash \in Seq(Keys)
    BY <1>2, <2>1, Zenon
  <2> QED
    BY <1>2, <2>1, <2>2, <2>3, Zenon DEF EvInv
<1>11. ASSUME NEW p \in proposals, LoseProposal(p) PROVE EvInv'
  <2>1. proposals' = proposals \ {p} /\ UNCHANGED <<engine, disk, relayed, registry, held>>
    BY <1>11, Zenon DEF LoseProposal
  <2>2. \A q \in proposals' : q.slash \in Seq(Keys)
    BY <1>2, <2>1, Zenon
  <2> QED
    BY <1>2, <2>1, <2>2, Zenon DEF EvInv
<1>12. ASSUME NEW v \in Watchers, NEW e, QueueInv(e, disk[v], held[v]),
              engine' = [engine EXCEPT ![v] = e],
              UNCHANGED <<disk, relayed, proposals, registry, held>>
       PROVE  EvInv'
  <2>1. /\ DOMAIN engine' = Watchers /\ engine'[v] = e
        /\ \A w \in Watchers \ {v} : engine'[w] = engine[w]
    BY Zenon, <1>2, <1>12
  <2>2. Queued'
    BY <1>2, <1>12, <2>1, Zenon
  <2> QED
    BY <1>2, <1>12, <2>2, Zenon DEF EvInv
<1>13. ASSUME NEW v \in Watchers, advance_slot(v) PROVE EvInv'
  <2> DEFINE kept == {k \in engine[v].seen : k.slot + RETENTION >= engine[v].slot + 1}
             e == [engine[v] EXCEPT !.slot = @ + 1, !.seen = kept]
  <2>1. /\ engine' = [engine EXCEPT ![v] = e]
        /\ UNCHANGED <<disk, relayed, proposals, registry, held>>
    BY Zenon, <1>13 DEF advance_slot
  <2>2. e \in EngineState /\ e.pending = engine[v].pending /\ e.broadcast = engine[v].broadcast
    <3>1. engine[v] \in EngineState
      BY <1>1, Zenon
    <3>2. kept \in SUBSET Keys
      BY Zenon, <3>1 DEF EngineState
    <3> HIDE DEF kept
    <3> QED
      BY <3>1, <3>2, ForgetType, Zenon
  <2>3. QueueInv(engine[v], disk[v], held[v])
    BY <1>2, Zenon
  <2> HIDE DEF e
  <2>4. QueueInv(e, disk[v], held[v])
    BY <2>2, <2>3, Zenon DEF QueueInv
  <2> QED
    BY <1>12, <2>1, <2>4, Zenon
<1>14. ASSUME NEW v \in Watchers, RestartValidator(v) PROVE EvInv'
  <2> DEFINE e == [slot |-> engine[v].slot, pending_vc |-> <<>>, pending |-> disk[v].pending,
                   broadcast |-> disk[v].broadcast, seen |-> disk[v].seen]
  <2>1. /\ engine' = [engine EXCEPT ![v] = e]
        /\ UNCHANGED <<disk, relayed, proposals, registry, held>>
    BY <1>14, Zenon DEF RestartValidator
  <2>2. QueueInv(engine[v], disk[v], held[v])
    BY <1>2, Zenon
  <2>3. e \in EngineState /\ e.pending = disk[v].pending /\ e.broadcast = disk[v].broadcast
    BY <2>2 DEF EngineState, QueueInv
  <2> HIDE DEF e
  <2>4. QueueInv(e, disk[v], held[v])
    BY <2>2, <2>3, Zenon DEF QueueInv
  <2> QED
    BY <1>12, <2>1, <2>4, Zenon
<1>15. CASE UNCHANGED ev_vars
  BY <1>2, <1>15, Zenon DEF ev_vars, EvInv
<1> QED
  BY <1>4, <1>6, <1>7, <1>8, <1>9, <1>10, <1>11, <1>13, <1>14, <1>15, Zenon DEF EvNext

\* Before the first evidence nothing is held, written or punished.
LEMMA EvInitHolds == ASSUME EvInit PROVE EvInv
<1>1. <<>> \in Seq(Keys) /\ {} \in SUBSET Keys /\ 1 \in Nat
  OBVIOUS
<1>2. ASSUME NEW v \in Watchers PROVE QueueInv(engine[v], disk[v], held[v])
  <2>1. /\ engine[v] = [slot |-> 1, pending |-> <<>>, pending_vc |-> <<>>,
                        broadcast |-> <<>>, seen |-> {}]
        /\ disk[v] = Queues(engine[v]) /\ held[v] = {}
    BY Zenon DEF EvInit
  <2>2. engine[v] \in EngineState
    <3> DEFINE q == <<>>
               none == {}
    <3>1. q \in Seq(Keys) /\ none \in SUBSET Keys /\ 1 \in Nat
      BY Zenon, <1>1
    <3>2. engine[v] = [slot |-> 1, pending |-> q, pending_vc |-> q, broadcast |-> q, seen |-> none]
      BY Zenon, <2>1
    <3> HIDE DEF q, none
    <3> QED
      BY <3>1, <3>2 DEF EngineState
  <2>3. disk[v] = [pending |-> <<>>, broadcast |-> <<>>, seen |-> {}]
    BY <2>1 DEF Queues
  <2>4. engine[v].pending = <<>> /\ engine[v].broadcast = <<>> /\ held[v] = {}
    BY <2>1
  <2>5. disk[v].pending = <<>> /\ disk[v].broadcast = <<>>
    BY <2>3
  <2>6. disk[v] \in [pending : Seq(Keys), broadcast : Seq(Keys), seen : SUBSET Keys]
    BY <1>1, <2>3
  <2>7. held[v] \subseteq Range(engine[v].pending)
    BY Zenon, <2>4
  <2> QED
    BY <2>2, <2>4, <2>5, <2>6, <2>7, Zenon DEF QueueInv
<1>3. RegistryInv(registry)
  BY DEF EvInit, RegistryInv, Entry
<1>4. /\ DOMAIN engine = Watchers /\ DOMAIN disk = Watchers /\ DOMAIN held = Watchers
      /\ relayed = {} /\ proposals = {}
  BY Zenon DEF EvInit
<1> QED
  BY <1>2, <1>3, <1>4, Zenon DEF EvInv

\* What a validator has written is what it holds, so a restart loses nothing it
\* accepted; and the registry pays for an ejection exactly once
\* (persist_evidence_state, execute_slash).
THEOREM EvInvHolds == EvSpec => []EvInv
<1>1. EvInit => EvInv
  BY Zenon, EvInitHolds
<1>2. EvInv /\ [EvNext]_ev_vars => EvInv'
  BY Zenon, EvStep
<1> QED
  BY <1>1, <1>2, PTL DEF EvSpec

\* Evidence a validator accepted stays in its queue until its next proposal,
\* whatever it hears again and however often it restarts: ingest_evidence
\* persists the queue before it returns.
THEOREM AcceptedIsKeptHolds == EvSpec => []AcceptedIsKept
<1>1. EvInv => AcceptedIsKept
  BY Zenon DEF EvInv, QueueInv, AcceptedIsKept
<1> QED
  BY <1>1, EvInvHolds, PTL

\* An offender is punished once and one finder paid, however many proposals
\* with the same evidence commit, and however often a proposal repeats it.
THEOREM PunishedOnceHolds == EvSpec => []PunishedOnce
<1>1. EvInv => PunishedOnce
  BY DEF EvInv, RegistryInv, Entry, PunishedOnce
<1> QED
  BY <1>1, EvInvHolds, PTL
==============================================================================
