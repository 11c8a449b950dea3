----------------------------- MODULE BlockProofs -----------------------------
(***************************************************************************)
(* Proofs about transactions and what a block of them does to the state:   *)
(* nonces claimed in the pool and consumed once, groups of transactions    *)
(* that run in parallel, and the state tree that their writes go to.       *)
(***************************************************************************)
EXTENDS AccountNonce, PlainPool, ParallelBlock, JmtStore, WellFoundedInduction, TLAPS

------------------------------------------------------------------------------
(***************************************************************************)
(* Parallel execution equals sequential execution: for every block, every  *)
(* set of keys, every effect of the transactions and every interleaving of *)
(* the groups.                                                             *)
(***************************************************************************)

AllCovered == \A i \in Ids : Covered(txs[i])

Known(i) == ~Unknown(txs[i])

\* How many transactions the reference execution has done.
Built == IF phase = "reference" THEN next - 1 ELSE N

\* The reference: each state follows from the one before, so a key keeps its
\* value across transactions that do not write it.
RefInv ==
    /\ ref[0] = Pre
    /\ \A i \in 1..Built : ref[i] = Apply(txs[i], ref[i - 1])
    /\ \A i \in 1..N : i > Built => ref[i] = Pre
    /\ \A k \in AllKeys : \A a, b \in 0..Built :
         a <= b /\ (\A j \in (a + 1)..b : k \notin Writes(txs[j])) => ref[b][k] = ref[a][k]

\* The scheduler's loop: every transaction seen is in the set of the owner of
\* each key it claims, and of each key it touches that an earlier one claims.
SchedInv ==
    phase = "schedule" =>
      /\ \A k \in AllKeys : owners[k] # 0 => owners[k] < next
      /\ \A j \in 1..(next - 1) : \A k \in AllKeys :
           Known(j) /\ k \in Claims(txs[j]) => owners[k] # 0 /\ comp[j] = comp[owners[k]]
      /\ \A i \in 1..(next - 1) : \A j \in 1..(i - 1) : \A k \in AllKeys :
           /\ Known(i) /\ Known(j)
           /\ k \in Claims(txs[j])
           /\ k \in Claims(txs[i]) \cup txs[i].reads
           => comp[i] = comp[j]
      /\ \A j \in 1..(next - 1) : ~Known(j) => unknown # 0

\* What the schedule promises the threads.
Separated ==
    \A i \in Ids : \A j \in 1..(i - 1) : \A k \in AllKeys :
      k \in Writes(txs[j]) /\ k \in Loads(txs[i]) => comp[i] = comp[j]

Executing == phase \in {"execute", "merged"}

\* The threads: a group executes in order, and sees the reference's value of a
\* key once it has executed all the writers of the key up to some index and
\* none after it.
ExecInv ==
    Executing /\ AllCovered =>
      /\ Separated
      /\ \A i \in done : \A j \in 1..(i - 1) : comp[j] = comp[i] => j \in done
      /\ \A g \in Ids : \A k \in AllKeys :
           k \in wrote[g] <=> \E i \in done : comp[i] = g /\ k \in Writes(txs[i])
      /\ \A g \in Ids : \A k \in AllKeys : \A a \in 0..N :
           /\ \A j \in 1..a : k \in Writes(txs[j]) => comp[j] = g /\ j \in done
           /\ \A j \in (a + 1)..N : j \in done /\ comp[j] = g => k \notin Writes(txs[j])
           => View(g)[k] = ref[a][k]

ParType ==
    /\ phase \in {"reference", "schedule", "execute", "merged"}
    /\ next \in 1..(N + 1)
    /\ ref = [i \in 0..N |-> ref[i]]
    /\ comp \in [Ids -> Ids]
    /\ owners \in [AllKeys -> 0..N]
    /\ unknown \in 0..N
    /\ done \subseteq Ids
    /\ overlay = [g \in Ids |-> overlay[g]]
    /\ wrote = [g \in Ids |-> wrote[g]]
    /\ phase \in {"reference", "schedule"} => done = {} /\ \A g \in Ids : wrote[g] = {}
    /\ phase = "reference" => /\ owners = [k \in AllKeys |-> 0]
                              /\ comp = [i \in Ids |-> i]
                              /\ unknown = 0

MergedInv == phase = "merged" /\ AllCovered => merged = ref[N]

ParInv == ParType /\ RefInv /\ SchedInv /\ ExecInv /\ MergedInv

------------------------------------------------------------------------------
\* The invariant holds before the block is executed.
LEMMA InitInv == ParInit => ParInv
<1> SUFFICES ASSUME ParInit PROVE ParInv
  BY Zenon
<1>1. ParType
  BY BlockAssumption DEF ParInit, ParType, Ids
<1>2. RefInv
  BY BlockAssumption DEF ParInit, RefInv, Built
<1>3. SchedInv /\ ExecInv /\ MergedInv
  BY Zenon DEF ParInit, SchedInv, ExecInv, MergedInv, Executing
<1> QED
  BY Zenon, <1>1, <1>2, <1>3 DEF ParInv

\* The type part, for every action.
LEMMA TypeStep == ParType /\ [ParNext]_par_vars => ParType'
<1> SUFFICES ASSUME ParType, [ParNext]_par_vars PROVE ParType'
  BY Zenon
<1> USE BlockAssumption
<1>1. CASE RunInOrder
  BY <1>1 DEF RunInOrder, ParType, Ids
<1>2. CASE Claim
  <2>0. next \in Ids
    BY <1>2 DEF Claim, ParType, Ids
  <2>1. comp' \in [Ids -> Ids]
    <3>1. ASSUME NEW S PROVE Union(S) \in [Ids -> Ids]
      BY Zenon, <2>0 DEF Union, ParType
    <3> HIDE DEF Union
    <3> QED
      BY <3>1, <1>2 DEF Claim, ParType
  <2>2. owners' \in [AllKeys -> 0..N]
    BY <1>2 DEF Claim, ParType, Ids
  <2>3. unknown' \in 0..N /\ next' \in 1..(N + 1)
    BY <1>2 DEF Claim, ParType, Ids
  <2> QED
    BY Zenon, <1>2, <2>1, <2>2, <2>3 DEF Claim, ParType
<1>3. CASE CloseSchedule
  <2>1. comp' \in [Ids -> Ids]
    BY <1>3 DEF CloseSchedule, ParType, Ids
  <2> QED
    BY Zenon, <1>3, <2>1 DEF CloseSchedule, ParType
<1>4. ASSUME NEW i \in Ids, ExecuteInGroup(i) PROVE ParType'
  BY Zenon, <1>4 DEF ExecuteInGroup, ParType
<1>5. CASE Merge
  BY Zenon, <1>5 DEF Merge, ParType
<1>6. CASE UNCHANGED par_vars
  BY Zenon, <1>6 DEF par_vars, ParType
<1> QED
  BY Zenon, <1>1, <1>2, <1>3, <1>4, <1>5, <1>6 DEF ParNext

\* The reference execution.
LEMMA RefStep == ParType /\ RefInv /\ [ParNext]_par_vars => RefInv'
<1> SUFFICES ASSUME ParType, RefInv, [ParNext]_par_vars PROVE RefInv'
  BY Zenon
<1> USE BlockAssumption
<1>1. CASE RunInOrder /\ next <= N
  <2>1. Built = next - 1 /\ Built' = next /\ next \in 1..N /\ txs' = txs
    BY <1>1 DEF RunInOrder, Built, ParType
  <2>2. /\ ref'[next] = Apply(txs[next], ref[next - 1])
        /\ \A i \in 0..N : i # next => ref'[i] = ref[i]
    BY <1>1, <2>1 DEF RunInOrder, ParType
  <2>3. ref'[0] = Pre
    BY <2>1, <2>2 DEF RefInv
  <2>4. \A i \in 1..Built' : ref'[i] = Apply(txs'[i], ref'[i - 1])
    BY <2>1, <2>2 DEF RefInv
  <2>5. \A i \in 1..N : i > Built' => ref'[i] = Pre
    BY <2>1, <2>2 DEF RefInv
  <2>6. ASSUME NEW k \in AllKeys, NEW a \in 0..Built', NEW b \in 0..Built', a <= b,
               \A j \in (a + 1)..b : k \notin Writes(txs'[j])
        PROVE  ref'[b][k] = ref'[a][k]
    <3>1. CASE b # next
      BY <3>1, <2>1, <2>2, <2>6 DEF RefInv
    <3>2. CASE b = next /\ a = next
      BY Zenon, <3>2
    <3>3. CASE b = next /\ a # next
      <4>1. k \notin Writes(txs[next]) /\ a <= next - 1
        BY <3>3, <2>1, <2>6
      <4>2. ref'[b][k] = ref[next - 1][k]
        BY Zenon, <4>1, <3>3, <2>2 DEF Apply
      <4>3. ref[next - 1][k] = ref[a][k]
        BY <4>1, <2>1, <2>6, <3>3 DEF RefInv
      <4> QED
        BY <4>2, <4>3, <3>3, <2>1, <2>2
    <3> QED
      BY Zenon, <3>1, <3>2, <3>3
  <2> QED
    BY Zenon, <2>3, <2>4, <2>5, <2>6 DEF RefInv
<1>2. CASE RunInOrder /\ ~(next <= N)
  <2>1. Built = N /\ Built' = N /\ ref' = ref /\ txs' = txs
    BY <1>2 DEF RunInOrder, Built, ParType
  <2> QED
    BY <2>1 DEF RefInv
<1>3. CASE Claim \/ CloseSchedule \/ (\E i \in Ids : ExecuteInGroup(i)) \/ Merge
  BY <1>3 DEF Claim, CloseSchedule, ExecuteInGroup, Merge, RefInv, Built
<1>4. CASE UNCHANGED par_vars
  BY <1>4 DEF par_vars, RefInv, Built
<1> QED
  BY Zenon, <1>1, <1>2, <1>3, <1>4 DEF ParNext

------------------------------------------------------------------------------
\* The scheduler's loop.
LEMMA SchedStep == ParType /\ SchedInv /\ [ParNext]_par_vars => SchedInv'
<1> SUFFICES ASSUME ParType, SchedInv, [ParNext]_par_vars, phase' = "schedule"
             PROVE  SchedInv'
  BY Zenon DEF SchedInv
<1> USE BlockAssumption
<1>1. CASE RunInOrder
  BY <1>1 DEF RunInOrder, ParType, SchedInv
<1>2. CASE Claim
  <2>1. /\ phase = "schedule" /\ next \in Ids /\ next' = next + 1 /\ txs' = txs
        /\ next \in 1..N
    BY <1>2 DEF Claim, ParType, Ids
  <2>2. \A x \in Ids : x \in Nat /\ comp[x] \in Ids
    BY DEF ParType, Ids
  <2>3. \A j \in 1..next : Known(j)' = Known(j)
    BY Zenon, <2>1 DEF Known
  <2>4. \A k \in AllKeys : owners[k] # 0 => owners[k] \in Ids /\ owners[k] < next
    BY <2>1 DEF ParType, SchedInv, Ids
  <2>5. CASE Unknown(txs[next])
    <3>1. owners' = owners /\ unknown' # 0 /\ ~Known(next)
      BY <2>5, <1>2, <2>1 DEF Claim, ParType, Known
    <3>2. \A x, y \in Ids : comp[x] = comp[y] => comp'[x] = comp'[y]
      <4>1. ASSUME NEW S, NEW x \in Ids, NEW y \in Ids, comp[x] = comp[y]
            PROVE  Union(S)[x] = Union(S)[y]
        BY Zenon, <4>1 DEF Union
      <4> HIDE DEF Union
      <4> QED
        BY <4>1, <2>5, <1>2 DEF Claim
    <3>3. \A k \in AllKeys : owners'[k] # 0 => owners'[k] < next'
      BY <3>1, <2>4, <2>1, <2>2
    <3>4. \A j \in 1..(next' - 1) : \A k \in AllKeys :
            Known(j)' /\ k \in Claims(txs'[j]) => owners'[k] # 0 /\ comp'[j] = comp'[owners'[k]]
      BY <3>1, <3>2, <2>1, <2>3, <2>4 DEF SchedInv, Ids
    <3>5. \A i \in 1..(next' - 1) : \A j \in 1..(i - 1) : \A k \in AllKeys :
            /\ Known(i)' /\ Known(j)'
            /\ k \in Claims(txs'[j])
            /\ k \in Claims(txs'[i]) \cup txs'[i].reads
            => comp'[i] = comp'[j]
      BY <3>1, <3>2, <2>1, <2>3 DEF SchedInv, Ids
    <3>6. \A j \in 1..(next' - 1) : ~Known(j)' => unknown' # 0
      BY Zenon, <3>1
    <3> QED
      BY Zenon, <3>3, <3>4, <3>5, <3>6 DEF SchedInv
  <2>6. CASE ~Unknown(txs[next])
    <3> DEFINE S == {comp[next]} \cup {comp[w] : w \in Met(txs[next])}
    <3>1. /\ unknown' = unknown
          /\ comp' = [x \in Ids |-> IF comp[x] \in S THEN next ELSE comp[x]]
          /\ owners' = [k \in AllKeys |-> IF k \in Claims(txs[next]) /\ owners[k] = 0
                                          THEN next ELSE owners[k]]
      BY Zenon, <2>6, <1>2 DEF Claim, Union
    <3>2. \A x, y \in Ids : comp[x] = comp[y] => comp'[x] = comp'[y]
      BY Zenon, <3>1
    <3>3. comp[next] \in S /\ comp'[next] = next
      BY Zenon, <3>1, <2>1
    <3>4. \A k \in AllKeys : k \in Claims(txs[next]) \cup txs[next].reads /\ owners[k] # 0
            => comp'[owners[k]] = next
      <4>1. ASSUME NEW k \in AllKeys, k \in Claims(txs[next]) \cup txs[next].reads, owners[k] # 0
            PROVE  comp[owners[k]] \in S
        BY Zenon, <4>1 DEF Met
      <4> QED
        BY Zenon, <4>1, <3>1, <2>4
    <3> HIDE DEF S
    <3>5. \A k \in AllKeys : owners'[k] # 0 => owners'[k] < next'
      BY <3>1, <2>4, <2>1, <2>2
    <3>6. ASSUME NEW j \in 1..(next' - 1), NEW k \in AllKeys, Known(j)', k \in Claims(txs'[j])
          PROVE  owners'[k] # 0 /\ comp'[j] = comp'[owners'[k]]
      <4>1. CASE j = next
        <5>1. CASE owners[k] = 0
          BY <5>1, <4>1, <3>6, <3>1, <2>1
        <5>2. CASE owners[k] # 0
          BY Zenon, <5>2, <4>1, <3>6, <3>1, <3>3, <3>4, <2>1
        <5> QED
          BY Zenon, <5>1, <5>2
      <4>2. CASE j # next
        <5>1. j \in 1..(next - 1) /\ j \in Ids /\ Known(j) /\ k \in Claims(txs[j])
          BY <4>2, <3>6, <2>1, <2>3 DEF Ids
        <5>2. owners[k] # 0 /\ comp[j] = comp[owners[k]]
          BY Zenon, <5>1, <2>1 DEF SchedInv
        <5> QED
          BY Zenon, <5>1, <5>2, <3>1, <3>2, <2>4
      <4> QED
        BY Zenon, <4>1, <4>2
    <3>7. ASSUME NEW i \in 1..(next' - 1), NEW j \in 1..(i - 1), NEW k \in AllKeys,
                 Known(i)', Known(j)', k \in Claims(txs'[j]),
                 k \in Claims(txs'[i]) \cup txs'[i].reads
          PROVE  comp'[i] = comp'[j]
      <4>0. j \in 1..(next - 1) /\ j \in Ids /\ i \in Ids /\ Known(j) /\ k \in Claims(txs[j])
        BY <3>7, <2>1, <2>3 DEF Ids
      <4>1. CASE i = next
        <5>1. owners[k] # 0 /\ comp[j] = comp[owners[k]]
          BY Zenon, <4>0, <2>1 DEF SchedInv
        <5>2. comp'[owners[k]] = next
          BY Zenon, <5>1, <4>1, <3>4, <3>7, <2>1
        <5> QED
          BY Zenon, <5>1, <5>2, <4>0, <4>1, <3>2, <3>3, <2>4
      <4>2. CASE i # next
        <5>1. i \in 1..(next - 1) /\ Known(i) /\ k \in Claims(txs[i]) \cup txs[i].reads
          BY <4>2, <3>7, <2>1, <2>3
        <5> QED
          BY Zenon, <5>1, <4>0, <3>2, <3>7, <2>1 DEF SchedInv
      <4> QED
        BY Zenon, <4>1, <4>2
    <3>8. \A j \in 1..(next' - 1) : ~Known(j)' => unknown' # 0
      BY <3>1, <2>6, <2>1, <2>3 DEF SchedInv, Known
    <3> QED
      BY Zenon, <3>5, <3>6, <3>7, <3>8 DEF SchedInv
  <2> QED
    BY Zenon, <2>5, <2>6
<1>3. CASE CloseSchedule \/ (\E i \in Ids : ExecuteInGroup(i)) \/ Merge
  BY Zenon, <1>3 DEF CloseSchedule, ExecuteInGroup, Merge
<1>4. CASE UNCHANGED par_vars
  BY Zenon, <1>4 DEF par_vars, SchedInv, Known
<1> QED
  BY Zenon, <1>1, <1>2, <1>3, <1>4 DEF ParNext

------------------------------------------------------------------------------
\* When the loop ends, what two transactions share is in one group.
LEMMA CloseSeparates ==
  ASSUME ParType, SchedInv, CloseSchedule, AllCovered
  PROVE  Separated'
<1> USE BlockAssumption
<1> SUFFICES ASSUME NEW i \in Ids, NEW j \in 1..(i - 1), NEW k \in AllKeys,
                    k \in Writes(txs'[j]), k \in Loads(txs'[i])
             PROVE  comp'[i] = comp'[j]
  BY Zenon DEF Separated
<1>1. /\ phase = "schedule" /\ next - 1 = N /\ txs' = txs
      /\ i \in 1..N /\ j \in 1..N /\ j \in Ids
  <2>1. phase = "schedule" /\ next > N /\ next \in 1..(N + 1) /\ txs' = txs
    BY Zenon DEF CloseSchedule, ParType
  <2>2. i \in 1..N
    BY Zenon DEF Ids
  <2>3. j \in 1..N
    BY <2>2
  <2> QED
    BY <2>1, <2>2, <2>3 DEF Ids
<1>2. CASE unknown # 0
  BY Zenon, <1>1, <1>2 DEF CloseSchedule
<1>3. CASE unknown = 0
  <2>1. comp' = comp
    BY Zenon, <1>3 DEF CloseSchedule
  <2>2. Known(i) /\ Known(j)
    BY Zenon, <1>1, <1>3 DEF SchedInv
  <2>3. k \in Claims(txs[j]) /\ k \in Claims(txs[i]) \cup txs[i].reads
    BY Zenon, <1>1, <2>2 DEF AllCovered, Covered, Known
  <2> QED
    BY Zenon, <1>1, <2>1, <2>2, <2>3 DEF SchedInv
<1> QED
  BY Zenon, <1>2, <1>3

\* A group's thread keeps the view of every group in step with the reference.
LEMMA GroupStep ==
  ASSUME ParType, RefInv, ExecInv, NEW t \in Ids, ExecuteInGroup(t), AllCovered
  PROVE  ExecInv'
<1> USE BlockAssumption
<1>1. /\ Executing /\ txs' = txs /\ ref' = ref /\ comp' = comp
      /\ done' = done \cup {t} /\ t \notin done /\ comp[t] \in Ids /\ t \in 1..N
      /\ \A j \in 1..(t - 1) : comp[j] = comp[t] => j \in done
  BY Zenon DEF ExecuteInGroup, Executing, ParType, Ids
<1>2. Separated'
  BY Zenon, <1>1 DEF ExecInv, Separated
<1>3. ASSUME NEW i \in done', NEW j \in 1..(i - 1), comp'[j] = comp'[i]
      PROVE  j \in done'
  <2>1. CASE i = t
    BY Zenon, <1>1, <1>3, <2>1
  <2>2. CASE i \in done
    BY Zenon, <1>1, <1>3, <2>2 DEF ExecInv
  <2> QED
    BY Zenon, <1>1, <2>1, <2>2
<1>4. ASSUME NEW g \in Ids, NEW k \in AllKeys
      PROVE  k \in wrote'[g] <=> \E i \in done' : comp'[i] = g /\ k \in Writes(txs'[i])
  <2>1. wrote'[g] = IF g = comp[t] THEN wrote[g] \cup Writes(txs[t]) ELSE wrote[g]
    BY Zenon DEF ExecuteInGroup
  <2> QED
    BY <1>1, <2>1 DEF ExecInv
<1>5. ASSUME NEW g \in Ids, NEW k \in AllKeys
      PROVE  View(g)'[k] = IF g = comp[t] THEN Apply(txs[t], View(g))[k] ELSE View(g)[k]
  <2>1. /\ wrote'[g] = IF g = comp[t] THEN wrote[g] \cup Writes(txs[t]) ELSE wrote[g]
        /\ overlay'[g] = IF g = comp[t] THEN Apply(txs[t], View(g)) ELSE overlay[g]
    BY Zenon DEF ExecuteInGroup
  <2>2. View(g)'[k] = IF k \in wrote'[g] THEN overlay'[g][k] ELSE Pre[k]
    BY Zenon DEF View
  <2>3. CASE g = comp[t]
    <3>1. CASE k \in Writes(txs[t]) \/ k \in wrote[g]
      BY Zenon, <3>1, <2>1, <2>2, <2>3
    <3>2. CASE k \notin Writes(txs[t]) /\ k \notin wrote[g]
      <4>1. View(g)[k] = Pre[k] /\ Apply(txs[t], View(g))[k] = View(g)[k]
        BY Zenon, <3>2 DEF View, Apply
      <4> QED
        BY Zenon, <4>1, <3>2, <2>1, <2>2, <2>3
    <3> QED
      BY Zenon, <3>1, <3>2
  <2>4. CASE g # comp[t]
    BY Zenon, <2>1, <2>2, <2>4 DEF View
  <2> QED
    BY Zenon, <2>3, <2>4
<1>6. ASSUME NEW k \in AllKeys, k \in Loads(txs[t])
      PROVE  View(comp[t])[k] = ref[t - 1][k]
  <2>1. t - 1 \in 0..N
    BY <1>1
  <2>2. \A j \in 1..(t - 1) : k \in Writes(txs[j]) => comp[j] = comp[t] /\ j \in done
    BY Zenon, <1>1, <1>6 DEF ExecInv, Separated
  <2>3. \A j \in ((t - 1) + 1)..N : j \in done /\ comp[j] = comp[t] => k \notin Writes(txs[j])
    BY <1>1 DEF ExecInv
  <2> QED
    BY <1>1, <2>1, <2>2, <2>3 DEF ExecInv
<1>7. ASSUME NEW k \in AllKeys, k \in Writes(txs[t])
      PROVE  Apply(txs[t], View(comp[t]))[k] = ref[t][k]
  <2>1. \A r \in Loads(txs[t]) \cap AllKeys : View(comp[t])[r] = ref[t - 1][r]
    BY Zenon, <1>6
  <2>2. [r \in Loads(txs[t]) \cap AllKeys |-> View(comp[t])[r]]
        = [r \in Loads(txs[t]) \cap AllKeys |-> ref[t - 1][r]]
    BY Zenon, <2>1
  <2>3. ref[t] = Apply(txs[t], ref[t - 1])
    BY Zenon, <1>1 DEF RefInv, Built, Executing
  <2> QED
    BY Zenon, <1>7, <2>2, <2>3 DEF Apply
<1>8. ASSUME NEW g \in Ids, NEW k \in AllKeys, NEW a \in 0..N,
             \A j \in 1..a : k \in Writes(txs'[j]) => comp'[j] = g /\ j \in done',
             \A j \in (a + 1)..N : j \in done' /\ comp'[j] = g => k \notin Writes(txs'[j])
      PROVE  View(g)'[k] = ref'[a][k]
  <2>1. CASE g # comp[t]
    <3>1. \A j \in 1..a : k \in Writes(txs[j]) => comp[j] = g /\ j \in done
      BY Zenon, <1>1, <1>8, <2>1
    <3>2. \A j \in (a + 1)..N : j \in done /\ comp[j] = g => k \notin Writes(txs[j])
      BY Zenon, <1>1, <1>8
    <3> QED
      BY <1>1, <1>5, <2>1, <3>1, <3>2 DEF ExecInv
  <2>2. CASE g = comp[t] /\ k \notin Writes(txs[t])
    <3>1. \A j \in 1..a : k \in Writes(txs[j]) => comp[j] = g /\ j \in done
      BY Zenon, <1>1, <1>8, <2>2
    <3>2. \A j \in (a + 1)..N : j \in done /\ comp[j] = g => k \notin Writes(txs[j])
      BY Zenon, <1>1, <1>8
    <3>3. View(g)'[k] = View(g)[k]
      BY Zenon, <1>5, <2>2 DEF Apply
    <3> QED
      BY <1>1, <3>1, <3>2, <3>3 DEF ExecInv
  <2>3. CASE g = comp[t] /\ k \in Writes(txs[t])
    <3>1. t <= a
      BY <1>1, <1>8, <2>3
    <3>2. \A j \in (t + 1)..a : k \notin Writes(txs[j])
      <4>1. ASSUME NEW j \in (t + 1)..a, k \in Writes(txs[j]) PROVE FALSE
        <5>1. comp[j] = comp[t] /\ j \in done
          BY <1>1, <1>8, <2>3, <4>1
        <5>2. t \in 1..(j - 1)
          BY <1>1, <4>1
        <5> QED
          BY Zenon, <1>1, <5>1, <5>2 DEF ExecInv
      <4> QED
        BY Zenon, <4>1
    <3>3. ref[a][k] = ref[t][k]
      BY <1>1, <3>1, <3>2 DEF RefInv, Built, Executing
    <3> QED
      BY Zenon, <1>1, <1>5, <1>7, <2>3, <3>3
  <2> QED
    BY Zenon, <2>1, <2>2, <2>3
<1> QED
  BY <1>2, <1>3, <1>4, <1>8 DEF ExecInv

------------------------------------------------------------------------------
\* What the groups' threads have done, for every action.
LEMMA ExecStep == ParInv /\ [ParNext]_par_vars => ExecInv'
<1> SUFFICES ASSUME ParInv, [ParNext]_par_vars, Executing', AllCovered' PROVE ExecInv'
  BY Zenon DEF ExecInv
<1> USE BlockAssumption
<1>1. CASE RunInOrder \/ Claim
  BY Zenon, <1>1 DEF RunInOrder, Claim, Executing, ParInv, ParType
<1>2. CASE CloseSchedule
  <2>1. /\ txs' = txs /\ ref' = ref /\ done' = {} /\ AllCovered
        /\ \A g \in Ids : wrote'[g] = {}
    BY Zenon, <1>2 DEF CloseSchedule, ParInv, ParType, AllCovered
  <2>2. Separated'
    BY Zenon, <1>2, <2>1, CloseSeparates DEF ParInv
  <2>3. ASSUME NEW g \in Ids, NEW k \in AllKeys, NEW a \in 0..N,
               \A j \in 1..a : k \in Writes(txs'[j]) => comp'[j] = g /\ j \in done'
        PROVE  View(g)'[k] = ref'[a][k]
    <3>1. View(g)'[k] = Pre[k]
      BY Zenon, <2>1 DEF View
    <3>2. \A j \in (0 + 1)..a : k \notin Writes(txs[j])
      BY <2>1, <2>3
    <3>3. Built = N /\ ref[0] = Pre
      BY Zenon, <1>2 DEF CloseSchedule, Built, ParInv, RefInv
    <3>4. ref[a][k] = ref[0][k]
      BY <3>2, <3>3 DEF ParInv, RefInv
    <3> QED
      BY Zenon, <2>1, <3>1, <3>3, <3>4
  <2> QED
    BY Zenon, <2>1, <2>2, <2>3 DEF ExecInv
<1>3. ASSUME NEW t \in Ids, ExecuteInGroup(t) PROVE ExecInv'
  <2>1. AllCovered
    BY Zenon, <1>3 DEF ExecuteInGroup, AllCovered
  <2> QED
    BY Zenon, <1>3, <2>1, GroupStep DEF ParInv
<1>4. CASE Merge
  <2>1. /\ Executing /\ AllCovered
        /\ UNCHANGED <<txs, next, ref, comp, owners, unknown, done, overlay, wrote>>
    BY Zenon, <1>4 DEF Merge, Executing, AllCovered
  <2>2. \A g \in Ids : View(g)' = View(g)
    BY Zenon, <2>1 DEF View
  <2> QED
    BY <2>1, <2>2 DEF ExecInv, ParInv, Separated
<1>5. CASE UNCHANGED par_vars
  <2>1. Executing /\ AllCovered /\ \A g \in Ids : View(g)' = View(g)
    BY Zenon, <1>5 DEF par_vars, Executing, AllCovered, View
  <2> QED
    BY <1>5, <2>1 DEF par_vars, ExecInv, ParInv, Separated
<1> QED
  BY Zenon, <1>1, <1>2, <1>3, <1>4, <1>5 DEF ParNext

\* The merge: one group alone has written a key, and it has all its writers.
LEMMA MergeStep == ParInv /\ [ParNext]_par_vars => MergedInv'
<1> SUFFICES ASSUME ParInv, [ParNext]_par_vars, phase' = "merged", AllCovered'
             PROVE  merged' = ref'[N]
  BY Zenon DEF MergedInv
<1> USE BlockAssumption
<1>1. CASE Merge
  <2>1. Executing /\ AllCovered /\ ref' = ref /\ done = Ids /\ Built = N /\ comp \in [Ids -> Ids]
    BY Zenon, <1>1 DEF Merge, Executing, AllCovered, Built, ParInv, ParType
  <2>2. ASSUME NEW g \in Ids, NEW h \in Ids, NEW k \in AllKeys, k \in wrote[g], k \in wrote[h]
        PROVE  g = h
    <3>1. PICK i \in done : comp[i] = g /\ k \in Writes(txs[i])
      BY Zenon, <2>1, <2>2 DEF ParInv, ExecInv
    <3>2. PICK j \in done : comp[j] = h /\ k \in Writes(txs[j])
      BY Zenon, <2>1, <2>2 DEF ParInv, ExecInv
    <3>3. k \in Loads(txs[i]) /\ k \in Loads(txs[j])
      BY Zenon, <3>1, <3>2 DEF Loads
    <3>4. i \in 1..N /\ j \in 1..N
      BY Zenon, <2>1 DEF Ids
    <3>5. CASE i < j
      BY <2>1, <3>1, <3>2, <3>3, <3>4, <3>5 DEF ParInv, ExecInv, Separated
    <3>6. CASE j < i
      BY <2>1, <3>1, <3>2, <3>3, <3>4, <3>6 DEF ParInv, ExecInv, Separated
    <3> QED
      BY <3>1, <3>2, <3>4, <3>5, <3>6
  <2>3. ASSUME NEW k \in AllKeys PROVE merged'[k] = ref[N][k]
    <3>1. CASE \E g \in Ids : LastWriter(k, g)
      <4> DEFINE g == CHOOSE x \in Ids : LastWriter(k, x)
      <4>1. g \in Ids /\ LastWriter(k, g)
        BY Zenon, <3>1
      <4>2. merged'[k] = overlay[g][k]
        BY Zenon, <1>1, <3>1 DEF Merge
      <4> HIDE DEF g
      <4>3. k \in wrote[g] /\ overlay[g][k] = View(g)[k]
        BY Zenon, <4>1 DEF LastWriter, View
      <4>4. \A j \in 1..N : k \in Writes(txs[j]) => comp[j] = g /\ j \in done
        <5>1. ASSUME NEW j \in 1..N, k \in Writes(txs[j]) PROVE comp[j] = g
          <6>1. j \in done /\ comp[j] \in Ids
            BY Zenon, <2>1 DEF Ids
          <6>2. k \in wrote[comp[j]]
            BY Zenon, <2>1, <5>1, <6>1 DEF ParInv, ExecInv
          <6> QED
            BY Zenon, <2>2, <4>1, <4>3, <6>1, <6>2
        <5> QED
          BY Zenon, <2>1, <5>1 DEF Ids
      <4>5. \A j \in (N + 1)..N : j \in done /\ comp[j] = g => k \notin Writes(txs[j])
        OBVIOUS
      <4>6. N \in 0..N
        OBVIOUS
      <4>7. View(g)[k] = ref[N][k]
        BY <2>1, <4>1, <4>4, <4>5, <4>6 DEF ParInv, ExecInv
      <4> QED
        BY Zenon, <4>2, <4>3, <4>7
    <3>2. CASE ~\E g \in Ids : LastWriter(k, g)
      <4>1. merged'[k] = Pre[k]
        BY Zenon, <1>1, <3>2 DEF Merge
      <4>2. \A g \in Ids : k \notin wrote[g]
        <5>1. ASSUME NEW g \in Ids, k \in wrote[g] PROVE LastWriter(k, g)
          <6> SUFFICES ASSUME NEW h \in Ids, k \in wrote[h], NEW i \in Ids, NEW j \in Ids,
                              First(g, i), First(h, j)
                       PROVE  j <= i
            BY Zenon, <5>1 DEF LastWriter
          <6>1. h = g
            BY Zenon, <2>2, <5>1
          <6>2. i \in 1..N /\ j \in 1..N
            BY Zenon DEF Ids
          <6> QED
            BY <6>1, <6>2 DEF First
        <5> QED
          BY Zenon, <3>2, <5>1
      <4>3. \A j \in (0 + 1)..N : k \notin Writes(txs[j])
        <5>1. \A j \in 1..N : j \in done /\ comp[j] \in Ids
          BY Zenon, <2>1 DEF Ids
        <5> QED
          BY <2>1, <4>2, <5>1 DEF ParInv, ExecInv
      <4>4. ref[N][k] = ref[0][k] /\ ref[0] = Pre
        BY <2>1, <4>3 DEF ParInv, RefInv
      <4> QED
        BY Zenon, <4>1, <4>4
    <3> QED
      BY Zenon, <3>1, <3>2
  <2>4. merged' = [k \in AllKeys |-> merged'[k]]
    BY Zenon, <1>1 DEF Merge
  <2>5. ref[N] = [k \in AllKeys |-> ref[N][k]]
    <3>1. CASE N = 0
      BY Zenon, <3>1 DEF ParInv, RefInv
    <3>2. CASE N # 0
      <4>1. ref[N] = Apply(txs[N], ref[N - 1])
        BY <2>1, <3>2 DEF ParInv, RefInv
      <4> QED
        BY Zenon, <4>1 DEF Apply
    <3> QED
      BY Zenon, <3>1, <3>2
  <2> QED
    BY Zenon, <2>1, <2>3, <2>4, <2>5
<1>2. CASE RunInOrder \/ Claim \/ CloseSchedule \/ (\E i \in Ids : ExecuteInGroup(i))
  BY Zenon, <1>2 DEF RunInOrder, Claim, CloseSchedule, ExecuteInGroup
<1>3. CASE UNCHANGED par_vars
  BY Zenon, <1>3 DEF par_vars, ParInv, MergedInv, AllCovered
<1> QED
  BY Zenon, <1>1, <1>2, <1>3 DEF ParNext

\* For every block, schedule and interleaving, the groups leave what executing
\* the block in order leaves, when the scheduler sees all that the transactions
\* touch.
THEOREM ParallelIsSequential == ParSpec => []ParallelEqualsSequential
<1>1. ParInit => ParInv
  BY Zenon, InitInv
<1>2. ParInv /\ [ParNext]_par_vars => ParInv'
  BY Zenon, TypeStep, RefStep, SchedStep, ExecStep, MergeStep DEF ParInv
<1>3. ParInv => ParallelEqualsSequential
  BY Zenon DEF ParInv, MergedInv, ParallelEqualsSequential, AllCovered
<1> QED
  BY <1>1, <1>2, <1>3, PTL DEF ParSpec

------------------------------------------------------------------------------
(***************************************************************************)
(* The state tree is the map it claims to be, for every set of keys and    *)
(* values and every number of versions, as long as the database refuses no *)
(* write.                                                                  *)
(***************************************************************************)

(***************************************************************************)
(* The inductive invariant.  On disk, the newest record of a key is the    *)
(* leaf the newest tree has for it.  The caches agree with the disk, but   *)
(* for the batch update_all is about to write; and the version and root in *)
(* memory lag the disk only between the write and the publication.         *)
(***************************************************************************)
NewestIs(k) ==
    \/ DOMAIN db.values[k] = {} /\ DiskMap[k] = NoValue
    \/ \E v \in DOMAIN db.values[k] :
         /\ v <= db.latest
         /\ \A w \in DOMAIN db.values[k] : w <= v
         /\ db.values[k][v] = DiskMap[k]

DiskInv ==
    /\ db = [nodes |-> db.nodes, values |-> db.values, latest |-> db.latest]
    /\ db.latest \in Int /\ db.latest >= -1
    /\ DOMAIN db.nodes = 0..db.latest
    /\ \A v \in 0..db.latest : db.nodes[v] \in Trees
    /\ \A k \in TreeKeys : DOMAIN db.values[k] \subseteq 0..db.latest
    /\ \A k \in TreeKeys : NewestIs(k)

\* What the last batch given to update_all will make of the disk, or has made.
Ahead == IF job.step = "write" THEN job.tree ELSE DiskMap

JobInv ==
    \/ job = NoJob
    \/ /\ job.step \in {"write", "publish"}
       /\ job = [step |-> job.step, batch |-> job.batch, tree |-> job.tree,
                 version |-> job.version]
       /\ DOMAIN job.batch # {} /\ DOMAIN job.batch \subseteq TreeKeys
       /\ job.batch \in [DOMAIN job.batch -> Stored]
       /\ job.version = current_version + 1
       /\ job.tree \in Trees
       /\ job.step = "write" => job.tree = PutAll(DiskMap, job.batch)
       /\ job.step = "publish" => job.tree = DiskMap

MemoryInv ==
    /\ db.latest = IF job.step = "publish" THEN current_version + 1 ELSE current_version
    /\ job.step # "publish" => current_root = DiskMap
    /\ current_version \in Int /\ current_version >= -1
    /\ DOMAIN value_cache \subseteq TreeKeys
    /\ \A k \in DOMAIN value_cache : value_cache[k] = Ahead[k]
    /\ \A v \in DOMAIN node_cache :
         \/ v \in 0..db.latest /\ node_cache[v] = db.nodes[v]
         \/ job.step = "write" /\ v = job.version /\ node_cache[v] = job.tree

JmtInv == DiskInv /\ JobInv /\ MemoryInv

------------------------------------------------------------------------------
\* The tree on disk is a tree.
LEMMA DiskMapType == DiskInv => DiskMap \in Trees
  BY JmtAssumption DEF DiskInv, DiskMap, Trees, EMPTY_ROOT, Stored, Sentinel

\* The scan of get_value_option finds the newest record of the key.
LEMMA ScanFindsNewest ==
    ASSUME DiskInv, NEW k \in TreeKeys
    PROVE  Scan(k, db.latest) = DiskMap[k]
<1> DEFINE D == DOMAIN db.values[k]
<1>1. CASE D = {} /\ DiskMap[k] = NoValue
  BY Zenon, <1>1 DEF Scan
<1>2. CASE \E v \in D : /\ v <= db.latest
                        /\ \A w \in D : w <= v
                        /\ db.values[k][v] = DiskMap[k]
  <2>1. PICK v \in D : /\ v <= db.latest
                       /\ \A w \in D : w <= v
                       /\ db.values[k][v] = DiskMap[k]
    BY Zenon, <1>2
  <2>2. D \subseteq Int
    BY DEF DiskInv
  <2>3. ScanStops(k, db.latest, v)
    BY Zenon, <2>1 DEF ScanStops
  <2>4. \A w \in D : ScanStops(k, db.latest, w) => w = v
    BY <2>1, <2>2 DEF ScanStops
  <2>5. (CHOOSE w \in D : ScanStops(k, db.latest, w)) = v
    BY Zenon, <2>3, <2>4
  <2> QED
    BY Zenon, <2>1, <2>5 DEF Scan
<1> QED
  BY Zenon, <1>1, <1>2 DEF DiskInv, NewestIs

\* When no update is under way a read returns what is on disk, and the root it
\* walked from is the one of the newest version.
LEMMA ReadsDisk ==
    ASSUME JmtInv, job = NoJob, NEW k \in TreeKeys
    PROVE  /\ current_version # Sentinel => RootNode(current_version) = DiskMap
           /\ Lookup(k) = DiskMap[k]
           /\ get_value_option(k, current_version) = DiskMap[k]
<1>1. job.step # "write" /\ job.step # "publish"
  BY Zenon DEF NoJob
<1>2. current_version = db.latest /\ Ahead = DiskMap
  BY Zenon, <1>1 DEF JmtInv, MemoryInv, Ahead
<1>3. current_version # Sentinel => RootNode(current_version) = DiskMap
  BY Zenon, <1>1, <1>2 DEF JmtInv, MemoryInv, DiskInv, RootNode, DiskMap, Sentinel
<1>4. get_value_option(k, current_version) = DiskMap[k]
  BY Zenon, <1>2, ScanFindsNewest DEF JmtInv, MemoryInv, get_value_option
<1>5. current_version = Sentinel => DiskMap[k] = NoValue
  BY Zenon, <1>2 DEF DiskMap, EMPTY_ROOT
<1> QED
  BY Zenon, <1>3, <1>4, <1>5 DEF Lookup

------------------------------------------------------------------------------
\* Reading keeps the invariant: it caches what is on disk.
LEMMA CacheReadsKeeps ==
    ASSUME JmtInv, job = NoJob, NEW k \in TreeKeys, CacheReads(k),
           UNCHANGED <<db, current_version, current_root, job>>
    PROVE  JmtInv'
<1>1. job.step # "write" /\ job.step # "publish" /\ job'.step # "write" /\ job'.step # "publish"
  BY Zenon DEF NoJob
<1>2. current_version = db.latest /\ Ahead = DiskMap /\ Ahead' = DiskMap
  BY Zenon, <1>1 DEF JmtInv, MemoryInv, Ahead, DiskMap
<1>3. DiskInv' /\ JobInv'
  BY Zenon DEF JmtInv, DiskInv, JobInv, NewestIs, DiskMap
<1>4. MemoryInv'
  <2>1. CASE current_version = Sentinel
    BY Zenon, <2>1, <1>1, <1>2 DEF CacheReads, JmtInv, MemoryInv, DiskMap
  <2>2. CASE current_version # Sentinel
    <3>1. /\ node_cache' = Put(node_cache, current_version, DiskMap)
          /\ value_cache' = value_cache \/ value_cache' = Put(value_cache, k, DiskMap[k])
      BY Zenon, <2>2, ReadsDisk DEF CacheReads
    <3>2. DiskMap = db.nodes[current_version] /\ current_version \in 0..db.latest
      BY <2>2, <1>2 DEF DiskMap, JmtInv, MemoryInv, Sentinel
    <3>3. /\ DOMAIN value_cache' \subseteq TreeKeys
          /\ \A x \in DOMAIN value_cache' : value_cache'[x] = DiskMap[x]
      BY Zenon, <3>1, <1>2 DEF Put, JmtInv, MemoryInv
    <3>4. \A v \in DOMAIN node_cache' : v \in 0..db.latest /\ node_cache'[v] = db.nodes[v]
      BY Zenon, <3>1, <3>2, <1>1 DEF Put, JmtInv, MemoryInv
    <3> QED
      BY Zenon, <3>3, <3>4, <1>1, <1>2 DEF JmtInv, MemoryInv, DiskMap
  <2> QED
    BY Zenon, <2>1, <2>2
<1> QED
  BY Zenon, <1>3, <1>4 DEF JmtInv

\* The next tree is the one on disk with the batch applied.
LEMMA BeginKeeps ==
    ASSUME JmtInv, job = NoJob, NEW K \in (SUBSET TreeKeys) \ {{}}, NEW batch \in [K -> Stored],
           Begin(batch), UNCHANGED <<db, current_version, current_root>>
    PROVE  JmtInv'
<1> DEFINE tree == put_value_set(batch)
<1>1. job.step # "write" /\ job.step # "publish"
  BY Zenon DEF NoJob
<1>2. current_version = db.latest /\ Ahead = DiskMap
  BY Zenon, <1>1 DEF JmtInv, MemoryInv, Ahead
<1>3. tree = PutAll(DiskMap, batch)
  <2>1. PICK k \in TreeKeys : k \in K
    BY Zenon
  <2>2. current_version # Sentinel => RootNode(current_version) = DiskMap
    BY Zenon, ReadsDisk
  <2> QED
    BY Zenon, <2>2, <1>2 DEF put_value_set, DiskMap
<1>4. tree \in Trees
  <2>1. DiskMap \in [TreeKeys -> Stored]
    BY Zenon, DiskMapType DEF JmtInv, Trees
  <2> QED
    BY Zenon, <1>3, <2>1 DEF PutAll, Trees
<1>5. job' = [step |-> "write", batch |-> batch, tree |-> tree, version |-> current_version + 1]
  BY Zenon DEF Begin
<1> HIDE DEF tree
<1>6. DiskInv' /\ DiskMap' = DiskMap
  BY Zenon DEF JmtInv, DiskInv, NewestIs, DiskMap
<1>7. JobInv'
  BY Zenon, <1>3, <1>4, <1>5, <1>6 DEF JobInv
<1>8. Ahead' = tree
  BY Zenon, <1>5 DEF Ahead
<1>9. DOMAIN value_cache' \subseteq TreeKeys /\ \A k \in DOMAIN value_cache' : value_cache'[k] = tree[k]
  <2>1. value_cache' = PutAll(value_cache, batch)
    BY Zenon DEF Begin, Batched
  <2>2. \A k \in TreeKeys : tree[k] = IF k \in K THEN batch[k] ELSE DiskMap[k]
    <3>1. DOMAIN DiskMap = TreeKeys
      BY Zenon, DiskMapType DEF JmtInv, Trees
    <3> QED
      BY Zenon, <1>3, <3>1 DEF PutAll
  <2> QED
    BY Zenon, <2>1, <2>2, <1>2 DEF PutAll, JmtInv, MemoryInv
<1>10. \A v \in DOMAIN node_cache' : \/ v \in 0..db.latest /\ node_cache'[v] = db.nodes[v]
                                     \/ v = current_version + 1 /\ node_cache'[v] = tree
  <2>1. \A v \in DOMAIN node_cache : v \in 0..db.latest /\ node_cache[v] = db.nodes[v]
    BY Zenon, <1>1 DEF JmtInv, MemoryInv
  <2>2. CASE current_version = Sentinel
    BY Zenon, <2>1, <2>2 DEF Begin, Put, tree
  <2>3. CASE current_version # Sentinel
    <3> DEFINE cached == Put(node_cache, current_version, RootNode(current_version))
    <3>1. current_version \in 0..db.latest
      BY <2>3, <1>2 DEF JmtInv, MemoryInv, Sentinel
    <3>2. RootNode(current_version) = db.nodes[current_version]
      BY Zenon, <2>1, <3>1 DEF RootNode
    <3>3. \A v \in DOMAIN cached : v \in 0..db.latest /\ cached[v] = db.nodes[v]
      BY Zenon, <2>1, <3>1, <3>2 DEF Put
    <3>4. node_cache' = Put(cached, current_version + 1, tree)
      BY Zenon, <2>3 DEF Begin, tree
    <3> HIDE DEF cached
    <3> QED
      BY Zenon, <3>3, <3>4 DEF Put
  <2> QED
    BY Zenon, <2>2, <2>3
<1>11. MemoryInv'
  BY <1>2, <1>5, <1>6, <1>8, <1>9, <1>10 DEF JmtInv, MemoryInv
<1> QED
  BY Zenon, <1>6, <1>7, <1>11 DEF JmtInv

\* The write batch makes the next tree the newest one, and its records the
\* newest of their keys.
LEMMA CommitKeeps ==
    ASSUME JmtInv, CommitAtomic
    PROVE  /\ JmtInv'
           /\ DiskMap' = PutAll(DiskMap, job.batch)
           /\ db.latest' = db.latest + 1
<1> DEFINE n == db.latest + 1
<1>1. job # NoJob /\ job.step = "write" /\ job'.step = "publish"
  BY DEF CommitAtomic, NoJob, JmtInv, JobInv
<1>2. /\ DOMAIN job.batch # {} /\ DOMAIN job.batch \subseteq TreeKeys
      /\ job.batch \in [DOMAIN job.batch -> Stored]
      /\ job.version = current_version + 1
      /\ job.tree \in Trees
      /\ job.tree = PutAll(DiskMap, job.batch)
  BY Zenon, <1>1 DEF JmtInv, JobInv
<1>3. current_version = db.latest /\ db.latest \in Int /\ db.latest >= -1 /\ n \in Nat
  BY <1>1 DEF JmtInv, MemoryInv, DiskInv
<1>4. /\ db'.nodes = Put(db.nodes, n, job.tree)
      /\ db'.values = [k \in TreeKeys |-> IF k \in DOMAIN job.batch
                                            THEN Put(db.values[k], n, job.batch[k])
                                            ELSE db.values[k]]
      /\ db'.latest = n
      /\ db' = [nodes |-> db'.nodes, values |-> db'.values, latest |-> db'.latest]
  BY Zenon, <1>2, <1>3 DEF CommitAtomic, Written
<1>5. DiskMap' = job.tree
  BY <1>3, <1>4 DEF DiskMap, Put, Sentinel
<1>6. 0..n = 0..db.latest \cup {n} /\ n \notin 0..db.latest
  BY <1>3
<1>7. ASSUME NEW k \in TreeKeys
      PROVE  DOMAIN db'.values[k] \subseteq 0..n /\ NewestIs(k)'
  <2>1. DOMAIN db.values[k] \subseteq 0..db.latest
    BY Zenon DEF JmtInv, DiskInv
  <2>2. DOMAIN DiskMap = TreeKeys
    BY Zenon, DiskMapType DEF JmtInv, Trees
  <2>3. job.tree[k] = IF k \in DOMAIN job.batch THEN job.batch[k] ELSE DiskMap[k]
    BY Zenon, <1>2, <2>2 DEF PutAll
  <2>4. CASE k \in DOMAIN job.batch
    <3>1. db'.values[k] = Put(db.values[k], n, job.batch[k])
      BY Zenon, <1>4, <2>4
    <3>2. /\ DOMAIN db'.values[k] = DOMAIN db.values[k] \cup {n}
          /\ db'.values[k][n] = job.batch[k]
      BY Zenon, <3>1 DEF Put
    <3>3. \A w \in DOMAIN db'.values[k] : w <= n
      BY <3>2, <2>1, <1>3
    <3> QED
      <4>1. DOMAIN db'.values[k] \subseteq 0..n
        BY Zenon, <3>2, <2>1, <1>6
      <4>2. db'.latest = n /\ n <= n /\ db'.values[k][n] = DiskMap'[k]
        BY <3>2, <2>3, <2>4, <1>3, <1>4, <1>5
      <4>3. NewestIs(k)'
        BY <3>2, <3>3, <4>2, Zenon DEF NewestIs
      <4> QED
        BY Zenon, <4>1, <4>3
  <2>5. CASE k \notin DOMAIN job.batch
    <3>1. db'.values[k] = db.values[k] /\ job.tree[k] = DiskMap[k]
      BY Zenon, <1>4, <2>3, <2>5
    <3>2. NewestIs(k)
      BY Zenon DEF JmtInv, DiskInv
    <3>3. \A v \in DOMAIN db.values[k] : v <= db.latest => v <= n
      BY <2>1, <1>3
    <3> QED
      BY Zenon, <3>1, <3>2, <3>3, <2>1, <1>4, <1>5, <1>6 DEF NewestIs
  <2> QED
    BY Zenon, <2>4, <2>5
<1>8. /\ DOMAIN db'.nodes = 0..n
      /\ \A v \in 0..db.latest : db'.nodes[v] = db.nodes[v]
      /\ db'.nodes[n] = job.tree
  BY Zenon, <1>4, <1>6 DEF Put, JmtInv, DiskInv
<1>9. DiskInv'
  <2>1. \A v \in 0..n : db'.nodes[v] \in Trees
    BY Zenon, <1>2, <1>6, <1>8 DEF JmtInv, DiskInv
  <2> QED
    BY <2>1, <1>3, <1>4, <1>7, <1>8 DEF DiskInv
<1>10. /\ job'.batch = job.batch /\ job'.tree = job.tree /\ job'.version = job.version
       /\ job' = [step |-> job'.step, batch |-> job'.batch, tree |-> job'.tree,
                  version |-> job'.version]
  BY Zenon, <1>1 DEF CommitAtomic, JmtInv, JobInv
<1>11. JobInv'
  BY Zenon, <1>1, <1>2, <1>5, <1>10 DEF JobInv, CommitAtomic
<1>12. MemoryInv'
  <2>1. Ahead = job.tree /\ Ahead' = job.tree
    BY Zenon, <1>1, <1>5 DEF Ahead
  <2>2. \A v \in DOMAIN node_cache : v \in 0..n /\ node_cache[v] = db'.nodes[v]
    BY Zenon, <1>1, <1>2, <1>3, <1>6, <1>8 DEF JmtInv, MemoryInv
  <2> QED
    BY Zenon, <2>1, <2>2, <1>1, <1>3, <1>4 DEF CommitAtomic, JmtInv, MemoryInv
<1> QED
  BY Zenon, <1>2, <1>4, <1>5, <1>9, <1>11, <1>12 DEF JmtInv

\* Publishing the version and the root catches up with the disk.
LEMMA PublishKeeps == ASSUME JmtInv, Publish PROVE JmtInv'
<1>1. /\ job # NoJob /\ job.step = "publish" /\ job.version = current_version + 1
      /\ job.tree = DiskMap
  BY DEF Publish, NoJob, JmtInv, JobInv
<1>2. job'.step # "write" /\ job'.step # "publish" /\ job' = NoJob
  BY Zenon DEF Publish, NoJob
<1>3. DiskMap' = DiskMap /\ DiskInv'
  <2>1. db' = db
    BY Zenon DEF Publish
  <2> QED
    BY <2>1, Zenon DEF JmtInv, DiskInv, NewestIs, DiskMap
<1>4. Ahead = DiskMap /\ Ahead' = DiskMap
  BY Zenon, <1>1, <1>2, <1>3 DEF Ahead
<1>5. MemoryInv'
  BY <1>1, <1>2, <1>3, <1>4 DEF Publish, JmtInv, MemoryInv
<1> QED
  BY Zenon, <1>2, <1>3, <1>5 DEF JmtInv, JobInv

\* Dropping an entry of a cache changes no answer.
LEMMA EvictKeeps == ASSUME JmtInv, Evict PROVE JmtInv'
<1>1. /\ DiskInv' /\ JobInv' /\ Ahead' = Ahead /\ DiskMap' = DiskMap
  BY Zenon DEF Evict, JmtInv, DiskInv, JobInv, NewestIs, DiskMap, Ahead
<1>2. /\ DOMAIN value_cache' \subseteq DOMAIN value_cache
      /\ \A k \in DOMAIN value_cache' : value_cache'[k] = value_cache[k]
  BY Zenon DEF Evict
<1>3. /\ DOMAIN node_cache' \subseteq DOMAIN node_cache
      /\ \A v \in DOMAIN node_cache' : node_cache'[v] = node_cache[v]
  BY Zenon DEF Evict
<1>4. MemoryInv'
  BY Zenon, <1>1, <1>2, <1>3 DEF Evict, JmtInv, MemoryInv
<1> QED
  BY Zenon, <1>1, <1>4 DEF JmtInv

\* A crash leaves the disk and a store that agrees with it.
LEMMA CrashKeeps == ASSUME JmtInv, Crash PROVE JmtInv'
<1>1. DiskInv' /\ DiskMap' = DiskMap
  BY Zenon DEF Crash, JmtInv, DiskInv, NewestIs, DiskMap
<1>2. job' = NoJob /\ job'.step # "write" /\ job'.step # "publish"
  BY Zenon DEF Crash, NoJob
<1>3. current_root' = DiskMap /\ current_version' = db.latest
  BY Zenon DEF Crash, DiskMap
<1>4. \A v \in DOMAIN node_cache' : v \in 0..db.latest /\ node_cache'[v] = db.nodes[v]
  BY DEF Crash, NoCache, JmtInv, DiskInv, Sentinel
<1>5. DOMAIN value_cache' = {}
  BY Zenon DEF Crash, NoCache
<1>6. MemoryInv'
  BY Zenon, <1>1, <1>2, <1>3, <1>4, <1>5 DEF Crash, MemoryInv, JmtInv, DiskInv
<1> QED
  BY Zenon, <1>1, <1>2, <1>6 DEF JmtInv, JobInv

\* Deleting reads the key first, and writes a tombstone if it had a value.
LEMMA DeleteKeeps ==
    ASSUME JmtInv, NEW k \in TreeKeys, Delete(k)
    PROVE  JmtInv'
<1>1. CASE Lookup(k) # NoValue
  <2>1. [x \in {k} |-> NoValue] \in [{k} -> Stored] /\ {k} \in (SUBSET TreeKeys) \ {{}}
    BY Zenon DEF Stored
  <2> QED
    BY Zenon, <1>1, <2>1, BeginKeeps DEF Delete
<1>2. CASE Lookup(k) = NoValue
  BY Zenon, <1>2, CacheReadsKeeps DEF Delete
<1> QED
  BY Zenon, <1>1, <1>2

------------------------------------------------------------------------------
\* The database is empty and so is everything else.
LEMMA InitHolds == JmtInit => JmtInv
<1> SUFFICES ASSUME JmtInit PROVE JmtInv
  BY Zenon
<1>1. /\ db.nodes = NoCache /\ db.latest = -1 /\ db.values = [k \in TreeKeys |-> NoCache]
      /\ db = [nodes |-> db.nodes, values |-> db.values, latest |-> db.latest]
  BY Zenon DEF JmtInit, Sentinel
<1>2. DiskMap = EMPTY_ROOT /\ 0..db.latest = {}
  BY <1>1 DEF DiskMap, Sentinel
<1>3. DiskInv
  <2>1. DOMAIN db.nodes = {} /\ \A k \in TreeKeys : DOMAIN db.values[k] = {}
    BY Zenon, <1>1 DEF NoCache
  <2>2. \A k \in TreeKeys : NewestIs(k)
    BY Zenon, <1>2, <2>1 DEF NewestIs, EMPTY_ROOT
  <2> QED
    BY <1>1, <1>2, <2>1, <2>2 DEF DiskInv
<1>4. job = NoJob /\ job.step # "write" /\ job.step # "publish"
  BY Zenon DEF JmtInit, NoJob
<1>5. MemoryInv
  BY <1>1, <1>2, <1>4 DEF JmtInit, MemoryInv, NoCache, Sentinel
<1> QED
  BY Zenon, <1>3, <1>4, <1>5 DEF JmtInv, JobInv

\* Every step keeps the invariant, and is a step of the map or changes nothing
\* of it.
LEMMA StepRefines ==
    ASSUME JmtInv, [JmtNext]_jmt_vars
    PROVE  JmtInv' /\ [Durable!Next]_<<DiskMap, db.latest, answer>>
<1>1. CASE UpdateAll
  <2>1. JmtInv'
    BY Zenon, <1>1, BeginKeeps DEF UpdateAll
  <2> QED
    BY Zenon, <1>1, <2>1 DEF UpdateAll, DiskMap
<1>2. CASE CommitAtomic
  <2>1. JmtInv' /\ DiskMap' = PutAll(DiskMap, job.batch) /\ db.latest' = db.latest + 1
    BY Zenon, <1>2, CommitKeeps
  <2>2. /\ DOMAIN job.batch \in (SUBSET TreeKeys) \ {{}}
        /\ job.batch \in [DOMAIN job.batch -> TreeValues \cup {NoValue}]
    BY <1>2 DEF CommitAtomic, JmtInv, JobInv, NoJob, Stored
  <2>3. job.batch \in Durable!Batches
    BY Zenon, <2>2 DEF Durable!Batches
  <2>4. PutAll(DiskMap, job.batch) = Durable!Apply(DiskMap, job.batch)
    <3>1. DOMAIN DiskMap = TreeKeys
      BY Zenon, DiskMapType DEF JmtInv, Trees
    <3>2. DOMAIN DiskMap \cup DOMAIN job.batch = TreeKeys
      BY Zenon, <3>1, <2>2
    <3> QED
      BY Zenon, <3>2 DEF PutAll, Durable!Apply
  <2>5. Durable!Commit(job.batch)
    BY Zenon, <1>2, <2>1, <2>4 DEF Durable!Commit, CommitAtomic
  <2> QED
    BY Zenon, <2>1, <2>3, <2>5 DEF Durable!Next
<1>3. CASE Publish
  BY Zenon, <1>3, PublishKeeps DEF Publish, DiskMap
<1>4. ASSUME NEW k \in TreeKeys, Delete(k)
      PROVE  JmtInv' /\ UNCHANGED <<DiskMap, db.latest, answer>>
  BY Zenon, <1>4, DeleteKeeps DEF Delete, DiskMap
<1>5. ASSUME NEW k \in TreeKeys, Get(k)
      PROVE  JmtInv' /\ Durable!Next
  <2>1. JmtInv'
    BY Zenon, <1>5, CacheReadsKeeps DEF Get
  <2>2. answer' = [key |-> k, value |-> DiskMap[k]]
    BY Zenon, <1>5, ReadsDisk DEF Get
  <2>3. Durable!Read
    BY Zenon, <1>5, <2>2 DEF Durable!Read, Durable!Value, Get, DiskMap
  <2> QED
    BY Zenon, <2>1, <2>3 DEF Durable!Next
<1>6. CASE Root
  <2>1. job.step # "write" /\ job.step # "publish"
    BY Zenon, <1>6 DEF Root, NoJob
  <2>2. JmtInv'
    BY Zenon, <1>6 DEF Root, JmtInv, DiskInv, JobInv, MemoryInv, NewestIs, DiskMap, Ahead
  <2>3. current_root = DiskMap /\ current_version = db.latest
    BY Zenon, <2>1 DEF JmtInv, MemoryInv
  <2>4. Durable!Read
    BY Zenon, <1>6, <2>3 DEF Root, Durable!Read, Durable!Summary, DiskMap, Sentinel
  <2> QED
    BY Zenon, <2>2, <2>4 DEF Durable!Next
<1>7. CASE Evict
  BY Zenon, <1>7, EvictKeeps DEF Evict, DiskMap
<1>8. CASE Crash
  <2>1. Durable!Forget
    BY Zenon, <1>8 DEF Crash, Durable!Forget, DiskMap
  <2> QED
    BY Zenon, <1>8, <2>1, CrashKeeps DEF Durable!Next
<1>9. CASE UNCHANGED jmt_vars
  <2>1. JmtInv'
    BY <1>9, Zenon DEF jmt_vars, JmtInv, DiskInv, JobInv, MemoryInv, NewestIs, DiskMap, Ahead
  <2> QED
    BY <1>9, <2>1, Zenon DEF jmt_vars, DiskMap
<1> QED
  BY Zenon, <1>1, <1>2, <1>3, <1>4, <1>5, <1>6, <1>7, <1>8, <1>9 DEF JmtNext

\* Every reachable store satisfies the inductive invariant.
THEOREM StoreInvariant == JmtSpec => []JmtInv
<1>1. JmtInv /\ [JmtNext]_jmt_vars => JmtInv'
  BY Zenon, StepRefines
<1> QED
  BY InitHolds, <1>1, PTL DEF JmtSpec

\* PersistentJMT implements a durable map: reads, roots, batches and crashes of
\* the cached, versioned store are those of VersionedMap.
THEOREM TreeRefinesMap == JmtSpec => TreeIsDurable
<1>1. JmtInit => Durable!Init
  BY DEF JmtInit, Durable!Init, DiskMap, EMPTY_ROOT, Sentinel
<1>2. JmtInv /\ [JmtNext]_jmt_vars => [Durable!Next]_<<DiskMap, db.latest, answer>>
  BY Zenon, StepRefines
<1> QED
  BY <1>1, <1>2, StoreInvariant, PTL DEF JmtSpec, TreeIsDurable, Durable!Spec

\* Whenever a reader can get in, the value cache holds the newest records.
THEOREM CachesAgree == JmtSpec => []CacheCoherent
<1>1. JmtInv => CacheCoherent
  <2> SUFFICES ASSUME JmtInv, job = NoJob, NEW k \in DOMAIN value_cache
               PROVE  value_cache[k] = Scan(k, db.latest)
    BY Zenon DEF CacheCoherent
  <2>1. k \in TreeKeys /\ value_cache[k] = DiskMap[k]
    BY Zenon DEF JmtInv, MemoryInv, Ahead, NoJob
  <2> QED
    BY Zenon, <2>1, ScanFindsNewest DEF JmtInv
<1> QED
  BY <1>1, StoreInvariant, PTL

------------------------------------------------------------------------------
(***************************************************************************)
(* The nonce window is correct for every window size and every width of    *)
(* the nonce: no nonce is consumed twice and the window never wedges.      *)
(***************************************************************************)

(***************************************************************************)
(* The inductive invariant.  The used slots are nonces of the type, so the *)
(* window never claims one past the end; and base itself is unused unless  *)
(* it is the last nonce, which is where advance has to stop.               *)
(***************************************************************************)
WindowInv(w) ==
    /\ w = [base |-> w.base, used |-> w.used]
    /\ w.base \in 0..MAX_NONCE
    /\ w.used \subseteq Offsets
    /\ \A b \in w.used : w.base + b <= MAX_NONCE
    /\ 0 \in w.used => w.base = MAX_NONCE

\* Every non-empty set of naturals has a least member.
LEMMA LeastNat ==
    ASSUME NEW T \in SUBSET Nat, T # {}
    PROVE  \E x \in T : \A y \in T : x <= y
<1>1. PICK x \in T : \A y \in T : ~(<<y, x>> \in OpToRel(<, Nat))
  BY Zenon, NatLessThanWellFounded, WFMin
<1>2. ASSUME NEW y \in Nat, y < x
      PROVE  <<y, x>> \in OpToRel(<, Nat)
  <2> DEFINE p == <<y, x>>
  <2>1. p \in Nat \X Nat /\ p[1] < p[2]
    BY Zenon, <1>2
  <2> HIDE DEF p
  <2>2. p \in OpToRel(<, Nat)
    BY <2>1, Zenon DEF OpToRel
  <2> QED
    BY Zenon, <2>2 DEF p
<1>3. \A y \in T : ~(y < x)
  BY Zenon, <1>1, <1>2
<1> QED
  BY <1>3

\* A used set of offsets has a first slot at which advance stops.
LEMMA SkippedIsFirst ==
    ASSUME NEW w, w.base \in Nat, w.used \subseteq Offsets
    PROVE  /\ Skipped(w) \in 0..WINDOW_SIZE
           /\ StopsAt(w, Skipped(w))
           /\ \A j \in 0..(Skipped(w) - 1) : ~StopsAt(w, j)
<1> DEFINE T == {k \in Nat : StopsAt(w, k)}
<1>1. WINDOW_SIZE \in T
  BY WindowAssumption DEF StopsAt, Offsets
<1>2. PICK x \in T : \A y \in T : x <= y
  <2>1. T \in SUBSET Nat /\ T # {}
    BY Zenon, <1>1
  <2> HIDE DEF T
  <2> QED
    BY Zenon, <2>1, LeastNat
<1>4. \A y \in T : ~(y < x)
  BY <1>2
<1>5. x \in 0..WINDOW_SIZE
  BY <1>1, <1>4, WindowAssumption
<1>6. \A j \in 0..(x - 1) : ~StopsAt(w, j)
  BY <1>4, <1>5
<1> HIDE DEF T
<1>7. StopsAt(w, x)
  BY Zenon DEF T
<1> QED
  BY <1>5, <1>6, <1>7, Zenon DEF Skipped

\* advance keeps the consumed nonces, and restores the invariant.
LEMMA AdvanceKeeps ==
    ASSUME NEW w,
           w.base \in 0..MAX_NONCE, w.used \subseteq Offsets,
           \A b \in w.used : w.base + b <= MAX_NONCE
    PROVE  /\ WindowInv(advance(w))
           /\ 0..(advance(w).base - 1) \cup {advance(w).base + b : b \in advance(w).used}
                = 0..(w.base - 1) \cup {w.base + b : b \in w.used}
<1> DEFINE k == Skipped(w)
           v == [base |-> w.base + k, used |-> {b \in Offsets : b + k \in w.used}]
<1>1. v = advance(w)
  BY Zenon DEF advance
<1>2. /\ k \in 0..WINDOW_SIZE
      /\ StopsAt(w, k)
      /\ \A j \in 0..(k - 1) : ~StopsAt(w, j)
  BY SkippedIsFirst, WindowAssumption
<1> HIDE DEF k
<1>3. v.base = w.base + k /\ v.used = {b \in Offsets : b + k \in w.used}
  BY Zenon
<1>4. \A j \in 0..(k - 1) : j \in w.used /\ w.base + j # MAX_NONCE
  BY Zenon, <1>2 DEF StopsAt
<1>5. w.base + k <= MAX_NONCE
  <2>1. CASE k = 0
    BY <2>1, WindowAssumption
  <2>2. CASE k # 0
    <3>1. k - 1 \in w.used /\ w.base + (k - 1) # MAX_NONCE
      BY <1>2, <1>4, <2>2, WindowAssumption
    <3> QED
      BY <3>1, <1>2, WindowAssumption
  <2> QED
    BY Zenon, <2>1, <2>2
<1>6. WindowInv(v)
  <2>1. v.base \in 0..MAX_NONCE
    BY <1>2, <1>5, WindowAssumption
  <2>2. v.used \subseteq Offsets
    BY Zenon
  <2>3. \A b \in v.used : v.base + b <= MAX_NONCE
    BY <1>2, WindowAssumption DEF Offsets
  <2>4. 0 \in v.used => v.base = MAX_NONCE
    BY <1>2, WindowAssumption DEF StopsAt
  <2> QED
    BY Zenon, <2>1, <2>2, <2>3, <2>4 DEF WindowInv
<1>7. ASSUME NEW n \in Nat
      PROVE  n \in 0..(v.base - 1) \cup {v.base + b : b \in v.used}
               <=> n \in 0..(w.base - 1) \cup {w.base + b : b \in w.used}
  <2>1. CASE n < w.base
    BY <2>1, <1>2, WindowAssumption
  <2>2. CASE n >= w.base /\ n < w.base + k
    <3>1. n - w.base \in w.used /\ n = w.base + (n - w.base)
      BY <2>2, <1>2, <1>4, WindowAssumption
    <3> QED
      BY <3>1, <2>2, <1>2, WindowAssumption
  <2>3. CASE n >= w.base + k
    <3>1. n \in {v.base + b : b \in v.used} <=> n - (w.base + k) \in v.used
      BY <2>3, <1>2, WindowAssumption DEF Offsets
    <3>2. n \in {w.base + b : b \in w.used} <=> n - w.base \in w.used
      BY <2>3, <1>2, WindowAssumption DEF Offsets
    <3>3. n - (w.base + k) \in v.used <=> n - w.base \in w.used
      BY <2>3, <1>2, WindowAssumption DEF Offsets
    <3> QED
      BY <3>1, <3>2, <3>3, <2>3, <1>2, WindowAssumption
  <2> QED
    BY <2>1, <2>2, <2>3, <1>2, WindowAssumption
<1>8. 0..(v.base - 1) \cup {v.base + b : b \in v.used} \subseteq Nat
  BY <1>2, WindowAssumption DEF Offsets
<1>9. 0..(w.base - 1) \cup {w.base + b : b \in w.used} \subseteq Nat
  BY WindowAssumption DEF Offsets
<1> HIDE DEF v
<1> QED
  BY Zenon, <1>1, <1>6, <1>7, <1>8, <1>9

------------------------------------------------------------------------------
\* use_nonce consumes the nonce it is given, one that was not consumed yet and
\* lies in the window, and nothing else.
LEMMA UseConsumes ==
    ASSUME NEW n \in 0..MAX_NONCE, WindowInv(window), Use(n)
    PROVE  /\ WindowInv(window')
           /\ n \notin Consumed
           /\ n >= window.base
           /\ n < window.base + WINDOW_SIZE
           /\ Consumed' = Consumed \cup {n}
<1> DEFINE w == [base |-> window.base, used |-> window.used \cup {n - window.base}]
<1>1. /\ window.base \in 0..MAX_NONCE /\ window.used \subseteq Offsets
      /\ \A b \in window.used : window.base + b <= MAX_NONCE
  BY Zenon DEF WindowInv
<1>2. n >= window.base /\ n - window.base \notin window.used
  BY Zenon DEF Use, validate
<1>3. n < window.base + WINDOW_SIZE
  BY <1>1, WindowAssumption DEF Use, validate
<1>4. n - window.base \in Offsets
  BY <1>1, <1>2, <1>3, WindowAssumption DEF Offsets
<1>5. w.base = window.base /\ w.used = window.used \cup {n - window.base}
  BY Zenon
<1>6. /\ w.base \in 0..MAX_NONCE /\ w.used \subseteq Offsets
      /\ \A b \in w.used : w.base + b <= MAX_NONCE
  BY <1>1, <1>2, <1>4, WindowAssumption DEF Offsets
<1>7. window' = advance(w)
  BY Zenon DEF Use, use_nonce
<1> HIDE DEF w
<1>8. /\ WindowInv(window')
      /\ Consumed' = 0..(w.base - 1) \cup {w.base + b : b \in w.used}
  BY <1>6, <1>7, AdvanceKeeps DEF Consumed
<1>9. n \notin Consumed
  BY <1>1, <1>2, WindowAssumption DEF Consumed, Offsets
<1>10. {w.base + b : b \in w.used} = {window.base + b : b \in window.used} \cup {n}
  <2>1. window.base + (n - window.base) = n
    BY <1>1, WindowAssumption
  <2> QED
    BY Zenon, <1>5, <2>1
<1> QED
  BY Zenon, <1>2, <1>3, <1>5, <1>8, <1>9, <1>10 DEF Consumed

\* Every reachable window satisfies the inductive invariant.
THEOREM WindowInvariant == NonceSpec => []WindowInv(window)
<1>1. NonceInit => WindowInv(window)
  BY WindowAssumption DEF NonceInit, EmptyWindow, WindowInv
<1>2. WindowInv(window) /\ [NonceNext]_nonce_vars => WindowInv(window)'
  <2> SUFFICES ASSUME WindowInv(window), [NonceNext]_nonce_vars PROVE WindowInv(window)'
    BY Zenon
  <2>1. CASE NonceNext
    BY Zenon, <2>1, UseConsumes DEF NonceNext
  <2>2. CASE UNCHANGED nonce_vars
    BY Zenon, <2>2 DEF WindowInv, nonce_vars
  <2> QED
    BY Zenon, <2>1, <2>2
<1> QED
  BY <1>1, <1>2, PTL DEF NonceSpec

\* The window keeps its type: base is a nonce and the bitmap fits.
THEOREM WindowType == NonceSpec => []WindowTypeOK
<1>1. WindowInv(window) => WindowTypeOK
  BY Zenon DEF WindowInv, WindowTypeOK, NonceState
<1> QED
  BY <1>1, WindowInvariant, PTL

\* As long as a nonce is left, the transaction with nonce base is accepted:
\* for every window size and every width of the nonce.
THEOREM NeverStuck == NonceSpec => []WindowNeverStuck
<1>1. WindowInv(window) => WindowNeverStuck
  <2> SUFFICES ASSUME WindowInv(window), Consumed # 0..MAX_NONCE
               PROVE  validate(window, window.base)
    BY Zenon DEF WindowNeverStuck
  <2>1. window.base \in 0..MAX_NONCE
    BY Zenon DEF WindowInv
  <2>2. 0 \notin window.used
    <3> SUFFICES ASSUME 0 \in window.used PROVE FALSE
      BY Zenon
    <3>1. window.base = MAX_NONCE
      BY Zenon DEF WindowInv
    <3>2. \A b \in window.used : b \in Nat /\ MAX_NONCE + b <= MAX_NONCE
      BY <3>1, WindowAssumption DEF WindowInv, Offsets
    <3>3. window.used = {0}
      BY <3>2, WindowAssumption
    <3>4. Consumed = 0..(MAX_NONCE - 1) \cup {MAX_NONCE + 0}
      BY Zenon, <3>1, <3>3 DEF Consumed
    <3>5. Consumed = 0..MAX_NONCE
      BY <3>4, WindowAssumption
    <3> QED
      BY Zenon, <3>5
  <2> QED
    BY <2>1, <2>2, WindowAssumption DEF validate
<1> QED
  BY <1>1, WindowInvariant, PTL

\* The window implements NonceOnce: no nonce ever authorises two transactions.
THEOREM NoReplay == NonceSpec => ReplaySpec
<1>1. NonceInit => Once!Init
  BY WindowAssumption DEF NonceInit, EmptyWindow, Once!Init, Consumed
<1>2. WindowInv(window) /\ [NonceNext]_nonce_vars => [Once!Next]_<<Consumed, sent>>
  <2> SUFFICES ASSUME WindowInv(window), [NonceNext]_nonce_vars
               PROVE  [Once!Next]_<<Consumed, sent>>
    BY Zenon
  <2>1. ASSUME NEW n \in 0..MAX_NONCE, Use(n)
        PROVE  Once!Consume(n)
    <3>1. /\ n \notin Consumed /\ n >= window.base /\ n < window.base + WINDOW_SIZE
          /\ Consumed' = Consumed \cup {n}
      BY Zenon, <2>1, UseConsumes
    <3>2. window.base \in 0..n /\ 0..(window.base - 1) \subseteq Consumed
      BY <3>1, WindowAssumption DEF WindowInv, Consumed
    <3> QED
      BY Zenon, <2>1, <3>1, <3>2 DEF Use, Once!Consume
  <2>2. CASE NonceNext
    BY Zenon, <2>1, <2>2 DEF NonceNext, Once!Next
  <2>3. CASE UNCHANGED nonce_vars
    BY Zenon, <2>3 DEF Consumed, nonce_vars
  <2> QED
    BY Zenon, <2>2, <2>3
<1> QED
  BY <1>1, <1>2, WindowInvariant, PTL DEF NonceSpec, ReplaySpec, Once!Spec

------------------------------------------------------------------------------
(***************************************************************************)
(* The pool of plain transactions.                                         *)
(***************************************************************************)
\* The pool grows by transactions whose nonce nobody claims, by the batch of a
\* fast_tx connection, or not at all.
LEMMA PendingStep ==
    ASSUME [PlainNext]_plain_vars
    PROVE  \/ pending' \subseteq pending
           \/ pending' = pending \cup Range(FastBatch)
           \/ \E t : ~SameNonce(t) /\ pending' = pending \cup {t}
<1>1. CASE UNCHANGED plain_vars
  BY <1>1, Zenon DEF plain_vars
<1>2. ASSUME NEW t \in RpcTxs, RpcStep(t) PROVE \/ pending' = pending
                                                \/ ~SameNonce(t) /\ pending' = pending \cup {t}
  BY <1>2, Zenon DEF RpcStep, ingress_validate, RpcInsert, RpcStamp, RpcSend, Admits
<1>3. CASE FastStep
  BY <1>3, Zenon DEF FastStep, FastLock, FastSend, FastInsert, FastStamp
<1>4. CASE LoopStep
  <2>1. CASE AcceptInsert
    BY <2>1, Zenon DEF AcceptInsert
  <2>2. CASE ForgetPending \/ SweepPending
    BY <2>2, Zenon DEF ForgetPending, SweepPending
  <2>3. CASE RelayGossip \/ AcceptStamp \/ Unstamp \/ Sweep \/ SweepTimes \/ SweepIndex
    BY <2>3, Zenon DEF RelayGossip, AcceptStamp, Unstamp, Sweep, SweepTimes, SweepIndex
  <2> QED
    BY <1>4, <2>1, <2>2, <2>3, Zenon DEF LoopStep
<1>5. CASE Input
  BY <1>5, Zenon DEF Input, AcceptTransaction, prune_committed_txs, BlockProcessed, TtlPasses
<1> QED
  BY <1>1, <1>2, <1>3, <1>4, <1>5, Zenon DEF PlainNext

\* Whichever requests, gossip and batches race for a sender's nonce, two
\* pending transactions claim it only when fast_tx, which does not look, brought
\* one of them (rpc.rs and node.rs look under the pending_txs lock).
THEOREM NonceClaimedOnce == PlainSpec => []OneVariantPerNonce
<1>1. PlainInit => OneVariantPerNonce
  BY Zenon DEF PlainInit, OneVariantPerNonce
<1>2. ASSUME OneVariantPerNonce, [PlainNext]_plain_vars PROVE OneVariantPerNonce'
  <2> SUFFICES ASSUME NEW t \in pending', NEW u \in pending', SlotOfTx(t) = SlotOfTx(u), t # u
               PROVE  t \in Range(FastBatch) \/ u \in Range(FastBatch)
    BY Zenon DEF OneVariantPerNonce
  <2>1. CASE t \in pending /\ u \in pending
    BY Zenon, <1>2, <2>1 DEF OneVariantPerNonce
  <2>2. CASE ~(t \in pending /\ u \in pending)
    <3>1. CASE pending' \subseteq pending
      BY Zenon, <2>2, <3>1
    <3>2. CASE pending' = pending \cup Range(FastBatch)
      BY Zenon, <2>2, <3>2
    <3>3. CASE \E x : ~SameNonce(x) /\ pending' = pending \cup {x}
      <4>1. PICK x : ~SameNonce(x) /\ pending' = pending \cup {x}
        BY <3>3, Zenon
      <4>2. (t = x /\ u \in pending) \/ (u = x /\ t \in pending)
        BY Zenon, <2>2, <4>1
      <4> QED
        BY <4>1, <4>2, Zenon DEF SameNonce
    <3> QED
      BY <1>2, <3>1, <3>2, <3>3, PendingStep, Zenon
  <2> QED
    BY Zenon, <2>1, <2>2
<1> QED
  BY <1>1, <1>2, PTL DEF PlainSpec
==============================================================================
