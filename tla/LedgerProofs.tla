---------------------------- MODULE LedgerProofs ----------------------------
(***************************************************************************)
(* Proofs about the ledger of a node: what its reads return after a block  *)
(* is executed, its writes committed or a reorganisation takes it back,    *)
(* for any blocks, any keys and any depth of the undo logs.                *)
(***************************************************************************)
EXTENDS BlockProcessor, WellFoundedInduction, TLAPS

------------------------------------------------------------------------------
\* Every non-empty set of naturals has a least member.
LEMMA LeastNat ==
    ASSUME NEW T \in SUBSET Nat, T # {}
    PROVE  \E x \in T : \A y \in T : x <= y
<1>1. PICK x \in T : \A y \in T : ~(<<y, x>> \in OpToRel(<, Nat))
  BY Zenon, NatLessThanWellFounded, WFMin
<1>2. ASSUME NEW y \in Nat, y < x
      PROVE  <<y, x>> \in OpToRel(<, Nat)
  <2> DEFINE p == <<y, x>>
  <2>1. p \in Nat \X Nat /\ p[1] < p[2]
    BY Zenon, <1>2
  <2> HIDE DEF p
  <2>2. p \in OpToRel(<, Nat)
    BY <2>1, Zenon DEF OpToRel
  <2> QED
    BY Zenon, <2>2 DEF p
<1>3. \A y \in T : ~(y < x)
  BY Zenon, <1>1, <1>2
<1> QED
  BY <1>3

\* A non-empty set of naturals with an upper bound has a largest member.
LEMMA BoundedSet ==
    ASSUME NEW n \in Nat, NEW S \in SUBSET (0 .. n), S # {}
    PROVE  \E m \in S : \A s \in S : s <= m
<1> DEFINE T == {n - s : s \in S}
<1>1. T \subseteq Nat
  OBVIOUS
<1>2. PICK s \in S : n - s \in T
  BY Zenon
<1>3. PICK x \in T : \A y \in T : x <= y
  BY Zenon, <1>1, <1>2, LeastNat
<1>4. PICK m \in S : x = n - m
  BY Zenon, <1>3
<1>5. \A t \in S : n - t \in T
  BY Zenon
<1> HIDE DEF T
<1>6. \A t \in S : t <= m
  BY <1>3, <1>4, <1>5
<1> QED
  BY Zenon, <1>6

\* A set of naturals with 0 in it and closed under successor has them all.
LEMMA NatByInduction ==
    ASSUME NEW P \in SUBSET Nat, 0 \in P, \A n \in P : n + 1 \in P
    PROVE  P = Nat
<1> DEFINE T == Nat \ P
<1>1. CASE T = {}
  BY Zenon, <1>1
<1>2. CASE T # {}
  <2>1. PICK x \in T : \A y \in T : x <= y
    BY <1>2, LeastNat, Zenon
  <2>2. x \in Nat \ {0} /\ x - 1 \in Nat
    BY <2>1
  <2>3. x - 1 \in P
    BY <2>1, <2>2
  <2> QED
    BY <2>1, <2>2, <2>3
<1> QED
  BY Zenon, <1>1, <1>2

\* The steps of a recursion stay in S, and the values of f come from them.
StaysIn(S, step) == \A i \in Nat, x \in S : step[<<i, x>>] \in S
Follows(f, base, step, n) == f[0] = base /\ \A i \in 1..n : f[i] = step[<<i, f[i - 1]>>]

\* A value for 0, and for each number one that follows from the one before:
\* there is a function with these values.
LEMMA NatRecursion ==
    ASSUME NEW S, NEW base \in S, NEW step, StaysIn(S, step), NEW n \in Nat
    PROVE  \E f \in [0..n -> S] : Follows(f, base, step, n)
<1> DEFINE Fits(f, m) == f[0] = base /\ \A i \in 1..m : f[i] = step[<<i, f[i - 1]>>]
           P == {m \in Nat : \E f \in [0..m -> S] : Fits(f, m)}
<1>1. 0 \in P
  <2>1. [i \in 0..0 |-> base] \in [0..0 -> S] /\ Fits([i \in 0..0 |-> base], 0)
    OBVIOUS
  <2> QED
    BY Zenon, <2>1
<1>2. ASSUME NEW m \in P PROVE m + 1 \in P
  <2>1. m \in Nat /\ \E f \in [0..m -> S] : Fits(f, m)
    BY Zenon
  <2>2. PICK f \in [0..m -> S] : Fits(f, m)
    BY Zenon, <2>1
  <2> DEFINE h == [i \in 0..(m + 1) |-> IF i = m + 1 THEN step[<<m + 1, f[m]>>] ELSE f[i]]
  <2>3. step[<<m + 1, f[m]>>] \in S
    BY <2>1 DEF StaysIn
  <2>4. h \in [0..(m + 1) -> S]
    BY <2>1, <2>3
  <2>5. Fits(h, m + 1)
    <3>1. h[0] = base
      BY <2>1, <2>2
    <3>2. ASSUME NEW i \in 1..(m + 1) PROVE h[i] = step[<<i, h[i - 1]>>]
      <4>1. CASE i = m + 1
        <5>1. m + 1 \in 0..(m + 1) /\ m \in 0..(m + 1) /\ m # m + 1 /\ i - 1 = m
          BY <2>1, <4>1
        <5>2. h[m + 1] = step[<<m + 1, f[m]>>] /\ h[m] = f[m]
          BY <5>1, Zenon
        <5> HIDE DEF h
        <5> QED
          BY Zenon, <4>1, <5>1, <5>2
      <4>2. CASE i \in 1..m
        <5>1. f[i] = step[<<i, f[i - 1]>>]
          BY Zenon, <2>2, <4>2
        <5>2. h[i] = f[i] /\ h[i - 1] = f[i - 1]
          BY <2>1, <4>2
        <5> QED
          BY Zenon, <5>1, <5>2
      <4> QED
        BY <2>1, <4>1, <4>2
    <3> QED
      BY Zenon, <3>1, <3>2
  <2> HIDE DEF h, Fits
  <2> QED
    BY <2>1, <2>4, <2>5
<1> HIDE DEF P
<1>3. P = Nat
  <2>1. P \subseteq Nat
    BY Zenon DEF P
  <2> QED
    BY <1>1, <1>2, <2>1, NatByInduction, Zenon
<1> QED
  BY Zenon, <1>3 DEF P, Follows


------------------------------------------------------------------------------
\* Sequences of anything.
IsSeq(q) == q \in Seq({q[i] : i \in DOMAIN q})

\* A sequence over some set is one over its own elements.
LEMMA SeqOf ==
    ASSUME NEW S, NEW q \in Seq(S)
    PROVE  IsSeq(q) /\ Len(q) \in Nat /\ DOMAIN q = 1..Len(q)
<1>1. Len(q) \in Nat /\ DOMAIN q = 1..Len(q) /\ q = [i \in 1..Len(q) |-> q[i]]
  OBVIOUS
<1>2. q \in [1..Len(q) -> {q[i] : i \in DOMAIN q}]
  BY Zenon, <1>1
<1>3. \A T : \A n \in Nat : \A f \in [1..n -> T] : f \in Seq(T)
  OBVIOUS
<1> QED
  BY Zenon, <1>1, <1>2, <1>3 DEF IsSeq

\* The indices of a sequence and its first element.
LEMMA SeqFacts ==
    ASSUME NEW q, IsSeq(q)
    PROVE  /\ Len(q) \in Nat /\ DOMAIN q = 1..Len(q)
           /\ q = <<>> <=> Len(q) = 0
           /\ Len(q) > 0 => Head(q) = q[1]
  BY DEF IsSeq

\* An element more at the end.
LEMMA AppendFacts ==
    ASSUME NEW q, IsSeq(q), NEW e
    PROVE  /\ IsSeq(Append(q, e)) /\ Len(Append(q, e)) = Len(q) + 1
           /\ \A i \in 1..Len(q) : Append(q, e)[i] = q[i]
           /\ Append(q, e)[Len(q) + 1] = e
<1> DEFINE S == {q[i] : i \in DOMAIN q}
           T == S \cup {e}
<1>1. q \in Seq(S)
  BY Zenon DEF IsSeq
<1> HIDE DEF S
<1>2. q \in Seq(T) /\ e \in T
  BY <1>1
<1> HIDE DEF T
<1>3. Append(q, e) \in Seq(T)
  BY <1>2
<1>4. IsSeq(Append(q, e))
  BY <1>3, SeqOf, Zenon
<1> QED
  BY <1>2, <1>4

\* One less at the front, as record_block_undo drops the oldest log.
LEMMA TailFacts ==
    ASSUME NEW q, IsSeq(q), q # <<>>
    PROVE  /\ IsSeq(Tail(q)) /\ Len(Tail(q)) = Len(q) - 1
           /\ \A i \in 1..(Len(q) - 1) : Tail(q)[i] = q[i + 1]
<1> DEFINE S == {q[i] : i \in DOMAIN q}
<1>1. q \in Seq(S)
  BY Zenon DEF IsSeq
<1> HIDE DEF S
<1>2. Tail(q) \in Seq(S)
  BY <1>1
<1>3. IsSeq(Tail(q))
  BY <1>2, SeqOf, Zenon
<1> QED
  BY <1>1, <1>3

\* A prefix, as revert_to leaves of the logs.
LEMMA SubSeqFacts ==
    ASSUME NEW q, IsSeq(q), NEW n \in 0..Len(q)
    PROVE  /\ IsSeq(SubSeq(q, 1, n)) /\ Len(SubSeq(q, 1, n)) = n
           /\ \A i \in 1..n : SubSeq(q, 1, n)[i] = q[i]
<1> DEFINE S == {q[i] : i \in DOMAIN q}
<1>1. q \in Seq(S)
  BY Zenon DEF IsSeq
<1> HIDE DEF S
<1>2. n \in Nat /\ n <= Len(q) /\ \A i \in 1..n : i \in 1..Len(q)
  BY <1>1
<1>3. SubSeq(q, 1, n) \in Seq(S) /\ Len(SubSeq(q, 1, n)) = n
  BY <1>1, <1>2
<1>4. IsSeq(SubSeq(q, 1, n))
  BY <1>3, SeqOf, Zenon
<1>5. \A i \in 1..n : SubSeq(q, 1, n)[i] = q[i]
  BY <1>1, <1>2
<1> QED
  BY Zenon, <1>3, <1>4, <1>5

Regroups(p, q, r) == (p \o q) \o r = p \o (q \o r)

\* Concatenation is associative.
LEMMA ConcatRegroups ==
    ASSUME NEW S, NEW p \in Seq(S), NEW q \in Seq(S), NEW r \in Seq(S)
    PROVE  Regroups(p, q, r)
  BY SMTT(40) DEF Regroups

\* Concatenation stays in the sequences over a set.
LEMMA ConcatTyped ==
    ASSUME NEW S, NEW p \in Seq(S), NEW q \in Seq(S)
    PROVE  p \o q \in Seq(S)
  OBVIOUS

------------------------------------------------------------------------------
(***************************************************************************)
(* What a chain of blocks adds to a key.                                   *)
(***************************************************************************)
MarkSet(h) == {<<b, part>> : b \in {h[i] : i \in Nat} \cup {"genesis"},
                             part \in {"stake", "txs", "fee", "service", "mint"}}

\* What a block adds to a key is a sequence of marks.
LEMMA MarksTyped ==
    ASSUME NEW k, NEW h, NEW i \in Nat
    PROVE  Marks(h[i], k) \in Seq(MarkSet(h))
<1> DEFINE S == MarkSet(h)
           b == h[i]
<1>1. \A part \in {"txs", "fee", "service", "mint"} : <<b, part>> \in S
  BY DEF MarkSet
<1> HIDE DEF S, b
<1>2. \A part \in {"txs", "fee", "service", "mint"} : \A c : Mark(b, part, c) \in Seq(S)
  BY <1>1 DEF Mark
<1>3. \A p, q \in Seq(S) : p \o q \in Seq(S)
  OBVIOUS
<1>4. Marks(b, k) \in Seq(S)
  BY <1>2, <1>3, Zenon DEF Marks
<1> QED
  BY Zenon, <1>4 DEF S, b

\* So is what the genesis state holds.
LEMMA GenesisTyped ==
    ASSUME NEW k, NEW h
    PROVE  MarksOf(GenesisValue(k)) \in Seq(MarkSet(h))
<1>1. <<"genesis", "stake">> \in MarkSet(h)
  BY DEF MarkSet
<1>2. CASE k \in Proposers
  <2>1. GenesisValue(k) = <<[block |-> "genesis", part |-> "stake", price |-> 0]>>
    BY Zenon, <1>2 DEF GenesisValue
  <2>2. MarksOf(GenesisValue(k)) = <<<<"genesis", "stake">>>>
    BY <2>1 DEF MarksOf
  <2> QED
    BY <1>1, <2>2
<1>3. CASE k \notin Proposers
  <2>1. MarksOf(GenesisValue(k)) = <<>>
    BY <1>3 DEF MarksOf, GenesisValue, Absent
  <2> QED
    BY <2>1
<1> QED
  BY Zenon, <1>2, <1>3

\* The recursion of ExpectedUpTo has a solution, so its function is one.
LEMMA ExpectedUpToIs ==
    ASSUME NEW k, NEW h, NEW n \in Nat
    PROVE  LET g == ExpectedUpTo(h, n, k) IN
           /\ g[0] = MarksOf(GenesisValue(k))
           /\ \A i \in 1..n : g[i] = g[i - 1] \o Marks(h[i], k)
           /\ \A i \in 0..n : g[i] \in Seq(MarkSet(h))
<1> DEFINE S == Seq(MarkSet(h))
           base == MarksOf(GenesisValue(k))
           step == [p \in Nat \X S |-> p[2] \o Marks(h[p[1]], k)]
           g == ExpectedUpTo(h, n, k)
<1>1. base \in S
  BY GenesisTyped, Zenon
<1>2. \A i \in Nat, x \in S : step[<<i, x>>] = x \o Marks(h[i], k)
  BY Zenon
<1>3. \A i \in Nat : Marks(h[i], k) \in S
  BY MarksTyped, Zenon
<1>4. \A x, y \in S : x \o y \in S
  OBVIOUS
<1> HIDE DEF S, base, step, g
<1>5. StaysIn(S, step)
  BY <1>2, <1>3, <1>4, Zenon DEF StaysIn
<1>6. PICK f \in [0..n -> S] : Follows(f, base, step, n)
  BY <1>1, <1>5, NatRecursion, Zenon
<1>7. ASSUME NEW i \in 1..n PROVE f[i] = f[i - 1] \o Marks(h[i], k)
  <2>1. f[i - 1] \in S /\ i \in Nat
    OBVIOUS
  <2>2. f[i] = step[<<i, f[i - 1]>>]
    BY <1>6, Zenon DEF Follows
  <2> QED
    BY <1>2, <2>1, <2>2, Zenon
<1>8. f[0] = base
  BY <1>6, Zenon DEF Follows
<1>9. f = [i \in 0..n |-> IF i = 0 THEN base ELSE f[i - 1] \o Marks(h[i], k)]
  BY <1>7, <1>8
<1>10. g = [i \in 0..n |-> IF i = 0 THEN base ELSE g[i - 1] \o Marks(h[i], k)]
  BY <1>9, Zenon DEF ExpectedUpTo, g, base
<1>11. g[0] = base /\ \A i \in 1..n : g[i] = g[i - 1] \o Marks(h[i], k)
  <2>1. 0 \in 0..n /\ \A i \in 1..n : i \in 0..n /\ i # 0
    OBVIOUS
  <2> HIDE DEF g
  <2> QED
    BY Zenon, <1>10, <2>1
<1> DEFINE P == {i \in Nat : i <= n => g[i] \in S}
<1>12. 0 \in P
  BY Zenon, <1>1, <1>11
<1>13. ASSUME NEW i \in P PROVE i + 1 \in P
  <2> SUFFICES ASSUME i + 1 <= n PROVE g[i + 1] \in S
    BY <1>13
  <2>1. i \in Nat /\ g[i] \in S /\ i + 1 \in Nat /\ i + 1 \in 1..n /\ (i + 1) - 1 = i
    BY <1>13
  <2>2. g[i + 1] = g[i] \o Marks(h[i + 1], k)
    BY Zenon, <1>11, <2>1
  <2> QED
    BY <1>3, <1>4, <2>1, <2>2, Zenon
<1>14. P = Nat
  <2>1. P \subseteq Nat
    BY Zenon
  <2> HIDE DEF P
  <2> QED
    BY <1>12, <1>13, <2>1, NatByInduction, Zenon
<1>15. \A i \in 0..n : g[i] \in S
  BY <1>14
<1> QED
  BY Zenon, <1>11, <1>15 DEF g, base, S

\* Two chains with the same blocks up to m add the same up to m.
LEMMA ExpectedAgree ==
    ASSUME NEW k, NEW h1, NEW h2, NEW n1 \in Nat, NEW n2 \in Nat, NEW m \in Nat,
           m <= n1, m <= n2, \A i \in 1..m : h1[i] = h2[i]
    PROVE  ExpectedUpTo(h1, n1, k)[m] = ExpectedUpTo(h2, n2, k)[m]
<1> DEFINE f == ExpectedUpTo(h1, n1, k)
           g == ExpectedUpTo(h2, n2, k)
           P == {i \in Nat : i <= m => f[i] = g[i]}
<1>1. f[0] = MarksOf(GenesisValue(k)) /\ \A i \in 1..n1 : f[i] = f[i - 1] \o Marks(h1[i], k)
  BY ExpectedUpToIs, Zenon
<1>2. g[0] = MarksOf(GenesisValue(k)) /\ \A i \in 1..n2 : g[i] = g[i - 1] \o Marks(h2[i], k)
  BY ExpectedUpToIs, Zenon
<1> HIDE DEF f, g
<1>3. 0 \in P
  BY Zenon, <1>1, <1>2
<1>4. ASSUME NEW i \in P PROVE i + 1 \in P
  <2> SUFFICES ASSUME i + 1 <= m PROVE f[i + 1] = g[i + 1]
    BY <1>4
  <2>1. /\ f[i] = g[i] /\ i + 1 \in 1..m /\ i + 1 \in 1..n1 /\ i + 1 \in 1..n2
        /\ (i + 1) - 1 = i
    BY <1>4
  <2>2. f[i + 1] = f[i] \o Marks(h1[i + 1], k)
    BY Zenon, <1>1, <2>1
  <2>3. g[i + 1] = g[i] \o Marks(h2[i + 1], k)
    BY Zenon, <1>2, <2>1
  <2> QED
    BY Zenon, <2>1, <2>2, <2>3
<1>5. P = Nat
  <2>1. P \subseteq Nat
    BY Zenon
  <2> HIDE DEF P
  <2> QED
    BY <1>3, <1>4, <2>1, NatByInduction, Zenon
<1>6. f[m] = g[m]
  BY <1>5
<1> QED
  BY Zenon, <1>6 DEF f, g

\* What a chain adds up to a slot: nothing but the genesis value at slot 0, and
\* after that what the slot's block adds.
LEMMA ExpectedFacts ==
    ASSUME NEW k, NEW h, NEW n \in Nat
    PROVE  /\ Expected(h, n, k) \in Seq(MarkSet(h))
           /\ Expected(h, 0, k) = MarksOf(GenesisValue(k))
           /\ Expected(h, n + 1, k) = Expected(h, n, k) \o Marks(h[n + 1], k)
<1>1. Expected(h, n, k) \in Seq(MarkSet(h))
  <2>1. n \in 0..n
    OBVIOUS
  <2> QED
    BY <2>1, ExpectedUpToIs, Zenon DEF Expected
<1>2. Expected(h, 0, k) = MarksOf(GenesisValue(k))
  <2>1. 0 \in Nat
    BY Zenon
  <2> QED
    BY <2>1, ExpectedUpToIs, Zenon DEF Expected
<1>3. Expected(h, n + 1, k) = Expected(h, n, k) \o Marks(h[n + 1], k)
  <2> DEFINE g == ExpectedUpTo(h, n + 1, k)
  <2>1. n + 1 \in Nat /\ n + 1 \in 1..(n + 1) /\ (n + 1) - 1 = n /\ n <= n /\ n <= n + 1
    OBVIOUS
  <2>2. \A i \in 1..(n + 1) : g[i] = g[i - 1] \o Marks(h[i], k)
    BY <2>1, ExpectedUpToIs, Zenon
  <2>3. g[n] = ExpectedUpTo(h, n, k)[n]
    <3>1. \A i \in 1..n : h[i] = h[i]
      BY Zenon
    <3> QED
      BY SMTT(40), <2>1, <3>1, ExpectedAgree
  <2> HIDE DEF g
  <2>4. g[n + 1] = g[n] \o Marks(h[n + 1], k)
    BY Zenon, <2>1, <2>2
  <2> QED
    BY Zenon, <2>3, <2>4 DEF Expected, g
<1> QED
  BY Zenon, <1>1, <1>2, <1>3

\* So they do at a slot they agree up to.
LEMMA ExpectedSame ==
    ASSUME NEW k, NEW h1, NEW h2, NEW n \in Nat, \A i \in 1..n : h1[i] = h2[i]
    PROVE  Expected(h1, n, k) = Expected(h2, n, k)
<1>1. n <= n
  OBVIOUS
<1> QED
  BY <1>1, ExpectedAgree DEF Expected

------------------------------------------------------------------------------
(***************************************************************************)
(* What the methods of the store do to the values it returns.              *)
(***************************************************************************)
IsStore(s) ==
    /\ s = [smt |-> s.smt, cache |-> s.cache, pending |-> s.pending, undo |-> s.undo]
    /\ Keys \subseteq DOMAIN s.smt
    /\ DOMAIN s.pending \subseteq DOMAIN s.cache

\* update_batch_deferred: the keys of the batch read its values, the others theirs.
LEMMA BatchGet ==
    ASSUME NEW s, IsStore(s), NEW writes
    PROVE  LET r == update_batch_deferred(s, writes) IN
           /\ IsStore(r) /\ r.undo = s.undo
           /\ \A k \in Keys : get(r, k) = IF k \in DOMAIN writes THEN writes[k] ELSE get(s, k)
<1> DEFINE r == update_batch_deferred(s, writes)
<1>1. r = [smt |-> s.smt, cache |-> Over(s.cache, writes), pending |-> Over(s.pending, writes),
           undo |-> s.undo]
  <2> DEFINE x == Over(s.cache, writes)
             y == Over(s.pending, writes)
  <2>1. r = [s EXCEPT !.cache = x, !.pending = y]
    BY Zenon DEF update_batch_deferred
  <2> HIDE DEF x, y, r
  <2>2. r = [smt |-> s.smt, cache |-> x, pending |-> y, undo |-> s.undo]
    BY Zenon, <2>1 DEF IsStore
  <2> QED
    BY Zenon, <2>2 DEF x, y
<1>2. /\ r.smt = s.smt /\ r.cache = Over(s.cache, writes) /\ r.undo = s.undo
      /\ r.pending = Over(s.pending, writes)
      /\ r = [smt |-> r.smt, cache |-> r.cache, pending |-> r.pending, undo |-> r.undo]
  BY <1>1
<1> HIDE DEF r
<1>3. IsStore(r)
  BY Zenon, <1>2 DEF IsStore, Over
<1>4. \A k \in Keys : get(r, k) = IF k \in DOMAIN writes THEN writes[k] ELSE get(s, k)
  BY Zenon, <1>2 DEF get, Over
<1> QED
  BY Zenon, <1>2, <1>3, <1>4 DEF r

\* insert: the key reads the value, the others theirs.
LEMMA InsertGet ==
    ASSUME NEW s, IsStore(s), NEW k, NEW v
    PROVE  LET r == insert(s, k, v) IN
           /\ IsStore(r) /\ r.undo = s.undo
           /\ \A x \in Keys : get(r, x) = IF x = k THEN v ELSE get(s, x)
<1> DEFINE r == insert(s, k, v)
<1>1. r = [smt |-> [s.smt EXCEPT ![k] = v], cache |-> With(s.cache, k, v),
           pending |-> s.pending, undo |-> s.undo]
  <2> DEFINE x == With(s.cache, k, v)
             y == [s.smt EXCEPT ![k] = v]
  <2>1. r = [s EXCEPT !.cache = x, !.smt = y]
    BY Zenon DEF insert
  <2> HIDE DEF x, y, r
  <2>2. r = [smt |-> y, cache |-> x, pending |-> s.pending, undo |-> s.undo]
    BY Zenon, <2>1 DEF IsStore
  <2> QED
    BY Zenon, <2>2 DEF x, y
<1>2. /\ r.smt = [s.smt EXCEPT ![k] = v] /\ r.cache = With(s.cache, k, v)
      /\ r.undo = s.undo /\ r.pending = s.pending
      /\ r = [smt |-> r.smt, cache |-> r.cache, pending |-> r.pending, undo |-> r.undo]
  BY <1>1
<1> HIDE DEF r
<1>3. IsStore(r)
  BY Zenon, <1>2 DEF IsStore, With
<1>4. k \in DOMAIN r.cache /\ get(r, k) = v
  BY Zenon, <1>2 DEF get, With
<1>5. ASSUME NEW x \in Keys, x # k PROVE get(r, x) = get(s, x)
  <2>1. [s.smt EXCEPT ![k] = v][x] = s.smt[x]
    BY Zenon, <1>5 DEF IsStore
  <2> QED
    BY Zenon, <1>2, <1>5, <2>1 DEF get, With
<1> QED
  BY Zenon, <1>2, <1>3, <1>4, <1>5 DEF r

\* The undo logs after one more is recorded.
Recorded(undo, slot, entries) ==
    LET logs == Append(undo, [slot |-> slot, entries |-> entries])
    IN  IF Len(logs) > MaxUndoDepth THEN Tail(logs) ELSE logs

\* record_block_undo changes the logs and no value.
LEMMA RecordGet ==
    ASSUME NEW s, IsStore(s), NEW slot, NEW entries
    PROVE  LET r == record_block_undo(s, slot, entries) IN
           /\ IsStore(r)
           /\ r.undo = Recorded(s.undo, slot, entries)
           /\ \A k \in Keys : get(r, k) = get(s, k)
<1> DEFINE r == record_block_undo(s, slot, entries)
           u == Recorded(s.undo, slot, entries)
<1>1. r = [s EXCEPT !.undo = u]
  BY Zenon DEF record_block_undo, Recorded
<1> HIDE DEF r, u
<1>2. /\ r.smt = s.smt /\ r.cache = s.cache /\ r.pending = s.pending /\ r.undo = u
      /\ r = [smt |-> r.smt, cache |-> r.cache, pending |-> r.pending, undo |-> r.undo]
  BY Zenon, <1>1 DEF IsStore
<1>3. IsStore(r) /\ \A k \in Keys : get(r, k) = get(s, k)
  BY <1>2, Zenon DEF IsStore, get
<1> QED
  BY Zenon, <1>2, <1>3 DEF r, u

\* flush_pending empties the deferred writes and changes no value read.
LEMMA FlushGet ==
    ASSUME NEW s, IsStore(s)
    PROVE  LET r == flush_pending(s) IN
           /\ IsStore(r) /\ r.undo = s.undo /\ DOMAIN r.pending = {}
           /\ \A k \in Keys : get(r, k) = get(s, k)
<1> DEFINE r == flush_pending(s)
<1>1. r = [smt |-> Over(s.smt, s.pending), cache |-> s.cache, pending |-> <<>>, undo |-> s.undo]
  <2> DEFINE x == Over(s.smt, s.pending)
  <2>1. r = [s EXCEPT !.smt = x, !.pending = <<>>]
    BY Zenon DEF flush_pending, update_all
  <2> HIDE DEF x, r
  <2>2. r = [smt |-> x, cache |-> s.cache, pending |-> <<>>, undo |-> s.undo]
    BY Zenon, <2>1 DEF IsStore
  <2> QED
    BY Zenon, <2>2 DEF x
<1>2. /\ r.smt = Over(s.smt, s.pending) /\ r.cache = s.cache /\ r.undo = s.undo
      /\ r.pending = <<>>
      /\ r = [smt |-> r.smt, cache |-> r.cache, pending |-> r.pending, undo |-> r.undo]
  BY <1>1
<1> HIDE DEF r
<1>3. DOMAIN r.pending = {}
  BY <1>2
<1>4. IsStore(r)
  BY Zenon, <1>2, <1>3 DEF IsStore, Over
<1>5. ASSUME NEW k \in Keys PROVE get(r, k) = get(s, k)
  <2>1. CASE k \in DOMAIN s.cache
    BY Zenon, <1>2, <2>1 DEF get
  <2>2. CASE k \notin DOMAIN s.cache
    <3>1. k \notin DOMAIN s.pending
      BY Zenon, <2>2 DEF IsStore
    <3> QED
      BY Zenon, <1>2, <2>2, <3>1 DEF get, Over, IsStore
  <2> QED
    BY Zenon, <2>1, <2>2
<1> QED
  BY Zenon, <1>2, <1>3, <1>4, <1>5 DEF r

------------------------------------------------------------------------------
(***************************************************************************)
(* What executing a block does to a value: at most four entries are added. *)
(***************************************************************************)
Adds(v, w, b, part, applies) ==
    /\ IsSeq(w)
    /\ w = <<>> => v = <<>>
    /\ ~applies => w = v
    /\ MarksOf(w) = MarksOf(v) \o Mark(b, part, applies)

\* The marks of a value are a sequence as long as it.
LEMMA MarksOfTyped ==
    ASSUME NEW v, IsSeq(v)
    PROVE  IsSeq(MarksOf(v)) /\ Len(MarksOf(v)) = Len(v)
<1> DEFINE w == MarksOf(v)
           S == {w[i] : i \in 1..Len(v)}
<1>1. Len(v) \in Nat /\ DOMAIN v = 1..Len(v)
  BY SeqFacts, Zenon
<1>2. w = [i \in 1..Len(v) |-> <<v[i].block, v[i].part>>]
  BY <1>1, Zenon DEF MarksOf
<1> HIDE DEF w
<1>3. w \in [1..Len(v) -> S]
  BY Zenon, <1>2
<1> HIDE DEF S
<1>4. w \in Seq(S) /\ Len(w) = Len(v)
  BY <1>1, <1>3
<1> QED
  BY <1>4, SeqOf, Zenon DEF w

\* An entry appended to a value is a mark added.
LEMMA AppendAdds ==
    ASSUME NEW v, IsSeq(v), NEW b, NEW part, NEW price
    PROVE  Adds(v, Append(v, [block |-> b, part |-> part, price |-> price]), b, part, TRUE)
<1> DEFINE e == [block |-> b, part |-> part, price |-> price]
           w == Append(v, e)
           n == Len(v)
<1>1. /\ IsSeq(w) /\ Len(w) = n + 1 /\ \A i \in 1..n : w[i] = v[i]
      /\ w[n + 1] = e
  BY SMTT(40), AppendFacts
<1>2. n \in Nat /\ DOMAIN v = 1..n
  BY SeqFacts, Zenon
<1>3. e.block = b /\ e.part = part
  BY Zenon
<1> HIDE DEF e, w, n
<1>4. DOMAIN w = 1..(n + 1) /\ w # <<>>
  BY <1>1, <1>2, SeqFacts
<1>5. MarksOf(w) = MarksOf(v) \o << <<b, part>> >>
  <2> DEFINE p == MarksOf(v)
             T == {p[i] : i \in DOMAIN p} \cup {<<b, part>>}
             q == p \o << <<b, part>> >>
  <2>1. IsSeq(p) /\ Len(p) = n /\ p = [i \in 1..n |-> <<v[i].block, v[i].part>>]
    BY <1>2, MarksOfTyped, Zenon DEF MarksOf, n
  <2>2. p \in Seq(T) /\ <<b, part>> \in T
    BY <2>1 DEF IsSeq
  <2>3. \A i \in 1..n : p[i] = <<v[i].block, v[i].part>>
    BY Zenon, <2>1
  <2> HIDE DEF p, T
  <2>4. /\ q \in Seq(T) /\ Len(q) = n + 1
        /\ \A i \in 1..n : q[i] = p[i]
        /\ q[n + 1] = <<b, part>>
    BY <1>2, <2>1, <2>2
  <2> HIDE DEF q
  <2>5. q = [i \in 1..(n + 1) |-> q[i]]
    BY <1>2, <2>4
  <2>6. \A i \in 1..(n + 1) : q[i] = <<w[i].block, w[i].part>>
    <3> SUFFICES ASSUME NEW i \in 1..(n + 1) PROVE q[i] = <<w[i].block, w[i].part>>
      BY Zenon
    <3>1. CASE i \in 1..n
      BY Zenon, <1>1, <2>3, <2>4, <3>1
    <3>2. CASE i = n + 1
      BY Zenon, <1>1, <1>3, <2>4, <3>2
    <3> QED
      BY <1>2, <3>1, <3>2
  <2>7. MarksOf(w) = [i \in 1..(n + 1) |-> <<w[i].block, w[i].part>>]
    BY <1>4, Zenon DEF MarksOf
  <2>8. MarksOf(w) = q
    BY Zenon, <2>5, <2>6, <2>7
  <2> QED
    BY Zenon, <2>8 DEF p, q
<1>6. Mark(b, part, TRUE) = << <<b, part>> >>
  BY Zenon DEF Mark
<1> QED
  BY <1>1, <1>4, <1>5, <1>6, Zenon DEF Adds, w, e

\* A key that is not written has no mark added.
LEMMA NothingAdds ==
    ASSUME NEW v, IsSeq(v), NEW b, NEW part
    PROVE  Adds(v, v, b, part, FALSE)
<1>1. IsSeq(MarksOf(v)) /\ Mark(b, part, FALSE) = <<>>
  BY Zenon, MarksOfTyped DEF Mark
<1>2. MarksOf(v) \o <<>> = MarksOf(v)
  BY <1>1 DEF IsSeq
<1> QED
  BY <1>1, <1>2, Zenon DEF Adds

\* A proposer's account always exists.
GoodFor(k, v) == IsSeq(v) /\ (k \in Proposers => v # <<>>)

\* An addition keeps a value good.
LEMMA AddsGood ==
    ASSUME NEW k, NEW v, NEW w, GoodFor(k, v), NEW b, NEW part, NEW c, Adds(v, w, b, part, c)
    PROVE  GoodFor(k, w)
  BY Zenon DEF GoodFor, Adds

\* ExecuteTransactions adds to the accounts touched and logs what they held.
LEMMA TransactionsAdd ==
    ASSUME NEW s, IsStore(s), \A k \in Keys : GoodFor(k, get(s, k)),
           NEW b \in Blocks, NEW price
    PROVE  LET t == ExecuteTransactions(s, b, price) IN
           /\ IsStore(t)
           /\ t.undo = Recorded(s.undo, SlotOf[b], Before(s, TouchedBy[b]))
           /\ \A k \in Keys : Adds(get(s, k), get(t, k), b, "txs", k \in TouchedBy[b])
<1> DEFINE w == [k \in TouchedBy[b] |-> Added(s, k, b, "txs", price)]
           x == update_batch_deferred(s, w)
           t == ExecuteTransactions(s, b, price)
<1>1. t = record_block_undo(x, SlotOf[b], Before(s, TouchedBy[b]))
  BY Zenon DEF ExecuteTransactions
<1>2. DOMAIN w = TouchedBy[b] /\ \A k \in TouchedBy[b] : w[k] = Added(s, k, b, "txs", price)
  BY Zenon
<1> HIDE DEF w
<1>3. /\ IsStore(x) /\ x.undo = s.undo
      /\ \A k \in Keys : get(x, k) = IF k \in DOMAIN w THEN w[k] ELSE get(s, k)
  BY BatchGet, Zenon
<1> HIDE DEF x, t
<1>4. /\ IsStore(t) /\ t.undo = Recorded(s.undo, SlotOf[b], Before(s, TouchedBy[b]))
      /\ \A k \in Keys : get(t, k) = get(x, k)
  <2> DEFINE e == Before(s, TouchedBy[b])
  <2> HIDE DEF e
  <2>0. IsStore(x)
    BY Zenon, <1>3
  <2>1. LET r == record_block_undo(x, SlotOf[b], e) IN
        /\ IsStore(r) /\ r.undo = Recorded(x.undo, SlotOf[b], e)
        /\ \A k \in Keys : get(r, k) = get(x, k)
    BY Zenon, <2>0, RecordGet
  <2> QED
    BY <1>1, <1>3, <2>1, Zenon DEF e
<1>5. ASSUME NEW k \in Keys
      PROVE  Adds(get(s, k), get(t, k), b, "txs", k \in TouchedBy[b])
  <2>1. IsSeq(get(s, k))
    BY Zenon DEF GoodFor
  <2>2. CASE k \in TouchedBy[b]
    <3>1. get(t, k) = Append(get(s, k), [block |-> b, part |-> "txs", price |-> price])
      BY <1>2, <1>3, <1>4, <2>2, Zenon DEF Added
    <3>2. Adds(get(s, k), get(t, k), b, "txs", TRUE)
      BY <2>1, <3>1, AppendAdds, Zenon
    <3>3. (k \in TouchedBy[b]) = TRUE
      BY Zenon, <2>2
    <3> QED
      BY <3>2, <3>3, Zenon
  <2>3. CASE k \notin TouchedBy[b]
    <3>1. get(t, k) = get(s, k)
      BY <1>2, <1>3, <1>4, <2>3, Zenon
    <3>2. Adds(get(s, k), get(t, k), b, "txs", FALSE)
      BY <2>1, <3>1, NothingAdds, Zenon
    <3>3. (k \in TouchedBy[b]) = FALSE
      BY <2>3
    <3> QED
      BY <3>2, <3>3, Zenon
  <2> QED
    BY Zenon, <2>2, <2>3
<1> QED
  BY Zenon, <1>4, <1>5 DEF t

\* apply_block_fees adds to the proposer, when there are transactions.
LEMMA FeesAdd ==
    ASSUME NEW s, IsStore(s), \A k \in Keys : GoodFor(k, get(s, k)),
           NEW b \in Blocks, NEW price
    PROVE  LET t == apply_block_fees(s, b, price) IN
           /\ IsStore(t) /\ t.undo = s.undo
           /\ \A k \in Keys :
                Adds(get(s, k), get(t, k), b, "fee", k = ProposerOf[b] /\ TouchedBy[b] # {})
<1> DEFINE w == [k \in {ProposerOf[b]} |-> Added(s, k, b, "fee", price)]
           t == apply_block_fees(s, b, price)
<1>1. CASE TouchedBy[b] = {}
  <2>1. t = s
    BY <1>1, Zenon DEF apply_block_fees
  <2>2. ASSUME NEW k \in Keys PROVE Adds(get(s, k), get(s, k), b, "fee", FALSE)
    BY NothingAdds, Zenon DEF GoodFor
  <2>3. \A k \in Keys : (k = ProposerOf[b] /\ TouchedBy[b] # {}) = FALSE
    BY Zenon, <1>1
  <2> QED
    BY <2>1, <2>2, <2>3, Zenon
<1>2. CASE TouchedBy[b] # {}
  <2>1. t = update_batch_deferred(s, w)
    BY <1>2, Zenon DEF apply_block_fees
  <2>2. DOMAIN w = {ProposerOf[b]} /\ w[ProposerOf[b]] = Added(s, ProposerOf[b], b, "fee", price)
    BY Zenon
  <2> HIDE DEF w, t
  <2>3. /\ IsStore(t) /\ t.undo = s.undo
        /\ \A k \in Keys : get(t, k) = IF k \in DOMAIN w THEN w[k] ELSE get(s, k)
    BY <2>1, BatchGet, Zenon
  <2>4. ASSUME NEW k \in Keys
        PROVE  Adds(get(s, k), get(t, k), b, "fee", k = ProposerOf[b] /\ TouchedBy[b] # {})
    <3>1. IsSeq(get(s, k))
      BY Zenon DEF GoodFor
    <3>2. CASE k = ProposerOf[b]
      <4>1. get(t, k) = Append(get(s, k), [block |-> b, part |-> "fee", price |-> price])
        BY <2>2, <2>3, <3>2, Zenon DEF Added
      <4>2. Adds(get(s, k), get(t, k), b, "fee", TRUE)
        BY <3>1, <4>1, AppendAdds, Zenon
      <4>3. (k = ProposerOf[b] /\ TouchedBy[b] # {}) = TRUE
        BY Zenon, <1>2, <3>2
      <4> QED
        BY <4>2, <4>3, Zenon
    <3>3. CASE k # ProposerOf[b]
      <4>1. get(t, k) = get(s, k)
        BY <2>2, <2>3, <3>3, Zenon
      <4>2. Adds(get(s, k), get(t, k), b, "fee", FALSE)
        BY <3>1, <4>1, NothingAdds, Zenon
      <4>3. (k = ProposerOf[b] /\ TouchedBy[b] # {}) = FALSE
        BY Zenon, <3>3
      <4> QED
        BY <4>2, <4>3, Zenon
    <3> QED
      BY Zenon, <3>2, <3>3
  <2> QED
    BY Zenon, <2>3, <2>4 DEF t
<1> QED
  BY Zenon, <1>1, <1>2

\* The service share is always added: a proposer's account exists.
LEMMA ServiceAdds ==
    ASSUME NEW s, IsStore(s), \A k \in Keys : GoodFor(k, get(s, k)), NEW b \in Blocks
    PROVE  LET t == CreditServiceShare(s, b) IN
           /\ IsStore(t) /\ t.undo = s.undo
           /\ \A k \in Keys : Adds(get(s, k), get(t, k), b, "service", k = ProposerOf[b])
<1> DEFINE p == ProposerOf[b]
           v == Append(get(s, p), [block |-> b, part |-> "service", price |-> 0])
           t == CreditServiceShare(s, b)
<1>1. p \in Proposers /\ p \in Keys
  BY Zenon, BlockAssumption
<1>2. get(s, p) # Absent
  BY <1>1, Zenon DEF GoodFor, Absent
<1>3. t = insert(s, p, v)
  BY <1>2, Zenon DEF CreditServiceShare, Added
<1>4. IsSeq(get(s, p))
  BY <1>1, Zenon DEF GoodFor
<1>5. Adds(get(s, p), v, b, "service", TRUE)
  BY <1>4, AppendAdds, Zenon
<1> HIDE DEF v, t
<1>6. /\ IsStore(t) /\ t.undo = s.undo
      /\ \A k \in Keys : get(t, k) = IF k = p THEN v ELSE get(s, k)
  BY <1>3, InsertGet
<1>7. ASSUME NEW k \in Keys PROVE Adds(get(s, k), get(t, k), b, "service", k = p)
  <2>1. CASE k = p
    <3>1. get(t, k) = v /\ get(s, k) = get(s, p) /\ (k = p) = TRUE
      BY Zenon, <1>6, <2>1
    <3> QED
      BY <1>5, <3>1, Zenon
  <2>2. CASE k # p
    <3>1. get(t, k) = get(s, k) /\ (k = p) = FALSE /\ IsSeq(get(s, k))
      BY Zenon, <1>6, <2>2 DEF GoodFor
    <3>2. Adds(get(s, k), get(s, k), b, "service", FALSE)
      BY <3>1, NothingAdds, Zenon
    <3> QED
      BY <3>1, <3>2, Zenon
  <2> QED
    BY Zenon, <2>1, <2>2
<1> QED
  BY Zenon, <1>6, <1>7 DEF t, p

\* The mint is added to the counters.
LEMMA CountersAdd ==
    ASSUME NEW s, IsStore(s), \A k \in Keys : GoodFor(k, get(s, k)),
           NEW b \in Blocks, NEW price
    PROVE  LET t == CreditCounters(s, b, price) IN
           /\ IsStore(t) /\ t.undo = s.undo
           /\ \A k \in Keys : Adds(get(s, k), get(t, k), b, "mint", k = Counters)
<1> DEFINE x == IF TouchedBy[b] = {} THEN 0 ELSE price
           w == [k \in {Counters} |-> Added(s, k, b, "mint", x)]
           t == CreditCounters(s, b, price)
<1>1. t = update_batch_deferred(s, w)
  BY Zenon DEF CreditCounters
<1> HIDE DEF x, t
<1>2. DOMAIN w = {Counters} /\ w[Counters] = Added(s, Counters, b, "mint", x)
  BY Zenon
<1> HIDE DEF w
<1>3. /\ IsStore(t) /\ t.undo = s.undo
      /\ \A k \in Keys : get(t, k) = IF k \in DOMAIN w THEN w[k] ELSE get(s, k)
  BY <1>1, BatchGet, Zenon
<1>4. ASSUME NEW k \in Keys PROVE Adds(get(s, k), get(t, k), b, "mint", k = Counters)
  <2>1. IsSeq(get(s, k))
    BY Zenon DEF GoodFor
  <2>2. CASE k = Counters
    <3>1. get(t, k) = Append(get(s, k), [block |-> b, part |-> "mint", price |-> x])
      BY <1>2, <1>3, <2>2, Zenon DEF Added
    <3>2. Adds(get(s, k), get(t, k), b, "mint", TRUE)
      BY <2>1, <3>1, AppendAdds, Zenon
    <3>3. (k = Counters) = TRUE
      BY Zenon, <2>2
    <3> QED
      BY <3>2, <3>3, Zenon
  <2>3. CASE k # Counters
    <3>1. get(t, k) = get(s, k)
      BY <1>2, <1>3, <2>3, Zenon
    <3>2. Adds(get(s, k), get(t, k), b, "mint", FALSE)
      BY <2>1, <3>1, NothingAdds, Zenon
    <3>3. (k = Counters) = FALSE
      BY Zenon, <2>3
    <3> QED
      BY <3>2, <3>3, Zenon
  <2> QED
    BY Zenon, <2>2, <2>3
<1> QED
  BY Zenon, <1>3, <1>4 DEF t

\* A block's undo logs: what its keys held before it.
LogsOf(s, b, e1, e2) ==
    /\ DOMAIN e1 = TouchedBy[b] /\ DOMAIN e2 = {ProposerOf[b], Counters}
    /\ \A k \in TouchedBy[b] : e1[k] = get(s, k)
    /\ \A k \in DOMAIN e2 : GoodFor(k, e2[k]) /\ (k \notin TouchedBy[b] => e2[k] = get(s, k))

\* The value of a key that a block has no business with.
KeepsUnwritten(s, r, b, k) ==
    k \notin TouchedBy[b] \cup {ProposerOf[b], Counters} => get(r, k) = get(s, k)

\* What the execution of a block makes of the store.
Executed(s, r, b) ==
    /\ IsStore(r)
    /\ \A k \in Keys : /\ GoodFor(k, get(r, k))
                       /\ MarksOf(get(r, k)) = MarksOf(get(s, k)) \o Marks(b, k)
                       /\ KeepsUnwritten(s, r, b, k)
    /\ \E e1, e2 :
         /\ LogsOf(s, b, e1, e2)
         /\ r.undo = Recorded(Recorded(s.undo, SlotOf[b], e1), SlotOf[b], e2)

\* A block adds its marks to every key and records two logs, which between them
\* hold what each key it writes held before it.
LEMMA ExecuteAdds ==
    ASSUME NEW s, IsStore(s), \A k \in Keys : GoodFor(k, get(s, k)),
           NEW b \in Blocks, NEW price
    PROVE  Executed(s, ExecuteBlock(s, b, price), b)
<1> DEFINE t == ExecuteTransactions(s, b, price)
           x == apply_block_fees(t, b, price)
           y == CreditServiceShare(x, b)
           z == CreditCounters(y, b, price)
           e1 == Before(s, TouchedBy[b])
           e2 == Before(t, {ProposerOf[b], Counters})
           r == ExecuteBlock(s, b, price)
<1>1. r = record_block_undo(z, SlotOf[b], e2)
  BY Zenon DEF ExecuteBlock
<1>2. /\ IsStore(t) /\ t.undo = Recorded(s.undo, SlotOf[b], e1)
      /\ \A k \in Keys : Adds(get(s, k), get(t, k), b, "txs", k \in TouchedBy[b])
  BY Zenon, TransactionsAdd
<1>3. \A k \in Keys : GoodFor(k, get(t, k))
  BY <1>2, AddsGood, Zenon
<1> HIDE DEF t, r
<1>4. /\ IsStore(x) /\ x.undo = t.undo
      /\ \A k \in Keys :
           Adds(get(t, k), get(x, k), b, "fee", k = ProposerOf[b] /\ TouchedBy[b] # {})
  BY Zenon, <1>2, <1>3, FeesAdd
<1>5. \A k \in Keys : GoodFor(k, get(x, k))
  BY <1>3, <1>4, AddsGood, Zenon
<1> HIDE DEF x
<1>6. /\ IsStore(y) /\ y.undo = x.undo
      /\ \A k \in Keys : Adds(get(x, k), get(y, k), b, "service", k = ProposerOf[b])
  BY Zenon, <1>4, <1>5, ServiceAdds
<1>7. \A k \in Keys : GoodFor(k, get(y, k))
  BY <1>5, <1>6, AddsGood, Zenon
<1> HIDE DEF y
<1>8. /\ IsStore(z) /\ z.undo = y.undo
      /\ \A k \in Keys : Adds(get(y, k), get(z, k), b, "mint", k = Counters)
  BY Zenon, <1>6, <1>7, CountersAdd
<1>9. \A k \in Keys : GoodFor(k, get(z, k))
  BY <1>7, <1>8, AddsGood, Zenon
<1> HIDE DEF z
<1>10. LogsOf(s, b, e1, e2)
  <2>1. /\ DOMAIN e1 = TouchedBy[b] /\ \A k \in TouchedBy[b] : e1[k] = get(s, k)
        /\ DOMAIN e2 = {ProposerOf[b], Counters}
        /\ \A k \in {ProposerOf[b], Counters} : e2[k] = get(t, k)
    BY Zenon DEF Before
  <2>2. ProposerOf[b] \in Keys /\ Counters \in Keys
    BY Zenon, BlockAssumption
  <2> HIDE DEF e1, e2
  <2>3. \A k \in DOMAIN e2 : k \in Keys /\ e2[k] = get(t, k)
    BY Zenon, <2>1, <2>2
  <2>4. \A k \in DOMAIN e2 : GoodFor(k, e2[k]) /\ (k \notin TouchedBy[b] => e2[k] = get(s, k))
    BY <1>2, <1>3, <2>3, Zenon DEF Adds
  <2> QED
    BY <2>1, <2>4, Zenon DEF LogsOf
<1> HIDE DEF e1, e2
<1>11. /\ IsStore(r) /\ r.undo = Recorded(z.undo, SlotOf[b], e2)
       /\ \A k \in Keys : get(r, k) = get(z, k)
  BY <1>1, <1>8, RecordGet
<1>12. r.undo = Recorded(Recorded(s.undo, SlotOf[b], e1), SlotOf[b], e2)
  BY <1>2, <1>4, <1>6, <1>8, <1>11, Zenon
<1>13. ASSUME NEW k \in Keys
       PROVE  /\ GoodFor(k, get(r, k))
              /\ MarksOf(get(r, k)) = MarksOf(get(s, k)) \o Marks(b, k)
              /\ KeepsUnwritten(s, r, b, k)
  <2>1. get(r, k) = get(z, k) /\ GoodFor(k, get(z, k)) /\ IsSeq(get(s, k))
    BY <1>9, <1>11, Zenon DEF GoodFor
  <2>2. /\ Adds(get(s, k), get(t, k), b, "txs", k \in TouchedBy[b])
        /\ Adds(get(t, k), get(x, k), b, "fee", k = ProposerOf[b] /\ TouchedBy[b] # {})
        /\ Adds(get(x, k), get(y, k), b, "service", k = ProposerOf[b])
        /\ Adds(get(y, k), get(z, k), b, "mint", k = Counters)
    BY <1>2, <1>4, <1>6, <1>8, Zenon
  <2>3. MarksOf(get(z, k)) = MarksOf(get(s, k)) \o Marks(b, k)
    <3> DEFINE p == MarksOf(get(s, k))
               m1 == Mark(b, "txs", k \in TouchedBy[b])
               m2 == Mark(b, "fee", k = ProposerOf[b] /\ TouchedBy[b] # {})
               m3 == Mark(b, "service", k = ProposerOf[b])
               m4 == Mark(b, "mint", k = Counters)
               T == {p[i] : i \in DOMAIN p}
                      \cup {<<b, part>> : part \in {"txs", "fee", "service", "mint"}}
    <3>1. MarksOf(get(z, k)) = (((p \o m1) \o m2) \o m3) \o m4
      <4>1. MarksOf(get(t, k)) = p \o m1
        BY <2>2, Zenon DEF Adds
      <4>2. MarksOf(get(x, k)) = (p \o m1) \o m2
        BY <2>2, <4>1, Zenon DEF Adds
      <4>3. MarksOf(get(y, k)) = ((p \o m1) \o m2) \o m3
        BY <2>2, <4>2, Zenon DEF Adds
      <4> QED
        BY <2>2, <4>3, Zenon DEF Adds
    <3>2. Marks(b, k) = ((m1 \o m2) \o m3) \o m4
      BY Zenon DEF Marks
    <3>3. IsSeq(p)
      BY Zenon, <2>1, MarksOfTyped
    <3> HIDE DEF p
    <3>4. p \in Seq(T)
      BY <3>3 DEF IsSeq
    <3>5. \A part \in {"txs", "fee", "service", "mint"} : <<b, part>> \in T
      BY Zenon
    <3> HIDE DEF T
    <3>6. m1 \in Seq(T) /\ m2 \in Seq(T) /\ m3 \in Seq(T) /\ m4 \in Seq(T)
      BY <3>5 DEF Mark
    <3> HIDE DEF m1, m2, m3, m4
    <3>7. (((p \o m1) \o m2) \o m3) \o m4 = p \o (((m1 \o m2) \o m3) \o m4)
      <4> DEFINE m12 == m1 \o m2
                 m123 == m12 \o m3
      <4>1. m12 \in Seq(T)
        BY <3>6, ConcatTyped, Zenon
      <4>2. m123 \in Seq(T)
        BY <3>6, <4>1, ConcatTyped, Zenon
      <4>3. Regroups(p, m1, m2)
        BY <3>4, <3>6, ConcatRegroups, Zenon
      <4> HIDE DEF m12, m123
      <4>4. Regroups(p, m12, m3)
        BY <3>4, <3>6, <4>1, ConcatRegroups, Zenon
      <4>5. Regroups(p, m123, m4)
        BY <3>4, <3>6, <4>2, ConcatRegroups, Zenon
      <4> QED
        BY <4>3, <4>4, <4>5, Zenon DEF Regroups, m12, m123
    <3> QED
      BY Zenon, <3>1, <3>2, <3>7 DEF p
  <2>4. ASSUME k \notin TouchedBy[b] \cup {ProposerOf[b], Counters} PROVE get(z, k) = get(s, k)
    <3>1. k \notin TouchedBy[b] /\ k # ProposerOf[b] /\ k # Counters
      BY Zenon, <2>4
    <3>2. get(t, k) = get(s, k) /\ get(x, k) = get(t, k)
      BY <2>2, <3>1, Zenon DEF Adds
    <3>3. get(y, k) = get(x, k) /\ get(z, k) = get(y, k)
      BY <2>2, <3>1, Zenon DEF Adds
    <3> QED
      BY Zenon, <3>2, <3>3
  <2> QED
    BY <2>1, <2>3, <2>4, Zenon DEF KeepsUnwritten
<1>14. IsStore(r)
  BY Zenon, <1>10, <1>11
<1>15. \E f1, f2 : LogsOf(s, b, f1, f2)
                    /\ r.undo = Recorded(Recorded(s.undo, SlotOf[b], f1), SlotOf[b], f2)
  BY <1>10, <1>11, <1>12, Zenon
<1> HIDE DEF r
<1>16. Executed(s, r, b)
  BY Zenon, <1>13, <1>14, <1>15 DEF Executed
<1> QED
  BY Zenon, <1>16 DEF r

------------------------------------------------------------------------------
(***************************************************************************)
(* The undo logs.  Each block records two, so of the depth, an even        *)
(* number, the two logs of a block are pruned together.                    *)
(***************************************************************************)
EvenDepth == \E m \in Nat \ {0} : MaxUndoDepth = 2 * m

GoodEntries(e) == \A k \in DOMAIN e : k \in Keys /\ GoodFor(k, e[k])

UndoInv(u, top) ==
    /\ IsSeq(u)
    /\ \E m \in Nat : Len(u) = 2 * m
    /\ Len(u) <= MaxUndoDepth
    /\ \A i \in 1..Len(u) : /\ u[i].slot \in Nat /\ u[i].slot <= top /\ i <= 2 * u[i].slot
                            /\ GoodEntries(u[i].entries)
    /\ \A i, j \in 1..Len(u) : i <= j => u[i].slot <= u[j].slot
    /\ \A m \in Nat \ {0} : 2 * m <= Len(u) => u[2 * m - 1].slot = u[2 * m].slot
    /\ \A m \in Nat \ {0} : 2 * m < Len(u) => u[2 * m].slot < u[2 * m + 1].slot

\* The j-th log of u when those of a block at slot x are added to it.
LogAt(u, x, e1, e2, j) ==
    IF j <= Len(u) THEN u[j] ELSE [slot |-> x, entries |-> IF j = Len(u) + 1 THEN e1 ELSE e2]

\* w is u with the logs of a block, less the d oldest logs.
Shifted(u, w, d, x, e1, e2) ==
    /\ IsSeq(w) /\ Len(w) = Len(u) + 2 - d /\ d <= Len(u)
    /\ \A i \in 1..Len(w) : w[i] = LogAt(u, x, e1, e2, i + d)
    /\ Len(w) <= MaxUndoDepth
    /\ d # 0 => Len(u) = MaxUndoDepth

\* Recording the logs of a block drops none of the logs there, or two.
LEMMA TwoLogs ==
    ASSUME EvenDepth, NEW u, NEW top, UndoInv(u, top), NEW x, NEW e1, NEW e2
    PROVE  \E d \in {0, 2} : Shifted(u, Recorded(Recorded(u, x, e1), x, e2), d, x, e1, e2)
<1> DEFINE l1 == [slot |-> x, entries |-> e1]
           l2 == [slot |-> x, entries |-> e2]
           n == Len(u)
           a == Append(u, l1)
           v == Recorded(u, x, e1)
           b == Append(v, l2)
           w == Recorded(v, x, e2)
<1>1. IsSeq(u) /\ n \in Nat /\ n <= MaxUndoDepth /\ \E m \in Nat : n = 2 * m
  BY Zenon, SeqFacts DEF UndoInv
<1>2. PICK m \in Nat, p \in Nat \ {0} : n = 2 * m /\ MaxUndoDepth = 2 * p
  BY Zenon, <1>1 DEF EvenDepth
<1>3. v = (IF Len(a) > MaxUndoDepth THEN Tail(a) ELSE a)
      /\ w = (IF Len(b) > MaxUndoDepth THEN Tail(b) ELSE b)
  BY Zenon DEF Recorded
<1>4. /\ IsSeq(a) /\ Len(a) = n + 1 /\ a[n + 1] = l1
      /\ \A i \in 1..n : a[i] = u[i]
  BY SMTT(40), <1>1, AppendFacts
<1>5. \A j \in 1..n : LogAt(u, x, e1, e2, j) = u[j]
  BY <1>1 DEF LogAt
<1>6. LogAt(u, x, e1, e2, n + 1) = l1 /\ LogAt(u, x, e1, e2, n + 2) = l2
  BY <1>1 DEF LogAt
<1> HIDE DEF a, v, w, b, l1, l2, n
<1>7. CASE n + 2 <= MaxUndoDepth
  <2>1. v = a
    BY <1>1, <1>2, <1>3, <1>4, <1>7
  <2>2. /\ IsSeq(b) /\ Len(b) = n + 2 /\ b[n + 2] = l2
        /\ \A i \in 1..(n + 1) : b[i] = a[i]
    <3>1. IsSeq(v)
      BY Zenon, <1>4, <2>1
    <3>2. /\ IsSeq(b) /\ Len(b) = Len(v) + 1 /\ b[Len(v) + 1] = l2
          /\ \A i \in 1..Len(v) : b[i] = v[i]
      BY <3>1, AppendFacts DEF b
    <3> QED
      BY <1>1, <1>4, <2>1, <3>2
  <2>3. w = b
    BY <1>1, <1>2, <1>3, <1>7, <2>2
  <2>4. ASSUME NEW i \in 1..(n + 2) PROVE b[i] = LogAt(u, x, e1, e2, i + 0)
    <3>1. i + 0 = i
      OBVIOUS
    <3>2. CASE i \in 1..n
      BY <1>1, <1>4, <1>5, <2>2, <3>1, <3>2
    <3>3. CASE i = n + 1
      BY <1>1, <1>4, <1>6, <2>2, <3>1, <3>3
    <3>4. CASE i = n + 2
      BY Zenon, <1>6, <2>2, <3>1, <3>4
    <3> QED
      BY <1>1, <3>2, <3>3, <3>4
  <2>5. Shifted(u, w, 0, x, e1, e2)
    BY <1>1, <1>7, <2>2, <2>3, <2>4 DEF Shifted, n
  <2> QED
    BY <2>5, Zenon DEF w, v
<1>8. CASE n = MaxUndoDepth
  <2>1. v = Tail(a) /\ a # <<>> /\ n >= 2
    BY <1>1, <1>2, <1>3, <1>4, <1>8, SeqFacts
  <2>2. IsSeq(v) /\ Len(v) = n /\ \A i \in 1..n : v[i] = a[i + 1]
    <3>1. /\ IsSeq(Tail(a)) /\ Len(Tail(a)) = Len(a) - 1
          /\ \A i \in 1..(Len(a) - 1) : Tail(a)[i] = a[i + 1]
      BY <1>4, <2>1, TailFacts, Zenon
    <3> QED
      BY <1>1, <1>4, <2>1, <3>1
  <2>3. IsSeq(b) /\ Len(b) = n + 1 /\ b[n + 1] = l2 /\ \A i \in 1..n : b[i] = v[i]
    <3>1. /\ IsSeq(b) /\ Len(b) = Len(v) + 1 /\ b[Len(v) + 1] = l2
          /\ \A i \in 1..Len(v) : b[i] = v[i]
      BY <2>2, AppendFacts DEF b
    <3> QED
      BY Zenon, <2>2, <3>1
  <2>4. w = Tail(b) /\ b # <<>>
    BY <1>1, <1>3, <1>8, <2>3, SeqFacts
  <2>5. IsSeq(w) /\ Len(w) = n /\ \A i \in 1..n : w[i] = b[i + 1]
    <3>1. /\ IsSeq(Tail(b)) /\ Len(Tail(b)) = Len(b) - 1
          /\ \A i \in 1..(Len(b) - 1) : Tail(b)[i] = b[i + 1]
      BY <2>3, <2>4, TailFacts, Zenon
    <3> QED
      BY <1>1, <2>3, <2>4, <3>1
  <2>6. ASSUME NEW i \in 1..n PROVE w[i] = LogAt(u, x, e1, e2, i + 2)
    <3>1. CASE i = n
      <4>1. w[n] = l2
        BY <1>1, <2>1, <2>3, <2>5
      <4> QED
        BY Zenon, <1>6, <3>1, <4>1
    <3>2. CASE i = n - 1
      <4>1. i \in 1..n /\ i + 1 = n /\ n \in 1..n /\ i + 2 = n + 1
        BY <1>1, <2>1, <3>2
      <4>2. w[i] = b[n] /\ b[n] = v[n] /\ v[n] = a[n + 1]
        BY Zenon, <2>2, <2>3, <2>5, <4>1
      <4> QED
        BY Zenon, <1>4, <1>6, <4>1, <4>2
    <3>3. CASE i \in 1..(n - 2)
      <4>1. i \in 1..n /\ i + 1 \in 1..n /\ (i + 1) + 1 = i + 2 /\ i + 2 \in 1..n
        BY <1>1, <3>3
      <4>2. w[i] = b[i + 1] /\ b[i + 1] = v[i + 1]
        BY Zenon, <2>3, <2>5, <4>1
      <4>3. v[i + 1] = a[i + 2] /\ a[i + 2] = u[i + 2]
        BY Zenon, <1>4, <2>2, <4>1
      <4> QED
        BY Zenon, <1>5, <4>1, <4>2, <4>3
    <3> QED
      BY <1>1, <3>1, <3>2, <3>3
  <2>7. Shifted(u, w, 2, x, e1, e2)
    BY <1>1, <1>8, <2>1, <2>5, <2>6 DEF Shifted, n
  <2> QED
    BY <2>7, Zenon DEF w, v
<1> QED
  BY <1>1, <1>2, <1>7, <1>8

\* The logs stay in order, in pairs, when a block at a higher slot adds its own.
LEMMA ShiftedInv ==
    ASSUME NEW u, NEW top \in Nat, UndoInv(u, top), NEW x \in Nat, x > top,
           NEW e1, NEW e2, GoodEntries(e1), GoodEntries(e2),
           NEW w, NEW d \in {0, 2}, Shifted(u, w, d, x, e1, e2)
    PROVE  UndoInv(w, x)
<1> DEFINE n == Len(u)
           s(i) == u[i].slot
<1>1. IsSeq(u) /\ n \in Nat
  BY Zenon, SeqFacts DEF UndoInv
<1>2. PICK p \in Nat : n = 2 * p
  BY Zenon DEF UndoInv
<1>3. \A i \in 1..n : s(i) \in Nat /\ s(i) <= top /\ i <= 2 * s(i) /\ GoodEntries(u[i].entries)
  BY Zenon DEF UndoInv
<1>4. \A i, j \in 1..n : i <= j => s(i) <= s(j)
  BY Zenon DEF UndoInv
<1>5. /\ \A m \in Nat \ {0} : 2 * m <= n => s(2 * m - 1) = s(2 * m)
      /\ \A m \in Nat \ {0} : 2 * m < n => s(2 * m) < s(2 * m + 1)
  BY Zenon DEF UndoInv
<1>6. IsSeq(w) /\ Len(w) = n + 2 - d /\ d <= n /\ Len(w) <= MaxUndoDepth
  BY Zenon DEF Shifted
<1>7. ASSUME NEW i \in 1..Len(w), i + d <= n
      PROVE  i + d \in 1..n /\ w[i] = u[i + d]
  <2>1. w[i] = LogAt(u, x, e1, e2, i + d)
    BY Zenon DEF Shifted
  <2> QED
    BY <1>1, <1>6, <1>7, <2>1 DEF LogAt
<1>8. ASSUME NEW i \in 1..Len(w), i + d > n
      PROVE  w[i].slot = x /\ GoodEntries(w[i].entries) /\ i + d \in {n + 1, n + 2}
  <2>1. w[i] = LogAt(u, x, e1, e2, i + d)
    BY Zenon DEF Shifted
  <2>2. w[i].slot = x /\ (w[i].entries = e1 \/ w[i].entries = e2)
    BY <1>1, <1>8, <2>1 DEF LogAt
  <2> QED
    BY <1>1, <1>6, <1>8, <2>2
<1>9. n <= 2 * top
  <2>1. CASE n = 0
    BY <2>1
  <2>2. CASE n > 0
    <3>1. n \in 1..n
      BY <1>1, <2>2
    <3>2. s(n) \in Nat /\ s(n) <= top /\ n <= 2 * s(n)
      BY Zenon, <1>3, <3>1
    <3> HIDE DEF n, s
    <3> QED
      BY <1>1, <3>2
  <2> QED
    BY <1>1, <2>1, <2>2
<1> HIDE DEF n, s
<1>10. ASSUME NEW i \in 1..Len(w)
       PROVE  /\ w[i].slot \in Nat /\ w[i].slot <= x /\ i <= 2 * w[i].slot
              /\ GoodEntries(w[i].entries)
  <2>1. CASE i + d <= n
    <3>1. i + d \in 1..n /\ w[i] = u[i + d]
      BY Zenon, <1>7, <2>1
    <3>2. /\ u[i + d].slot \in Nat /\ u[i + d].slot <= top /\ i + d <= 2 * u[i + d].slot
          /\ GoodEntries(u[i + d].entries)
      BY Zenon, <1>3, <3>1 DEF s
    <3> QED
      BY <3>1, <3>2
  <2>2. CASE i + d > n
    BY <1>1, <1>8, <1>9, <2>2
  <2> QED
    BY <1>1, <2>1, <2>2
<1>11. ASSUME NEW i \in 1..Len(w), NEW j \in 1..Len(w), i <= j
       PROVE  w[i].slot <= w[j].slot
  <2>1. CASE j + d <= n
    <3>1. i + d \in 1..n /\ w[i] = u[i + d] /\ j + d \in 1..n /\ w[j] = u[j + d]
      BY <1>1, <1>6, <1>7, <1>11, <2>1
    <3> QED
      BY <1>4, <1>11, <3>1 DEF s
  <2>2. CASE j + d > n
    BY Zenon, <1>8, <1>10, <2>2
  <2> QED
    BY <1>1, <2>1, <2>2
<1>12. PICK c \in Nat : d = 2 * c
  <2>1. 0 = 2 * 0 /\ 2 = 2 * 1
    OBVIOUS
  <2> QED
    BY Zenon, <2>1
<1>13. \E m \in Nat : Len(w) = 2 * m
  <2>1. p + 1 - c \in Nat /\ Len(w) = 2 * (p + 1 - c)
    BY <1>2, <1>6, <1>12
  <2> QED
    BY Zenon, <2>1
<1>14. ASSUME NEW m \in Nat \ {0}, 2 * m <= Len(w)
       PROVE  w[2 * m - 1].slot = w[2 * m].slot
  <2>1. 2 * m - 1 \in 1..Len(w) /\ 2 * m \in 1..Len(w)
    BY <1>1, <1>6, <1>14
  <2>2. CASE 2 * m + d <= n
    <3> DEFINE q == m + c
    <3>1. q \in Nat \ {0} /\ 2 * q <= n /\ 2 * m + d = 2 * q /\ (2 * m - 1) + d = 2 * q - 1
      BY <1>12, <2>2
    <3>2. w[2 * m] = u[2 * m + d] /\ w[2 * m - 1] = u[(2 * m - 1) + d]
      BY <1>1, <1>7, <2>1, <2>2
    <3>3. s(2 * q - 1) = s(2 * q)
      BY Zenon, <1>5, <3>1
    <3> HIDE DEF q
    <3> QED
      BY Zenon, <3>1, <3>2, <3>3 DEF s
  <2>3. CASE 2 * m + d > n
    <3>1. (2 * m - 1) + d > n
      BY <1>2, <1>12, <2>3
    <3> QED
      BY Zenon, <1>8, <2>1, <2>3, <3>1
  <2> QED
    BY <1>1, <2>2, <2>3
<1>15. ASSUME NEW m \in Nat \ {0}, 2 * m < Len(w)
       PROVE  w[2 * m].slot < w[2 * m + 1].slot
  <2>1. 2 * m \in 1..Len(w) /\ 2 * m + 1 \in 1..Len(w)
    BY <1>1, <1>6, <1>15
  <2>2. 2 * m + d <= n
    BY <1>2, <1>6, <1>12, <1>15
  <2>3. 2 * m + d \in 1..n /\ w[2 * m] = u[2 * m + d]
    BY Zenon, <1>7, <2>1, <2>2
  <2>4. CASE 2 * m + d < n
    <3> DEFINE q == m + c
    <3>1. q \in Nat \ {0} /\ 2 * q < n /\ 2 * m + d = 2 * q /\ (2 * m + 1) + d = 2 * q + 1
      BY <1>12, <2>4
    <3>2. w[2 * m + 1] = u[(2 * m + 1) + d]
      BY <1>1, <1>7, <2>1, <2>4
    <3>3. s(2 * q) < s(2 * q + 1)
      BY Zenon, <1>5, <3>1
    <3> HIDE DEF q
    <3> QED
      BY Zenon, <2>3, <3>1, <3>2, <3>3 DEF s
  <2>5. CASE 2 * m + d = n
    <3>1. w[2 * m + 1].slot = x
      BY <1>1, <1>8, <2>1, <2>5
    <3>2. u[2 * m + d].slot \in Nat /\ u[2 * m + d].slot <= top
      BY Zenon, <1>3, <2>3 DEF s
    <3> QED
      BY <2>3, <3>1, <3>2
  <2> QED
    BY <1>1, <2>2, <2>4, <2>5
<1> QED
  BY <1>6, <1>10, <1>11, <1>13, <1>14, <1>15, Zenon DEF UndoInv

------------------------------------------------------------------------------
(***************************************************************************)
(* What a key held after the blocks up to slot n: the old value in the     *)
(* oldest log above n that has the key, or else its value now.             *)
(***************************************************************************)
Restores(u, n, k, i) == u[i].slot > n /\ k \in DOMAIN u[i].entries

IsAfter(s, n, k, v) ==
    \/ /\ \A i \in 1..Len(s.undo) : ~Restores(s.undo, n, k, i)
       /\ v = get(s, k)
    \/ \E i \in 1..Len(s.undo) :
         /\ Restores(s.undo, n, k, i)
         /\ \A j \in 1..(i - 1) : ~Restores(s.undo, n, k, j)
         /\ v = s.undo[i].entries[k]

\* revert_to keeps the logs at or below its target, whole pairs of them.
LEMMA KeptIs ==
    ASSUME NEW s, NEW top, UndoInv(s.undo, top), NEW t \in Nat
    PROVE  LET n == Kept(s, t) IN
           /\ n \in 0..Len(s.undo)
           /\ \A i \in 1..n : s.undo[i].slot <= t
           /\ \A i \in (n + 1)..Len(s.undo) : s.undo[i].slot > t
           /\ \E m \in Nat : n = 2 * m
<1> DEFINE u == s.undo
           z == Len(u)
           A == {i \in 0..z : i = 0 \/ u[i].slot <= t}
           OK(n) == /\ \A i \in (n + 1)..z : u[i].slot > t
                    /\ n > 0 => u[n].slot <= t
           n == Kept(s, t)
<1>1. z \in Nat /\ IsSeq(u) /\ \E m \in Nat : z = 2 * m
  BY Zenon, SeqFacts DEF UndoInv
<1>2. \A i \in 1..z : u[i].slot \in Nat
  BY Zenon DEF UndoInv
<1>3. \A i, j \in 1..z : i <= j => u[i].slot <= u[j].slot
  BY Zenon DEF UndoInv
<1>4. \A m \in Nat \ {0} : 2 * m <= z => u[2 * m - 1].slot = u[2 * m].slot
  BY Zenon DEF UndoInv
<1>5. PICK x \in A : \A i \in A : i <= x
  <2>1. 0 \in A /\ A \in SUBSET (0..z)
    BY <1>1
  <2> HIDE DEF A
  <2> QED
    BY <1>1, <2>1, BoundedSet, Zenon
<1>6. x \in 0..z /\ OK(x)
  <2>1. x \in 0..z /\ (x = 0 \/ u[x].slot <= t) /\ \A i \in 1..z : u[i].slot <= t => i <= x
    BY <1>5
  <2>2. \A i \in (x + 1)..z : i \in 1..z /\ ~(i <= x)
    BY <1>1, <2>1
  <2>3. \A i \in (x + 1)..z : u[i].slot > t
    BY <1>2, <2>1, <2>2
  <2> QED
    BY <2>1, <2>3
<1>7. n = CHOOSE y \in 0..z : OK(y)
  BY Zenon DEF Kept
<1> HIDE DEF n, A, u, z
<1>8. n \in 0..z /\ OK(n)
  <2> HIDE DEF OK
  <2> QED
    BY Zenon, <1>6, <1>7
<1>9. ASSUME NEW i \in 1..n PROVE u[i].slot <= t
  <2>1. n > 0 /\ n \in 1..z /\ i \in 1..z /\ i <= n
    BY <1>1, <1>8
  <2>2. u[i].slot <= u[n].slot /\ u[n].slot <= t /\ u[i].slot \in Nat /\ u[n].slot \in Nat
    BY Zenon, <1>2, <1>3, <1>8, <2>1
  <2> QED
    BY <2>2
<1>10. \E m \in Nat : n = 2 * m
  <2>1. n \in Nat
    BY <1>1, <1>8
  <2>2. \/ \E m \in Nat : n = 2 * m
        \/ \E m \in Nat : n = 2 * m + 1
    <3> DEFINE h == n \div 2
    <3>1. h \in Nat /\ (n = 2 * h \/ n = 2 * h + 1)
      BY <2>1
    <3> HIDE DEF h
    <3> QED
      BY Zenon, <3>1
  <2>3. ASSUME NEW m \in Nat, n = 2 * m + 1 PROVE FALSE
    <3> DEFINE q == m + 1
    <3>1. PICK p \in Nat : z = 2 * p
      BY Zenon, <1>1
    <3>2. q \in Nat \ {0} /\ 2 * q <= z /\ 2 * q - 1 = n /\ 2 * q = n + 1 /\ n > 0
      BY <1>1, <1>8, <2>3, <3>1
    <3>3. u[n].slot = u[n + 1].slot
      BY Zenon, <1>4, <3>2
    <3>4. n + 1 \in (n + 1)..z /\ n + 1 \in 1..z /\ n \in 1..z
      BY <1>1, <2>1, <3>2
    <3>5. u[n + 1].slot > t /\ u[n].slot <= t /\ u[n].slot \in Nat
      BY Zenon, <1>2, <1>8, <3>2, <3>4
    <3> QED
      BY <3>3, <3>5
  <2> QED
    BY Zenon, <2>2, <2>3
<1> QED
  BY Zenon, <1>8, <1>9, <1>10 DEF n, z, u

\* The old values a revert restores are those of the oldest logs above its target.
LEMMA LastRestoredIs ==
    ASSUME NEW s, IsSeq(s.undo), NEW n \in 0..Len(s.undo), NEW k, k \in Logged(s, n)
    PROVE  LET i == LastRestored(s, n, k) IN
           /\ i \in (n + 1)..Len(s.undo)
           /\ k \in DOMAIN s.undo[i].entries
           /\ \A j \in (n + 1)..(i - 1) : k \notin DOMAIN s.undo[j].entries
<1> DEFINE z == Len(s.undo)
           A == {i \in (n + 1)..z : k \in DOMAIN s.undo[i].entries}
           OK(i) == /\ k \in DOMAIN s.undo[i].entries
                    /\ \A j \in (n + 1)..(i - 1) : k \notin DOMAIN s.undo[j].entries
<1>1. z \in Nat /\ n \in Nat
  BY SeqFacts
<1>2. \E i \in (n + 1)..z : k \in DOMAIN s.undo[i].entries
  BY Zenon DEF Logged
<1>3. A # {} /\ A \in SUBSET Nat
  BY <1>1, <1>2
<1> HIDE DEF z
<1>4. PICK x \in A : \A y \in A : x <= y
  <2> HIDE DEF A
  <2> QED
    BY <1>3, LeastNat, Zenon
<1>5. x \in (n + 1)..z /\ OK(x)
  <2>1. x \in (n + 1)..z /\ k \in DOMAIN s.undo[x].entries
    BY Zenon
  <2>2. ASSUME NEW j \in (n + 1)..(x - 1) PROVE k \notin DOMAIN s.undo[j].entries
    <3>1. j \in (n + 1)..z /\ ~(x <= j)
      BY <1>1, <2>1
    <3> QED
      BY Zenon, <1>4, <3>1
  <2> QED
    BY Zenon, <2>1, <2>2
<1>6. LastRestored(s, n, k) = CHOOSE i \in (n + 1)..z : OK(i)
  BY Zenon DEF LastRestored, z
<1> HIDE DEF OK
<1>7. LastRestored(s, n, k) \in (n + 1)..z /\ OK(LastRestored(s, n, k))
  BY Zenon, <1>5, <1>6
<1> QED
  BY Zenon, <1>7 DEF OK, z

\* The logs and the values revert_to leaves.
LEMMA RevertIs ==
    ASSUME NEW s, IsStore(s), DOMAIN s.pending = {}, NEW t
    PROVE  LET r   == revert_to(s, t)
               n   == Kept(s, t)
               old == OldValues(s, n)
           IN  /\ IsStore(r) /\ DOMAIN r.pending = {}
               /\ r.undo = SubSeq(s.undo, 1, n)
               /\ \A k \in Keys : get(r, k) = IF k \in DOMAIN old THEN old[k] ELSE get(s, k)
<1> DEFINE r == revert_to(s, t)
           n == Kept(s, t)
           old == OldValues(s, n)
           c == Uncached(s.cache, old)
           m == Over(s.smt, old)
           u == SubSeq(s.undo, 1, n)
<1>1. r = [s EXCEPT !.cache = c, !.smt = m, !.undo = u]
  BY Zenon DEF revert_to, update_all
<1>2. /\ DOMAIN m = DOMAIN s.smt \cup DOMAIN old
      /\ \A k \in DOMAIN m : m[k] = IF k \in DOMAIN old THEN old[k] ELSE s.smt[k]
  BY Zenon DEF Over
<1>3. /\ \A k : k \in DOMAIN c <=>
             k \in DOMAIN s.cache \cup DOMAIN old /\ (k \in DOMAIN old => old[k] # Absent)
      /\ \A k \in DOMAIN c : c[k] = IF k \in DOMAIN old THEN old[k] ELSE s.cache[k]
  BY Zenon DEF Uncached, Over
<1> HIDE DEF r, c, m, u, old
<1>4. r = [smt |-> m, cache |-> c, pending |-> s.pending, undo |-> u]
  BY Zenon, <1>1 DEF IsStore
<1>5. /\ r.smt = m /\ r.cache = c /\ r.pending = s.pending /\ r.undo = u
      /\ r = [smt |-> r.smt, cache |-> r.cache, pending |-> r.pending, undo |-> r.undo]
  BY Zenon, <1>4
<1>6. Keys \subseteq DOMAIN m
  BY Zenon, <1>2 DEF IsStore
<1>7. IsStore(r) /\ DOMAIN r.pending = {}
  BY Zenon, <1>5, <1>6 DEF IsStore
<1>8. ASSUME NEW k \in Keys
      PROVE  get(r, k) = IF k \in DOMAIN old THEN old[k] ELSE get(s, k)
  <2>1. get(r, k) = IF k \in DOMAIN c THEN c[k] ELSE m[k]
    BY <1>5, Zenon DEF get
  <2>2. CASE k \in DOMAIN old
    BY Zenon, <1>2, <1>3, <1>6, <2>1, <2>2
  <2>3. CASE k \notin DOMAIN old
    BY Zenon, <1>2, <1>3, <1>6, <2>1, <2>3 DEF get
  <2> QED
    BY Zenon, <2>2, <2>3
<1> QED
  BY Zenon, <1>5, <1>7, <1>8 DEF r, u, old

\* A revert to slot t leaves the values the blocks up to t left.
LEMMA RevertReads ==
    ASSUME NEW s, IsStore(s), DOMAIN s.pending = {}, NEW top, UndoInv(s.undo, top), NEW t \in Nat
    PROVE  \A k \in Keys : IsAfter(s, t, k, get(revert_to(s, t), k))
<1> DEFINE n == Kept(s, t)
           old == OldValues(s, n)
           u == s.undo
           z == Len(u)
           r == revert_to(s, t)
<1> SUFFICES ASSUME NEW k \in Keys PROVE IsAfter(s, t, k, get(r, k))
  BY Zenon
<1>1. IsSeq(u) /\ z \in Nat /\ \A i \in 1..z : u[i].slot \in Nat
  BY Zenon, SeqFacts DEF UndoInv
<1>2. n \in 0..z /\ (\A i \in 1..n : u[i].slot <= t) /\ \A i \in (n + 1)..z : u[i].slot > t
  BY Zenon, KeptIs
<1>3. get(r, k) = IF k \in DOMAIN old THEN old[k] ELSE get(s, k)
  BY Zenon, RevertIs
<1>4. DOMAIN old = Logged(s, n)
  BY Zenon DEF OldValues
<1>5. \A i \in 1..z : Restores(u, t, k, i) => i \in (n + 1)..z
  BY <1>1, <1>2 DEF Restores
<1>6. CASE k \notin Logged(s, n)
  <2>1. \A i \in (n + 1)..z : k \notin DOMAIN u[i].entries
    BY <1>6, Zenon DEF Logged
  <2>2. \A i \in 1..z : ~Restores(u, t, k, i)
    BY <1>5, <2>1, Zenon DEF Restores
  <2>3. get(r, k) = get(s, k)
    BY <1>3, <1>4, <1>6, Zenon
  <2> QED
    BY <2>2, <2>3, Zenon DEF IsAfter
<1>7. CASE k \in Logged(s, n)
  <2> DEFINE i == LastRestored(s, n, k)
  <2>1. /\ i \in (n + 1)..z /\ k \in DOMAIN u[i].entries
        /\ \A j \in (n + 1)..(i - 1) : k \notin DOMAIN u[j].entries
    BY Zenon, <1>1, <1>2, <1>7, LastRestoredIs
  <2>2. old[k] = u[i].entries[k]
    BY Zenon, <1>7 DEF OldValues
  <2> HIDE DEF i, n, old, r
  <2>3. i \in 1..z /\ Restores(u, t, k, i)
    BY SMTT(40), <1>1, <1>2, <2>1 DEF Restores
  <2>4. ASSUME NEW j \in 1..(i - 1) PROVE ~Restores(u, t, k, j)
    <3>1. j \in 1..z /\ (j \in (n + 1)..z => j \in (n + 1)..(i - 1))
      BY <1>1, <1>2, <2>3
    <3> QED
      BY <1>5, <2>1, <3>1, Zenon DEF Restores
  <2>5. get(r, k) = u[i].entries[k]
    BY <1>3, <1>4, <1>7, <2>2, Zenon
  <2> QED
    BY <2>3, <2>4, <2>5, Zenon DEF IsAfter
<1> QED
  BY Zenon, <1>6, <1>7

------------------------------------------------------------------------------
\* The logs revert_to leaves are in order, in pairs, and at or below its target.
LEMMA RevertUndo ==
    ASSUME EvenDepth, NEW s, IsStore(s), DOMAIN s.pending = {}, NEW top, UndoInv(s.undo, top),
           NEW t \in Nat
    PROVE  LET w == revert_to(s, t).undo
               n == Kept(s, t)
           IN  /\ IsSeq(w) /\ Len(w) = n
               /\ \A i \in 1..n : w[i] = s.undo[i]
               /\ UndoInv(w, t)
<1> DEFINE w == revert_to(s, t).undo
           n == Kept(s, t)
           u == s.undo
           z == Len(u)
<1>1. IsSeq(u) /\ z \in Nat
  BY Zenon, SeqFacts DEF UndoInv
<1>2. n \in 0..z /\ (\A i \in 1..n : u[i].slot <= t) /\ \E m \in Nat : n = 2 * m
  BY Zenon, KeptIs
<1>3. w = SubSeq(u, 1, n)
  BY Zenon, RevertIs
<1> HIDE DEF w, n
<1>4. IsSeq(w) /\ Len(w) = n /\ \A i \in 1..n : w[i] = u[i]
  BY Zenon, <1>1, <1>2, <1>3, SubSeqFacts
<1>5. n \in Nat /\ n <= z /\ \A i \in 1..n : i \in 1..z
  BY <1>1, <1>2
<1>6. Len(w) <= MaxUndoDepth
  <2>1. z <= MaxUndoDepth
    BY Zenon DEF UndoInv
  <2>2. MaxUndoDepth \in Nat
    BY DEF EvenDepth
  <2> QED
    BY <1>1, <1>4, <1>5, <2>1, <2>2
<1>7. \A i \in 1..n : /\ w[i].slot \in Nat /\ w[i].slot <= t /\ i <= 2 * w[i].slot
                      /\ GoodEntries(w[i].entries)
  BY Zenon, <1>2, <1>4, <1>5 DEF UndoInv
<1>8. \A i, j \in 1..n : i <= j => w[i].slot <= w[j].slot
  BY Zenon, <1>4, <1>5 DEF UndoInv
<1>9. ASSUME NEW m \in Nat \ {0}, 2 * m <= n PROVE w[2 * m - 1].slot = w[2 * m].slot
  <2>1. 2 * m - 1 \in 1..n /\ 2 * m \in 1..n /\ 2 * m <= z
    BY <1>5, <1>9
  <2>2. u[2 * m - 1].slot = u[2 * m].slot
    BY <2>1, Zenon DEF UndoInv
  <2> QED
    BY Zenon, <1>4, <2>1, <2>2
<1>10. ASSUME NEW m \in Nat \ {0}, 2 * m < n PROVE w[2 * m].slot < w[2 * m + 1].slot
  <2>1. 2 * m + 1 \in 1..n /\ 2 * m \in 1..n /\ 2 * m < z
    BY <1>1, <1>5, <1>10
  <2>2. u[2 * m].slot < u[2 * m + 1].slot
    BY <2>1, Zenon DEF UndoInv
  <2> QED
    BY Zenon, <1>4, <2>1, <2>2
<1>11. UndoInv(w, t)
  BY <1>2, <1>4, <1>6, <1>7, <1>8, <1>9, <1>10, Zenon DEF UndoInv
<1> QED
  BY Zenon, <1>4, <1>11 DEF w, n

\* What a key held at a slot a revert does not go below, it still held then.
LEMMA RevertKeepsAfter ==
    ASSUME EvenDepth, NEW s, IsStore(s), DOMAIN s.pending = {}, NEW top, UndoInv(s.undo, top),
           NEW t \in Nat, NEW n \in Nat, n <= t, NEW k \in Keys, NEW v, IsAfter(revert_to(s, t), n, k, v)
    PROVE  IsAfter(s, n, k, v)
<1> DEFINE r == revert_to(s, t)
           u == s.undo
           w == r.undo
           z == Len(u)
           q == Kept(s, t)
<1>1. z \in Nat /\ \A i \in 1..z : u[i].slot \in Nat
  BY Zenon, SeqFacts DEF UndoInv
<1>2. q \in 0..z /\ \A i \in (q + 1)..z : u[i].slot > t
  BY Zenon, KeptIs
<1>3. Len(w) = q /\ \A i \in 1..q : w[i] = u[i]
  BY Zenon, RevertUndo
<1>4. IsAfter(s, t, k, get(r, k))
  BY Zenon, RevertReads
<1> HIDE DEF r, q, w
<1>5. \A i \in 1..q : i \in 1..z /\ (Restores(w, n, k, i) <=> Restores(u, n, k, i))
  BY SMTT(40), <1>1, <1>2, <1>3 DEF Restores
<1>6. \A i \in 1..z : Restores(u, t, k, i) => Restores(u, n, k, i)
  BY SMTT(40), <1>1 DEF Restores
<1>7. \A i \in 1..z : Restores(u, n, k, i) => Restores(u, t, k, i) \/ i \in 1..q
  BY SMTT(40), <1>1, <1>2 DEF Restores
<1>8. CASE (\A i \in 1..q : ~Restores(w, n, k, i)) /\ v = get(r, k)
  <2>1. \A i \in 1..z : Restores(u, n, k, i) => Restores(u, t, k, i)
    BY <1>5, <1>7, <1>8, Zenon
  <2>2. CASE (\A i \in 1..z : ~Restores(u, t, k, i)) /\ get(r, k) = get(s, k)
    BY <1>8, <2>1, <2>2, Zenon DEF IsAfter
  <2>3. ASSUME NEW i \in 1..z, Restores(u, t, k, i),
               \A j \in 1..(i - 1) : ~Restores(u, t, k, j), get(r, k) = u[i].entries[k]
        PROVE  IsAfter(s, n, k, v)
    <3>1. \A j \in 1..(i - 1) : j \in 1..z
      BY <1>1
    <3>2. \A j \in 1..(i - 1) : ~Restores(u, n, k, j)
      BY <2>1, <2>3, <3>1, Zenon
    <3>3. Restores(u, n, k, i) /\ v = u[i].entries[k]
      BY Zenon, <1>6, <1>8, <2>3
    <3> QED
      BY <3>2, <3>3, Zenon DEF IsAfter
  <2> QED
    BY <1>4, <2>2, <2>3, Zenon DEF IsAfter
<1>9. ASSUME NEW i \in 1..q, Restores(w, n, k, i), \A j \in 1..(i - 1) : ~Restores(w, n, k, j),
             v = w[i].entries[k]
      PROVE  IsAfter(s, n, k, v)
  <2>1. \A j \in 1..(i - 1) : j \in 1..q
    BY SMTT(40), <1>2
  <2>2. \A j \in 1..(i - 1) : ~Restores(u, n, k, j)
    BY <1>5, <1>9, <2>1, Zenon
  <2>3. i \in 1..z /\ Restores(u, n, k, i) /\ v = u[i].entries[k]
    BY Zenon, <1>3, <1>5, <1>9
  <2> QED
    BY <2>2, <2>3, Zenon DEF IsAfter
<1>10. IsAfter(r, n, k, v)
  BY Zenon DEF r
<1>11. \/ (\A i \in 1..q : ~Restores(w, n, k, i)) /\ v = get(r, k)
       \/ \E i \in 1..q : /\ Restores(w, n, k, i)
                          /\ \A j \in 1..(i - 1) : ~Restores(w, n, k, j)
                          /\ v = w[i].entries[k]
  BY <1>3, <1>10, Zenon DEF IsAfter, w
<1> QED
  BY <1>8, <1>9, <1>11, Zenon

\* A value some log or the store has is good.
LEMMA AfterGood ==
    ASSUME NEW s, NEW top, UndoInv(s.undo, top), NEW k, GoodFor(k, get(s, k)), NEW n, NEW v,
           IsAfter(s, n, k, v)
    PROVE  GoodFor(k, v)
  BY Zenon DEF IsAfter, UndoInv, GoodEntries, Restores

\* So it is for a block executed at a higher slot, when the logs it prunes are
\* at or below n.
LEMMA ExecuteKeepsAfter ==
    ASSUME NEW s, NEW r, NEW b \in Blocks, NEW e1, NEW e2, LogsOf(s, b, e1, e2),
           NEW x \in Nat, NEW top \in Nat, UndoInv(s.undo, top),
           NEW d \in {0, 2}, Shifted(s.undo, r.undo, d, x, e1, e2),
           NEW n \in Nat, n < x, \A i \in 1..d : s.undo[i].slot <= n,
           NEW k \in Keys, NEW v, IsAfter(r, n, k, v),
           KeepsUnwritten(s, r, b, k)
    PROVE  IsAfter(s, n, k, v)
<1> DEFINE u == s.undo
           w == r.undo
           z == Len(u)
           y == Len(w)
<1>1. z \in Nat /\ \A i \in 1..z : u[i].slot \in Nat
  BY Zenon, SeqFacts DEF UndoInv
<1>2. y = z + 2 - d /\ d <= z /\ \A i \in 1..y : w[i] = LogAt(u, x, e1, e2, i + d)
  BY Zenon DEF Shifted
<1>10. \A j \in 1..z : LogAt(u, x, e1, e2, j) = u[j]
  BY SMTT(40), <1>1 DEF LogAt
<1> HIDE DEF w, y, u, z
<1>3. ASSUME NEW j \in 1..z, Restores(u, n, k, j)
      PROVE  j - d \in 1..y /\ Restores(w, n, k, j - d)
  <2>1. u[j].slot > n /\ u[j].slot \in Nat
    BY Zenon, <1>1, <1>3 DEF Restores
  <2>2. j \notin 1..d
    BY SMTT(40), <2>1 DEF u
  <2>3. j - d \in 1..y /\ (j - d) + d = j
    BY SMTT(40), <1>1, <1>2, <2>2
  <2>4. w[j - d] = u[j]
    BY Zenon, <1>2, <1>10, <2>3
  <2> QED
    BY Zenon, <1>3, <2>3, <2>4 DEF Restores
<1>4. ASSUME NEW i \in 1..y, i + d <= z PROVE i + d \in 1..z /\ w[i] = u[i + d]
  BY SMTT(40), <1>1, <1>2, <1>4, <1>10
<1>5. /\ (z + 1) - d \in 1..y /\ w[(z + 1) - d].slot = x /\ w[(z + 1) - d].entries = e1
      /\ (z + 2) - d \in 1..y /\ w[(z + 2) - d].slot = x /\ w[(z + 2) - d].entries = e2
  <2>1. (z + 1) - d \in 1..y /\ (z + 2) - d \in 1..y
        /\ ((z + 1) - d) + d = z + 1 /\ ((z + 2) - d) + d = z + 2
    BY SMTT(40), <1>1, <1>2
  <2>2. /\ LogAt(u, x, e1, e2, z + 1) = [slot |-> x, entries |-> e1]
        /\ LogAt(u, x, e1, e2, z + 2) = [slot |-> x, entries |-> e2]
    BY SMTT(40), <1>1 DEF LogAt, z
  <2>3. w[(z + 1) - d] = [slot |-> x, entries |-> e1] /\ w[(z + 2) - d] = [slot |-> x, entries |-> e2]
    BY Zenon, <1>2, <2>1, <2>2
  <2> QED
    BY SMTT(40), <2>1, <2>3
<1>6. /\ DOMAIN e1 = TouchedBy[b] /\ DOMAIN e2 = {ProposerOf[b], Counters}
      /\ \A c \in TouchedBy[b] : e1[c] = get(s, c)
      /\ \A c \in DOMAIN e2 : c \notin TouchedBy[b] => e2[c] = get(s, c)
  BY Zenon DEF LogsOf
<1>7. CASE (\A i \in 1..y : ~Restores(w, n, k, i)) /\ v = get(r, k)
  <2>1. \A j \in 1..z : ~Restores(u, n, k, j)
    BY Zenon, <1>3, <1>7
  <2>2. k \notin TouchedBy[b] /\ k \notin {ProposerOf[b], Counters}
    BY Zenon, <1>5, <1>6, <1>7 DEF Restores
  <2> QED
    BY <1>7, <2>1, <2>2, Zenon DEF KeepsUnwritten, IsAfter, u, z
<1>8. ASSUME NEW i \in 1..y, Restores(w, n, k, i), \A j \in 1..(i - 1) : ~Restores(w, n, k, j),
             v = w[i].entries[k]
      PROVE  IsAfter(s, n, k, v)
  <2>1. CASE i + d <= z
    <3>1. i + d \in 1..z /\ w[i] = u[i + d]
      BY Zenon, <1>4, <2>1
    <3>2. Restores(u, n, k, i + d) /\ v = u[i + d].entries[k]
      BY Zenon, <1>8, <3>1 DEF Restores
    <3>3. ASSUME NEW j \in 1..((i + d) - 1), Restores(u, n, k, j) PROVE FALSE
      <4>1. j \in 1..z
        BY SMTT(40), <1>1, <3>1
      <4>2. j - d \in 1..y /\ Restores(w, n, k, j - d)
        BY Zenon, <1>3, <3>3, <4>1
      <4>3. j - d \in 1..(i - 1)
        BY SMTT(40), <1>1, <1>2, <4>1, <4>2
      <4> QED
        BY Zenon, <1>8, <4>2, <4>3
    <3> QED
      BY <3>1, <3>2, <3>3, Zenon DEF IsAfter, u, z
  <2>2. CASE i + d > z
    <3>1. i = (z + 1) - d \/ i = (z + 2) - d
      BY SMTT(40), <1>1, <1>2, <2>2
    <3>2. \A j \in 1..z : ~Restores(u, n, k, j)
      <4> SUFFICES ASSUME NEW j \in 1..z, Restores(u, n, k, j) PROVE FALSE
        BY Zenon
      <4>1. j - d \in 1..y /\ Restores(w, n, k, j - d)
        BY Zenon, <1>3
      <4>2. j - d \in 1..(i - 1)
        BY SMTT(40), <1>1, <1>2, <2>2, <4>1
      <4> QED
        BY Zenon, <1>8, <4>1, <4>2
    <3>3. v = get(s, k)
      <4>1. CASE i = (z + 1) - d
        BY Zenon, <1>5, <1>6, <1>8, <4>1 DEF Restores
      <4>2. CASE i = (z + 2) - d
        <5>1. (z + 1) - d \in 1..(i - 1)
          BY SMTT(40), <1>1, <1>2, <4>2
        <5>2. k \notin TouchedBy[b]
          BY Zenon, <1>5, <1>6, <1>8, <5>1 DEF Restores
        <5> QED
          BY Zenon, <1>5, <1>6, <1>8, <4>2, <5>2 DEF Restores
      <4> QED
        BY Zenon, <3>1, <4>1, <4>2
    <3> QED
      BY <3>2, <3>3, Zenon DEF IsAfter, u, z
  <2> QED
    BY SMTT(40), <1>1, <1>2, <2>1, <2>2
<1>9. \/ (\A i \in 1..y : ~Restores(w, n, k, i)) /\ v = get(r, k)
      \/ \E i \in 1..y : /\ Restores(w, n, k, i)
                         /\ \A j \in 1..(i - 1) : ~Restores(w, n, k, j)
                         /\ v = w[i].entries[k]
  BY Zenon DEF IsAfter, w, y
<1> QED
  BY <1>7, <1>8, <1>9, Zenon

------------------------------------------------------------------------------
(***************************************************************************)
(* The invariant.  For every slot up to the head that the chain is without *)
(* a gap to, and that the undo logs reach back to, the values at that slot *)
(* are what the blocks up to it add.                                       *)
(***************************************************************************)
Unpruned == \A b \in Blocks : 2 * SlotOf[b] <= MaxUndoDepth

Reach(undo, n) == Unpruned \/ Len(undo) = 0 \/ undo[1].slot <= n + 1

Solid(headers, n) == 1..n \subseteq DOMAIN headers

Right(s, headers, n) ==
    \A k \in Keys : \A v : IsAfter(s, n, k, v) => MarksOf(v) = Expected(headers, n, k)

Sound(s, headers, top) ==
    /\ IsStore(s)
    /\ \A k \in Keys : GoodFor(k, get(s, k))
    /\ UndoInv(s.undo, top)
    /\ \A n \in 0..top : Solid(headers, n) /\ Reach(s.undo, n) => Right(s, headers, n)

\* The values a block logs are good.
LEMMA LogsGood ==
    ASSUME NEW s, \A k \in Keys : GoodFor(k, get(s, k)), NEW b \in Blocks, NEW e1, NEW e2,
           LogsOf(s, b, e1, e2)
    PROVE  GoodEntries(e1) /\ GoodEntries(e2)
<1>1. TouchedBy[b] \subseteq Keys /\ ProposerOf[b] \in Keys /\ Counters \in Keys
  BY Zenon, BlockAssumption
<1> QED
  BY Zenon, <1>1 DEF LogsOf, GoodEntries

\* The number of logs is bounded by the slots they are for.
LEMMA UndoLength ==
    ASSUME NEW u, NEW top \in Nat, UndoInv(u, top)
    PROVE  Len(u) \in Nat /\ Len(u) <= 2 * top
<1>1. Len(u) \in Nat
  BY Zenon, SeqFacts DEF UndoInv
<1>2. CASE Len(u) = 0
  BY <1>2
<1>3. CASE Len(u) > 0
  <2>1. Len(u) \in 1..Len(u)
    BY <1>1, <1>3
  <2>2. u[Len(u)].slot \in Nat /\ u[Len(u)].slot <= top /\ Len(u) <= 2 * u[Len(u)].slot
    BY <2>1, Zenon DEF UndoInv
  <2> QED
    BY <1>1, <2>2
<1> QED
  BY <1>1, <1>2, <1>3

\* A log whose slot the undo logs have is at most the head's, so that no log is
\* to be restored at the head.
LEMMA UndoSlots ==
    ASSUME NEW u, NEW top \in Nat, UndoInv(u, top)
    PROVE  /\ Len(u) > 0 => u[1].slot \in Nat /\ u[1].slot <= top
           /\ \A k : \A i \in 1..Len(u) : ~Restores(u, top, k, i)
<1>1. \A i \in 1..Len(u) : u[i].slot \in Nat /\ u[i].slot <= top
  BY Zenon DEF UndoInv
<1>2. Len(u) \in Nat
  BY Zenon, UndoLength
<1>3. Len(u) > 0 => 1 \in 1..Len(u)
  BY <1>2
<1>4. \A i \in 1..Len(u) : ~(u[i].slot > top)
  BY <1>1
<1> QED
  BY Zenon, <1>1, <1>3, <1>4 DEF Restores

\* A slot at most one below the oldest log is one the undo logs reach back to.
LEMMA ReachAt ==
    ASSUME NEW u, Len(u) \in Nat, NEW n \in Nat, Len(u) > 0 => u[1].slot <= n + 1
    PROVE  Reach(u, n)
<1>1. Len(u) = 0 \/ Len(u) > 0
  OBVIOUS
<1> QED
  BY Zenon, <1>1 DEF Reach

\* A block executed on top of values that are right at the slots below it, as
\* far back as the logs will reach.
LEMMA ApplyRight ==
    ASSUME EvenDepth, NEW s, NEW h, NEW top \in Nat,
           IsStore(s), \A k \in Keys : GoodFor(k, get(s, k)), UndoInv(s.undo, top),
           \A i \in DOMAIN h : i \in Nat /\ i <= top,
           NEW b \in Blocks, SlotOf[b] > top, NEW price,
           \A n \in 0..top :
               /\ Solid(h, n)
               /\ \/ Unpruned
                  \/ Len(s.undo) > 0 /\ s.undo[1].slot <= n + 1
                  \/ n = top
               => Right(s, h, n)
    PROVE  Sound(ExecuteBlock(s, b, price), With(h, SlotOf[b], b), SlotOf[b])
<1> DEFINE r == ExecuteBlock(s, b, price)
           x == SlotOf[b]
           g == With(h, x, b)
           u == s.undo
           w == r.undo
<1>1. x \in Nat /\ x > top
  BY Zenon, BlockAssumption
<1>2. /\ IsStore(r)
      /\ \A k \in Keys : /\ GoodFor(k, get(r, k))
                         /\ MarksOf(get(r, k)) = MarksOf(get(s, k)) \o Marks(b, k)
                         /\ KeepsUnwritten(s, r, b, k)
      /\ \E e1, e2 : LogsOf(s, b, e1, e2) /\ r.undo = Recorded(Recorded(u, x, e1), x, e2)
  <2>1. Executed(s, r, b)
    BY Zenon, ExecuteAdds
  <2> QED
    BY Zenon, <2>1 DEF Executed
<1> HIDE DEF r, x
<1>3. PICK e1, e2 : LogsOf(s, b, e1, e2) /\ w = Recorded(Recorded(u, x, e1), x, e2)
  BY <1>2, Zenon
<1>4. GoodEntries(e1) /\ GoodEntries(e2)
  BY Zenon, <1>3, LogsGood
<1>5. PICK d \in {0, 2} : Shifted(u, w, d, x, e1, e2)
  BY Zenon, <1>3, TwoLogs
<1>6. UndoInv(w, x)
  BY Zenon, <1>1, <1>4, <1>5, ShiftedInv
<1>7. Len(u) \in Nat /\ Len(u) <= 2 * top
  BY Zenon, UndoLength
<1>8. g = [i \in DOMAIN h \cup {x} |-> IF i = x THEN b ELSE h[i]]
  BY Zenon DEF With
<1>9. /\ DOMAIN g = DOMAIN h \cup {x} /\ g[x] = b
      /\ \A i \in DOMAIN h : g[i] = h[i]
  <2>1. \A i \in DOMAIN h : i # x
    BY <1>1
  <2> HIDE DEF g
  <2>2. DOMAIN g = DOMAIN h \cup {x}
    BY Zenon, <1>8
  <2>3. g[x] = b
    BY Zenon, <1>8
  <2>4. \A i \in DOMAIN h : g[i] = h[i]
    BY Zenon, <1>8, <2>1
  <2> QED
    BY Zenon, <2>2, <2>3, <2>4
<1> HIDE DEF g
<1>10. ASSUME NEW n \in 0..top, Solid(g, n), Reach(w, n)
       PROVE  Right(r, g, n)
  <2>1. n \in Nat /\ n < x /\ n <= top /\ Solid(h, n)
    BY <1>1, <1>9, <1>10 DEF Solid
  <2>2. /\ Len(w) = Len(u) + 2 - d /\ d <= Len(u) /\ Len(w) > 0
        /\ 1 \in 1..Len(w) /\ w[1] = LogAt(u, x, e1, e2, 1 + d)
        /\ d # 0 => Len(u) = MaxUndoDepth
    BY SMTT(40), <1>5, <1>7 DEF Shifted
  <2>3. \A i \in 1..Len(u) : u[i].slot \in Nat /\ u[i].slot <= top
    BY Zenon DEF UndoInv
  <2>4. Unpruned => d = 0
    <3> SUFFICES ASSUME Unpruned, d = 2 PROVE FALSE
      BY Zenon
    <3>1. 2 * x <= MaxUndoDepth
      BY Zenon DEF Unpruned, x
    <3> QED
      BY <1>1, <1>7, <2>2, <3>1
  <2>5. (\A i \in 1..d : u[i].slot <= n) /\ Right(s, h, n)
    <3>1. CASE Unpruned
      <4>1. \A i \in 1..d : u[i].slot <= n
        BY <2>4, <3>1
      <4>2. Right(s, h, n)
        BY Zenon, <2>1, <3>1
      <4> QED
        BY Zenon, <4>1, <4>2
    <3>2. CASE ~Unpruned
      <4>1. w[1].slot <= n + 1
        BY SMTT(40), <1>10, <2>2, <3>2 DEF Reach
      <4>2. CASE d < Len(u)
        <5>1. w[1] = u[1 + d] /\ 1 + d \in 1..Len(u) /\ 1 \in 1..Len(u) /\ 1 <= 1 + d
          BY <1>7, <2>2, <4>2 DEF LogAt
        <5>2. u[1].slot <= u[1 + d].slot
          BY Zenon, <5>1 DEF UndoInv
        <5>3. u[1].slot \in Nat /\ u[1 + d].slot \in Nat /\ u[1 + d].slot <= n + 1
          BY Zenon, <2>3, <4>1, <5>1
        <5>4. u[1].slot <= n + 1 /\ Len(u) > 0
          <6>1. u[1].slot <= n + 1
            BY <2>1, <5>2, <5>3
          <6>2. Len(u) > 0
            BY <1>7, <5>1
          <6> QED
            BY Zenon, <6>1, <6>2
        <5>5. Right(s, h, n)
          BY Zenon, <2>1, <5>4
        <5>6. \A i \in 1..d : u[i].slot <= n
          <6> SUFFICES ASSUME d = 2, NEW i \in 1..2 PROVE u[i].slot <= n
            OBVIOUS
          <6>1. 1 \in Nat \ {0} /\ 2 * 1 < Len(u) /\ 2 * 1 = 2 /\ 2 + 1 = 1 + d /\ 2 \in 1..Len(u)
                /\ i \in 1..Len(u) /\ i <= 2
            BY <1>7, <4>2
          <6>2. u[2].slot < u[1 + d].slot
            BY Zenon, <6>1 DEF UndoInv
          <6>3. u[i].slot <= u[2].slot
            BY Zenon, <6>1 DEF UndoInv
          <6>4. u[i].slot \in Nat /\ u[2].slot \in Nat
            BY Zenon, <2>3, <6>1
          <6>5. u[2].slot <= n
            BY <2>1, <5>3, <6>2, <6>4
          <6> QED
            BY <2>1, <6>3, <6>4, <6>5
        <5> QED
          BY Zenon, <5>5, <5>6
      <4>3. CASE d = Len(u)
        <5>1. w[1].slot = x
          BY SMTT(40), <1>7, <2>2, <4>3 DEF LogAt
        <5>2. n = top
          BY <1>1, <2>1, <4>1, <5>1
        <5>3. \A i \in 1..d : u[i].slot <= n
          BY Zenon, <2>3, <4>3, <5>2
        <5> QED
          BY Zenon, <2>1, <5>2, <5>3
      <4> QED
        BY SMTT(40), <1>7, <2>2, <4>2, <4>3
    <3> QED
      BY Zenon, <3>1, <3>2
  <2>6. \A k : Expected(g, n, k) = Expected(h, n, k)
    <3>1. \A i \in 1..n : g[i] = h[i]
      BY Zenon, <1>9, <2>1 DEF Solid
    <3> QED
      BY Zenon, <2>1, <3>1, ExpectedSame
  <2>7. ASSUME NEW k \in Keys, NEW v, IsAfter(r, n, k, v)
        PROVE  MarksOf(v) = Expected(g, n, k)
    <3>1. IsAfter(s, n, k, v)
      <4>1. KeepsUnwritten(s, r, b, k)
        BY Zenon, <1>2
      <4>2. n \in Nat /\ n < x /\ (\A i \in 1..d : s.undo[i].slot <= n) /\ x \in Nat
        BY Zenon, <1>1, <2>1, <2>5
      <4>3. /\ LogsOf(s, b, e1, e2) /\ IsAfter(r, n, k, v)
            /\ d \in {0, 2} /\ Shifted(s.undo, r.undo, d, x, e1, e2)
        BY Zenon, <1>3, <1>5, <2>7
      <4> QED
        BY Zenon, <4>1, <4>2, <4>3, ExecuteKeepsAfter
    <3>2. MarksOf(v) = Expected(h, n, k)
      BY <2>5, <3>1, Zenon DEF Right
    <3> QED
      BY Zenon, <2>6, <3>2
  <2> QED
    BY <2>7, Zenon DEF Right
<1>11. ASSUME NEW n \in (top + 1)..x, Solid(g, n)
       PROVE  n = x /\ top + 1 = x /\ Solid(h, top)
  <2>1. \A i \in 1..n : i = x \/ i \in DOMAIN h
    BY Zenon, <1>9, <1>11 DEF Solid
  <2>2. top + 1 = x
    <3> SUFFICES ASSUME top + 1 < x PROVE FALSE
      BY <1>1
    <3>1. top + 1 \in 1..n /\ top + 1 # x
      BY <1>1, <1>11
    <3> QED
      BY <2>1, <3>1
  <2>3. \A i \in 1..top : i \in DOMAIN h
    BY <2>1, <2>2
  <2> QED
    BY SMTT(40), <1>11, <2>2, <2>3 DEF Solid
<1>12. ASSUME top + 1 = x, Solid(h, top)
       PROVE  Right(r, g, x)
  <2>1. Right(s, h, top)
    BY <1>12
  <2>2. ASSUME NEW k \in Keys, NEW v, IsAfter(r, x, k, v)
        PROVE  MarksOf(v) = Expected(g, x, k)
    <3>1. \A i \in 1..Len(w) : ~Restores(w, x, k, i)
      BY Zenon, <1>1, <1>6, UndoSlots
    <3>2. v = get(r, k)
      BY <2>2, <3>1, Zenon DEF IsAfter
    <3>3. \A i \in 1..Len(u) : ~Restores(u, top, k, i)
      BY Zenon, UndoSlots
    <3>4. IsAfter(s, top, k, get(s, k))
      BY <3>3, Zenon DEF IsAfter
    <3>5. MarksOf(get(s, k)) = Expected(h, top, k)
      BY <2>1, <3>4, Zenon DEF Right
    <3>6. Expected(g, top, k) = Expected(h, top, k)
      <4>1. \A i \in 1..top : g[i] = h[i]
        BY Zenon, <1>9, <1>12 DEF Solid
      <4> QED
        BY Zenon, <4>1, ExpectedSame
    <3>7. Expected(g, top + 1, k) = Expected(g, top, k) \o Marks(g[top + 1], k)
      BY ExpectedFacts, Zenon
    <3>8. MarksOf(get(r, k)) = MarksOf(get(s, k)) \o Marks(b, k)
      BY <1>2, Zenon
    <3>9. g[top + 1] = b
      BY <1>9, <1>12, Zenon
    <3> QED
      BY <1>12, <3>2, <3>5, <3>6, <3>7, <3>8, <3>9, Zenon
  <2> QED
    BY <2>2, Zenon DEF Right
<1>13. ASSUME NEW n \in 0..x, Solid(g, n), Reach(w, n)
       PROVE  Right(r, g, n)
  <2>1. n \in 0..top \/ n \in (top + 1)..x
    BY <1>1
  <2>2. CASE n \in 0..top
    BY <1>10, <1>13, <2>2, Zenon
  <2>3. CASE n \in (top + 1)..x
    <3>1. n = x /\ top + 1 = x /\ Solid(h, top)
      BY <1>11, <1>13, <2>3, Zenon
    <3> QED
      BY <1>12, <3>1, Zenon
  <2> QED
    BY Zenon, <2>1, <2>2, <2>3
<1>14. \A k \in Keys : GoodFor(k, get(r, k))
  BY <1>2, Zenon
<1>15. Sound(r, g, x)
  BY <1>2, <1>6, <1>13, <1>14, Zenon DEF Sound
<1> QED
  BY Zenon, <1>15 DEF r, x, g

------------------------------------------------------------------------------
\* No header lies above the head.
IsChain(c) ==
    /\ c = [head_slot |-> c.head_slot, headers |-> c.headers, base_fee |-> c.base_fee]
    /\ c.head_slot \in Nat
    /\ \A s \in DOMAIN c.headers : s \in Nat /\ s <= c.head_slot

\* The headers of the chain a handler leaves when it has applied block b, on
\* top of the headers old.
LEMMA AppliedChain ==
    ASSUME NEW n, NEW b \in Blocks
    PROVE  LET c == process_full_block(n, b).chain IN
           /\ c.head_slot = SlotOf[b]
           /\ c.headers = With(n.chain.headers, SlotOf[b], b)
<1>1. PICK fee : process_full_block(n, b).chain = [advance(n.chain, b) EXCEPT !.base_fee = fee]
  BY Zenon DEF process_full_block
<1> QED
  BY Zenon, <1>1 DEF advance

\* A certified or gossiped block on top of the chain.
LEMMA ForwardSound ==
    ASSUME EvenDepth, NEW n, IsChain(n.chain), Sound(n.state, n.chain.headers, n.chain.head_slot),
           NEW b \in Blocks, SlotOf[b] > n.chain.head_slot
    PROVE  LET m == process_full_block(n, b)
           IN  Sound(m.state, m.chain.headers, m.chain.head_slot)
<1> DEFINE s == n.state
           h == n.chain.headers
           top == n.chain.head_slot
           m == process_full_block(n, b)
<1>1. top \in Nat /\ \A i \in DOMAIN h : i \in Nat /\ i <= top
  BY Zenon DEF IsChain
<1>2. PICK price : m.state = ExecuteBlock(s, b, price)
  BY Zenon DEF process_full_block
<1>3. m.chain.head_slot = SlotOf[b] /\ m.chain.headers = With(h, SlotOf[b], b)
  BY AppliedChain, Zenon
<1>4. /\ IsStore(s) /\ UndoInv(s.undo, top) /\ \A k \in Keys : GoodFor(k, get(s, k))
      /\ \A i \in 0..top : Solid(h, i) /\ Reach(s.undo, i) => Right(s, h, i)
  BY Zenon DEF Sound
<1>5. Len(s.undo) \in Nat /\ (Len(s.undo) > 0 => s.undo[1].slot \in Nat /\ s.undo[1].slot <= top)
  <2>1. Len(s.undo) \in Nat
    BY Zenon, <1>1, <1>4, UndoLength
  <2> QED
    BY Zenon, <1>1, <1>4, <2>1, UndoSlots
<1> HIDE DEF m, s, h, top
<1>6. ASSUME NEW i \in 0..top, Solid(h, i),
             Unpruned \/ (Len(s.undo) > 0 /\ s.undo[1].slot <= i + 1) \/ i = top
      PROVE  Right(s, h, i)
  <2>1. Reach(s.undo, i)
    BY <1>1, <1>5, <1>6 DEF Reach
  <2> QED
    BY Zenon, <1>4, <1>6, <2>1
<1>7. SlotOf[b] > top
  BY Zenon DEF top
<1>8. Sound(ExecuteBlock(s, b, price), With(h, SlotOf[b], b), SlotOf[b])
  BY Zenon, <1>1, <1>4, <1>6, <1>7, ApplyRight
<1> QED
  BY <1>2, <1>3, <1>8, Zenon DEF m

\* What revert_to leaves is right at the slots up to its target.
LEMMA RevertRight ==
    ASSUME EvenDepth, NEW s, DOMAIN s.pending = {}, NEW h, NEW top \in Nat, Sound(s, h, top),
           NEW t \in Nat, t <= top
    PROVE  LET r == revert_to(s, t) IN
           /\ IsStore(r) /\ DOMAIN r.pending = {} /\ UndoInv(r.undo, t)
           /\ \A k \in Keys : GoodFor(k, get(r, k))
           /\ Len(r.undo) > 0 => Len(s.undo) > 0 /\ r.undo[1] = s.undo[1]
           /\ \A n \in 0..t : Solid(h, n) /\ Reach(s.undo, n) => Right(r, h, n)
<1> DEFINE r == revert_to(s, t)
           w == r.undo
<1>1. /\ IsStore(s) /\ UndoInv(s.undo, top) /\ \A k \in Keys : GoodFor(k, get(s, k))
      /\ \A i \in 0..top : Solid(h, i) /\ Reach(s.undo, i) => Right(s, h, i)
  BY Zenon DEF Sound
<1>2. IsStore(r) /\ DOMAIN r.pending = {}
  BY Zenon, <1>1, RevertIs
<1>3. Len(w) = Kept(s, t) /\ (\A i \in 1..Kept(s, t) : w[i] = s.undo[i]) /\ UndoInv(w, t)
  BY Zenon, <1>1, RevertUndo
<1>4. Kept(s, t) \in 0..Len(s.undo)
  BY Zenon, <1>1, KeptIs
<1>5. \A k \in Keys : IsAfter(s, t, k, get(r, k))
  BY Zenon, <1>1, RevertReads
<1> HIDE DEF r
<1>6. \A k \in Keys : GoodFor(k, get(r, k))
  BY Zenon, <1>1, <1>5, AfterGood
<1>7. Len(s.undo) \in Nat
  BY Zenon, <1>1, UndoLength
<1>8. Len(w) > 0 => Len(s.undo) > 0 /\ w[1] = s.undo[1]
  BY <1>3, <1>4, <1>7
<1>9. ASSUME NEW n \in 0..t, Solid(h, n), Reach(s.undo, n)
      PROVE  Right(r, h, n)
  <2>1. n \in Nat /\ n <= t /\ n \in 0..top
    OBVIOUS
  <2>2. Right(s, h, n)
    BY <1>1, <1>9, <2>1, Zenon
  <2>3. \A k \in Keys : \A v : IsAfter(r, n, k, v) => IsAfter(s, n, k, v)
    BY Zenon, <1>1, <2>1, RevertKeepsAfter DEF r
  <2> QED
    BY <2>2, <2>3, Zenon DEF Right
<1> QED
  BY <1>2, <1>3, <1>6, <1>8, <1>9, Zenon DEF r

\* The ledger after a block, at some price.
LEMMA AppliedState ==
    ASSUME NEW n, NEW b
    PROVE  \E price : process_full_block(n, b).state = ExecuteBlock(n.state, b, price)
  BY Zenon DEF process_full_block

\* A reorganisation that goes through.
LEMMA ReorgSound ==
    ASSUME EvenDepth, NEW n, IsChain(n.chain), Sound(n.state, n.chain.headers, n.chain.head_slot),
           DOMAIN n.state.pending = {},
           NEW b \in Blocks, HasHeader(n.chain, SlotOf[b]), CanRevertTo(n.state, pre_slot(b)),
           CanRevert(n.chain, pre_slot(b))
    PROVE  LET m == reorg_to_block(n, b)
           IN  Sound(m.state, m.chain.headers, m.chain.head_slot)
<1> DEFINE s == n.state
           h == n.chain.headers
           top == n.chain.head_slot
           t == pre_slot(b)
           q == [chain |-> revert(n.chain, t), state |-> revert_to(s, t)]
           r == revert_to(s, t)
           g == revert(n.chain, t).headers
           m == reorg_to_block(n, b)
<1>1. top \in Nat /\ \A i \in DOMAIN h : i \in Nat /\ i <= top
  BY Zenon DEF IsChain
<1>2. SlotOf[b] \in Nat /\ t \in Nat /\ t < SlotOf[b] /\ t <= top
  BY <1>1, BlockAssumption DEF HasHeader, pre_slot
<1>3. m = process_full_block(q, b)
  BY Zenon DEF reorg_to_block
<1>4. PICK price : m.state = ExecuteBlock(r, b, price)
  <2>1. q.state = r
    BY Zenon
  <2>2. PICK price : process_full_block(q, b).state = ExecuteBlock(q.state, b, price)
    BY Zenon, AppliedState
  <2> QED
    BY <1>3, <2>1, <2>2, Zenon
<1>5. q.chain.headers = g /\ DOMAIN g = {i \in DOMAIN h : i <= t} /\ \A i \in DOMAIN g : g[i] = h[i]
  <2>1. q.chain = revert(n.chain, t)
    BY Zenon
  <2>2. q.chain.headers = g
    BY <2>1, Zenon
  <2>3. g = [i \in {i \in DOMAIN h : i <= t} |-> h[i]]
    BY Zenon DEF revert
  <2> HIDE DEF g, h, t, q
  <2>4. DOMAIN g = {i \in DOMAIN h : i <= t} /\ \A i \in DOMAIN g : g[i] = h[i]
    BY Zenon, <2>3
  <2> QED
    BY Zenon, <2>2, <2>4
<1>6. m.chain.head_slot = SlotOf[b] /\ m.chain.headers = With(g, SlotOf[b], b)
  <2> HIDE DEF q, g, m
  <2>1. LET c == process_full_block(q, b).chain IN
        c.head_slot = SlotOf[b] /\ c.headers = With(q.chain.headers, SlotOf[b], b)
    BY AppliedChain, Zenon
  <2> QED
    BY <1>3, <1>5, <2>1, Zenon
<1>7. UndoInv(s.undo, top)
  BY Zenon DEF Sound
<1>8. Len(s.undo) \in Nat
  BY Zenon, <1>1, <1>7, UndoLength
<1>9. Len(s.undo) > 0 => s.undo[1].slot <= t + 1
  <2>1. Len(s.undo) > 0 => s.undo # <<>> /\ Head(s.undo) = s.undo[1]
    <3>1. IsSeq(s.undo)
      BY Zenon, <1>7 DEF UndoInv
    <3> HIDE DEF s
    <3> QED
      BY <3>1 DEF IsSeq
  <2> QED
    BY Zenon, <2>1 DEF CanRevertTo
<1> HIDE DEF q, g, m, s, h, top, t
<1>10. /\ DOMAIN s.pending = {} /\ Sound(s, h, top)
  BY Zenon DEF s, h, top
<1>11. /\ IsStore(r) /\ UndoInv(r.undo, t)
       /\ \A k \in Keys : GoodFor(k, get(r, k))
       /\ Len(r.undo) > 0 => Len(s.undo) > 0 /\ r.undo[1] = s.undo[1]
       /\ \A i \in 0..t : Solid(h, i) /\ Reach(s.undo, i) => Right(r, h, i)
  BY Zenon, <1>1, <1>2, <1>10, RevertRight
<1> HIDE DEF r
<1>12. \A i \in DOMAIN g : i \in Nat /\ i <= t
  BY Zenon, <1>1, <1>5
<1>13. ASSUME NEW i \in 0..t, Solid(g, i),
              Unpruned \/ (Len(r.undo) > 0 /\ r.undo[1].slot <= i + 1) \/ i = t
       PROVE  Right(r, g, i)
  <2>1. Solid(h, i) /\ i \in Nat /\ \A j \in 1..i : g[j] = h[j]
    BY SMTT(40), <1>5, <1>13 DEF Solid
  <2>2. Reach(s.undo, i)
    <3>1. CASE i = t
      BY Zenon, <1>2, <1>8, <1>9, <3>1, ReachAt
    <3>2. CASE Len(r.undo) > 0 /\ r.undo[1].slot <= i + 1
      BY Zenon, <1>11, <3>2 DEF Reach
    <3> QED
      BY Zenon, <1>13, <3>1, <3>2 DEF Reach
  <2>3. Right(r, h, i)
    BY <1>11, <2>1, <2>2, Zenon
  <2>4. \A k : Expected(g, i, k) = Expected(h, i, k)
    BY Zenon, <2>1, ExpectedSame
  <2> QED
    BY Zenon, <2>3, <2>4 DEF Right
<1>14. Sound(ExecuteBlock(r, b, price), With(g, SlotOf[b], b), SlotOf[b])
  BY Zenon, <1>2, <1>11, <1>12, <1>13, ApplyRight
<1> QED
  BY <1>4, <1>6, <1>14, Zenon DEF m

\* A reorganisation that stops halfway, at a gap: the chain stays and the
\* ledger is at the slot below the gap or lower.
LEMMA HalfwaySound ==
    ASSUME EvenDepth, Unpruned, NEW n, n = [chain |-> n.chain, state |-> n.state], IsChain(n.chain),
           Sound(n.state, n.chain.headers, n.chain.head_slot), DOMAIN n.state.pending = {},
           NEW b \in Blocks, HasHeader(n.chain, SlotOf[b]), ~CanRevert(n.chain, pre_slot(b))
    PROVE  LET m == reorg_to_block(n, b)
           IN  /\ Sound(m.state, m.chain.headers, m.chain.head_slot)
               /\ DOMAIN m.state.pending = {}
<1> DEFINE s == n.state
           h == n.chain.headers
           top == n.chain.head_slot
           t == pre_slot(b)
           r == revert_to(s, t)
           m == reorg_to_block(n, b)
<1>1. top \in Nat /\ \A i \in DOMAIN h : i \in Nat /\ i <= top
  BY Zenon DEF IsChain
<1>2. t \in Nat /\ t <= top /\ t # 0 /\ t \notin DOMAIN h
  BY <1>1, BlockAssumption DEF HasHeader, pre_slot, CanRevert
<1>3. m.chain = n.chain /\ m.state = r
  BY Zenon DEF reorg_to_block
<1>4. UndoInv(s.undo, top) /\ \A i \in 0..top : Solid(h, i) /\ Reach(s.undo, i) => Right(s, h, i)
  BY Zenon DEF Sound
<1>5. /\ IsStore(r) /\ DOMAIN r.pending = {} /\ UndoInv(r.undo, t)
      /\ \A k \in Keys : GoodFor(k, get(r, k))
      /\ \A i \in 0..t : Solid(h, i) /\ Reach(s.undo, i) => Right(r, h, i)
  BY Zenon, <1>1, <1>2, RevertRight
<1> HIDE DEF r, m, s, h, top, t
<1>6. UndoInv(r.undo, top)
  BY <1>1, <1>2, <1>5 DEF UndoInv
<1>7. ASSUME NEW i \in 0..top, Solid(h, i)
      PROVE  Right(r, h, i)
  <2>1. i \in 0..t
    BY <1>1, <1>2, <1>7 DEF Solid
  <2> QED
    BY Zenon, <1>5, <1>7, <2>1 DEF Reach
<1>8. Sound(r, h, top)
  BY <1>5, <1>6, <1>7, Zenon DEF Sound
<1> QED
  BY <1>3, <1>5, <1>8, Zenon DEF m, h, top
==============================================================================
