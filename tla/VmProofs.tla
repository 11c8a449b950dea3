------------------------------ MODULE VmProofs ------------------------------
(***************************************************************************)
(* The contract VM: however deep the calls of a transaction, whatever the  *)
(* programs and the gas, a VM that fails gives back the balances and, when *)
(* no call inside it succeeded, the storage it found; and nothing is       *)
(* written below a static call.                                            *)
(*                                                                         *)
(* The invariant speaks of every VM on the host stack.  A VM that waits    *)
(* for a child has given its overlay away, so what it saw is kept in the   *)
(* child's before; its journal, applied to that, yields what it started    *)
(* with (JournalCovers).  The balances of the transaction's own VM are     *)
(* those its journal restores; those of a waiting caller are the ones its  *)
(* child started from.                                                     *)
(***************************************************************************)
EXTENDS Pvm, TLAPS

\* The VMs of a stack.
Vms(s) == {s[n] : n \in 1..Len(s)}

\* The fields of a VM.
VmFields == {"kind", "self", "static", "limit", "gas", "refund", "storage", "journal", "balances",
             "balance_journal", "warm", "logs", "contracts", "created", "end", "before",
             "allowed", "plain"}

Overlays == [Keys -> Nat \cup {Absent}]
Journals == [Keys -> Nat \cup {Absent, Unjournaled}]
Balances == [VmAddresses -> Nat]

VmType(f) ==
    /\ DOMAIN f = VmFields
    /\ f.storage \in Overlays /\ f.journal \in Journals
    /\ f.balances \in Balances
    /\ f.balance_journal \in [VmAddresses -> Nat \cup {Unjournaled}]
    /\ f.before.storage \in Overlays /\ f.before.balances \in Balances
    /\ f.static \in BOOLEAN /\ f.plain \in BOOLEAN

\* What SLOAD makes of an entry of the overlay.
Sees(k, v) == IF v = Absent THEN Backend(k) ELSE v

\* What the journal of f makes of the storage seen, key by key, is what f started with.
JournalCovers(f, seen) ==
    \A k \in Keys : f.before.storage[k] = IF f.journal[k] = Unjournaled THEN seen[k]
                                          ELSE Sees(k, f.journal[k])

\* A VM in static mode has an empty journal and sees no value that is new.
WroteNothing(f, seen) ==
    /\ f.journal = [k \in Keys |-> Unjournaled]
    /\ \A k \in Keys : seen[k] \in {f.before.storage[k], Backend(k)}

\* What a VM sees when it runs, or saw when it made the call it waits for.
Seen(s, n) == IF n = Len(s) THEN Visible(s[n].storage) ELSE s[n + 1].before.storage

\* A constructor has an overlay of its own, so its journal is not about its caller's.
OwnInv(f, seen) ==
    /\ f.plain /\ f.kind # "create" => JournalCovers(f, seen)
    /\ f.static => WroteNothing(f, seen)

\* A VM and the one it called.
LinkInv(p, f) ==
    /\ f.before.balances = p.balances
    /\ IF f.kind = "create" THEN f.before.storage = Visible(p.storage) /\ ~p.static
       ELSE p.storage = NoOverlay /\ (p.static => f.static)

\* The VM of the transaction itself.
FirstInv(f) ==
    /\ f.kind # "create"
    /\ RestoredFrom(f.balance_journal, f.balances) = f.before.balances

FramesInv(s) ==
    /\ s \in Seq(Vms(s))
    /\ \A n \in 1..Len(s) : VmType(s[n]) /\ OwnInv(s[n], Seen(s, n))
    /\ \A n \in 1..Len(s) : n > 1 => LinkInv(s[n - 1], s[n])
    /\ Len(s) > 0 => FirstInv(s[1])

\* The inductive invariant.
PvmInv ==
    /\ FramesInv(frames)
    /\ FailedCallKeepsBalances /\ PlainFailureKeepsStorage

------------------------------------------------------------------------------
\* The fields the invariant speaks of are those of f.
Same(f, g) ==
    /\ DOMAIN g = VmFields
    /\ g.kind = f.kind /\ g.static = f.static /\ g.before = f.before /\ g.plain = f.plain
    /\ g.storage = f.storage /\ g.journal = f.journal
    /\ g.balances = f.balances /\ g.balance_journal = f.balance_journal

\* Ending a VM changes no field the invariant speaks of.
LEMMA EndedSame ==
    ASSUME NEW f, DOMAIN f = VmFields, NEW how
    PROVE  Same(f, Ended(f, how)) /\ Ended(f, how).end = how
BY DEF Same, Ended, VmFields

\* Nor does charging gas, which may end it.
LEMMA ChargeSame ==
    ASSUME NEW f, DOMAIN f = VmFields, NEW g
    PROVE  Same(f, Charge(f, g)) /\ Charge(f, g).created = f.created
<1> DEFINE paid == [f EXCEPT !.gas = @ + g]
<1>1. Same(f, paid)
  BY DEF Same, VmFields
<1>2. Same(f, Ended(paid, "out_of_gas"))
  BY DEF Same, VmFields, Ended
<1>3. Charge(f, g) = paid \/ Charge(f, g) = Ended(paid, "out_of_gas")
  BY DEF Charge
<1>4. paid.created = f.created /\ Ended(paid, "out_of_gas").created = f.created
  BY DEF Ended, VmFields
<1> QED
  BY <1>1, <1>2, <1>3, <1>4

\* Same is transitive.
LEMMA SameTrans ==
    ASSUME NEW f, NEW g, NEW h, Same(f, g), Same(g, h)
    PROVE  Same(f, h)
BY DEF Same

\* Nor does the surcharge of a cold key.
LEMMA TouchSame ==
    ASSUME NEW f, DOMAIN f = VmFields, NEW k
    PROVE  Same(f, Touch(f, k))
<1> DEFINE t == [f EXCEPT !.warm = @ \cup {k}]
<1>1. Same(f, t) /\ DOMAIN t = VmFields
  BY DEF Same, VmFields
<1>2. Same(f, f)
  BY DEF Same
<1> HIDE DEF t
<1>3. Same(t, Charge(t, COLD_GAS))
  BY <1>1, ChargeSame
<1>4. Same(f, Charge(t, COLD_GAS))
  BY <1>1, <1>3, SameTrans
<1> QED
  BY <1>2, <1>4 DEF Touch, t

\* Nor does the strict access list.
LEMMA ListedSame ==
    ASSUME NEW f, DOMAIN f = VmFields, NEW k
    PROVE  Same(f, Listed(f, k))
BY TouchSame, EndedSame DEF Listed

\* Base gas changes nothing else, and a static VM that goes on does not change state.
LEMMA StartedSame ==
    ASSUME NEW f, DOMAIN f = VmFields, NEW i
    PROVE  /\ Same(f, Started(f, i))
           /\ Alive(Started(f, i)) /\ f.static => i.op \notin StateOps
<1> DEFINE t == Charge(f, IF i.op = "sstore" THEN SSTORE_GAS ELSE OTHER_GAS)
<1>1. Same(f, t) /\ DOMAIN t = VmFields
  BY ChargeSame DEF Same
<1> HIDE DEF t
<1>2. Same(f, Ended(t, "trap")) /\ Ended(t, "trap").end = "trap"
  BY <1>1, EndedSame, SameTrans
<1>3. Started(f, i) = IF Alive(t) /\ f.static /\ (i.op \in StateOps \/ (i.op = "call" /\ ~i.static))
                      THEN Ended(t, "trap") ELSE t
  BY DEF Started, t
<1>4. ~Alive(Ended(t, "trap"))
  BY <1>2 DEF Alive
<1> QED
  BY <1>1, <1>2, <1>3, <1>4

------------------------------------------------------------------------------
\* g may stand for p on the stack, when it sees the storage seen.
Stands(p, g, seen) ==
    /\ VmType(g) /\ OwnInv(g, seen)
    /\ g.kind = p.kind /\ g.static = p.static /\ g.before = p.before
    /\ FirstInv(p) => FirstInv(g)

\* f is well formed and keeps its own part of the invariant.
Intact(f, seen) == VmType(f) /\ OwnInv(f, seen)

\* A VM with the same fields stands for f.
LEMMA SameStands ==
    ASSUME NEW f, NEW g, NEW seen, Intact(f, seen), Same(f, g)
    PROVE  Stands(f, g, seen)
<1>1. VmType(g)
  BY DEF Intact, VmType, Same
<1>2. OwnInv(g, seen)
  BY DEF Intact, OwnInv, JournalCovers, WroteNothing, Same
<1>3. FirstInv(f) => FirstInv(g)
  BY DEF FirstInv, Same
<1> QED
  BY <1>1, <1>2, <1>3 DEF Stands, Same

\* Stands is transitive; the last view counts.
LEMMA StandsTrans ==
    ASSUME NEW f, NEW g, NEW h, NEW s1, NEW s2, Stands(f, g, s1), Stands(g, h, s2)
    PROVE  Stands(f, h, s2)
BY DEF Stands

\* A load puts into the overlay what it sees already.
LEMMA SloadStands ==
    ASSUME NEW f, Intact(f, Visible(f.storage)), NEW k
    PROVE  Stands(f, Sload(f, k), Visible(Sload(f, k).storage))
<1> DEFINE t == Listed(f, k)
           g == [t EXCEPT !.storage[k] = Visible(t.storage)[k]]
<1>1. Same(f, t)
  BY ListedSame DEF Intact, VmType
<1>2. Stands(f, t, Visible(f.storage)) /\ t.storage = f.storage
  BY <1>1, SameStands DEF Same
<1> HIDE DEF t
<1>3. DOMAIN t = VmFields /\ t.storage \in Overlays
  BY <1>2 DEF Stands, VmType
<1>4. /\ DOMAIN g = VmFields /\ g.kind = t.kind /\ g.static = t.static /\ g.before = t.before
      /\ g.plain = t.plain /\ g.journal = t.journal /\ g.balances = t.balances
      /\ g.balance_journal = t.balance_journal
      /\ g.storage = [t.storage EXCEPT ![k] = Visible(t.storage)[k]]
  BY <1>3 DEF VmFields
<1> HIDE DEF g
<1>5. g.storage \in Overlays
  <2>1. Visible(t.storage) \in Overlays
    BY <1>3, PvmAssumption DEF Overlays, Visible
  <2> QED
    BY <1>3, <1>4, <2>1 DEF Overlays
<1>6. Visible(g.storage) = Visible(t.storage)
  BY <1>3, <1>4 DEF Visible, Overlays
<1>7. VmType(g)
  BY <1>2, <1>4, <1>5 DEF Stands, VmType
<1>8. OwnInv(g, Visible(g.storage))
  BY <1>2, <1>4, <1>6 DEF Stands, OwnInv, JournalCovers, WroteNothing
<1>9. FirstInv(t) => FirstInv(g)
  BY <1>4 DEF FirstInv
<1>10. Stands(t, g, Visible(g.storage))
  BY <1>4, <1>7, <1>8, <1>9 DEF Stands
<1>11. Stands(f, g, Visible(g.storage))
  BY <1>2, <1>10, StandsTrans
<1>12. Sload(f, k) = IF Alive(t) THEN g ELSE t
  BY DEF Sload, t, g
<1> QED
  BY <1>2, <1>11, <1>12

\* A write of v to k, whatever else it does, is journaled.
Wrote(t, g, k, v) ==
    /\ DOMAIN g = VmFields /\ g.kind = t.kind /\ g.static = t.static /\ g.before = t.before
    /\ g.plain = t.plain /\ g.balances = t.balances /\ g.balance_journal = t.balance_journal
    /\ g.storage = [t.storage EXCEPT ![k] = v]
    /\ g.journal = [t.journal EXCEPT ![k] = IF @ = Unjournaled THEN t.storage[k] ELSE @]

\* The first write of a key is journaled with its old value, so the journal still covers.
LEMMA WroteStands ==
    ASSUME NEW t, NEW g, NEW k, NEW v \in Nat, Intact(t, Visible(t.storage)), ~t.static,
           Wrote(t, g, k, v)
    PROVE  Stands(t, g, Visible(g.storage))
<1>1. t.storage \in Overlays /\ t.journal \in Journals /\ t.before.storage \in Overlays
  BY DEF Intact, VmType
<1>2. g.storage = [t.storage EXCEPT ![k] = v]
      /\ g.journal = [t.journal EXCEPT ![k] = IF @ = Unjournaled THEN t.storage[k] ELSE @]
  BY DEF Wrote
<1>3. g.storage \in Overlays /\ g.journal \in Journals
  <2>1. g.storage \in Overlays
    BY <1>1, <1>2 DEF Overlays
  <2> DEFINE old == IF t.journal[k] = Unjournaled THEN t.storage[k] ELSE t.journal[k]
  <2>2. k \in Keys => old \in Nat \cup {Absent, Unjournaled}
    BY <1>1 DEF Overlays, Journals
  <2>3. g.journal = [t.journal EXCEPT ![k] = old]
    BY <1>2
  <2> HIDE DEF old
  <2>4. g.journal \in Journals
    BY <1>1, <2>2, <2>3 DEF Journals
  <2> QED
    BY <2>1, <2>4
<1>4. VmType(g)
  BY <1>3 DEF VmType, Wrote, Intact
<1>5. ASSUME JournalCovers(t, Visible(t.storage))
      PROVE  JournalCovers(g, Visible(g.storage))
  <2> SUFFICES ASSUME NEW j \in Keys
               PROVE  g.before.storage[j] = IF g.journal[j] = Unjournaled THEN Visible(g.storage)[j]
                                            ELSE Sees(j, g.journal[j])
    BY DEF JournalCovers
  <2>1. g.before = t.before
    BY DEF Wrote
  <2>2. t.before.storage[j] = IF t.journal[j] = Unjournaled THEN Visible(t.storage)[j]
                                            ELSE Sees(j, t.journal[j])
    BY <1>5 DEF JournalCovers
  <2>3. CASE j # k
    <3>1. g.storage[j] = t.storage[j] /\ g.journal[j] = t.journal[j]
      BY <1>1, <1>2, <2>3 DEF Overlays, Journals
    <3> QED
      BY <2>1, <2>2, <3>1 DEF Visible
  <2>4. CASE j = k
    <3>1. g.journal[j] = IF t.journal[j] = Unjournaled THEN t.storage[j] ELSE t.journal[j]
      BY <1>1, <1>2, <2>4 DEF Overlays, Journals
    <3>2. t.storage[j] # Unjournaled
      BY <1>1 DEF Overlays, Absent, Unjournaled
    <3>3. Visible(t.storage)[j] = Sees(j, t.storage[j])
      BY DEF Visible, Sees
    <3> QED
      BY <2>1, <2>2, <3>1, <3>2, <3>3
  <2> QED
    BY <2>3, <2>4
<1>6. OwnInv(g, Visible(g.storage))
  BY <1>5 DEF OwnInv, Intact, Wrote
<1>7. FirstInv(t) => FirstInv(g)
  BY DEF FirstInv, Wrote
<1> QED
  BY <1>4, <1>6, <1>7 DEF Stands, Wrote

\* SSTORE outside static mode.
LEMMA SstoreStands ==
    ASSUME NEW f, Intact(f, Visible(f.storage)), ~f.static, NEW k, NEW v \in Nat
    PROVE  Stands(f, Sstore(f, k, v), Visible(Sstore(f, k, v).storage))
<1> DEFINE t == Listed(f, k)
           g == [journal_storage_write(t, k) EXCEPT !.storage[k] = v]
<1>1. Same(f, t)
  BY ListedSame DEF Intact, VmType
<1> HIDE DEF t
<1>2. Stands(f, t, Visible(f.storage)) /\ t.storage = f.storage /\ ~t.static
  BY <1>1, SameStands DEF Same
<1>3. DOMAIN t = VmFields /\ Intact(t, Visible(t.storage))
  BY <1>2 DEF Stands, Intact, VmType
<1>4. Wrote(t, g, k, v)
  BY <1>3 DEF VmFields, Wrote, journal_storage_write
<1> HIDE DEF g
<1>5. Stands(t, g, Visible(g.storage))
  BY <1>2, <1>3, <1>4, WroteStands
<1>6. Stands(f, g, Visible(g.storage))
  BY <1>2, <1>5, StandsTrans
<1>7. Sstore(f, k, v) = IF Alive(t) THEN g ELSE t
  BY DEF Sstore, t, g
<1> QED
  BY <1>2, <1>6, <1>7

\* SDELETE outside static mode.
LEMMA SdeleteStands ==
    ASSUME NEW f, Intact(f, Visible(f.storage)), ~f.static, NEW k
    PROVE  Stands(f, Sdelete(f, k), Visible(Sdelete(f, k).storage))
<1> DEFINE t == Touch(f, k)
           g == [journal_storage_write(t, k) EXCEPT
                   !.storage[k] = Cleared,
                   !.refund = @ + IF t.storage[k] \notin {Absent, Cleared}
                                  THEN SDELETE_REFUND ELSE 0]
<1>1. Same(f, t)
  BY TouchSame DEF Intact, VmType
<1> HIDE DEF t
<1>2. Stands(f, t, Visible(f.storage)) /\ t.storage = f.storage /\ ~t.static
  BY <1>1, SameStands DEF Same
<1>3. DOMAIN t = VmFields /\ Intact(t, Visible(t.storage))
  BY <1>2 DEF Stands, Intact, VmType
<1>4. Wrote(t, g, k, Cleared)
  BY <1>3 DEF VmFields, Wrote, journal_storage_write
<1> HIDE DEF g
<1>5. Stands(t, g, Visible(g.storage))
  BY <1>2, <1>3, <1>4, WroteStands DEF Cleared
<1>6. Stands(f, g, Visible(g.storage))
  BY <1>2, <1>5, StandsTrans
<1>7. Sdelete(f, k) = IF ~Alive(t) THEN t ELSE g
  BY DEF Sdelete, t, g
<1> QED
  BY <1>2, <1>6, <1>7

\* The instructions that stay in the VM.
LEMMA InFrameStands ==
    ASSUME NEW f, Intact(f, Visible(f.storage)), NEW i \in Program,
           i.op \notin {"call", "delegate", "create"}, f.static => i.op \notin StateOps
    PROVE  Stands(f, InFrame(f, i), Visible(InFrame(f, i).storage))
<1> DEFINE g == InFrame(f, i)
<1>1. CASE i.op = "sload"
  <2>1. g = Sload(f, <<f.self, i.slot>>)
    BY <1>1 DEF InFrame
  <2> QED
    BY <2>1, SloadStands
<1>2. CASE i.op = "sstore"
  <2>1. g = Sstore(f, <<f.self, i.slot>>, i.value)
    BY <1>2 DEF InFrame
  <2>2. i.value \in Nat /\ ~f.static
    BY <1>2, PvmAssumption DEF StateOps
  <2> QED
    BY <2>1, <2>2, SstoreStands
<1>3. CASE i.op = "sdelete"
  <2>1. g = Sdelete(f, <<f.self, i.slot>>)
    BY <1>3 DEF InFrame
  <2>2. ~f.static
    BY <1>3 DEF StateOps
  <2> QED
    BY <2>1, <2>2, SdeleteStands
<1>4. CASE i.op = "log"
  <2>1. g = [f EXCEPT !.logs = Append(@, f.self)]
    BY <1>4 DEF InFrame
  <2>2. Same(f, g)
    BY <2>1 DEF Same, Intact, VmType, VmFields
  <2> QED
    BY <2>2, SameStands DEF Same
<1>5. CASE i.op \in {"halt", "revert", "trap"}
  <2>1. \E how : g = Ended(f, how)
    BY <1>5 DEF InFrame
  <2>2. Same(f, g)
    BY <2>1, EndedSame DEF Intact, VmType
  <2> QED
    BY <2>2, SameStands DEF Same
<1>6. i.op \in {"sload", "sstore", "sdelete", "log", "halt", "revert", "trap"}
  BY PvmAssumption
<1> QED
  BY <1>1, <1>2, <1>3, <1>4, <1>5, <1>6

------------------------------------------------------------------------------
\* The stack t is s up to its m-th VM, which g replaces, and perhaps a child of g.
Restacked(s, t, m, g) ==
    /\ t \in Seq(Vms(t)) /\ m \in 1..Len(s) /\ Len(t) \in {m, m + 1}
    /\ \A n \in 1..Len(t) : n < m => t[n] = s[n]
    /\ t[m] = g
    /\ Stands(s[m], g, Seen(t, m))
    /\ Len(t) = m + 1 => Intact(t[m + 1], Visible(t[m + 1].storage)) /\ LinkInv(g, t[m + 1])

\* Such a stack keeps the invariant.
LEMMA StackKeeps ==
    ASSUME NEW s, NEW t, NEW m, NEW g, FramesInv(s), Restacked(s, t, m, g)
    PROVE  FramesInv(t)
<1>1. s \in Seq(Vms(s)) /\ Len(s) \in Nat /\ t \in Seq(Vms(t)) /\ Len(t) \in Nat
  <2>1. s \in Seq(Vms(s)) /\ t \in Seq(Vms(t))
    BY Zenon DEF FramesInv, Restacked
  <2> QED
    BY <2>1
<1>2. m \in 1..Len(s) /\ Len(t) \in {m, m + 1} /\ m \in 1..Len(t) /\ m \in Nat
  BY <1>1 DEF Restacked
<1>3. ASSUME NEW n \in 1..Len(t), n < m
      PROVE  n \in 1..Len(s) /\ t[n] = s[n] /\ n < Len(t) /\ n < Len(s)
  BY <1>1, <1>2, <1>3 DEF Restacked
<1>4. /\ t[m] = g /\ VmType(g) /\ OwnInv(g, Seen(t, m))
      /\ g.kind = s[m].kind /\ g.static = s[m].static /\ g.before = s[m].before
      /\ FirstInv(s[m]) => FirstInv(g)
  BY Zenon DEF Restacked, Stands
<1>5. /\ \A n \in 1..Len(s) : VmType(s[n]) /\ OwnInv(s[n], Seen(s, n))
      /\ \A n \in 1..Len(s) : n > 1 => LinkInv(s[n - 1], s[n])
      /\ Len(s) > 0 => FirstInv(s[1])
  BY Zenon DEF FramesInv
<1>6. ASSUME NEW n \in 1..Len(t) PROVE VmType(t[n]) /\ OwnInv(t[n], Seen(t, n))
  <2>1. CASE n < m
    <3>1. n \in 1..Len(s) /\ t[n] = s[n] /\ n # Len(t) /\ n # Len(s)
      BY <1>1, <1>3, <2>1
    <3>2. Seen(t, n) = t[n + 1].before.storage /\ Seen(s, n) = s[n + 1].before.storage
      BY Zenon, <3>1 DEF Seen
    <3>3. t[n + 1].before = s[n + 1].before
      <4>1. CASE n + 1 = m
        BY <1>4, <4>1, Zenon
      <4>2. CASE n + 1 # m
        <5>1. n + 1 \in 1..Len(t) /\ n + 1 < m
          BY <1>2, <2>1, <4>2
        <5> QED
          BY <5>1, <1>3, Zenon
      <4> QED
        BY <4>1, <4>2
    <3> QED
      BY <1>5, <3>1, <3>2, <3>3, Zenon
  <2>2. CASE n = m
    BY <1>4, <2>2, Zenon
  <2>3. CASE n > m
    <3>1. n = m + 1 /\ Len(t) = m + 1
      BY <1>2, <2>3
    <3>2. Intact(t[n], Visible(t[n].storage)) /\ Seen(t, n) = Visible(t[n].storage)
      BY <3>1, Zenon DEF Restacked, Seen
    <3> QED
      BY <3>2, Zenon DEF Intact
  <2> QED
    BY <1>2, <2>1, <2>2, <2>3
<1>7. ASSUME NEW n \in 1..Len(t), n > 1 PROVE LinkInv(t[n - 1], t[n])
  <2>1. CASE n < m
    <3>1. n - 1 \in 1..Len(t) /\ n - 1 < m
      BY <1>2, <1>7, <2>1
    <3>2. t[n - 1] = s[n - 1] /\ t[n] = s[n] /\ n \in 1..Len(s)
      BY <1>3, <3>1, <2>1, Zenon
    <3> QED
      BY <1>5, <1>7, <3>2, Zenon
  <2>2. CASE n = m
    <3>1. n - 1 \in 1..Len(t) /\ n - 1 < m
      BY <1>2, <1>7, <2>2
    <3>2. t[n - 1] = s[n - 1] /\ t[n] = g /\ m \in 1..Len(s)
      BY <1>2, <1>3, <1>4, <3>1, <2>2, Zenon
    <3>3. LinkInv(s[m - 1], s[m])
      BY <1>2, <1>5, <1>7, <2>2, Zenon
    <3>4. LinkInv(s[m - 1], g)
      BY <1>4, <3>3 DEF LinkInv
    <3> QED
      BY <3>2, <3>4, <2>2
  <2>3. CASE n > m
    <3>1. n = m + 1 /\ Len(t) = m + 1 /\ n - 1 = m
      BY <1>2, <2>3
    <3> QED
      BY <3>1, Zenon DEF Restacked
  <2> QED
    BY <1>2, <2>1, <2>2, <2>3
<1>8. FirstInv(t[1])
  <2>1. FirstInv(s[1])
    BY <1>1, <1>2, <1>5
  <2>2. CASE m = 1
    BY <1>4, <2>1, <2>2, Zenon
  <2>3. CASE m # 1
    <3>1. 1 \in 1..Len(t) /\ 1 < m
      BY <1>2, <2>3
    <3> QED
      BY <3>1, <1>3, <2>1, Zenon
  <2> QED
    BY <2>2, <2>3
<1> QED
  BY <1>1, <1>6, <1>7, <1>8, Zenon DEF FramesInv

\* A sequence over some set is one over its own elements.
LEMMA OwnElements ==
    ASSUME NEW S, NEW t \in Seq(S)
    PROVE  t \in Seq(Vms(t))
<1>1. Len(t) \in Nat /\ DOMAIN t = 1..Len(t) /\ t = [n \in 1..Len(t) |-> t[n]]
  OBVIOUS
<1>2. \A n \in 1..Len(t) : t[n] \in Vms(t)
  BY <1>1 DEF Vms
<1>3. t \in [1..Len(t) -> Vms(t)]
  BY <1>1, <1>2
<1> QED
  BY <1>1, <1>3

\* The running VM goes on.
LEMMA ReplaceKeeps ==
    ASSUME NEW s, NEW g, FramesInv(s), Len(s) > 0, Stands(s[Len(s)], g, Visible(g.storage))
    PROVE  FramesInv([s EXCEPT ![Len(s)] = g])
<1> DEFINE t == [s EXCEPT ![Len(s)] = g]
           S == Vms(s) \cup {g}
<1>1. s \in Seq(Vms(s)) /\ Len(s) \in Nat /\ Len(s) \in 1..Len(s)
  BY DEF FramesInv
<1>2. s \in Seq(S)
  BY <1>1
<1>3. t \in Seq(S) /\ Len(t) = Len(s) /\ t[Len(s)] = g /\ \A n \in 1..Len(t) : n < Len(s) => t[n] = s[n]
  BY <1>1, <1>2
<1> HIDE DEF t, S
<1>4. t \in Seq(Vms(t))
  BY <1>3, OwnElements
<1>5. Seen(t, Len(s)) = Visible(g.storage)
  BY <1>3 DEF Seen
<1>6. Len(t) # Len(s) + 1
  BY <1>1, <1>3
<1>7. Restacked(s, t, Len(s), g)
  BY <1>1, <1>3, <1>4, <1>5, <1>6, Zenon DEF Restacked
<1>8. FramesInv(t)
  BY <1>7, StackKeeps, Zenon
<1> QED
  BY <1>8 DEF t

\* The running VM calls another.
LEMMA PushKeeps ==
    ASSUME NEW s, NEW g, NEW c, FramesInv(s), Len(s) > 0,
           Stands(s[Len(s)], g, c.before.storage),
           Intact(c, Visible(c.storage)), LinkInv(g, c)
    PROVE  FramesInv([s EXCEPT ![Len(s)] = g] \o <<c>>)
<1> DEFINE t == [s EXCEPT ![Len(s)] = g] \o <<c>>
           S == Vms(s) \cup {g, c}
<1>1. s \in Seq(Vms(s)) /\ Len(s) \in Nat /\ Len(s) \in 1..Len(s)
  BY DEF FramesInv
<1>2. s \in Seq(S)
  BY <1>1
<1>3. t \in Seq(S) /\ Len(t) = Len(s) + 1 /\ t[Len(s)] = g /\ t[Len(s) + 1] = c
      /\ \A n \in 1..Len(t) : n < Len(s) => t[n] = s[n]
  <2> DEFINE r == [s EXCEPT ![Len(s)] = g]
  <2>1. r \in Seq(S) /\ Len(r) = Len(s) /\ r[Len(s)] = g /\ \A n \in 1..Len(r) : n < Len(s) => r[n] = s[n]
    BY <1>1, <1>2
  <2> HIDE DEF r
  <2>2. <<c>> \in Seq(S) /\ Len(<<c>>) = 1 /\ <<c>>[1] = c
    BY DEF S
  <2>3. t = r \o <<c>>
    BY DEF r
  <2> HIDE DEF t, S
  <2>4. t \in Seq(S) /\ Len(t) = Len(s) + 1
    BY <1>1, <2>1, <2>2, <2>3
  <2>5. \A n \in 1..Len(t) : t[n] = IF n <= Len(s) THEN r[n] ELSE c
    BY <1>1, <2>1, <2>2, <2>3, <2>4
  <2> QED
    BY <1>1, <2>1, <2>4, <2>5
<1> HIDE DEF t, S
<1>4. t \in Seq(Vms(t))
  BY <1>3, OwnElements
<1>5. Seen(t, Len(s)) = c.before.storage
  <2>1. Len(s) # Len(t)
    BY <1>1, <1>3
  <2> QED
    BY <1>3, <2>1, Zenon DEF Seen
<1>6. Restacked(s, t, Len(s), g)
  <2>1. Len(t) \in {Len(s), Len(s) + 1}
    BY <1>3, Zenon
  <2> QED
    BY <1>1, <1>3, <1>4, <1>5, <2>1, Zenon DEF Restacked
<1>7. FramesInv(t)
  BY <1>6, StackKeeps, Zenon
<1> QED
  BY <1>7 DEF t

\* The running VM ends, and its caller goes on.
LEMMA PopKeeps ==
    ASSUME NEW s, NEW g, FramesInv(s), Len(s) > 1,
           Stands(s[Len(s) - 1], g, Visible(g.storage))
    PROVE  FramesInv(Append(SubSeq(s, 1, Len(s) - 2), g))
<1> DEFINE m == Len(s) - 1
           r == SubSeq(s, 1, Len(s) - 2)
           t == Append(r, g)
           S == Vms(s) \cup {g}
<1>1. s \in Seq(Vms(s)) /\ Len(s) \in Nat /\ m \in 1..Len(s)
  BY DEF FramesInv
<1>2. s \in Seq(S) /\ g \in S
  BY <1>1
<1> HIDE DEF S
<1>3. r \in Seq(S) /\ Len(r) = Len(s) - 2 /\ \A n \in 1..Len(r) : r[n] = s[n]
  <2>1. Len(s) - 2 \in 0..Len(s) /\ 1 \in 1..(Len(s) + 1) /\ 1 - 1 = 0
    BY <1>1
  <2>2. /\ r \in Seq(S)
        /\ Len(r) = IF 1 <= Len(s) - 2 THEN Len(s) - 2 - 1 + 1 ELSE 0
        /\ \A n \in 1..(Len(s) - 2 - 1 + 1) : r[n] = s[1 + n - 1]
    BY <1>2, <2>1
  <2> HIDE DEF r
  <2>3. Len(r) = Len(s) - 2 /\ Len(s) - 2 - 1 + 1 = Len(s) - 2
    <3>1. PICK l \in Nat : l = Len(s) /\ l > 1
      BY <1>1
    <3>2. Len(r) = IF 1 <= l - 2 THEN l - 2 - 1 + 1 ELSE 0
      BY <2>2, <3>1
    <3>3. Len(r) = l - 2 /\ l - 2 - 1 + 1 = l - 2
      BY <3>1, <3>2
    <3> QED
      BY <3>1, <3>3
  <2>4. ASSUME NEW n \in 1..Len(r) PROVE r[n] = s[n]
    <3>1. n \in 1..(Len(s) - 2 - 1 + 1) /\ 1 + n - 1 = n
      BY <1>1, <2>3
    <3> QED
      BY <2>2, <3>1
  <2> QED
    BY <2>2, <2>3, <2>4
<1> HIDE DEF r
<1>4. t \in Seq(S) /\ Len(t) = m /\ t[m] = g /\ \A n \in 1..Len(t) : n < m => t[n] = s[n]
  <2>1. t \in Seq(S) /\ Len(t) = Len(r) + 1 /\ t[Len(r) + 1] = g
        /\ \A n \in 1..Len(r) : t[n] = r[n]
    BY <1>2, <1>3
  <2> HIDE DEF t
  <2> QED
    BY <1>1, <1>3, <2>1
<1> HIDE DEF t
<1>5. t \in Seq(Vms(t))
  BY <1>4, OwnElements
<1>6. Seen(t, m) = Visible(g.storage) /\ Len(t) # m + 1
  <2>1. Len(t) = m /\ t[m] = g /\ m \in Int
    BY <1>1, <1>4
  <2> HIDE DEF m
  <2>2. Seen(t, m) = Visible(g.storage)
    BY <2>1, Zenon DEF Seen
  <2> QED
    BY <2>1, <2>2
<1>7. Restacked(s, t, m, g)
  <2>1. Len(t) \in {m, m + 1}
    BY <1>4, Zenon
  <2>2. Stands(s[m], g, Seen(t, m))
    BY <1>6
  <2> HIDE DEF m
  <2> QED
    BY <1>1, <1>4, <1>5, <1>6, <2>1, <2>2, Zenon DEF Restacked
<1>8. FramesInv(t)
  BY <1>7, StackKeeps, Zenon
<1> QED
  BY <1>8 DEF t, r

------------------------------------------------------------------------------
\* A transfer that is covered keeps balances natural.
LEMMA MovedType ==
    ASSUME NEW b \in Balances, NEW from, NEW to, NEW value \in Nat, ~(b[from] < value)
    PROVE  Moved(b, from, to, value) \in Balances
<1> DEFINE d == [b EXCEPT ![from] = @ - value]
<1>1. ASSUME NEW c \in Balances, NEW a, NEW x, a \in VmAddresses => x \in Nat
      PROVE  [c EXCEPT ![a] = x] \in Balances
  BY <1>1 DEF Balances
<1>2. from \in VmAddresses => b[from] - value \in Nat
  <2>1. from \in VmAddresses => b[from] \in Nat
    BY DEF Balances
  <2> QED
    BY <2>1
<1>3. d \in Balances
  BY <1>1, <1>2, Zenon
<1> HIDE DEF d
<1>4. to \in VmAddresses => d[to] + value \in Nat
  <2>1. to \in VmAddresses => d[to] \in Nat
    BY <1>3 DEF Balances
  <2> QED
    BY <2>1
<1>5. [d EXCEPT ![to] = @ + value] \in Balances
  BY <1>1, <1>3, <1>4, Zenon
<1> QED
  BY <1>5 DEF Moved, d

\* What an overlay shows is an overlay.
LEMMA VisibleType ==
    ASSUME NEW o \in Overlays
    PROVE  Visible(o) \in Overlays
BY PvmAssumption DEF Overlays, Visible

\* The empty overlay is one.
LEMMA NoOverlayType == NoOverlay \in Overlays
BY DEF NoOverlay, Overlays

\* The child of do_ext_call and do_create.
Child(kind, self, static, limit, b, warm, o, contracts, seen, mine) ==
    [NewVm(kind, self, static, limit, b, warm, o) EXCEPT
       !.contracts = contracts, !.before = [storage |-> seen, balances |-> mine]]

ChildReady(kind, static, b, o, seen, mine) ==
    /\ static \in BOOLEAN /\ b \in Balances /\ o \in Overlays
    /\ seen \in Overlays /\ mine \in Balances
    /\ (kind = "create" /\ ~static) \/ Visible(o) = seen

ChildStarts(c, kind, static, seen, mine) ==
    /\ Intact(c, Visible(c.storage))
    /\ c.kind = kind /\ c.static = static
    /\ c.before = [storage |-> seen, balances |-> mine]

\* A child starts intact.
LEMMA ChildIntact ==
    ASSUME NEW kind, NEW self, NEW static, NEW limit, NEW b, NEW warm, NEW o, NEW contracts,
           NEW seen, NEW mine, ChildReady(kind, static, b, o, seen, mine)
    PROVE  ChildStarts(Child(kind, self, static, limit, b, warm, o, contracts, seen, mine),
                       kind, static, seen, mine)
<1> USE DEF ChildReady
<1> DEFINE c == Child(kind, self, static, limit, b, warm, o, contracts, seen, mine)
<1>1. /\ DOMAIN c = VmFields
      /\ c.kind = kind /\ c.static = static /\ c.plain = TRUE
      /\ c.before = [storage |-> seen, balances |-> mine]
      /\ c.storage = o /\ c.journal = [k \in Keys |-> Unjournaled]
      /\ c.balances = b /\ c.balance_journal = [a \in VmAddresses |-> Unjournaled]
  BY DEF Child, NewVm, VmFields
<1> HIDE DEF c
<1>2. c.before.storage = seen /\ c.before.balances = mine
  BY <1>1
<1>3. c.journal \in Journals /\ c.balance_journal \in [VmAddresses -> Nat \cup {Unjournaled}]
  BY <1>1 DEF Journals
<1>4. VmType(c)
  BY <1>1, <1>2, <1>3 DEF VmType
<1>5. OwnInv(c, Visible(c.storage))
  BY <1>1, <1>2 DEF OwnInv, JournalCovers, WroteNothing
<1> QED
  BY <1>1, <1>4, <1>5 DEF Intact, c, ChildStarts

\* Merged balances are journaled.
LEMMA MergedStands ==
    ASSUME NEW p, NEW seen, Intact(p, seen), NEW b \in Balances
    PROVE  /\ Stands(p, MergedBalances(p, b), seen)
           /\ MergedBalances(p, b).storage = p.storage
<1> DEFINE g == MergedBalances(p, b)
           j == [a \in VmAddresses |->
                   IF b[a] # p.balances[a] /\ p.balance_journal[a] = Unjournaled
                   THEN p.balances[a] ELSE p.balance_journal[a]]
<1>1. /\ DOMAIN g = VmFields /\ g.kind = p.kind /\ g.static = p.static /\ g.before = p.before
      /\ g.plain = p.plain /\ g.storage = p.storage /\ g.journal = p.journal
      /\ g.balances = b /\ g.balance_journal = j
  BY DEF MergedBalances, VmFields, Intact, VmType
<1>2. p.balances \in Balances /\ p.balance_journal \in [VmAddresses -> Nat \cup {Unjournaled}]
  BY DEF Intact, VmType
<1>3. j \in [VmAddresses -> Nat \cup {Unjournaled}]
  BY <1>2 DEF Balances
<1> HIDE DEF g
<1>4. VmType(g)
  BY <1>1, <1>3 DEF Intact, VmType
<1>5. OwnInv(g, seen)
  BY <1>1 DEF Intact, OwnInv, JournalCovers, WroteNothing
<1>6. RestoredFrom(j, b) = RestoredFrom(p.balance_journal, p.balances)
  <2>1. ASSUME NEW a \in VmAddresses
        PROVE  (IF j[a] = Unjournaled THEN b[a] ELSE j[a])
               = (IF p.balance_journal[a] = Unjournaled THEN p.balances[a] ELSE p.balance_journal[a])
    <3>1. p.balances[a] # Unjournaled
      BY <1>2 DEF Balances, Unjournaled
    <3>2. j[a] = IF b[a] # p.balances[a] /\ p.balance_journal[a] = Unjournaled
                 THEN p.balances[a] ELSE p.balance_journal[a]
      OBVIOUS
    <3> QED
      BY <3>1, <3>2
  <2>2. DOMAIN b = VmAddresses /\ DOMAIN p.balances = VmAddresses
    BY <1>2 DEF Balances
  <2> HIDE DEF j
  <2> QED
    BY <2>1, <2>2 DEF RestoredFrom
<1>7. FirstInv(p) => FirstInv(g)
  BY <1>1, <1>6 DEF FirstInv
<1> QED
  BY <1>1, <1>4, <1>5, <1>7 DEF Stands, g

\* The end of do_create: merged balances, gas of the code, the code.
LEMMA DeployStands ==
    ASSUME NEW p, NEW seen, Intact(p, seen), NEW b \in Balances, NEW address
    PROVE  /\ Stands(p, Deploy(p, address, b), seen)
           /\ Deploy(p, address, b).storage = p.storage
<1> DEFINE m == MergedBalances(p, b)
           t == Charge(m, CODE_GAS)
           g == [t EXCEPT !.contracts = @ \cup {address}]
<1>1. Stands(p, m, seen) /\ m.storage = p.storage
  BY MergedStands
<1> HIDE DEF m
<1>2. Intact(m, seen) /\ DOMAIN m = VmFields
  BY <1>1 DEF Stands, Intact, VmType
<1>3. Same(m, t)
  BY <1>2, ChargeSame
<1> HIDE DEF t
<1>4. Same(m, g)
  <2>1. Same(t, g)
    BY <1>3 DEF Same, VmFields
  <2> QED
    BY <1>3, <2>1, SameTrans
<1> HIDE DEF g
<1>5. Stands(p, t, seen) /\ Stands(p, g, seen)
  BY <1>1, <1>2, <1>3, <1>4, SameStands, StandsTrans
<1>6. t.storage = p.storage /\ g.storage = p.storage
  BY <1>1, <1>3, <1>4 DEF Same
<1>7. Deploy(p, address, b) = IF Alive(t) THEN g ELSE t
  BY DEF Deploy, g, t, m
<1> QED
  BY <1>5, <1>6, <1>7

------------------------------------------------------------------------------
\* do_ext_call hands the overlay to the child, or leaves the caller as it is.
LEMMA CallKeeps ==
    ASSUME FramesInv(frames), Len(frames) > 0, NEW f, NEW i \in Program, NEW delegate \in BOOLEAN,
           Stands(frames[Len(frames)], f, Visible(f.storage)),
           i.op = (IF delegate THEN "delegate" ELSE "call")
    PROVE  FramesInv(do_ext_call(f, i, delegate))
<1> DEFINE value == IF delegate THEN 0 ELSE i.value
           static == (~delegate /\ i.static) \/ f.static
           kind == IF delegate THEN "delegate" ELSE "call"
           target == IF delegate THEN f.self ELSE i.target
           g == [f EXCEPT !.storage = NoOverlay]
           b == Moved(f.balances, f.self, target, value)
           c == Child(kind, target, static, Forwarded(f, i.gas), b, f.warm, f.storage,
                      f.contracts, Visible(f.storage), f.balances)
<1>1. do_ext_call(f, i, delegate) = SetRunning(Ended(f, "trap"))
      \/ do_ext_call(f, i, delegate) = SetRunning(f)
      \/ (~(f.balances[f.self] < value) /\ do_ext_call(f, i, delegate) = SetRunning(g) \o <<c>>)
  BY DEF do_ext_call, Child
<1>2. /\ VmType(f) /\ DOMAIN f = VmFields /\ f.storage \in Overlays /\ f.balances \in Balances
      /\ f.static \in BOOLEAN /\ Intact(f, Visible(f.storage))
  BY DEF Stands, Intact, VmType
<1>3. FramesInv(SetRunning(f))
  BY ReplaceKeeps, Zenon DEF SetRunning
<1>4. FramesInv(SetRunning(Ended(f, "trap")))
  <2> DEFINE e == Ended(f, "trap")
  <2>1. Same(f, e)
    BY <1>2, EndedSame, Zenon
  <2>3. e.storage = f.storage
    BY <2>1, Zenon DEF Same
  <2> HIDE DEF e
  <2>2. Stands(frames[Len(frames)], e, Visible(e.storage))
    BY <1>2, <2>1, <2>3, SameStands, StandsTrans
  <2>4. FramesInv(SetRunning(e))
    BY <2>2, ReplaceKeeps, Zenon DEF SetRunning
  <2> QED
    BY <2>4 DEF e
<1>5. ASSUME ~(f.balances[f.self] < value) PROVE FramesInv(SetRunning(g) \o <<c>>)
  <2>1. value \in Nat
    BY PvmAssumption
  <2>2. b \in Balances
    <3> HIDE DEF value, target
    <3> QED
      BY <1>2, <1>5, <2>1, MovedType
  <2>3. Visible(f.storage) \in Overlays /\ static \in BOOLEAN
    BY <1>2, VisibleType
  <2>4. /\ Intact(c, Visible(c.storage)) /\ c.kind = kind /\ c.static = static
        /\ c.before = [storage |-> Visible(f.storage), balances |-> f.balances]
    <3> HIDE DEF b, static, kind, target
    <3>1. ChildReady(kind, static, b, f.storage, Visible(f.storage), f.balances)
      BY <1>2, <2>2, <2>3, Zenon DEF ChildReady
    <3>2. ChildStarts(c, kind, static, Visible(f.storage), f.balances)
      BY <3>1, ChildIntact, Zenon
    <3> QED
      BY <3>2, Zenon DEF ChildStarts
  <2> HIDE DEF c
  <2>5. c.before.storage = Visible(f.storage) /\ c.before.balances = f.balances
    BY <2>4
  <2>6. /\ DOMAIN g = VmFields /\ g.kind = f.kind /\ g.static = f.static /\ g.before = f.before
        /\ g.plain = f.plain /\ g.storage = NoOverlay /\ g.journal = f.journal
        /\ g.balances = f.balances /\ g.balance_journal = f.balance_journal
    BY <1>2 DEF VmFields
  <2> HIDE DEF g
  <2>7. Stands(f, g, Visible(f.storage))
    <3>1. VmType(g)
      BY <1>2, <2>6, NoOverlayType DEF VmType
    <3>2. OwnInv(g, Visible(f.storage))
      BY <1>2, <2>6 DEF Intact, OwnInv, JournalCovers, WroteNothing
    <3>3. FirstInv(f) => FirstInv(g)
      BY <2>6 DEF FirstInv
    <3> QED
      BY <2>6, <3>1, <3>2, <3>3 DEF Stands
  <2>8. Stands(frames[Len(frames)], g, c.before.storage)
    BY <2>5, <2>7, StandsTrans
  <2>9. LinkInv(g, c)
    BY <2>4, <2>5, <2>6 DEF LinkInv
  <2> QED
    BY <2>4, <2>8, <2>9, PushKeeps, Zenon DEF SetRunning
<1> HIDE DEF g, c
<1> QED
  BY <1>1, <1>3, <1>4, <1>5, Zenon

\* do_create gives the constructor an overlay of its own, or deploys at once.
LEMMA CreateKeeps ==
    ASSUME FramesInv(frames), Len(frames) > 0, NEW f, NEW i \in Program,
           Stands(frames[Len(frames)], f, Visible(f.storage)), i.op = "create", ~f.static
    PROVE  FramesInv(do_create(f, i))
<1> DEFINE address == create_address(f.self, f.created)
           g == [f EXCEPT !.created = @ + 1]
           b == Moved(f.balances, f.self, address, i.value)
           kind == "create"
           static == FALSE
           c == Child(kind, address, static, Forwarded(f, 0), b, f.warm, NoOverlay,
                      f.contracts, Visible(f.storage), f.balances)
<1>1. do_create(f, i) = SetRunning(f) \/ do_create(f, i) = SetRunning(g)
      \/ (~(f.balances[f.self] < i.value) /\ do_create(f, i) = SetRunning(Deploy(g, address, b)))
      \/ (~(f.balances[f.self] < i.value) /\ do_create(f, i) = SetRunning(g) \o <<c>>)
  BY DEF do_create, Child
<1>2. /\ VmType(f) /\ DOMAIN f = VmFields /\ f.storage \in Overlays /\ f.balances \in Balances
      /\ Intact(f, Visible(f.storage))
  BY DEF Stands, Intact, VmType
<1>3. FramesInv(SetRunning(f))
  BY ReplaceKeeps, Zenon DEF SetRunning
<1>4. Same(f, g) /\ g.storage = f.storage /\ g.balances = f.balances /\ ~g.static
  BY <1>2 DEF Same, VmFields
<1> HIDE DEF g
<1>5. Stands(frames[Len(frames)], g, Visible(f.storage)) /\ Intact(g, Visible(f.storage))
  <2>1. Stands(f, g, Visible(f.storage))
    BY <1>2, <1>4, SameStands
  <2>2. Stands(frames[Len(frames)], g, Visible(f.storage))
    BY <2>1, StandsTrans
  <2> QED
    BY <2>1, <2>2 DEF Stands, Intact
<1>6. FramesInv(SetRunning(g))
  BY <1>4, <1>5, ReplaceKeeps DEF SetRunning
<1>7. i.value \in Nat
  BY PvmAssumption
<1>8. ASSUME ~(f.balances[f.self] < i.value) PROVE b \in Balances
  <2> HIDE DEF address
  <2> QED
    BY <1>2, <1>7, <1>8, MovedType
<1> HIDE DEF b, address
<1>9. ASSUME ~(f.balances[f.self] < i.value) PROVE FramesInv(SetRunning(Deploy(g, address, b)))
  <2> DEFINE e == Deploy(g, address, b)
  <2>1. Stands(g, e, Visible(f.storage)) /\ e.storage = f.storage
    BY <1>4, <1>5, <1>8, <1>9, DeployStands
  <2> HIDE DEF e
  <2>2. Stands(frames[Len(frames)], e, Visible(e.storage))
    BY <1>5, <2>1, StandsTrans
  <2>3. FramesInv(SetRunning(e))
    BY <2>2, ReplaceKeeps, Zenon DEF SetRunning
  <2> QED
    BY <2>3 DEF e
<1>10. ASSUME ~(f.balances[f.self] < i.value) PROVE FramesInv(SetRunning(g) \o <<c>>)
  <2>1. Visible(f.storage) \in Overlays /\ static \in BOOLEAN /\ kind = "create" /\ ~static
    BY <1>2, VisibleType
  <2>2. /\ Intact(c, Visible(c.storage)) /\ c.kind = kind
        /\ c.before = [storage |-> Visible(f.storage), balances |-> f.balances]
    <3> HIDE DEF kind, static
    <3>1. ChildReady(kind, static, b, NoOverlay, Visible(f.storage), f.balances)
      BY <1>2, <1>8, <1>10, <2>1, NoOverlayType, Zenon DEF ChildReady
    <3>2. ChildStarts(c, kind, static, Visible(f.storage), f.balances)
      BY <3>1, ChildIntact, Zenon
    <3> QED
      BY <3>2, Zenon DEF ChildStarts
  <2> HIDE DEF c
  <2>3. c.before.storage = Visible(f.storage) /\ c.before.balances = f.balances
    BY <2>2
  <2>4. LinkInv(g, c)
    BY <1>4, <2>2, <2>3 DEF LinkInv
  <2>5. Stands(frames[Len(frames)], g, c.before.storage)
    BY <1>5, <2>3
  <2> QED
    BY <2>2, <2>4, <2>5, PushKeeps, Zenon DEF SetRunning
<1> HIDE DEF c
<1> QED
  BY <1>1, <1>3, <1>6, <1>9, <1>10, Zenon

\* One instruction, whichever it is.
LEMMA StepKeeps ==
    ASSUME FramesInv(frames), NEW i \in Program, Step(i)
    PROVE  FramesInv(frames')
<1> DEFINE r == frames[Len(frames)]
           f == Started(r, i)
<1>1. frames \in Seq(Vms(frames)) /\ Len(frames) \in Nat /\ Len(frames) > 0 /\ Running = r
  <2>1. frames \in Seq(Vms(frames)) /\ frames # <<>>
    BY Zenon DEF FramesInv, Step
  <2>2. Len(frames) \in Nat /\ Len(frames) > 0
    BY <2>1
  <2> QED
    BY <2>1, <2>2 DEF Running
<1>2. Len(frames) \in 1..Len(frames)
  BY <1>1
<1>3. Intact(r, Visible(r.storage)) /\ DOMAIN r = VmFields
  <2>1. VmType(r) /\ OwnInv(r, Seen(frames, Len(frames)))
    BY <1>2, Zenon DEF FramesInv
  <2> QED
    BY <2>1 DEF Seen, Intact, VmType
<1>4. frames' = IF ~Alive(f) THEN SetRunning(f)
                ELSE CASE i.op = "call"     -> do_ext_call(f, i, FALSE)
                       [] i.op = "delegate" -> do_ext_call(f, i, TRUE)
                       [] i.op = "create"   -> do_create(f, i)
                       [] OTHER             -> SetRunning(InFrame(f, i))
  BY <1>1 DEF Step
<1> HIDE DEF r
<1>5. Same(r, f) /\ (Alive(f) /\ r.static => i.op \notin StateOps) /\ f.static = r.static
      /\ f.storage = r.storage
  BY <1>3, StartedSame DEF Same
<1> HIDE DEF f
<1>6. Stands(r, f, Visible(f.storage)) /\ Intact(f, Visible(f.storage))
  <2>1. Stands(r, f, Visible(f.storage))
    BY <1>3, <1>5, SameStands
  <2> QED
    BY <2>1 DEF Stands, Intact
<1>7. CASE ~Alive(f)
  <2>1. FramesInv(SetRunning(f))
    BY <1>1, <1>6, ReplaceKeeps, Zenon DEF SetRunning, r
  <2> QED
    BY <1>4, <1>7, <2>1
<1>8. CASE Alive(f) /\ i.op = "call"
  <2>1. FramesInv(do_ext_call(f, i, FALSE))
    <3> DEFINE no == FALSE
    <3>1. no \in BOOLEAN /\ i.op = IF no THEN "delegate" ELSE "call"
      BY <1>8
    <3> HIDE DEF no
    <3>2. FramesInv(do_ext_call(f, i, no))
      BY <1>1, <1>6, <3>1, CallKeeps DEF r
    <3> QED
      BY <3>2 DEF no
  <2> QED
    BY <1>4, <1>8, <2>1
<1>9. CASE Alive(f) /\ i.op = "delegate"
  <2>1. FramesInv(do_ext_call(f, i, TRUE))
    <3> DEFINE yes == TRUE
    <3>1. yes \in BOOLEAN /\ i.op = IF yes THEN "delegate" ELSE "call"
      BY <1>9
    <3> HIDE DEF yes
    <3>2. FramesInv(do_ext_call(f, i, yes))
      BY <1>1, <1>6, <3>1, CallKeeps DEF r
    <3> QED
      BY <3>2 DEF yes
  <2> QED
    BY <1>4, <1>9, <2>1
<1>10. CASE Alive(f) /\ i.op = "create"
  <2>1. ~f.static
    BY <1>5, <1>10 DEF StateOps
  <2>2. FramesInv(do_create(f, i))
    BY <1>1, <1>6, <1>10, <2>1, CreateKeeps DEF r
  <2> QED
    BY <1>4, <1>10, <2>2
<1>11. CASE Alive(f) /\ i.op \notin {"call", "delegate", "create"}
  <2> DEFINE g == InFrame(f, i)
  <2>1. Stands(f, g, Visible(g.storage))
    BY <1>5, <1>6, <1>11, InFrameStands
  <2> HIDE DEF g
  <2>2. Stands(r, g, Visible(g.storage))
    BY <1>6, <2>1, StandsTrans
  <2>3. FramesInv(SetRunning(g))
    BY <1>1, <2>2, ReplaceKeeps, Zenon DEF SetRunning, r
  <2>4. frames' = SetRunning(g)
    BY <1>4, <1>11 DEF g
  <2> QED
    BY <2>3, <2>4
<1> QED
  BY <1>7, <1>8, <1>9, <1>10, <1>11

------------------------------------------------------------------------------
\* What execute() leaves of a VM that ended.
LEMMA ExecutedFacts ==
    ASSUME NEW f, Intact(f, Visible(f.storage))
    PROVE  /\ DOMAIN Executed(f) = VmFields
           /\ Executed(f).storage \in Overlays /\ Executed(f).balances \in Balances
           /\ Executed(f).before = f.before /\ Executed(f).kind = f.kind
           /\ Executed(f).plain = f.plain /\ Executed(f).end = f.end
           /\ f.end # "success" /\ f.plain /\ f.kind # "create" =>
                 Visible(Executed(f).storage) = f.before.storage
           /\ f.static => \A k \in Keys :
                 Visible(Executed(f).storage)[k] \in {f.before.storage[k], Backend(k)}
           /\ f.end # "success" /\ FirstInv(f) => Executed(f).balances = f.before.balances
<1> DEFINE d == Executed(f)
           o == RestoredFrom(f.journal, f.storage)
           b == RestoredFrom(f.balance_journal, f.balances)
<1>1. /\ DOMAIN f = VmFields /\ f.storage \in Overlays /\ f.journal \in Journals
      /\ f.balances \in Balances /\ f.balance_journal \in [VmAddresses -> Nat \cup {Unjournaled}]
      /\ f.before.storage \in Overlays
  BY DEF Intact, VmType
<1>2. /\ DOMAIN d = VmFields /\ d.before = f.before /\ d.kind = f.kind
      /\ d.plain = f.plain /\ d.end = f.end
      /\ d.storage = IF f.end = "success" THEN f.storage ELSE o
      /\ d.balances = IF f.end = "success" THEN f.balances ELSE b
  BY <1>1 DEF Executed, rollback, VmFields
<1>3. \A k \in Keys : o[k] = IF f.journal[k] = Unjournaled THEN f.storage[k] ELSE f.journal[k]
  BY <1>1 DEF RestoredFrom, Overlays
<1>4. o \in Overlays
  <2>1. \A k \in Keys : o[k] \in Nat \cup {Absent}
    <3> SUFFICES ASSUME NEW k \in Keys PROVE o[k] \in Nat \cup {Absent}
      OBVIOUS
    <3>1. f.storage[k] \in Nat \cup {Absent} /\ f.journal[k] \in Nat \cup {Absent, Unjournaled}
      BY <1>1 DEF Overlays, Journals
    <3> HIDE DEF o
    <3> QED
      BY <1>3, <3>1
  <2>2. o = [k \in Keys |-> o[k]]
    BY <1>1 DEF RestoredFrom, Overlays
  <2> HIDE DEF o
  <2> QED
    BY <2>1, <2>2 DEF Overlays
<1>5. b \in Balances
  BY <1>1 DEF RestoredFrom, Balances
<1>6. ASSUME f.plain, f.kind # "create" PROVE Visible(o) = f.before.storage
  <2> HIDE DEF o
  <2>1. JournalCovers(f, Visible(f.storage))
    BY <1>6 DEF Intact, OwnInv
  <2>2. ASSUME NEW k \in Keys PROVE Visible(o)[k] = f.before.storage[k]
    <3>1. f.before.storage[k] = IF f.journal[k] = Unjournaled THEN Visible(f.storage)[k]
                                          ELSE Sees(k, f.journal[k])
      BY <2>1 DEF JournalCovers
    <3>2. Visible(o)[k] = Sees(k, o[k]) /\ Visible(f.storage)[k] = Sees(k, f.storage[k])
      BY DEF Visible, Sees
    <3> QED
      BY <1>3, <3>1, <3>2
  <2>3. Visible(o) \in Overlays
    BY <1>4, VisibleType
  <2> QED
    BY <1>1, <2>2, <2>3 DEF Overlays
<1>7. ASSUME f.static
      PROVE  Visible(o) = Visible(f.storage)
             /\ \A k \in Keys : Visible(f.storage)[k] \in {f.before.storage[k], Backend(k)}
  <2>1. WroteNothing(f, Visible(f.storage))
    BY <1>7 DEF Intact, OwnInv
  <2> HIDE DEF o
  <2>2. \A k \in Keys : o[k] = f.storage[k]
    BY <1>3, <2>1 DEF WroteNothing
  <2>3. Visible(o) = Visible(f.storage)
    BY <2>2 DEF Visible
  <2> QED
    BY <2>1, <2>3 DEF WroteNothing
<1>8. FirstInv(f) => b = f.before.balances
  BY DEF FirstInv
<1> HIDE DEF d, o, b
<1>9. d.storage \in Overlays /\ d.balances \in Balances
  BY <1>1, <1>2, <1>4, <1>5
<1>10. f.end # "success" /\ f.plain /\ f.kind # "create" => Visible(d.storage) = f.before.storage
  BY <1>2, <1>6
<1>11. f.static => \A k \in Keys : Visible(d.storage)[k] \in {f.before.storage[k], Backend(k)}
  BY <1>2, <1>7
<1>12. f.end # "success" /\ FirstInv(f) => d.balances = f.before.balances
  BY <1>2, <1>8
<1> QED
  BY <1>2, <1>9, <1>10, <1>11, <1>12 DEF d

\* The caller p of the VM f, which ended as d.
Called(p, f, d) ==
    /\ Intact(p, f.before.storage) /\ LinkInv(p, f)
    /\ Intact(f, Visible(f.storage)) /\ d = Executed(f)

\* A failed child leaves the caller what the child found when it started.
Kept(g, d) ==
    Alive(g) /\ d.end # "success" =>
      g.balances = d.before.balances /\ (d.plain => Visible(g.storage) = d.before.storage)

\* What do_ext_call does once the child has executed.
LEMMA AfterCallStands ==
    ASSUME NEW p, NEW f, NEW d, Called(p, f, d), f.kind # "create"
    PROVE  /\ Stands(p, AfterCall(p, d), Visible(AfterCall(p, d).storage))
           /\ Kept(AfterCall(p, d), d)
<1> DEFINE t == Charge(p, effective_gas_used(d))
           lost == [t EXCEPT !.plain = FALSE]
           back == [t EXCEPT !.storage = d.storage, !.warm = @ \cup d.warm, !.plain = @ /\ d.plain]
           z == [back EXCEPT !.plain = FALSE]
           merged == IF d.kind = "delegate" THEN back ELSE MergedBalances(back, d.balances)
           g == [merged EXCEPT !.logs = @ \o d.logs, !.refund = @ + d.refund, !.plain = FALSE]
<1>1. /\ DOMAIN d = VmFields /\ d.storage \in Overlays /\ d.balances \in Balances
      /\ d.before = f.before /\ d.kind = f.kind /\ d.plain = f.plain /\ d.end = f.end
      /\ f.end # "success" /\ f.plain => Visible(d.storage) = f.before.storage
      /\ f.static => \A k \in Keys : Visible(d.storage)[k] \in {f.before.storage[k], Backend(k)}
  BY ExecutedFacts DEF Called
<1>2. /\ VmType(p) /\ DOMAIN p = VmFields /\ OwnInv(p, f.before.storage)
      /\ f.before.balances = p.balances /\ p.storage = NoOverlay /\ (p.static => f.static)
      /\ f.plain \in BOOLEAN /\ p.plain \in BOOLEAN
  BY DEF Called, Intact, LinkInv, VmType
<1>3. Same(p, t)
  BY <1>2, ChargeSame
<1>4. AfterCall(p, d) = IF ~Alive(t) THEN lost ELSE IF d.end # "success" THEN back ELSE g
  BY DEF AfterCall
<1> HIDE DEF t
<1>5. p.static => p.journal = [k \in Keys |-> Unjournaled]
                  /\ \A k \in Keys : f.before.storage[k] \in {p.before.storage[k], Backend(k)}
  BY <1>2 DEF OwnInv, WroteNothing
<1>6. Stands(p, lost, Visible(lost.storage)) /\ (~Alive(t) => ~Alive(lost))
  <2>1. /\ DOMAIN lost = VmFields /\ lost.kind = p.kind /\ lost.static = p.static
        /\ lost.before = p.before /\ lost.plain = FALSE /\ lost.storage = NoOverlay
        /\ lost.journal = p.journal /\ lost.balances = p.balances
        /\ lost.balance_journal = p.balance_journal /\ lost.end = t.end
    BY <1>2, <1>3 DEF Same, VmFields
  <2> HIDE DEF lost
  <2>2. VmType(lost)
    BY <1>2, <2>1, NoOverlayType DEF VmType
  <2>3. \A k \in Keys : Visible(NoOverlay)[k] = Backend(k)
    BY DEF Visible, NoOverlay
  <2>4. OwnInv(lost, Visible(lost.storage))
    BY <1>5, <2>1, <2>3 DEF OwnInv, WroteNothing
  <2>5. FirstInv(p) => FirstInv(lost)
    BY <2>1 DEF FirstInv
  <2> QED
    BY <2>1, <2>2, <2>4, <2>5 DEF Stands, Alive
<1>7. /\ DOMAIN back = VmFields /\ back.kind = p.kind /\ back.static = p.static
      /\ back.before = p.before /\ back.plain = (p.plain /\ d.plain) /\ back.storage = d.storage
      /\ back.journal = p.journal /\ back.balances = p.balances
      /\ back.balance_journal = p.balance_journal
  BY <1>2, <1>3 DEF Same, VmFields
<1>8. VmType(back)
  <2> HIDE DEF back
  <2> QED
    BY <1>1, <1>2, <1>7 DEF VmType
<1>9. p.static => WroteNothing(back, Visible(back.storage))
  <2> HIDE DEF back
  <2> QED
    BY <1>1, <1>2, <1>5, <1>7 DEF WroteNothing
<1>10. FirstInv(p) => FirstInv(back)
  <2> HIDE DEF back
  <2> QED
    BY <1>7 DEF FirstInv
<1>11. ASSUME d.end # "success"
       PROVE  Stands(p, back, Visible(back.storage)) /\ Kept(back, d)
  <2> HIDE DEF back
  <2>1. back.plain /\ back.kind # "create" => JournalCovers(back, Visible(back.storage))
    <3> SUFFICES ASSUME back.plain, back.kind # "create"
                 PROVE  JournalCovers(back, Visible(back.storage))
      OBVIOUS
    <3>1. p.plain /\ d.plain /\ p.kind # "create"
      BY <1>7
    <3>2. Visible(back.storage) = f.before.storage
      BY <1>1, <1>7, <1>11, <3>1
    <3>3. JournalCovers(p, f.before.storage)
      BY <1>2, <3>1 DEF OwnInv
    <3> QED
      BY <1>7, <3>2, <3>3 DEF JournalCovers
  <2>2. OwnInv(back, Visible(back.storage))
    BY <1>7, <1>9, <2>1 DEF OwnInv
  <2>3. Kept(back, d)
    BY <1>1, <1>2, <1>7, <1>11 DEF Kept
  <2> QED
    BY <1>7, <1>8, <1>10, <2>2, <2>3 DEF Stands
<1>12. ASSUME d.end = "success"
       PROVE  Stands(p, g, Visible(g.storage)) /\ Kept(g, d)
  <2>1. /\ DOMAIN z = VmFields /\ z.kind = p.kind /\ z.static = p.static
        /\ z.before = p.before /\ z.plain = FALSE /\ z.storage = d.storage
        /\ z.journal = p.journal /\ z.balances = p.balances
        /\ z.balance_journal = p.balance_journal
    <3> HIDE DEF back
    <3> QED
      BY <1>7 DEF VmFields
  <2>2. Same(z, g) \/ Same(MergedBalances(z, d.balances), g)
    <3> HIDE DEF back
    <3>1. CASE d.kind = "delegate"
      <4>1. merged = back
        BY <3>1
      <4> HIDE DEF merged
      <4> QED
        BY <1>7, <4>1 DEF Same, VmFields
    <3>2. CASE d.kind # "delegate"
      <4>1. merged = MergedBalances(back, d.balances)
        BY <3>2
      <4> HIDE DEF merged
      <4> QED
        BY <1>7, <4>1 DEF Same, VmFields, MergedBalances
    <3> QED
      BY <3>1, <3>2
  <2> HIDE DEF z, g
  <2>3. VmType(z)
    BY <1>1, <1>2, <2>1 DEF VmType
  <2>4. OwnInv(z, Visible(d.storage))
    <3>1. p.static => WroteNothing(z, Visible(d.storage))
      BY <1>1, <1>2, <1>5, <2>1 DEF WroteNothing
    <3> QED
      BY <2>1, <3>1 DEF OwnInv
  <2>5. Intact(z, Visible(d.storage)) /\ Stands(p, z, Visible(d.storage))
    <3>1. FirstInv(p) => FirstInv(z)
      BY <2>1 DEF FirstInv
    <3> QED
      BY <2>1, <2>3, <2>4, <3>1 DEF Intact, Stands
  <2>6. Stands(z, g, Visible(d.storage)) /\ g.storage = d.storage
    <3>1. CASE Same(z, g)
      BY <2>1, <2>5, <3>1, SameStands DEF Same
    <3>2. CASE Same(MergedBalances(z, d.balances), g)
      <4> DEFINE m == MergedBalances(z, d.balances)
      <4>1. Stands(z, m, Visible(d.storage)) /\ m.storage = d.storage
        BY <1>1, <2>1, <2>5, MergedStands
      <4> HIDE DEF m
      <4>2. Intact(m, Visible(d.storage))
        BY <4>1 DEF Stands, Intact
      <4>3. Stands(m, g, Visible(d.storage)) /\ g.storage = m.storage
        BY <3>2, <4>2, SameStands DEF Same, m
      <4> QED
        BY <4>1, <4>3, StandsTrans
    <3> QED
      BY <2>2, <3>1, <3>2
  <2>7. Stands(p, g, Visible(g.storage))
    BY <2>5, <2>6, StandsTrans
  <2> QED
    BY <1>12, <2>7 DEF Kept
<1> HIDE DEF lost, back, g
<1>13. Kept(lost, d) \/ Alive(t)
  BY <1>6 DEF Kept
<1> QED
  BY <1>4, <1>6, <1>11, <1>12, <1>13

\* What do_create does once the constructor has executed.
LEMMA AfterCreateStands ==
    ASSUME NEW p, NEW f, NEW d, Called(p, f, d), f.kind = "create"
    PROVE  /\ Stands(p, AfterCreate(p, d), Visible(AfterCreate(p, d).storage))
           /\ Kept(AfterCreate(p, d), d)
<1> DEFINE t == Charge(p, effective_gas_used(d))
           wrote == {k \in Keys : d.storage[k] # Absent}
           j == [k \in Keys |-> IF k \in wrote /\ p.journal[k] = Unjournaled
                                THEN p.storage[k] ELSE p.journal[k]]
           o == [k \in Keys |-> IF k \in wrote THEN d.storage[k] ELSE p.storage[k]]
           m == [t EXCEPT !.journal = j, !.storage = o, !.warm = @ \cup d.warm]
           g == Deploy(m, d.self, d.balances)
           e == Ended(t, "out_of_gas")
<1>1. /\ DOMAIN d = VmFields /\ d.storage \in Overlays /\ d.balances \in Balances
      /\ d.before = f.before /\ d.end = f.end
  BY ExecutedFacts DEF Called
<1>2. /\ VmType(p) /\ DOMAIN p = VmFields /\ Intact(p, Visible(p.storage)) /\ ~p.static
      /\ f.before.balances = p.balances /\ f.before.storage = Visible(p.storage)
      /\ p.storage \in Overlays /\ p.journal \in Journals
  BY DEF Called, Intact, LinkInv, VmType
<1>3. AfterCreate(p, d) = IF ~Alive(t) THEN t
                          ELSE CASE d.end = "success"    -> g
                                 [] d.end = "out_of_gas" -> e
                                 [] OTHER                -> t
  BY DEF AfterCreate
<1>4. Same(p, t)
  BY <1>2, ChargeSame
<1> HIDE DEF t
<1>5. Same(p, e) /\ ~Alive(e)
  <2>1. DOMAIN t = VmFields
    BY <1>4 DEF Same
  <2>2. Same(t, e) /\ e.end = "out_of_gas"
    BY <2>1, EndedSame
  <2> HIDE DEF e
  <2> QED
    BY <1>4, <2>2, SameTrans DEF Alive
<1> HIDE DEF e
<1>6. /\ Stands(p, t, Visible(t.storage)) /\ Stands(p, e, Visible(e.storage))
      /\ t.storage = p.storage /\ t.balances = p.balances
  <2>1. t.storage = p.storage /\ e.storage = p.storage /\ t.balances = p.balances
    BY <1>4, <1>5 DEF Same
  <2> QED
    BY <1>2, <1>4, <1>5, <2>1, SameStands
<1>7. Kept(t, d) /\ Kept(e, d)
  BY <1>1, <1>2, <1>5, <1>6 DEF Kept
<1>8. ASSUME d.end = "success" PROVE Stands(p, g, Visible(g.storage)) /\ Kept(g, d)
  <2>1. /\ DOMAIN m = VmFields /\ m.kind = p.kind /\ m.static = p.static /\ m.before = p.before
        /\ m.plain = p.plain /\ m.storage = o /\ m.journal = j
        /\ m.balances = p.balances /\ m.balance_journal = p.balance_journal
    <3> HIDE DEF o, j
    <3> QED
      BY <1>4 DEF Same, VmFields
  <2> HIDE DEF m
  <2>2. o \in Overlays /\ j \in Journals
    BY <1>1, <1>2 DEF Overlays, Journals
  <2>3. VmType(m)
    <3> HIDE DEF o, j
    <3> QED
      BY <1>2, <2>1, <2>2 DEF VmType
  <2>4. ASSUME JournalCovers(p, Visible(p.storage)) PROVE JournalCovers(m, Visible(o))
    <3> SUFFICES ASSUME NEW k \in Keys
                 PROVE  m.before.storage[k] = IF m.journal[k] = Unjournaled THEN Visible(o)[k]
                                              ELSE Sees(k, m.journal[k])
      BY DEF JournalCovers
    <3>1. p.before.storage[k] = IF p.journal[k] = Unjournaled THEN Visible(p.storage)[k]
                                ELSE Sees(k, p.journal[k])
      BY <2>4 DEF JournalCovers
    <3>2. /\ j[k] = IF k \in wrote /\ p.journal[k] = Unjournaled THEN p.storage[k]
                    ELSE p.journal[k]
          /\ o[k] = IF k \in wrote THEN d.storage[k] ELSE p.storage[k]
      OBVIOUS
    <3>3. p.storage[k] # Unjournaled
      BY <1>2 DEF Overlays, Absent, Unjournaled
    <3>4. Visible(p.storage)[k] = Sees(k, p.storage[k]) /\ Visible(o)[k] = Sees(k, o[k])
      <4> HIDE DEF o
      <4> QED
        BY DEF Visible, Sees
    <3> HIDE DEF o, j, wrote
    <3> QED
      BY <2>1, <3>1, <3>2, <3>3, <3>4
  <2> HIDE DEF o, j
  <2>5. OwnInv(m, Visible(m.storage))
    BY <1>2, <2>1, <2>4 DEF OwnInv, Intact
  <2>6. Intact(m, Visible(m.storage)) /\ Stands(p, m, Visible(m.storage))
    <3>1. FirstInv(p) => FirstInv(m)
      BY <2>1 DEF FirstInv
    <3> QED
      BY <2>1, <2>3, <2>5, <3>1 DEF Intact, Stands
  <2>7. Stands(m, g, Visible(m.storage)) /\ g.storage = m.storage
    BY <1>1, <2>6, DeployStands
  <2> HIDE DEF g
  <2>8. Stands(p, g, Visible(g.storage))
    BY <2>6, <2>7, StandsTrans
  <2> QED
    BY <1>8, <2>8 DEF Kept
<1> HIDE DEF g
<1> QED
  BY <1>3, <1>6, <1>7, <1>8

\* A child VM ends.
LEMMA ReturnKeeps ==
    ASSUME PvmInv, Return
    PROVE  PvmInv'
<1> DEFINE n == Len(frames)
           f == frames[n]
           p == frames[n - 1]
           d == Executed(f)
           g == IF f.kind = "create" THEN AfterCreate(p, d) ELSE AfterCall(p, d)
<1>1. FramesInv(frames) /\ FailedCallKeepsBalances /\ PlainFailureKeepsStorage
  BY Zenon DEF PvmInv
<1>2. frames \in Seq(Vms(frames)) /\ n \in Nat /\ n > 1 /\ Running = f
  <2>1. frames \in Seq(Vms(frames)) /\ Len(frames) > 1
    BY <1>1, Zenon DEF FramesInv, Return
  <2> QED
    BY <2>1 DEF Running
<1>3. /\ frames' = Append(SubSeq(frames, 1, n - 2), g)
      /\ returned' = IF Alive(g) THEN Report(d, g) ELSE returned
  BY <1>2, Zenon DEF Return
<1>4. n \in 1..n /\ n - 1 \in 1..n /\ n - 1 # n /\ n - 1 + 1 = n
  BY <1>2
<1>5. Called(p, f, d)
  <2>1. VmType(f) /\ OwnInv(f, Seen(frames, n)) /\ VmType(p) /\ OwnInv(p, Seen(frames, n - 1))
    BY <1>1, <1>4, Zenon DEF FramesInv
  <2>2. Seen(frames, n) = Visible(f.storage) /\ Seen(frames, n - 1) = f.before.storage
    BY <1>4, Zenon DEF Seen
  <2>3. LinkInv(p, f)
    BY <1>1, <1>2, <1>4, Zenon DEF FramesInv
  <2> HIDE DEF f, p
  <2> QED
    BY <2>1, <2>2, <2>3, Zenon DEF Called, Intact
<1>6. Stands(p, g, Visible(g.storage)) /\ Kept(g, d)
  <2> HIDE DEF f, p, d
  <2>1. CASE f.kind = "create"
    BY <1>5, <2>1, AfterCreateStands
  <2>2. CASE f.kind # "create"
    BY <1>5, <2>2, AfterCallStands
  <2> QED
    BY <2>1, <2>2
<1> HIDE DEF g
<1>7. FramesInv(frames')
  BY <1>1, <1>2, <1>3, <1>6, PopKeeps, Zenon
<1> HIDE DEF f, p, d
<1>8. FailedCallKeepsBalances' /\ PlainFailureKeepsStorage'
  <2>1. CASE Alive(g)
    <3>1. /\ returned'.success = (d.end = "success") /\ returned'.plain = d.plain
          /\ returned'.storageKept = (Visible(g.storage) = d.before.storage)
          /\ returned'.balancesKept = (g.balances = d.before.balances)
      BY <1>3, <2>1 DEF Report
    <3> QED
      BY <1>6, <2>1, <3>1 DEF Kept, FailedCallKeepsBalances, PlainFailureKeepsStorage
  <2>2. CASE ~Alive(g)
    BY <1>1, <1>3, <2>2 DEF FailedCallKeepsBalances, PlainFailureKeepsStorage
  <2> QED
    BY <2>1, <2>2
<1> QED
  BY <1>7, <1>8 DEF PvmInv

\* The transaction's own VM ends.
LEMMA FinishKeeps ==
    ASSUME PvmInv, Finish
    PROVE  PvmInv'
<1> DEFINE f == frames[1]
           d == Executed(f)
<1>1. FramesInv(frames) /\ FailedCallKeepsBalances /\ PlainFailureKeepsStorage
  BY Zenon DEF PvmInv
<1>2. Len(frames) = 1 /\ Running = f /\ ~Alive(f)
  BY DEF Finish, Running
<1>3. frames' = <<>> /\ returned' = Report(d, d)
  BY <1>2, Zenon DEF Finish
<1>4. 1 \in 1..Len(frames) /\ Len(frames) > 0
  BY <1>2
<1>5. Intact(f, Visible(f.storage)) /\ FirstInv(f)
  <2>1. VmType(f) /\ OwnInv(f, Seen(frames, 1)) /\ FirstInv(f)
    BY <1>1, <1>4, Zenon DEF FramesInv
  <2>2. Seen(frames, 1) = Visible(f.storage)
    BY <1>2, Zenon DEF Seen
  <2> QED
    BY <2>1, <2>2, Zenon DEF Intact
<1>6. FramesInv(frames')
  <2>1. Len(<<>>) = 0 /\ 1..Len(<<>>) = {} /\ ~(0 > 0) /\ <<>> \in Seq(Vms(<<>>))
    OBVIOUS
  <2>2. FramesInv(<<>>)
    BY <2>1 DEF FramesInv
  <2> QED
    BY <1>3, <2>2
<1> HIDE DEF f
<1>7. /\ d.before = f.before /\ d.plain = f.plain /\ d.end = f.end
      /\ d.end # "success" => d.balances = d.before.balances
                              /\ (d.plain => Visible(d.storage) = d.before.storage)
  BY <1>5, ExecutedFacts DEF FirstInv
<1> HIDE DEF d
<1>8. /\ returned'.success = (d.end = "success") /\ returned'.plain = d.plain
      /\ returned'.storageKept = (Visible(d.storage) = d.before.storage)
      /\ returned'.balancesKept = (d.balances = d.before.balances)
  BY <1>3 DEF Report
<1>9. FailedCallKeepsBalances' /\ PlainFailureKeepsStorage'
  BY <1>7, <1>8 DEF FailedCallKeepsBalances, PlainFailureKeepsStorage
<1> QED
  BY <1>6, <1>9 DEF PvmInv

\* A transaction starts with an empty overlay and empty journals.
LEMMA PvmInitHolds ==
    ASSUME PvmInit
    PROVE  PvmInv
<1> DEFINE b == [a \in VmAddresses |-> IF a \in Code THEN Endowment ELSE 0]
           none == FALSE
           kind == "transaction"
<1>1. PICK a \in Code :
        frames = <<[NewVm(kind, a, none, GasLimit, b, {}, NoOverlay) EXCEPT !.allowed = AccessList]>>
  BY Zenon DEF PvmInit
<1> DEFINE f == [NewVm(kind, a, none, GasLimit, b, {}, NoOverlay) EXCEPT !.allowed = AccessList]
<1>2. /\ DOMAIN f = VmFields /\ f.kind = kind /\ f.static = FALSE /\ f.plain = TRUE
      /\ f.before = [storage |-> [k \in Keys |-> Backend(k)], balances |-> b]
      /\ f.storage = NoOverlay /\ f.journal = [k \in Keys |-> Unjournaled]
      /\ f.balances = b /\ f.balance_journal = [x \in VmAddresses |-> Unjournaled]
  <2> HIDE DEF b
  <2> QED
    BY DEF NewVm, VmFields
<1>3. frames = <<f>>
  BY <1>1
<1> HIDE DEF f
<1>4. b \in Balances
  BY PvmAssumption DEF Balances
<1> HIDE DEF b
<1>5. f.before.storage = [k \in Keys |-> Backend(k)] /\ f.before.balances = b
  BY <1>2
<1>6. Visible(NoOverlay) = [k \in Keys |-> Backend(k)]
  BY DEF Visible, NoOverlay
<1>7. VmType(f)
  <2>1. f.before.storage \in Overlays
    BY <1>5, <1>6, NoOverlayType, VisibleType
  <2>2. f.journal \in Journals /\ f.balance_journal \in [VmAddresses -> Nat \cup {Unjournaled}]
    BY <1>2 DEF Journals
  <2> QED
    BY <1>2, <1>4, <1>5, <2>1, <2>2, NoOverlayType DEF VmType
<1>8. OwnInv(f, Visible(f.storage))
  BY <1>2, <1>5, <1>6 DEF OwnInv, JournalCovers
<1>9. FirstInv(f)
  <2>1. RestoredFrom(f.balance_journal, f.balances) = b
    BY <1>2, <1>4 DEF RestoredFrom, Balances
  <2> QED
    BY <1>2, <1>5, <2>1 DEF FirstInv
<1>10. FramesInv(frames)
  <2>1. frames \in Seq({f}) /\ Len(frames) = 1 /\ frames[1] = f
    BY <1>3
  <2>2. frames \in Seq(Vms(frames))
    BY <2>1, OwnElements
  <2>3. Seen(frames, 1) = Visible(f.storage)
    BY <2>1 DEF Seen
  <2>4. \A n \in 1..Len(frames) : n = 1
    BY <2>1
  <2>5. \A n \in 1..Len(frames) : VmType(frames[n]) /\ OwnInv(frames[n], Seen(frames, n))
    BY <1>7, <1>8, <2>1, <2>3, <2>4
  <2>6. \A n \in 1..Len(frames) : ~(n > 1)
    BY <2>4
  <2> QED
    BY <1>9, <2>1, <2>2, <2>5, <2>6, Zenon DEF FramesInv
<1>11. FailedCallKeepsBalances /\ PlainFailureKeepsStorage
  BY DEF PvmInit, FailedCallKeepsBalances, PlainFailureKeepsStorage
<1> QED
  BY <1>10, <1>11 DEF PvmInv

\* The invariant holds of every stack of VMs that execute() can build.
THEOREM PvmInvHolds == PvmSpec => []PvmInv
<1>1. PvmInit => PvmInv
  BY PvmInitHolds
<1>2. PvmInv /\ [PvmNext]_pvm_vars => PvmInv'
  <2> SUFFICES ASSUME PvmInv, [PvmNext]_pvm_vars
               PROVE  PvmInv'
    OBVIOUS
  <2>1. ASSUME NEW i \in Program, Step(i) PROVE PvmInv'
    <3>1. FramesInv(frames') /\ returned' = returned
      BY <2>1, StepKeeps DEF PvmInv, Step
    <3> QED
      BY <3>1 DEF PvmInv, FailedCallKeepsBalances, PlainFailureKeepsStorage
  <2>2. CASE Return
    BY <2>2, ReturnKeeps
  <2>3. CASE Finish
    BY <2>3, FinishKeeps
  <2>4. CASE UNCHANGED pvm_vars
    <3>1. frames' = frames /\ returned' = returned
      BY <2>4 DEF pvm_vars
    <3> QED
      BY <3>1 DEF PvmInv, FailedCallKeepsBalances, PlainFailureKeepsStorage
  <2> QED
    BY <2>1, <2>2, <2>3, <2>4 DEF PvmNext
<1> QED
  BY <1>1, <1>2, PTL DEF PvmSpec

(***************************************************************************)
(* A call, a creation or a transaction that fails leaves the balances      *)
(* there were before it, for every program, depth, gas schedule and set of *)
(* addresses (rollback_balances and the journaled merges of do_ext_call    *)
(* and do_create).                                                         *)
(***************************************************************************)
THEOREM FailedCallsMoveNothing == PvmSpec => []FailedCallKeepsBalances
<1>1. PvmInv => FailedCallKeepsBalances
  BY DEF PvmInv
<1> QED
  BY <1>1, PvmInvHolds, PTL

(***************************************************************************)
(* A VM that fails, with no successful call inside it, leaves the storage  *)
(* it found (journal_storage_write and rollback_storage).                  *)
(***************************************************************************)
THEOREM FailedFramesRestoreStorage == PvmSpec => []PlainFailureKeepsStorage
<1>1. PvmInv => PlainFailureKeepsStorage
  BY DEF PvmInv
<1> QED
  BY <1>1, PvmInvHolds, PTL

(***************************************************************************)
(* Below a static call nothing is written, at any depth (the static_mode   *)
(* tests of step, and child.static_mode in do_ext_call).                   *)
(***************************************************************************)
THEOREM StaticModeHolds == PvmSpec => []StaticCallsWriteNothing
<1>1. PvmInv => StaticCallsWriteNothing
  <2> SUFFICES ASSUME PvmInv, NEW n \in 1..Len(frames), frames[n].static, n = Len(frames),
                      NEW k \in Keys
               PROVE  Visible(frames[n].storage)[k] \in {frames[n].before.storage[k], Backend(k)}
    BY DEF StaticCallsWriteNothing
  <2>1. OwnInv(frames[n], Seen(frames, n))
    BY Zenon DEF PvmInv, FramesInv
  <2>2. Seen(frames, n) = Visible(frames[n].storage)
    BY Zenon DEF Seen
  <2>3. WroteNothing(frames[n], Visible(frames[n].storage))
    BY <2>1, <2>2 DEF OwnInv
  <2> QED
    BY <2>3 DEF WroteNothing
<1> QED
  BY <1>1, PvmInvHolds, PTL
==============================================================================
