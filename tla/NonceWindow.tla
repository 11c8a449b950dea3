----------------------------- MODULE NonceWindow -----------------------------
(***************************************************************************)
(* The nonce window of an account (account/src/nonce.rs): base, the lowest *)
(* nonce of the window, and used, the offsets from base already consumed   *)
(* (the bits of a u16).  The operators are those of NonceState; they are   *)
(* what the transaction pipeline calls (module Ledger) and what the state  *)
(* machine of module AccountNonce steps through.                           *)
(***************************************************************************)
EXTENDS Naturals

CONSTANTS
    WINDOW_SIZE,   \* slots of the window
    MAX_NONCE      \* u64::MAX

ASSUME WindowAssumption == WINDOW_SIZE \in Nat \ {0} /\ MAX_NONCE \in Nat

Offsets == 0..(WINDOW_SIZE - 1)

NonceState == [base : 0..MAX_NONCE, used : SUBSET Offsets]

EmptyWindow == [base |-> 0, used |-> {}]

\* Mutant of validate: a used slot of the window is accepted again.
ValidateRange(w, n) ==
    /\ n >= w.base
    /\ w.base + WINDOW_SIZE <= MAX_NONCE => n < w.base + WINDOW_SIZE

\* The upper bound is not tested once the window reaches past the last nonce.
validate(w, n) ==
    /\ n >= w.base
    /\ w.base + WINDOW_SIZE <= MAX_NONCE => n < w.base + WINDOW_SIZE
    /\ n - w.base \notin w.used

\* How many leading slots advance skips: it stops at the first unused slot and
\* at the last nonce, whose bit it leaves set.
StopsAt(w, k) == k \notin w.used \/ w.base + k = MAX_NONCE

Skipped(w) ==
    CHOOSE k \in 0..WINDOW_SIZE : StopsAt(w, k) /\ \A j \in 0..(k - 1) : ~StopsAt(w, j)

\* Mutant of advance: the window moves one slot at a time.
AdvanceOne(w) ==
    LET k == IF StopsAt(w, 0) THEN 0 ELSE 1
    IN  [base |-> w.base + k, used |-> {b \in Offsets : b + k \in w.used}]

advance(w) ==
    LET k == Skipped(w)
    IN  [base |-> w.base + k, used |-> {b \in Offsets : b + k \in w.used}]

use_nonce(w, n) == advance([base |-> w.base, used |-> w.used \cup {n - w.base}])
==============================================================================
