----------------------------- MODULE AccountNonce -----------------------------
(***************************************************************************)
(* The life of one account's nonce window: one Use(n) per transaction that *)
(* passed validation with nonce n, in any order.  It implements NonceOnce. *)
(***************************************************************************)
EXTENDS NonceWindow

VARIABLES
    window,   \* the account's NonceState
    sent      \* history: the transactions that passed validation

nonce_vars == <<window, sent>>

Use(n) ==
    /\ validate(window, n)
    /\ window' = use_nonce(window, n)
    /\ sent' = sent + 1

NonceInit == window = EmptyWindow /\ sent = 0

NonceNext == \E n \in 0..MAX_NONCE : Use(n)

NonceSpec == NonceInit /\ [][NonceNext]_nonce_vars

(***************************************************************************)
(* Properties.                                                             *)
(***************************************************************************)

\* The nonces an account has consumed: all below base, and the used slots.
Consumed == 0..(window.base - 1) \cup {window.base + b : b \in window.used}

\* base is a nonce of the type and the bitmap fits the window.
WindowTypeOK == window \in NonceState

\* The window never wedges: as long as some nonce is left, base is unused and
\* so the account can always send the transaction with its lowest nonce.  It
\* is what advance must restore after every use_nonce, and it must not give
\* the last nonce out twice when base cannot move any further.
WindowNeverStuck == Consumed # 0..MAX_NONCE => validate(window, window.base)

\* No transaction is replayed: seen as the set of consumed nonces, every step of
\* validate and use_nonce is one transaction more and one fresh nonce more,
\* within the window.
Once == INSTANCE NonceOnce WITH consumed <- Consumed

ReplaySpec == Once!Spec

==============================================================================
