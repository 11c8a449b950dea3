------------------------------ MODULE NonceOnce ------------------------------
(***************************************************************************)
(* What an account's nonce window promises to the owner of the account and *)
(* to everybody who relays its transactions: every nonce authorises one    *)
(* transaction, whatever the order the transactions arrive in, and the     *)
(* nonces in flight stay within a window above the lowest unused one.      *)
(* Module NonceWindow implements this specification.                       *)
(***************************************************************************)
EXTENDS Naturals

CONSTANTS
    WINDOW_SIZE,   \* how far ahead of the lowest unused nonce one may be
    MAX_NONCE      \* the largest nonce, u64::MAX in the code

VARIABLES
    consumed,      \* the nonces that authorised a transaction
    sent           \* how many transactions were authorised

Consume(n) ==
    /\ n \notin consumed
    /\ \E low \in 0..n :
         /\ 0..(low - 1) \subseteq consumed
         /\ n < low + WINDOW_SIZE
    /\ consumed' = consumed \cup {n}
    /\ sent' = sent + 1

Init == consumed = {} /\ sent = 0

Next == \E n \in 0..MAX_NONCE : Consume(n)

Spec == Init /\ [][Next]_<<consumed, sent>>
==============================================================================
