------------------------------ MODULE Decryption ------------------------------
(***************************************************************************)
(* Threshold decryption of a block's encrypted transactions, as the nodes  *)
(* of the committee run it: mempool/src/decryption.rs (BlockDecryptor) and *)
(* the handlers of node/src/node.rs that create a decryptor when a block   *)
(* is applied, feed it the committee's shares, execute the transactions    *)
(* when it has enough, send its own shares again, and clean up.            *)
(*                                                                         *)
(* A message carries one share of its sender for every transaction of the  *)
(* block, so the transactions of a block gather the same shares and are    *)
(* one batch here.  Blocks are applied in order; which block a slot has is *)
(* settled before its certificate.                                         *)
(***************************************************************************)
EXTENDS Integers, Sequences, FiniteSets

CONSTANTS
    Members,      \* the committee; each member holds a key share
    LastSlot,     \* bound: the slots are 1..LastSlot
    Encrypted,    \* the slots whose block carries encrypted transactions
    DECRYPT_WINDOW, \* slots a decryptor and queued shares are kept (100)
    Crashers      \* the nodes that restart

ASSUME DecryptionAssumption ==
    /\ LastSlot \in Nat
    /\ Encrypted \subseteq 1..LastSlot
    /\ DECRYPT_WINDOW \in Nat
    /\ IsFiniteSet(Members)

BlockSlots == 1..LastSlot

\* quorum_for_committee
DecryptThreshold == (2 * Cardinality(Members) + 2) \div 3

VARIABLES
    head,      \* the last block each node has applied
    effects,   \* what each node has applied to its state, in order
    decryptor, \* pending_decryptors: the shares a pending decryptor holds, or NoDecryptor
    queued,    \* queued_shares: senders whose shares came before the decryptor
    shareNet   \* messages under way; one that is lost is never received

dec_vars == <<head, effects, decryptor, queued, shareNet>>

\* No entry in pending_decryptors; a decryptor always holds its own share.
NoDecryptor == {}

DecInit ==
    /\ head = [m \in Members |-> 0]
    /\ effects = [m \in Members |-> <<>>]
    /\ decryptor = [m \in Members |-> [s \in Encrypted |-> NoDecryptor]]
    /\ queued = [m \in Members |-> [s \in Encrypted |-> {}]]
    /\ shareNet = {}

\* Mutant of all_ready: the node's own share counts twice.
CountsOwnTwice(shares) == Cardinality(shares) + 1 >= DecryptThreshold

all_ready(shares) == Cardinality(shares) >= DecryptThreshold

ShareMsgs(m, s) == [from : {m}, to : Members \ {m}, slot : {s}]

------------------------------------------------------------------------------
\* Execution of a decrypted batch: over the state as it is now.
Ran(s) == [kind |-> "decrypted", slot |-> s]

\* The path of a node whose own vote completes the certificate checks each
\* transaction's signature again, over the hash of the decrypted transaction;
\* the sender signed the hash of the encrypted one.
Refused(s) == [kind |-> "refused", slot |-> s]

Plain(s) == [kind |-> "plain", slot |-> s]

\* A decryptor is made from the node's own share and the shares that came early.
Kicked(m, s) == {m} \cup queued[m][s]

\* A block is applied: its plaintext transactions run; when it carries encrypted
\* ones the decryptor d is kept and the node's shares are sent.
ApplyBlock(m, s, d, log) ==
    /\ s \in BlockSlots
    /\ head' = [head EXCEPT ![m] = s]
    /\ effects' = [effects EXCEPT ![m] = @ \o log]
    /\ IF s \in Encrypted
       THEN /\ decryptor' = [decryptor EXCEPT ![m][s] = d]
            /\ queued' = [queued EXCEPT ![m][s] = {}]
            /\ shareNet' = shareNet \cup ShareMsgs(m, s)
       ELSE UNCHANGED <<decryptor, queued, shareNet>>

\* ApplyCanonicalAfterQc, its request-response twin and the sync path, which
\* call maybe_kick_decryption_pipeline: nothing looks whether the decryptor is
\* already complete.
ApplyCanonicalAfterQc(m) ==
    LET s == head[m] + 1 IN ApplyBlock(m, s, Kicked(m, s), <<Plain(s)>>)

\* The node's own vote completed the certificate: here the decryptor is tried
\* at once.
ApplyOnOwnVote(m) ==
    LET s == head[m] + 1
        ready == s \in Encrypted /\ all_ready(Kicked(m, s))
    IN ApplyBlock(m, s, IF ready THEN NoDecryptor ELSE Kicked(m, s),
                        IF ready THEN <<Plain(s), Refused(s)>> ELSE <<Plain(s)>>)

\* Mutant of AddDecryptionShares: an executed decryptor is not removed.
ExecuteAndKeep(m) ==
    \E msg \in shareNet :
      LET s == msg.slot
          has == decryptor[m][s] \cup {msg.from}
      IN
      /\ msg.to = m
      /\ shareNet' = shareNet \ {msg}
      /\ IF decryptor[m][s] = NoDecryptor
         THEN /\ queued' = [queued EXCEPT ![m][s] = @ \cup {msg.from}]
              /\ UNCHANGED <<effects, decryptor>>
         ELSE /\ IF all_ready(has)
                 THEN /\ effects' = [effects EXCEPT ![m] = Append(@, Ran(s))]
                      /\ decryptor' = [decryptor EXCEPT ![m][s] = has]
                 ELSE /\ decryptor' = [decryptor EXCEPT ![m][s] = has]
                      /\ UNCHANGED effects
              /\ UNCHANGED queued
      /\ UNCHANGED head

\* AddDecryptionShares: the shares complete a decryptor, or join it, or wait
\* for one.
AddDecryptionShares(m) ==
    \E msg \in shareNet :
      LET s == msg.slot
          has == decryptor[m][s] \cup {msg.from}
      IN
      /\ msg.to = m
      /\ shareNet' = shareNet \ {msg}
      /\ IF decryptor[m][s] = NoDecryptor
         THEN /\ queued' = [queued EXCEPT ![m][s] = @ \cup {msg.from}]
              /\ UNCHANGED <<effects, decryptor>>
         ELSE /\ IF all_ready(has)
                 THEN /\ effects' = [effects EXCEPT ![m] = Append(@, Ran(s))]
                      /\ decryptor' = [decryptor EXCEPT ![m][s] = NoDecryptor]
                 ELSE /\ decryptor' = [decryptor EXCEPT ![m][s] = has]
                      /\ UNCHANGED effects
              /\ UNCHANGED queued
      /\ UNCHANGED head

\* The retry tick sends the node's shares again for every incomplete decryptor.
RetryShares(m) ==
    LET stuck == {s \in Encrypted : decryptor[m][s] # NoDecryptor /\ ~all_ready(decryptor[m][s])} IN
    /\ stuck # {}
    /\ shareNet' = shareNet \cup UNION {ShareMsgs(m, s) : s \in stuck}
    /\ UNCHANGED <<head, effects, decryptor, queued>>

\* The maintenance tick forgets slots that are too old.
Cleanup(m) ==
    LET old == {s \in Encrypted : s + DECRYPT_WINDOW <= head[m]} IN
    /\ \E s \in old : decryptor[m][s] # NoDecryptor \/ queued[m][s] # {}
    /\ decryptor' = [decryptor EXCEPT ![m] = [s \in Encrypted |-> IF s \in old THEN NoDecryptor ELSE @[s]]]
    /\ queued' = [queued EXCEPT ![m] = [s \in Encrypted |-> IF s \in old THEN {} ELSE @[s]]]
    /\ UNCHANGED <<head, effects, shareNet>>

\* Decryptors and queued shares are in memory only.
RestartNode(m) ==
    /\ m \in Crashers
    /\ \E s \in Encrypted : decryptor[m][s] # NoDecryptor \/ queued[m][s] # {}
    /\ decryptor' = [decryptor EXCEPT ![m] = [s \in Encrypted |-> NoDecryptor]]
    /\ queued' = [queued EXCEPT ![m] = [s \in Encrypted |-> {}]]
    /\ UNCHANGED <<head, effects, shareNet>>

DecNext ==
    \E m \in Members :
         \/ ApplyCanonicalAfterQc(m)
         \/ ApplyOnOwnVote(m)
         \/ AddDecryptionShares(m)
         \/ RetryShares(m)
         \/ Cleanup(m)
         \/ RestartNode(m)

DecSpec == DecInit /\ [][DecNext]_dec_vars

(***************************************************************************)
(* Properties.                                                             *)
(***************************************************************************)
Opened(m, s) == \E i \in 1..Len(effects[m]) : effects[m][i] \in {Ran(s), Refused(s)}

\* A node learns the contents of a block's encrypted transactions only when a
\* quorum of the committee has applied the block, so that their order can no
\* longer change: "the decryption happens AFTER ordering is committed"
\* (decryption.rs), through early, late, repeated and lost shares and restarts.
OpenedAfterOrder ==
    \A m \in Members : \A s \in BlockSlots :
      Opened(m, s) => Cardinality({w \in Members : head[w] >= s}) >= DecryptThreshold

\* No batch is executed twice by a node, whatever shares come after it was
\* executed: the late share of a slow member finds no decryptor and is queued.
DecryptedOnce ==
    \A m \in Members : \A i, j \in 1..Len(effects[m]) :
      effects[m][i] = effects[m][j] => i = j

\* The part of the state a finality vote for slot s signs.
RootAt(m, s) == SubSeq(effects[m], 1, CHOOSE i \in 1..Len(effects[m]) : effects[m][i] = Plain(s))

\* "Every honest validator that executed the block deterministically produces
\* the same value": two nodes that applied the same blocks sign the same root.
SameRootAtSlot ==
    \A m, w \in Members : \A s \in BlockSlots :
      head[m] >= s /\ head[w] >= s => RootAt(m, s) = RootAt(w, s)
==============================================================================
