---------------------------- MODULE VersionedMap ----------------------------
(***************************************************************************)
(* What the durable state tree promises to the ledger above it: a map from *)
(* keys to values that changes by whole batches, survives a crash as it is *)
(* and answers every read with the last batch that was committed.  Module  *)
(* JmtStore implements this specification.                                 *)
(***************************************************************************)
EXTENDS Integers

CONSTANTS
    TreeKeys,     \* keys of the state
    TreeValues,   \* non-empty values
    NoValue       \* what an absent or deleted key reads as

VARIABLES
    map,          \* what was committed last
    version,      \* batches committed, less one
    reply         \* the last answer given to a reader

Batches == UNION {[K -> TreeValues \cup {NoValue}] : K \in (SUBSET TreeKeys) \ {{}}}

Apply(m, batch) == [k \in TreeKeys |-> IF k \in DOMAIN batch THEN batch[k] ELSE m[k]]

Value(k) == [key |-> k, value |-> map[k]]

Summary == [root |-> map, is_empty |-> version = -1]

Commit(batch) ==
    /\ map' = Apply(map, batch)
    /\ version' = version + 1
    /\ UNCHANGED reply

Read == reply' \in {Value(k) : k \in TreeKeys} \cup {Summary} /\ UNCHANGED <<map, version>>

\* A caller that goes away takes its answer with it.
Forget == reply' = <<>> /\ UNCHANGED <<map, version>>

Init == map = [k \in TreeKeys |-> NoValue] /\ version = -1 /\ reply = <<>>

Next == Read \/ Forget \/ \E batch \in Batches : Commit(batch)

Spec == Init /\ [][Next]_<<map, version, reply>>
=============================================================================
