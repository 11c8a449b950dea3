---------------------------- MODULE ParallelBlock ----------------------------
(***************************************************************************)
(* Parallel execution of a block (tx/src/parallel.rs and the group path of *)
(* node/src/block_processor.rs).  The scheduler joins transactions that    *)
(* touch a common key into groups; the groups run on threads of their own, *)
(* each over an overlay of the state before the block; their writes are    *)
(* merged in the order of the groups.  A block with one group runs in      *)
(* order, as the reference execution does here.                            *)
(*                                                                         *)
(* A key is an account's balance or nonce or a storage slot.  What a       *)
(* transaction writes is an uninterpreted function of what it reads.       *)
(***************************************************************************)
EXTENDS Integers

CONSTANTS
    N,                  \* transactions of the block
    BlockTxs,           \* the transactions a block may hold
    AllKeys,            \* keys of the state
    balance_key(_), nonce_key(_),
    ZERO_ADDRESS,
    Outcome(_, _, _),   \* the value a transaction writes, from what it read
    Pre                 \* the state before the block

ASSUME BlockAssumption == N \in Nat /\ Pre = [k \in AllKeys |-> Pre[k]]

Ids == 1..N

------------------------------------------------------------------------------
(***************************************************************************)
(* What the scheduler knows of a transaction, and what its execution does. *)
(***************************************************************************)
ImplicitTypes == {"Standard", "Deploy", "RegisterPubkey"}

implicit_writes(tx) ==
    IF tx.type \notin ImplicitTypes THEN {}
    ELSE {balance_key(tx.from), nonce_key(tx.from)}
           \cup (IF tx.type = "Standard" /\ tx.to # ZERO_ADDRESS THEN {balance_key(tx.to)} ELSE {})

access_list_is_uninformative(tx) == tx.reads = {} /\ tx.writes = {}

Unknown(tx) == tx.type \notin ImplicitTypes /\ access_list_is_uninformative(tx)

Claims(tx) == implicit_writes(tx) \cup tx.writes

\* The pipeline stores sender and recipient, whatever the type, and what the
\* code it runs touches; it reads what it writes.
Writes(tx) ==
    {balance_key(tx.from), nonce_key(tx.from), balance_key(tx.to)} \cup tx.stores

Loads(tx) == Writes(tx) \cup tx.loads

\* The scheduler sees all the transaction does.
Covered(tx) ==
    Unknown(tx) \/ (Writes(tx) \subseteq Claims(tx) /\ Loads(tx) \subseteq Claims(tx) \cup tx.reads)

------------------------------------------------------------------------------
VARIABLES
    txs,       \* the block
    phase,     \* "reference", "schedule", "execute" or "merged"
    next,      \* the index the loop of the phase has reached
    ref,       \* ref[i]: the state after the first i transactions, in order
    comp,      \* the union-find: the set each index is in, named by a member
    owners,    \* write_owners: the first index that claimed a key, or 0
    unknown,   \* unknown_representative, or 0
    done,      \* the transactions the groups have executed
    overlay,   \* the writes of each group
    wrote,     \* the keys in each group's overlay
    merged     \* the state after the block

par_vars == <<txs, phase, next, ref, comp, owners, unknown, done, overlay, wrote, merged>>

\* One transaction over a state: the keys it writes get new values.
Apply(tx, s) ==
    [k \in AllKeys |-> IF k \in Writes(tx)
                       THEN Outcome(tx, k, [r \in Loads(tx) \cap AllKeys |-> s[r]])
                       ELSE s[k]]

ParInit ==
    /\ txs \in [Ids -> BlockTxs]
    /\ phase = "reference"
    /\ next = 1
    /\ ref = [i \in 0..N |-> Pre]
    /\ comp = [i \in Ids |-> i]
    /\ owners = [k \in AllKeys |-> 0]
    /\ unknown = 0
    /\ done = {}
    /\ overlay = [g \in Ids |-> Pre]
    /\ wrote = [g \in Ids |-> {}]
    /\ merged = Pre

\* The single-group path: every transaction in the order of the block.
RunInOrder ==
    /\ phase = "reference"
    /\ IF next <= N
       THEN /\ ref' = [i \in 0..N |-> IF i = next THEN Apply(txs[next], ref[next - 1]) ELSE ref[i]]
            /\ next' = next + 1
            /\ phase' = phase
       ELSE /\ phase' = "schedule"
            /\ next' = 1
            /\ ref' = ref
    /\ UNCHANGED <<txs, comp, owners, unknown, done, overlay, wrote, merged>>

Union(sets) == [x \in Ids |-> IF comp[x] \in sets THEN next ELSE comp[x]]

\* Mutant of Met: only what the transaction writes is looked up.
MetByWrites(tx) == {owners[k] : k \in {k \in AllKeys : k \in Claims(tx) /\ owners[k] # 0}}

\* The owners a transaction meets: of what it claims, and of what it reads.
Met(tx) == {owners[k] : k \in {k \in AllKeys : k \in Claims(tx) \cup tx.reads /\ owners[k] # 0}}

Claim ==
    /\ phase = "schedule"
    /\ next <= N
    /\ IF Unknown(txs[next])
       THEN /\ unknown' = IF unknown = 0 THEN next ELSE unknown
            /\ comp' = IF unknown = 0 THEN comp ELSE Union({comp[next], comp[unknown]})
            /\ owners' = owners
       ELSE /\ comp' = Union({comp[next]} \cup {comp[w] : w \in Met(txs[next])})
            /\ owners' = [k \in AllKeys |-> IF k \in Claims(txs[next]) /\ owners[k] = 0
                                            THEN next ELSE owners[k]]
            /\ unknown' = unknown
    /\ next' = next + 1
    /\ UNCHANGED <<txs, phase, ref, done, overlay, wrote, merged>>

\* A transaction the scheduler knows nothing of joins everything.
CloseSchedule ==
    /\ phase = "schedule"
    /\ next > N
    /\ comp' = IF unknown = 0 THEN comp ELSE [x \in Ids |-> unknown]
    /\ phase' = "execute"
    /\ UNCHANGED <<txs, next, ref, owners, unknown, done, overlay, wrote, merged>>

\* A group's thread executes its next transaction over the group's overlay.
View(g) == [k \in AllKeys |-> IF k \in wrote[g] THEN overlay[g][k] ELSE Pre[k]]

ExecuteInGroup(i) ==
    /\ phase = "execute"
    /\ i \notin done
    /\ \A j \in 1..(i - 1) : comp[j] = comp[i] => j \in done
    /\ overlay' = [g \in Ids |-> IF g = comp[i] THEN Apply(txs[i], View(g)) ELSE overlay[g]]
    /\ wrote' = [g \in Ids |-> IF g = comp[i] THEN wrote[g] \cup Writes(txs[i]) ELSE wrote[g]]
    /\ done' = done \cup {i}
    /\ UNCHANGED <<txs, phase, next, ref, comp, owners, unknown, merged>>

\* Groups are ordered by their first index, and a later write replaces an
\* earlier one of the same key.
First(g, i) == comp[i] = g /\ \A j \in 1..(i - 1) : comp[j] # g

LastWriter(k, g) ==
    /\ k \in wrote[g]
    /\ \A h \in Ids : k \in wrote[h] =>
         \A i, j \in Ids : First(g, i) /\ First(h, j) => j <= i

Merge ==
    /\ phase = "execute"
    /\ done = Ids
    /\ merged' = [k \in AllKeys |->
                    IF \E g \in Ids : LastWriter(k, g)
                    THEN overlay[CHOOSE g \in Ids : LastWriter(k, g)][k]
                    ELSE Pre[k]]
    /\ phase' = "merged"
    /\ UNCHANGED <<txs, next, ref, comp, owners, unknown, done, overlay, wrote>>

ParNext ==
    \/ RunInOrder
    \/ Claim
    \/ CloseSchedule
    \/ \E i \in Ids : ExecuteInGroup(i)
    \/ Merge

ParSpec == ParInit /\ [][ParNext]_par_vars

(***************************************************************************)
(* Properties.                                                             *)
(***************************************************************************)

\* Whatever the threads do, a block whose transactions touch only keys the
\* scheduler knows of leaves the state that executing it in order leaves: the
\* guarantee execute_block_parallel says the conflict scheduler provides.
ParallelEqualsSequential ==
    phase = "merged" /\ (\A i \in Ids : Covered(txs[i])) => merged = ref[N]
==============================================================================
