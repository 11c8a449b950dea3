---------------------------- MODULE StateManager ----------------------------
(***************************************************************************)
(* The ledger store of a node: a write-through cache over the durable      *)
(* Merkle tree, the writes deferred until the caller commits them, and the *)
(* per-block undo logs a reorganisation replays.  A store is a record      *)
(*   smt      what the tree on disk holds for every key                    *)
(*   cache    the values held in memory, over a subset of the keys         *)
(*   pending  writes the cache has and the tree has not                    *)
(*   undo     undo logs, oldest first: [slot, entries]                     *)
(* and the methods of the Rust type are functions of it.  A batch of       *)
(* writes, or the old values of a log, is a function on the keys it has:   *)
(* of two writes to one key the code keeps the later.  A value is an       *)
(* arbitrary sequence; the empty one is the code's empty byte string, read *)
(* as an absent key.                                                       *)
(***************************************************************************)
EXTENDS Integers, Sequences

CONSTANTS
    Keys,           \* the keys of the ledger
    MaxUndoDepth    \* MAX_UNDO_DEPTH: undo logs kept

Absent == <<>>

\* HashMap::insert and a put of the key-value store.
With(f, k, v) == [x \in DOMAIN f \cup {k} |-> IF x = k THEN v ELSE f[x]]

\* The same for each write of a batch.
Over(f, writes) ==
    [k \in DOMAIN f \cup DOMAIN writes |-> IF k \in DOMAIN writes THEN writes[k] ELSE f[k]]

get(s, k) == IF k \in DOMAIN s.cache THEN s.cache[k] ELSE s.smt[k]

\* PersistentJMT::update_all: one atomic, synced batch.
update_all(tree, writes) == Over(tree, writes)

\* StateManager::insert: cache and tree at once, past the deferred writes.
insert(s, k, v) == [s EXCEPT !.cache = With(@, k, v), !.smt[k] = v]

\* Also StateAccess::insert, with a batch of one.
update_batch_deferred(s, writes) ==
    [s EXCEPT !.cache = Over(@, writes), !.pending = Over(@, writes)]

\* flush_pending, and take_pending_writes followed by commit_writes_to_smt.
flush_pending(s) ==
    [s EXCEPT !.smt = update_all(@, s.pending), !.pending = <<>>]

record_block_undo(s, slot, entries) ==
    LET logs == Append(s.undo, [slot |-> slot, entries |-> entries])
    IN  [s EXCEPT !.undo = IF Len(logs) > MaxUndoDepth THEN Tail(logs) ELSE logs]

(***************************************************************************)
(* revert_to pops the logs above the target, newest first, and restores    *)
(* their old values in the cache and directly in the tree.  Of the logs    *)
(* popped that have a key, the oldest is the last to restore it.           *)
(***************************************************************************)
CanRevertTo(s, target) == s.undo # <<>> => Head(s.undo).slot <= target + 1

\* How many logs stay: the loop stops at a log at or below the target.
Kept(s, target) ==
    CHOOSE n \in 0..Len(s.undo) :
        /\ \A i \in (n + 1)..Len(s.undo) : s.undo[i].slot > target
        /\ n > 0 => s.undo[n].slot <= target

Logged(s, n) == UNION {DOMAIN s.undo[i].entries : i \in (n + 1)..Len(s.undo)}

\* Mutant of LastRestored: the logs are replayed oldest first.
NewestRestored(s, n, k) ==
    CHOOSE i \in (n + 1)..Len(s.undo) :
        /\ k \in DOMAIN s.undo[i].entries
        /\ \A j \in (i + 1)..Len(s.undo) : k \notin DOMAIN s.undo[j].entries

LastRestored(s, n, k) ==
    CHOOSE i \in (n + 1)..Len(s.undo) :
        /\ k \in DOMAIN s.undo[i].entries
        /\ \A j \in (n + 1)..(i - 1) : k \notin DOMAIN s.undo[j].entries

OldValues(s, n) == [k \in Logged(s, n) |-> s.undo[LastRestored(s, n, k)].entries[k]]

\* An absent value is taken out of the cache.
Uncached(cache, old) ==
    LET all == Over(cache, old)
    IN  [k \in {k \in DOMAIN all : k \in DOMAIN old => old[k] # Absent} |-> all[k]]

revert_to(s, target) ==
    LET n   == Kept(s, target)
        old == OldValues(s, n)
    IN  [s EXCEPT !.cache = Uncached(@, old), !.smt = update_all(@, old),
                  !.undo = SubSeq(@, 1, n)]

\* StateManager::open on the tree a stopped process left.
open(smt) == [smt |-> smt, cache |-> <<>>, pending |-> <<>>, undo |-> <<>>]
=============================================================================
