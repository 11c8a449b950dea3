------------------------------ MODULE JmtStore ------------------------------
(***************************************************************************)
(* PersistentJMT over JmtRocksStore: a versioned Merkle tree in RocksDB    *)
(* behind two caches.  The database holds, for every version, the nodes of *)
(* its tree and, for every key, the values written at each version.  Only  *)
(* the root node is kept here and it stands for its whole tree: the leaf   *)
(* (the hash of a value) of every key.  A hash is modelled by what it      *)
(* hashes, so a root is its tree.                                          *)
(*                                                                         *)
(* The tree library is external: put_value_set derives the next tree from  *)
(* the root node it reads, and get looks a value up only when the tree has *)
(* a leaf for the key.  The mutex around PersistentJMT serialises its      *)
(* methods; a crash may come between any two steps of one.                 *)
(***************************************************************************)
EXTENDS Integers

CONSTANTS
    TreeKeys,     \* keys of the state
    TreeValues,   \* non-empty values
    NoValue,      \* the empty value: a tombstone on disk, None to a reader
    MaxVersion    \* bound on the versions committed

ASSUME JmtAssumption ==
    /\ NoValue \notin TreeValues
    /\ MaxVersion \in Nat

VARIABLES
    db,               \* RocksDB: nodes, values and the latest version
    node_cache,       \* root nodes read or written, by version
    value_cache,      \* values read or written, by key only
    current_version,  \* version of the tree in memory
    current_root,     \* and its root
    job,              \* the update_all under way
    answer            \* what the last read returned

jmt_vars == <<db, node_cache, value_cache, current_version, current_root, job, answer>>

(***************************************************************************)
(* u64::MAX stands for no version yet and wrapping_add turns it into 0.    *)
(***************************************************************************)
Sentinel == -1

Stored == TreeValues \cup {NoValue}

Trees == [TreeKeys -> Stored]

EMPTY_ROOT == [k \in TreeKeys |-> NoValue]

\* LruCache::put, and a put of the key-value store.
Put(f, k, v) == [x \in DOMAIN f \cup {k} |-> IF x = k THEN v ELSE f[x]]

PutAll(f, g) == [x \in DOMAIN f \cup DOMAIN g |-> IF x \in DOMAIN g THEN g[x] ELSE f[x]]

\* Keys sort by key, then by newest version: the first record of the scan.
ScanStops(k, max_version, v) ==
    /\ v \in DOMAIN db.values[k] /\ v <= max_version
    /\ \A w \in DOMAIN db.values[k] : w <= max_version => w <= v

Scan(k, max_version) ==
    IF \E v \in DOMAIN db.values[k] : v <= max_version
      THEN db.values[k][CHOOSE v \in DOMAIN db.values[k] : ScanStops(k, max_version, v)]
      ELSE NoValue

\* get_node_option, for the root node of a version.
RootNode(v) == IF v \in DOMAIN node_cache THEN node_cache[v] ELSE db.nodes[v]

get_value_option(k, max_version) ==
    IF k \in DOMAIN value_cache THEN value_cache[k] ELSE Scan(k, max_version)

\* What PersistentJMT::get returns.
Lookup(k) ==
    IF current_version = Sentinel \/ RootNode(current_version)[k] = NoValue
      THEN NoValue
      ELSE get_value_option(k, current_version)

\* What it leaves in the caches.
CacheReads(k) ==
    IF current_version = Sentinel
      THEN UNCHANGED <<node_cache, value_cache>>
      ELSE /\ node_cache' = Put(node_cache, current_version, RootNode(current_version))
           /\ value_cache' = IF RootNode(current_version)[k] = NoValue
                               THEN value_cache
                               ELSE Put(value_cache, k, get_value_option(k, current_version))

------------------------------------------------------------------------------
(***************************************************************************)
(* The methods.  update_all computes the next tree, refreshes the caches   *)
(* and builds one write batch; writes it; and publishes version and root.  *)
(***************************************************************************)
NoJob == [step |-> "idle"]

\* The value cache after a batch; a tombstone is cached as None.
Batched(batch) == PutAll(value_cache, batch)

put_value_set(batch) ==
    LET tree == IF current_version = Sentinel THEN EMPTY_ROOT ELSE RootNode(current_version)
    IN  PutAll(tree, batch)

Begin(batch) ==
    LET tree == put_value_set(batch)
        next == current_version + 1
    IN  /\ job' = [step |-> "write", batch |-> batch, tree |-> tree, version |-> next]
        /\ value_cache' = Batched(batch)
        /\ node_cache' = Put(IF current_version = Sentinel THEN node_cache
                             ELSE Put(node_cache, current_version, RootNode(current_version)),
                             next, tree)

\* PersistentJMT::insert is a batch of one.
UpdateAll ==
    /\ job = NoJob
    /\ current_version < MaxVersion
    /\ \E K \in (SUBSET TreeKeys) \ {{}} : \E batch \in [K -> Stored] : Begin(batch)
    /\ UNCHANGED <<db, current_version, current_root, answer>>

Delete(k) ==
    /\ job = NoJob
    /\ current_version < MaxVersion
    /\ IF Lookup(k) # NoValue
         THEN Begin([x \in {k} |-> NoValue])
         ELSE CacheReads(k) /\ UNCHANGED job
    /\ UNCHANGED <<db, current_version, current_root, answer>>

\* The write batch: nodes, values and the version pointer, all or nothing.
Written(j) ==
    [nodes |-> Put(db.nodes, j.version, j.tree),
     values |-> [k \in TreeKeys |-> IF k \in DOMAIN j.batch
                                      THEN Put(db.values[k], j.version, j.batch[k])
                                      ELSE db.values[k]],
     latest |-> j.version]

CommitAtomic ==
    /\ job.step = "write"
    /\ db' = Written(job)
    /\ job' = [job EXCEPT !.step = "publish"]
    /\ UNCHANGED <<node_cache, value_cache, current_version, current_root, answer>>

\* db.write returns an error, which update_all hands on and its callers drop.
CommitFails ==
    /\ job.step = "write"
    /\ job' = NoJob
    /\ UNCHANGED <<db, node_cache, value_cache, current_version, current_root, answer>>

\* Mutant of Publish: the root in memory is left behind.
PublishKeepsRoot ==
    /\ job.step = "publish"
    /\ current_version' = job.version
    /\ job' = NoJob
    /\ UNCHANGED <<db, node_cache, value_cache, current_root, answer>>

\* update_all ends: version_guard and current_root.
Publish ==
    /\ job.step = "publish"
    /\ current_version' = job.version
    /\ current_root' = job.tree
    /\ job' = NoJob
    /\ UNCHANGED <<db, node_cache, value_cache, answer>>

Get(k) ==
    /\ job = NoJob
    /\ answer' = [key |-> k, value |-> Lookup(k)]
    /\ CacheReads(k)
    /\ UNCHANGED <<db, current_version, current_root, job>>

\* root() and is_empty().
Root ==
    /\ job = NoJob
    /\ answer' = [root |-> current_root, is_empty |-> current_version = Sentinel]
    /\ UNCHANGED <<db, node_cache, value_cache, current_version, current_root, job>>

(***************************************************************************)
(* A full cache drops what was used least recently, when something else is *)
(* put; here it may drop anything at any time.                             *)
(***************************************************************************)
Evict ==
    /\ \/ /\ \E v \in DOMAIN node_cache :
               node_cache' = [w \in DOMAIN node_cache \ {v} |-> node_cache[w]]
          /\ UNCHANGED value_cache
       \/ /\ \E k \in DOMAIN value_cache :
               value_cache' = [x \in DOMAIN value_cache \ {k} |-> value_cache[x]]
          /\ UNCHANGED node_cache
    /\ UNCHANGED <<db, current_version, current_root, job, answer>>

NoCache == [x \in {} |-> NoValue]

\* A crash, and PersistentJMT::open: get_root_hash reads the latest root.
Crash ==
    /\ job' = NoJob
    /\ answer' = <<>>
    /\ value_cache' = NoCache
    /\ current_version' = db.latest
    /\ current_root' = IF db.latest = Sentinel THEN EMPTY_ROOT ELSE db.nodes[db.latest]
    /\ node_cache' = IF db.latest = Sentinel THEN NoCache
                     ELSE [v \in {db.latest} |-> db.nodes[v]]
    /\ UNCHANGED db

JmtInit ==
    /\ db = [nodes |-> NoCache, values |-> [k \in TreeKeys |-> NoCache], latest |-> Sentinel]
    /\ node_cache = NoCache /\ value_cache = NoCache
    /\ current_version = Sentinel /\ current_root = EMPTY_ROOT
    /\ job = NoJob /\ answer = <<>>

JmtNext ==
    \/ UpdateAll \/ CommitAtomic \/ Publish
    \/ \E k \in TreeKeys : Delete(k) \/ Get(k)
    \/ Root \/ Evict \/ Crash

JmtSpec == JmtInit /\ [][JmtNext]_jmt_vars

\* The same over a database that may refuse a write.
JmtFaultyNext == JmtNext \/ CommitFails

------------------------------------------------------------------------------
(***************************************************************************)
(* Properties.                                                             *)
(***************************************************************************)

\* What the database has committed.
DiskMap == IF db.latest = Sentinel THEN EMPTY_ROOT ELSE db.nodes[db.latest]

\* The store is the map it claims to be.  Every value a reader gets, and the
\* root the block headers commit to, are those of the last batch written,
\* whatever was cached, evicted, deleted, or lost in a crash between the steps
\* of update_all; and a batch is committed as a whole or not at all.
Durable == INSTANCE VersionedMap WITH
    map <- DiskMap, version <- db.latest, reply <- answer

TreeIsDurable == Durable!Spec

\* The value cache is keyed by key and not by version.  It may be ahead of the
\* database only while update_all holds the lock: whenever a reader can get in,
\* a cached value is the newest one on disk.
CacheCoherent ==
    job = NoJob => \A k \in DOMAIN value_cache : value_cache[k] = Scan(k, db.latest)
=============================================================================
