# px-kvstore in TLA+

px-kvstore is an in-memory key-value store in Python with an HTTP and a Redis
front end, sharding, LRU/LFU eviction with spilling to disk, a write-ahead log,
snapshots, and leader/follower replication.  This directory holds TLA+ modules
for its parts, the TLC configurations that check them, and proofs.  Paths are
relative to the repository (`src/`).

## 1. The system

| Component | State | Operations | Interacts with |
| --- | --- | --- | --- |
| LRU shard (`pxkv/core/lru.py`, key index in `core/base.py`) | `_map`, doubly linked recency list, `_ttl`, `_skeys`, `_xmeta`, one lock | create, read, update, patch, delete, mset, mget, incr, persist, purge, dump, load | tier (calls under the lock), cold-key hints (victim choice) |
| LFU shard (`core/lfu.py`) | `_map`, `_freq`, `_last`, `_seq`, `_ttl`, `_skeys` | the same | the same |
| Tiering (`tiering/`) | one file or object per spilled key; prefetch cache, queue, in-flight table | put, get, delete, prefetch | called by shards; workers run beside them |
| Sharded store (`core/sharded.py`) | ring, shards, write lock | routes each call; writes: shard, metadata, log, replication queue, notification, cache invalidation, hints; scans; dump/load; reshard | everything below |
| WAL (`persistence/wal.py`) | file, `_file`, `_lsn`, `_base_lsn` | log, rotate_after_snapshot, get_entries, recover | written under the write lock, rotated without it |
| Snapshots (`persistence/snapshot.py`) | snapshot file, archives (full and diff) | snapshot_once, load, prune, recover to LSN or time | store (dump, load), WAL (rotation) |
| Start-up (`api/server.py:55-113`) | - | load snapshot, replay WAL, start threads | all |
| Replication (`persistence/replication.py`) | role, queue, last applied and known leader LSN | enqueue, push batches, pull WAL, full sync, apply, anti-entropy | store, WAL, HTTP |
| Gossip (`persistence/gossip.py`) | member table, incarnations | probe, merge, suspect | meant to feed replication |
| Hot-key mitigation (`core/hotkey_mitigation.py`) | cache, in-flight table | read_through, invalidate | reads and writes of the store |
| Observers (`hotkey.py`, `heavy_hitters.py`, `cold_eviction.py`, `adaptive_ttl.py`) | windows, sketch, counters | record, query | store; hints steer eviction, adaptive TTL rewrites `ttl` |
| Vector index, query plan cache | maps | upsert/delete/search, get/put | store, front end |
| Front ends (`api/server.py`, `api/redis_server.py`) | token buckets, sessions | requests as compositions of store calls | store |
| Namespaces, auth, notifications, disk throttle, AI cache keys, settings, metrics, tracing | small tables | lookups, counters | front end |

What is hard in each part, and what must hold:

* *A shard.* Four structures are edited by hand in every call; the eviction
  loop runs inside calls and moves entries to the tier, which promotes them
  back.  The structures must agree, the loop must end with the shard within its
  limit, eviction must be by recency or by use, and to callers the shard plus
  its tier must be one map.
* *Durability.* Snapshots and log rotation run beside writers with no common
  lock past the dump; crashes fall anywhere; two snapshots may run at once.
  What was acknowledged must come back, a snapshot must be a cut of the log,
  every kept archive must load.
* *Replication.* Messages are lost, repeated and reordered; three threads apply
  changes.  A follower must converge and never go backwards.
* *Caches* (mitigation, prefetch).  A value read before a write must not be
  served after it.
* *The sharded store.* Scans hold the locks of many shards and wait for more;
  resharding fails half-way; a snapshot of another number of shards is loaded.
* *Observers, rate limits.* Rings of reused buckets, sketches in which keys
  collide, settings that are reloaded under requests.
* *Membership.* Timeouts race with what third parties say.

`PROJECT.json` lists the components with what is modelled of each, and every
hazard at its line.

## 2. Modules

| Module | What it is | Instances |
| --- | --- | --- |
| `KVStore` | abstract: what a shard promises, a map from keys to a value and a deadline | - |
| `LRUShard` | the LRU shard with its tier; implements `KVStore` | `MCLRUShard` |
| `LFUShard` | the LFU shard with its tier; implements `KVStore` but for one failure | `MCLFUShard` |
| `Durability` | WAL, snapshots, rotation, crash, recovery | `MCDurability` |
| `SnapshotArchives` | two threads in `snapshot_once`, archives, pruning, point-in-time recovery | `MCSnapshotArchives` |
| `Replication` | leader, posts, followers with their threads, synchronisation, anti-entropy | `MCReplication` |
| `HotKeyMitigation`, `TieringPrefetch` | the two caches of a read, each with the operations of its class | in `ReadPath` |
| `ReadPath` | composes both with the shard, its lock, writes and evictions | `MCReadPath` |
| `ShardedStore` | routing, scans, vectors, resharding, restarts | `MCShardedStore` |
| `HeavyHitters`, `AccessWindows`, `AdaptiveTTL`, `RateLimiter` | sketch and candidates; sliding windows of detector and hints; tuned times to live; token buckets | in `Observers` |
| `Observers` | composes these four as the store and the server feed them | `MCObservers` |
| `Gossip` | membership of several nodes | `MCGossip` |
| `Lists` | the ordered dictionaries that the hints and the adaptive TTL keep: a list without some keys, a list cut to its bound | in both |
| `LRUShardProofs`, `LFUShardProofs`, `DurabilityProofs`, `SnapshotArchivesProofs`, `ReplicationProofs`, `ObserversProofs`, `ReadPathProofs`, `ShardedStoreProofs` | theorems about the module named (`ObserversProofs`: `Observers` and its parts) | - |

### LRUShard

`mem.order` is the linked list from head to tail, each element a node object
with a flag `live`: `_map[key]` is this object.  Nodes that are linked but not in
the map ("ghosts") are real states of the program, left by `load_state` and by
FLUSHALL, and by calls that go on with a node eviction has removed.  `mem.map`,
`mem.ttl`, `mem.skeys` are `_map`'s keys, `_ttl` and `_skeys`; `mem.newer` is a
history variable, the keys used since a key's last use, independent of the list
so that "least recently used" does not merely repeat the list's order.

The shard's lock makes calls serial.  Each call that does not loop is one action;
`mset`, `read`/`mget`, `patch` and the eviction loop take several, with `pc` at
the place in the code.  Between these steps the clock may move, so deadlines
pass in the middle of a call, as in the program.  Tier calls that raise are
swallowed by the code and are a choice here when `TierMayFail`.

| Action | Code |
| --- | --- |
| Create, Update, Incr, Delete, Persist | the methods of the same name |
| PurgeExpired | every call that only purges; the background expirer |
| MSetStart, MSetItem | `mset` |
| ReadStart, ReadHit, ReadMiss, ReadPromote, ReadPromoted | `read`, `read_with_etag`, `mget` |
| PatchStart, PatchPromoted, PatchApply, PatchFails | `patch` |
| EvictOne, WriteReturns | `_evict_if_needed` |
| LoadState, FlushAll | `load_state`, FLUSHALL of the Redis front end |

Left out: etags, `_xmeta`, the string form of keys, the prefetcher's `prefetch`
call in `mget` (it is in `ReadPath`).

### LFUShard

Here a call is one step, eviction loop included, since it holds the lock to its
end and nothing in it waits; `mget` is one step per key, because each key it
promotes may evict.  `_seq` and the numbers in `_last` serve to order keys, so
`mem.newer[k]` is the set of the keys touched since `k` was, those whose number is above
`k`'s.  `Entered` is a new entry, `Written` one that may be there already, each with its
touch; `mset` and `load_state` take two keys.  `mem.uses` is a history, how often calls used a key
since it came in, against which `_freq` is checked.  `hints` chooses at the start
between the two ways of finding a victim.

`read` promotes a key with frequency 1, evicts, and then returns
`self._map[key]`: when every other key has been used more often the evicted key is
the promoted one, and the read of a key that exists fails with KeyError.  This
state is in the model (`SpuriousMiss`), `MissOnlyWhenCrowded` says when it can
happen, and `ImplementsKVStore` holds apart from it.

### KVStore

A write sets an entry, a remove drops it, a read returns it or, for an absent or
lapsed entry, misses; lapsed entries may disappear at any time; only a bounded
shard without a tier may drop live ones.  A write with a time to live of 0 that finds the
shard full may be gone, wholly or for some of its keys, before the call returns
(`PutInVain`).  `Stored` is the mapping of either
shard: a resident key's value and deadline, else its copy in the tier.  Spill and
promotion are stuttering steps.

### Durability

`wal` and `snap` are the files, the rest of the state dies in a crash.  A write
takes the write lock (`wpc`), changes the item and its LSN, and then writes its
line, so that a rotation or a crash can come between.  `snapshot_once` is
Dump (under the write lock), Replace, and with `WAL_ROTATE_ENABLED` RotateClose,
RotateRenew, RotateOpen; RotateFails is an error in between.  Boot loads the
snapshot, Replay replays one line, Recovered sets `_lsn` and serves.  A crash
may cut the line being written short (`"torn"`); the line written after such a one is
part of the same text line and lost with it (`"spoilt"`), and the next is whole again.
A line that lacks nothing but its end of line is not modelled.  Crashes are those of the process: the code never
calls fsync, and the loss of a machine's page cache is outside the model.

History variables: `committed`, the items the writes make, by this process or by earlier
ones (a key that had a deadline counts from what a recovery brought back); `leaks`, for
each key why recovery need not be exact (`"ttl"`: a deadline that replay counts anew;
`"incr"`: counted again over a snapshot; `"lost"`: no line, or one that cannot be read;
`"lsn"`: its line bears an LSN that the snapshot has reached already, for recovery sets
the counter back to the last line it can read).  `rotate` is the
setting, chosen once at the start.

### SnapshotArchives

Two threads, the snapshot loop and a request for GET /admin/snapshot, each step
through `snapshot_once`: Dump, Open (of `snapshot.json.tmp`, one path for both),
WriteTmp, Replace, Build (full archive or diff against the newest), WriteArchive,
Prune, Rotate.  `disk` maps inodes to what they hold, `fd` is a thread's open
file, `tmp` and `main` are paths: a thread that opens the temporary file while
the other has it open truncates the same inode, and a rename takes that inode
along.  RecoverToLsn and RecoverToTimestamp end a behaviour; they choose an
archive, load its chain, empty the store with `load({})` (which clears no shard)
and apply the log.  A put of line l stores the number l, so that contents tell
what they come from.  `mixed`, `rushed` and `lapsed` are histories: both threads
in the temporary file, a snapshot taken between another's Build and its
WriteArchive, changes that have no line.

### Replication

One leader and any number of followers. `queue`, `batch` and `todo` are the
replication thread's; `posts` are requests that reached a follower and wait to be
served, in any order, since the leader stops waiting after two seconds and sends
the next. A follower has three threads that share no lock: `push` (serving a
post), `pull` (the log) and `repair` (anti-entropy). `step[f][t]` is where a
thread stands: "check" at the top of the loop of `_apply_changes_impl`, "do"
before the call of the store, "mark" before `_last_applied_lsn` is set, "sync" and
"load" inside `_initial_full_sync`. Threads interleave between these.

| Action | Code |
| --- | --- |
| Write, with Enqueue | a write of the sharded store: items, log, queue under the write lock |
| Dispatch, PostTo | `_leader_replication_loop`; a post arrives or is lost, and is not repeated |
| Serve, Pull | POST /replication/sync; a round of `_follower_replication_loop` with the leader's answer (410 or entries) |
| Check, Do, Mark | `_apply_changes_impl`, per change |
| SyncDump, SyncLoad, SyncMark, SyncFails | `_initial_full_sync` |
| Ages, Repair | time without a change; a round of `_anti_entropy_loop` |
| Rotate, LeaderRestart, FollowerRestart | snapshot with rotation; recovery, which restarts the LSN from the last line |

Time is counted in writes: the n-th is made at time n, so timestamps order
changes as a common clock would; skew between clocks is left out. A put writes
the number of the write, so that values tell writes apart. History: `log`, all
changes ever made, `made`, the leader's contents before the first of them and after each,
and `course`, "smooth" since a synchronisation with nothing
lost, overtaken, or applied by two threads at once.

The sort by LSN that `_apply_changes_impl` begins with is stable: `Begin` takes the
one order of the changes that respects their LSNs and leaves equal ones as they came.

Abstractions: two posts served at the same time by two handlers are not modelled
(the pushing thread is one per follower), nor are an update's and a create's
difference, deadlines, persist and vectors; a snapshot and its rotation are one
step (their window is `Durability`'s); recovery is taken to bring the items back;
the age is renewed with every change, in the code at the end of its batch.

### ReadPath, with HotKeyMitigation and TieringPrefetch

One key; every change of it makes a new version number, so that a result tells
what it is of.  The two caches are modules with the operations of their classes,
without knowledge of each other.  `ReadPath` steps a reader through
`read_through` (Lookup), the shard's lock and map (ShardRead), the wait for a
prefetch with that lock held (AwaitEnds), the promotion (Cleared) and the end of
a single flight (Publishes); a write through the shard, the tier, and
`invalidate` (WriteShard, WriteCleared, WriteReturns); an eviction through the
tier's put (Spill, Spilled); a worker through the backend's get outside the lock
and the cache (Fetch, Deliver).  Writers share the write lock, so one stands for all.

Two races of the code are carried as histories and named in the properties
instead of being excluded from the model.  A leader that loaded before a write
invalidated the key publishes the old result afterwards (`raced` in a result); a
worker that fetched before a put or delete caches the old copy afterwards
(`raced` in a copy, `tainted` in a shard that promoted one).  `silent` marks
changes that invalidate no cache at all: an expiry, FLUSHALL, a snapshot loaded.

### ShardedStore

`placed` says which keys each shard has, in memory or tier, and `lapsed` which of them
have a deadline that has passed; `n` is the number of shards, with its ring, and `num`
what `reshard` has set before it fails. Both sets are kept per shard: after a snapshot of
another number of shards is loaded, a key may lie in two, with deadlines of its own in
each. A purge in one of them then deletes the vector of the key that lives in the other
(`pxkv/core/sharded.py:207`), so that an upsert keeps its vector only if no lapsed copy
is about (Strays). A scan opens an iterator per shard (Opens: upward), each of which keeps
its shard's lock until it is exhausted, takes the least key of the heads, and goes on
until its page is full; a key in two shards comes twice, ordered by shard (Before). `must`
and `may` are histories of the keys that were there all the time, or at some time, of the
scan. Vector upsert and vector read are two steps each. A restart loads a snapshot by
shard index, or replays.

### Observers and its parts

Each part keeps beside its state the history it is to summarise: the accesses
since the last decay (`counts`), their times (`hotLog`, `coldLog`), the lines of
the log, the grants of each bucket.  `Observers` feeds them as
`ShardedKeyValueStore` does, with one clock; `Enabling` chooses which of them are
switched on, as the settings do.  Tokens, times to live and the weight of recency are
whole numbers where the code has floats.

### Gossip

A node's table (`view`), the rest of its round (`todo`), the probe it waits for and
the time to its next round.  A round is Begin (the random peers), then for each of them Ask
or AskInVain (the peer is down, or request or answer are lost) and Heard; Query is
`get_alive_peers`.  Peers are asked one after the other and one that does not answer
costs `ProbeTime`, so a round grows with the dead.  The handler takes over peers its
node has never heard of with `last_seen` 0.  Incarnations are always 0 in the code, and
`remove_peer` and the callbacks are called by nothing.  Tick lets time pass only
when every node waits: real time in whole units, no fairness needed.

## 3. Runs

| Run | Question | Result |
| --- | --- | --- |
| `lru_tier` | Does a shard with a tier keep its structures, its limit, LRU order, one copy per key; does every eviction end; is it a `KVStore`? | holds |
| `lru_admin` | With reloads, FLUSHALL, hints and values INCR refuses, does every resident key keep exactly one node and its place in the scan index? | holds |
| `lfu` | Do frequencies count uses, is eviction by use, with and without hints; is it a `KVStore`? | holds, but for the failing read, which only a crowded shard has |
| `durability` | Does recovery bring back what was logged, apart from named leaks; does every live key come back with its value; is a snapshot a cut of the log? | holds |
| `wal_rotation` | With rotation, is every acknowledged write recovered? | violated |
| `archives` | With two snapshots at once, diffs, pruning and rotation: is the snapshot file whole, does every kept archive load, does a recovery restore what it can? | holds, overlapping threads and unlogged changes aside |
| `replication` | Is the lag a follower reports never too small; does an undisturbed follower hold what the leader held at its LSN? | holds, for keys that were never incremented |
| `replication_repair` | After losses, failed synchronisations and restarts, does anti-entropy bring a follower to the leader's contents? | holds, once it ever heard from the leader |
| `read_path` | Does a read return the last acknowledged write, does a deleted key stay deleted, does every read end? | holds, but for the races named |
| `sharded` | Are keys where reads look, are scans exact, do vectors last, can someone always go on? | holds, but for restarts with another number of shards and a racing reader of a vector |
| `observers` | Does each observer compute what it is to, from the history of the calls? | holds |
| `gossip` | Does a node that is down leave every list, and are nodes that are up on each other's? | holds, for a failure timeout above the length of a round |

The first conjunct of one property of each module is its type invariant:
`RecoveryIsExact`, `FollowerIsPrefixOfPuts`, `MapsAgree`, `MainIsADump`,
`NothingComesBack`, `KeysAreFound`, `NothingLengthened` and `DownAreDropped`; `LRUShard`
has `TypeOK` by itself.

The violation, `wal_rotation`: the rotation has closed the file; a write is
acknowledged with an LSN and no line; crash.

Counterexamples that the exemptions of the other runs' properties step around:

* `EvictsLeastRecentlyUsed` after a reload: create a; `load_state` (point-in-time
  recovery, a follower's full synchronisation) of a dump that holds b; create a
  again. The ghost of a is at the head of the list, so the victim is chosen by that
  ghost's key, and the key just created is evicted instead of b. When the ghost's key
  is not stored again, the eviction loop spins with the lock held: deleting that key
  changes nothing.
* `PatchTakesEffect` with hints and a tier: the patched key is in the tier;
  promoting it overfills the shard; the hints pick the promoted node itself; it is
  spilled again, `patch` deletes that copy, changes a node that is in no map, and
  reports success.
* A permanent key with a deadline: create with a ttl, the key expires, create
  without; at replay the first create is alive again, so the second becomes an
  update, which keeps the deadline.
* `FollowerIsPrefixOfPuts` with increments: increment, then put the same key, both
  in one batch; the follower's increment carries its own time, so the put looks
  older and is refused, and the LSN moves past it. Nothing was lost and no thread
  interfered. Keys written in one batch with such a key are refused with it.
* An older change over a later item: two writes are queued before a follower starts;
  its handler resolves the first, finding no item; the initial synchronisation loads
  the second's item; the handler stores the first over it.
* `ReadsAcknowledgedWrites` without `raced`: a leader has loaded; a write
  invalidates the key and returns; the leader publishes the old result into the cache.
* `NothingComesBack` without `tainted`: a worker has fetched; a delete drops the
  prefetch cache and the tier's copy; the worker caches what it had, and the next
  read promotes it. The event it then takes out of the in-flight table may be that of
  a later prefetch.
* `MainIsADump` without `mixed`: one thread opens the temporary file while the other writes it,
  which truncates it, and the other's rename puts it in place.
* `VectorsKept` without `raced`: a reader misses a key; the key and its vector are
  upserted; the reader drops the vector.
* `DownAreDropped`/`UpAreListed` with a failure timeout of 3, no longer than a round
  with two probes that time out: peers that are up are marked dead between two rounds.

Bounds. `lru_tier`: three keys for two places is the least with both a victim
and a survivor and a spilled key to promote; two values tell a stale copy from
a new one; one tick with time-to-live 1 (and keys without) passes a deadline at
every point of a call. `lru_admin` has Limit 1 and two ghosts, the least with
a ghost before and after a live node; it is symmetric in the keys.
`lfu`: the same keys, two uses of each counted, so that two differ and tie; times to live
of 0, which have lapsed when they are set, and 1; no deadline after the last tick is given,
as none would pass.
`durability`: one key suffices as the items do not interact (a batch is its
items, and the log's order is per key what matters); two LSNs give a write
before and one during or after a snapshot, and are given out again after a rotation or a
torn line and a crash; two crashes, at any points, recoveries included, so that what a recovery brought back is
written to, snapshotted and recovered once more; one torn line; a clock of two ticks, so
that a time to live of 1 passes before, during or after a recovery. `archives`: two pages, so that a diff leaves one out;
two lines and three snapshots, so that a diff rests on a diff or a full archive that one
place (`Keep`) makes prunable; both threads may be anywhere. `replication`: two keys, so
that a synchronisation can be torn and a batch write partly in conflict; two
writes, queue and post of two, so that a post holds several changes and the LSN
moves on after it is taken. `replication_repair`: one key, since
synchronisation treats keys alike; a queue of one, full with the second write; one
rotation and one fault of any kind at any point; a lag of one allowed, so that lag
alone does not repair; the shed policy "drop_oldest", which leaves a gap the lag does
not show. One follower: followers share nothing but the leader.
`read_path`: two readers, one to lead and one to follow, three reads, so that one begins
after a write another overlaps; one worker, two changes and one eviction. The safety
properties were also checked with MaxVersion 3 and MaxSpills 2, and are proved for all
bounds. `sharded`: three keys over one or two shards, pages of two, so that a
scan has several pages and a page several shards; two scanners, the least that could wait
for each other; two changes. `observers`: two keys that collide in one row and not in the
other, two buckets, six events; each observer is on in behaviours of its own.
`gossip`: three nodes, the least with a third party; one fault; a timeout of 4 for
rounds of at most 3. `CHECK_DEADLOCK FALSE` (everywhere but in `gossip`): bounded
clocks, LSNs and calls stop a run.

Fairness. `LockReleased` assumes only that a thread in the eviction loop keeps
running (`WF_vars(Evicting)`), which an operating system thread does; nothing is
assumed of clients or of the clock. `Converges` assumes that a follower's threads
continue what they began, that time passes (`Ages`) and that the anti-entropy loop
comes round (`Repair`); each is a thread of its own that sleeps a fixed time between
rounds. Nothing is assumed of the leader's thread, of posts or of the pulling; faults
are finite. `ReadsReturn` assumes that each reader inside a call goes on when it can,
and so the writer and the evicting call; the wait for a prefetch has a time limit in
the code, so nothing is assumed of the workers; a follower of a single flight has no
time limit, which is what the property is about. `gossip` is in real time: what must
happen happens before `Settled`, as safety. The other properties are safety.

## 4. Proofs

All of them for every value of the constants, from the named assumptions of the
modules alone.

`LRUShardProofs`: for any set of keys, values, deadlines, limit, with and
without a tier, failing or not, `Spec` has `IInv` invariant, and from it
`TypeOK`, `ListAndMapAgree`, `OneCopy` (tier without failures), `PromotedStays`,
`PatchTakesEffect` and `WithinLimit`. These theorems assume `~(Hints /\ HasTier)`: with
both, the counterexample above exists. `ListAndMapAgree` is not inductive: a call that
promoted a key holds a node over the eviction loop and links it again afterwards, so the
invariant needs `LocalNode`, that this node is the last of the list, hence never the head
the loop takes while the shard is over its limit, hence still in the map. The
list is a sequence from which nodes are unlinked at positions, so the work is in
lemmas about `Pick` (the subsequence at a set of positions): its length, that it
keeps order and elements (`NthFacts`, `PickFacts`), and from them how unlinking,
inserting and moving preserve agreement. Then one lemma per action, and
`NextStep` puts them together. That the map is finite follows from the list that
covers it.

* `EvictionOrder`: without hints `EvictsLeastRecentlyUsed`, from a second invariant
  (`UseOrder`): of two nodes of the list the earlier one's key has the later one's in its
  history `newer`. That relates list and history through every way a list is edited.
* `LimitKept`: what is over the limit is so only inside the loop, which a call leaves when
  the map fits or the list is empty, and an empty list has an empty map.
* `ResidentNodes` is about `AdminSpec`, with LoadState and FlushAll, hints and failing tiers
  in any combination. Ghosts break the agreement of list and map; what remains, and is
  inductive, is about the live nodes alone (`Listed`).
* `Implementation`: the shard refines `KVStore` when, if it has a tier, the tier's calls do
  not raise and no hints are used (`ReliableTier`). Spills and promotions are shown to leave
  `Stored` alone, each return of a call to be the `KVStore` step it answers for. An
  assumption came of it: the values `INCR` refuses are not numbers (`Texts`).

`LFUShardProofs`: for any keys, limit, clock, times to live and hints, all properties of
the run. `IInv` is short: the maps agree, a frequency is the number of uses or, for a promoted
key, one more, and no key is in memory and tier at once; the proof is in how `Touch`,
`Evict` and the two-key calls change five maps at a time. `SpillsLeastUsed` and
`MissOnlyWhenCrowded` need in addition that a touched key is in every other's `newer` and
nothing is in its own. `Implementation` is the refinement of `KVStore` but for the
read that misses. Trying to prove it showed a call that `KVStore` did not permit: `mset` with a
time to live of 0 to a full shard, whose entries lapse as they are stored, some of them
spilled and some dropped in the same call. The run did not reach it, since it gave no time to
live of 0; now it does, and `KVStore` has `PutInVain`.

`DurabilityProofs`: for any keys, requests, clock and any number of crashes and torn
lines, with rotation or without, `RecoveryIsExact`. What replay makes of a log it makes
line by line, while lines are added; rather than compute it, the invariant exhibits its
course. A trace of a key (`Trace`) gives the key's item after each line, and ends
in what is committed; appending a line extends it. The snapshot agrees with the trace at
some line (`Loads`), so does the image a snapshot thread is about to write (`Dumps`), and
a replay that has come to line i is at the trace's i-th item or has not left the
snapshot's yet. `SinceFits` is what rotation needs: of a key not written since the dump, the
snapshot has the committed item, so its lines may go. All this is claimed of keys without a
known leak (`Clean`), of which every line is without a deadline (`LinesFit`).

* `SnapshotCutsTheLog`: without rotation `SnapshotIsCut`, for any crashes. The trace that
  starts from nothing has the snapshot's item at some line c, and c parts the lines of the key
  by their LSN (`Cut`): what the lines up to that LSN make is then the trace's item at c.
  `Numbering` is why c stays the parting line: lines are never ahead of the counter, and a
  write begun since a dump is ahead of it. A key for whose line that fails, as recovery set the
  counter back, is one that leaks (`"lsn"`); the proof brought that reason to light.
* `LiveValuesComeBack`: `LiveValuesRecovered`, which is about keys with deadlines, where
  no trace is the same twice. The invariant is about values instead (`Lives`): of a
  key that is alive, log and snapshot tell its value (`Tells`: some line or the snapshot put
  it there and no later one takes it away if the clock stands still; the last one to give it
  a value gave it this one). A replay holds at line i what the lines up to i tell.

`ReplicationProofs`: for any keys and any number of followers, any queue, batch, shed
policy and conflict policy, `TypeOK`, `LagNotUnderstated` and `FollowerIsPrefixOfPuts`.

* `LagCovered` rests on `News`: a change in queue, log, batch, post or work stands under an
  LSN that the leader has reached and the follower knows, or will with the post. Nothing
  need be assumed of losses, order or restarts.
* `PrefixOfPuts` rests on what is still to come. While the leader has lost no write
  (`Unbroken`), for a smooth follower every change after the LSN it reports is in its
  work, a post, the batch or the queue, and none that is later overtakes it (`Coming`,
  `Complete`). So the first change it resolves that is new to it is the next one, and
  applying that leads from `made[n]` to `made[n + 1]` (`Follows`); a change it had already is
  refused by its LSN. A synchronisation that loads contents in pieces is covered by `Loads`,
  for what comes after the image's LSN is complete too. Keys with increments are
  exempt, and so are those written with one in one batch: that the exempt ones are the same on
  both sides is `LosersAreIncremented`.

`SnapshotArchivesProofs`: for any threads, pages, snapshots, log and `Keep`, `MainIsADump`,
`ArchivesLoad` and `RestoresWhatItCan`. The invariant says what contents are true
(`Trues`): whatever a thread dumped, wrote to a file or archived is the contents after the
line it names, but for pages that changed without a line. `Files` is about the temporary
file: while no two threads had it at once, at most one is between Open and Replace, what it
wrote is its own payload, and the path of the snapshot leads to another inode. `Alone` is
about the archives: threads that take turns there never take away the base of a diff, and
a diff patches the true contents of its base into its manifest (`Rests`). Contents after a
line, and what an archive loads as through its chain of diffs, are recursive functions over
numbers; what has to hold for every number is proved from a least counterexample, by the
well-foundedness of `<`, which the provers can do where the induction theorems of the library
they cannot. `RecoveryToAPoint` follows: two replays agree on a page from a line on that
sets it (`ReplaysSet`), or from a line at which they agreed.

`ObserversProofs` is about the observers of `Observers`, each by an invariant of its own.

* The tracker: for any keys, rows, columns and hash functions, any k and
  any clock, the sketch and the candidates are never below the counts since the last
  decay, and the list holds the heaviest. The inductive invariant (`Sound`) is about each
  cell: it is at least the count of each key that hashes to it, which addition in every
  row and halving preserve; that estimates are at least the counts follows by the minimum of
  a finite set. `HeaviestAreListed` needs in addition that a candidate is never listed above
  its estimate, so that whoever replaces it has at least its accesses. `Observers` implements
  the specification of the tracker (`ObserversImplementHitters`): whatever the store, the
  clock and the other observers do is a step of the tracker or none, so its properties hold
  of the composition.
* The limiter: `AdmitsTheBudget`, for any rates, bursts, clients, reloads and clock. The
  property is about grants alone and not inductive; the invariant (`Accounted`) adds the
  tokens that are left. For limits as high as any the bucket has had, the grants since any
  one of them and the tokens are within the budget up to the last refill; for limits as low
  as any, the bucket is full or from some grant on has used the whole budget. A refill moves
  both by at most, and at least, what the time is worth (`Earns`, the one place with
  products). Rates and bursts are positive, as `_policy_for` (`pxkv/api/server.py:174`) has
  no policy otherwise.
* The windows, for any number and width of buckets and any clock: `WindowCounted` from
  `DetectorOK`. A bucket counts exactly the records of its own round, and a record whose
  bucket was used again is past the window (`Stands`), as two times that share a slot are
  of the same round or a whole window apart. `ColdGoFirst` from `HintsOK`: the
  listed keys are those with a count in some bucket; every bucket with a count has a
  record to show for it (`Witnessed`), so a key without one in the window counts 0; and the
  last record of a listed key is still in its bucket, or is past the window
  (`LastCounted`). Taking a key off the list because the bound was passed takes its counts
  off every bucket, which keeps all three.
* The adaptive TTL: `NothingLengthened`, for any bases, bounds, half-life and number of
  tracked keys. `Tracks` types the statistics and their order; `Shorter` is the property
  for every prefix of the log, with deletes as lines of their own, so that a later line of a
  key ends the claim of an earlier one. While a replay runs no statistics have accesses
  (`Untouched`), so tuning halves or only clamps, which lengthens nothing from `MinTTL` up. Tuning
  by accesses divides by their number and the weight of their age, which is a recursive
  function (`Twice`) and positive for every age.
* `ObserversTypesHold`: with these the type invariant of them all.

`ReadPathProofs`: for any readers, workers and numbers of calls, `NothingComesBack`
and `ReadsAcknowledgedWrites`. The invariant says in the middle of calls what the
properties say between them. `TierInv`: a copy in a worker's hand or in the cache that
is not marked as raced is the backend's, and none is in the cache while a put or delete is
between its halves. `ShardInv`: who holds the lock, and that a shard that took over no
raced copy has the last version in memory or in the backend, never in both. `CacheInv`: every
result that is cached, being published or waited for is as new as the writes that have
returned, or older than a silent change. One lemma per action, one step in it per
conjunct; both ways to the tier's copy share `PromoteStep`.

`ShardedStoreProofs`: for any keys, numbers of shards, rings, scans and readers,
`KeysAreFound`, `VectorsKept`, `SomeoneGoesOn` and `ScansAreExact`. The invariant has four
parts.
`Placing`: shards that are not in use are empty. `Locks`: the shards a scan has
locked are those of its open iterators, all below the one it opens next. `Calls`: what
calls between two steps hold. `Kept`: while no snapshot of another number of shards
was loaded, a key lies where the ring in use sends its reads, and a key whose vector
must last has it and did not lapse, unless a reader raced. `SomeoneGoesOn` says that scans
which hold shard locks while they wait for the next are never all stuck: the shards in use
form a finite range, one of the locked ones is the last (by the well-foundedness of `<`),
and whoever holds it has only free shards before it.
`ScansInv`, for `ScansAreExact`, says of every scan under way: what was there throughout
and was not returned lies behind every position, in a shard that an iterator has or will
open (`Remaining`); what was returned, is live or is held by an iterator has been there
(`Seen`); and, unless its cursor started again or keys moved, nothing came twice, because
the position of a key's shard covers what was returned of it (`Onwards`). Writes, purges
and evictions leave the scan standing and are `Calm` about its keys, one lemma for all; a
page needs that the merge takes the least (`SmallestFirst`, by the cardinality of what comes before
a slot) and that a position is the greatest key returned (`GreatestKey`).

Only model-checked:

* Liveness (`LockReleased`, `Converges`, `ReadsReturn`): beyond the prover.
* `DownAreDropped` and `UpAreListed` of `Gossip`. Both are bounds on real time that depend
  on the settings: a failure timeout above the length of a round with as many dead peers as there
  may be. They also depend on the one fault of the run: of two nodes that go down, one that
  restarts may hear of the other from a peer that has not noticed yet, and pass it on as
  new. A theorem would have to name the settings and the faults for which they hold, which the
  code and its documents do not; the run shows one choice of them.

## 5. Not modelled

* *Requests of the front ends that are several calls of the store.* PUT, SET and
  EXPIRE read, then update or create, with no lock over both
  (`pxkv/api/server.py:1155`, `pxkv/api/redis_server.py:321`): EXPIRE may write back a
  value that was overwritten meanwhile, of two SETs on an absent key one ends in
  create's KeyError and drops the connection, and SET without a time keeps an
  old deadline. A spilled key is found by GET but refused by DELETE, and INCR starts it
  from 0 (`pxkv/core/lru.py:357`, `:433`); the shard modules permit both. No
  document says what is promised here.
* *Follower read routing* (`pxkv/api/server.py:557-700`): stateless. A follower that
  never synchronised reports lag 0 and age 0, so it passes the guardrails of
  `src/README.md:155` and answers 404; the staleness headers are computed after the
  value is read.
* *Gossip's effect on replication.* `ReplicationManager` is built before
  `initialize_gossip`, so it registers no callback, and the dynamic lists of followers
  that `src/README.md:172` describes never change. There is no behaviour to model.
* *Point-in-time recovery beyond `RestoresWhatItCan`.* `load({})` clears no shard, so
  what was written after the target stays unless the log sets it again; the lines that were undone remain
  in the log and the LSN moves back, so numbers are used twice.
* *Resharding* sets the count, and fails with AttributeError (`tests/test_replication.py:376`
  asserts that result); moving keys is code that is never reached.
* *Cached reads without an etag* (`pxkv/core/hotkey_mitigation.py:182`), the
  cache overflow of the prefetcher and `close()`, `reset` and `configure` of the
  mitigation.
* *Query plan cache, notifications, disk throttle, namespaces, authentication, AI
  cache keys, metrics, tracing*: pure functions, or state that nothing reads back.
* *Protocol parsing, TLS, JSON, logging, hash functions, floating-point distances*;
  HTTP and S3 tier clients, which a shard sees as it sees the file backend.
* *Durability below the process*: the code never calls fsync, and the loss of a page
  cache is outside the models. Clock skew between nodes is outside `Replication`.

Possible next steps: deadlines and `persist` as replicated changes; two crashed nodes in
`Gossip`, with the settings for which a bound on time can be stated and proved; the caches of
the mitigation under `reset` and `configure`.
