---------------------------- MODULE Replication ----------------------------
(***************************************************************************)
(* Asynchronous replication: class ReplicationManager of                   *)
(* pxkv/persistence/replication.py, with the two requests of               *)
(* pxkv/api/server.py that leader and followers make of each other, and    *)
(* conflict resolution as in pxkv/core/lru.py.                             *)
(*                                                                         *)
(* The leader's writes enter a bounded queue under the write lock; a       *)
(* thread takes batches from it and posts each to every follower, once.  A *)
(* follower applies changes in three threads that share no lock: the one   *)
(* that serves a post, the one that pulls the leader's log, the one that   *)
(* repairs (anti-entropy).  The last two may replace the whole contents by *)
(* a full synchronisation.                                                 *)
(*                                                                         *)
(* Covered: posts lost or late (the leader gives up waiting after two      *)
(* seconds), failed synchronisations, restarts of either side, rotation of *)
(* the leader's log.  Not covered: deadlines, persist, vectors, and the    *)
(* window between a snapshot and its rotation, which Durability has.       *)
(***************************************************************************)
EXTENDS Naturals, Sequences, FiniteSets, SequencesExt

CONSTANTS
  Keys,
  Followers,  \* REPLICATION_FOLLOWERS
  None,       \* no item, no timestamp
  Ops,        \* the operations clients use
  Logs,       \* the values "the leader has a WAL file" may have
  Sheds,      \* the values REPLICATION_SHED_POLICY may have
  Policies,   \* the values CROSS_CLUSTER_CONFLICT_POLICY may have
  QueueMax,   \* REPLICATION_QUEUE_MAX
  BatchMax,   \* the most changes one post carries
  MaxLag,     \* ANTI_ENTROPY_MAX_LAG_LSN
  MaxWrites,  \* bound on the writes
  MaxRotates, \* bound on the rotations
  MaxFaults   \* bound on lost posts, failed synchronisations and restarts

Threads == {"push", "pull", "repair"}

\* A stored item; ts is origin_ts of its metadata.  Time goes by in writes of the
\* leader: the n-th is made at time n.
Item == [val: Nat, ts: Nat]
Data == [Keys -> Item \cup {None}]

\* A change on its way to a follower; those from the log have no timestamp.  "set"
\* is create and update, which a follower treats alike.
Change == [op: {"set", "mset", "delete", "incr"}, keys: SUBSET Keys, val: Nat,
           ts: Nat \cup {None}, lsn: Nat]
Post   == [changes: Seq(Change), lsn: Nat]
Image  == [data: Data, lsn: Nat]

ASSUME ReplicationAssumption ==
  /\ Ops \subseteq {"set", "mset", "delete", "incr"}
  /\ Logs \subseteq BOOLEAN
  /\ Sheds \subseteq {"drop_newest", "drop_oldest"}
  /\ Policies \subseteq {"last_write_wins", "always"}
  /\ {QueueMax, BatchMax, MaxWrites} \subseteq Nat \ {0}
  /\ {MaxLag, MaxRotates, MaxFaults} \subseteq Nat
  /\ None \notin Nat \cup Item \cup Image

VARIABLES
  (* the leader *)
  stored,   \* its items
  lsn,      \* WAL._lsn
  wal,      \* the changes in its log file
  base,     \* WAL._base_lsn
  queue,    \* replication_queue
  batch,    \* the changes the replication thread is posting, a Post
  todo,     \* the followers it has not posted them to yet
  (* the followers, a function of each *)
  posts,    \* the posts that reached it and are not served yet
  data,     \* its items
  applied,  \* _last_applied_lsn
  known,    \* _known_leader_lsn
  age,      \* of _last_applied_at: "never" set, "recent", or "old", past
            \* ANTI_ENTROPY_MAX_AGE_MS
  step,     \* where each thread stands
  work,     \* the changes it has still to apply
  image,    \* the synchronisation's contents, and
  left,     \* ... the keys it has not loaded yet
  (* settings and environment *)
  setting,
  clock, rotates, faults,
  (* history *)
  log,      \* every change the leader ever made
  made,     \* its contents before the first of them and after each
  course    \* "smooth" since a synchronisation nothing has been lost, overtaken or
            \* applied by two threads at once; "syncing"; "rough"

leader    == <<stored, lsn, wal, base>>
sender    == <<queue, batch, todo>>
contents  == <<data, applied, age>>
threads   == <<step, work, image, left>>
env       == <<setting, clock, rotates, faults>>
past      == <<log, made>>
history   == <<past, course>>
vars == <<leader, sender, posts, contents, known, threads, env, history>>

NoItems == [k \in Keys |-> None]
NoPost  == [changes |-> <<>>, lsn |-> 0]

Larger(i, j) == IF i > j THEN i ELSE j

\* The values of the items d.
Contents(d) == [k \in Keys |-> IF d[k] = None THEN None ELSE d[k].val]

-----------------------------------------------------------------------------
TypeOK ==
  /\ stored \in Data /\ lsn \in Nat /\ wal \in Seq(Change) /\ base \in Nat
  /\ queue \in Seq(Change) /\ batch \in Post /\ todo \subseteq Followers
  /\ posts \in [Followers -> Seq(Post)]
  /\ data \in [Followers -> Data]
  /\ applied \in [Followers -> Nat] /\ known \in [Followers -> Nat]
  /\ age \in [Followers -> {"never", "recent", "old"}]
  /\ step \in [Followers -> [Threads ->
       {"idle", "check", "do", "mark", "sync", "load"}]]
  /\ work \in [Followers -> [Threads -> Seq(Change)]]
  /\ image \in [Followers -> [Threads -> Image \cup {None}]]
  /\ left \in [Followers -> [Threads -> SUBSET Keys]]
  /\ setting \in [log: BOOLEAN, shed: {"drop_newest", "drop_oldest"},
                  policy: {"last_write_wins", "always"}]
  /\ {clock, rotates, faults} \subseteq Nat
  /\ log \in Seq(Change) /\ made \in Seq([Keys -> Nat \cup {None}])
  /\ course \in [Followers -> {"smooth", "syncing", "rough"}]

\* A follower's threads when the process has started: the pulling one begins with
\* a full synchronisation.
Started == [t \in Threads |-> IF t = "pull" THEN "sync" ELSE "idle"]

Init ==
  /\ stored = NoItems /\ lsn = 0 /\ wal = <<>> /\ base = 1
  /\ queue = <<>> /\ batch = NoPost /\ todo = {}
  /\ posts = [f \in Followers |-> <<>>]
  /\ data = [f \in Followers |-> NoItems]
  /\ applied = [f \in Followers |-> 0] /\ known = [f \in Followers |-> 0]
  /\ age = [f \in Followers |-> "never"]
  /\ step = [f \in Followers |-> Started]
  /\ work = [f \in Followers |-> [t \in Threads |-> <<>>]]
  /\ image = [f \in Followers |-> [t \in Threads |-> None]]
  /\ left = [f \in Followers |-> [t \in Threads |-> {}]]
  /\ setting \in [log: Logs, shed: Sheds, policy: Policies]
  /\ clock = 0 /\ rotates = 0 /\ faults = 0
  /\ log = <<>> /\ made = <<Contents(NoItems)>>
  /\ course = [f \in Followers |-> "rough"]

-----------------------------------------------------------------------------
(* What a change does to the items. *)

\* The items after c, made or arriving at time t.  An increment carries no
\* timestamp of its origin, and neither does what is read from a log.
After(d, c, t) ==
  [k \in Keys |->
     IF k \notin c.keys THEN d[k]
     ELSE CASE c.op \in {"set", "mset"} ->
                 [val |-> c.val, ts |-> IF c.ts = None THEN t ELSE c.ts]
            [] c.op = "incr" ->
                 [val |-> (IF d[k] = None THEN 0 ELSE d[k].val) + c.val, ts |-> t]
            [] c.op = "delete" -> None]

\* resolve_conflict.  Equal times go by the cluster's name, which is the same.
ResolveConflict(d, k, ts) ==
  \/ d[k] = None
  \/ setting.policy # "last_write_wins"
  \/ ts # None /\ ts > d[k].ts

ShouldApply(d, c) ==
  c.op \in {"set", "mset"} => \A k \in c.keys : ResolveConflict(d, k, c.ts)

\* What clients ask for.  Every put writes a value of its own, the number of the
\* write; counters go by 1.
Request ==
  {r \in [op: Ops, keys: SUBSET Keys \ {{}}] :
     r.op # "mset" => Cardinality(r.keys) = 1}

-----------------------------------------------------------------------------
(* The leader. *)

\* enqueue_change: a full queue gives up a change, the new one or the oldest.
Enqueue(c) ==
  IF Len(queue) < QueueMax
  THEN queue' = Append(queue, c) /\ UNCHANGED course
  ELSE /\ queue' = IF setting.shed = "drop_oldest"
                   THEN Append(Tail(queue), c) ELSE queue
       /\ course' = [f \in Followers |-> "rough"]

\* A write, its line in the log and its place in the queue, all under the write
\* lock.
Write(r) ==
  LET c == [op |-> r.op, keys |-> r.keys,
            val |-> IF r.op = "incr" THEN 1 ELSE clock + 1,
            ts |-> clock + 1, lsn |-> lsn + 1]
  IN /\ clock < MaxWrites
     /\ r.op = "delete" => \A k \in r.keys : stored[k] # None
     /\ clock' = clock + 1
     /\ lsn' = lsn + 1
     /\ stored' = After(stored, c, clock + 1)
     /\ wal' = IF setting.log THEN Append(wal, [c EXCEPT !.ts = None]) ELSE wal
     /\ log' = Append(log, c)
     /\ made' = Append(made, Contents(stored'))
     /\ Enqueue(c)
     /\ UNCHANGED <<base, batch, todo, posts, contents, known, threads, setting,
                    rotates, faults>>

\* Bug: the leader's LSN is the one of the first change in the batch.
DispatchFirstLsn ==
  /\ todo = {} /\ queue # <<>>
  /\ LET n == IF Len(queue) < BatchMax THEN Len(queue) ELSE BatchMax
     IN /\ batch' = [changes |-> SubSeq(queue, 1, n), lsn |-> queue[1].lsn]
        /\ queue' = SubSeq(queue, n + 1, Len(queue))
  /\ todo' = Followers
  /\ UNCHANGED <<leader, posts, contents, known, threads, env, history>>

\* The replication thread takes what is queued.
Dispatch ==
  /\ todo = {} /\ queue # <<>>
  /\ LET n == IF Len(queue) < BatchMax THEN Len(queue) ELSE BatchMax
     IN /\ batch' = [changes |-> SubSeq(queue, 1, n), lsn |-> lsn]
        /\ queue' = SubSeq(queue, n + 1, Len(queue))
  /\ todo' = Followers
  /\ UNCHANGED <<leader, posts, contents, known, threads, env, history>>

\* ... and posts it.  Whatever the answer is, it is not posted again.
PostTo(f) ==
  /\ f \in todo
  /\ todo' = todo \ {f}
  /\ batch' = IF todo' = {} THEN NoPost ELSE batch
  /\ \/ /\ posts' = [posts EXCEPT ![f] = Append(@, batch)]
        /\ UNCHANGED <<faults, course>>
     \/ /\ faults < MaxFaults
        /\ faults' = faults + 1
        /\ course' = [course EXCEPT ![f] = "rough"]
        /\ UNCHANGED posts
  /\ UNCHANGED <<leader, queue, contents, known, threads, setting, clock, rotates,
                 past>>

\* A snapshot that rotates the log, in one step.
Rotate ==
  /\ setting.log /\ rotates < MaxRotates
  /\ wal' = <<>> /\ base' = lsn + 1
  /\ rotates' = rotates + 1
  /\ UNCHANGED <<stored, lsn, sender, posts, contents, known, threads, setting,
                 clock, faults, history>>

\* The leader dies and recovers its items, all of them if it has a log, none if it
\* has not.  What replay makes is stamped with the time of the replay; the LSN is
\* that of the last line, 0 after a rotation.
LeaderRestart ==
  /\ faults < MaxFaults
  /\ faults' = faults + 1
  /\ LET replayed == UNION {wal[i].keys : i \in DOMAIN wal}
     IN stored' = IF ~setting.log THEN NoItems
                  ELSE [k \in Keys |->
                          IF stored[k] # None /\ k \in replayed
                          THEN [stored[k] EXCEPT !.ts = clock] ELSE stored[k]]
  /\ lsn' = IF wal = <<>> THEN 0 ELSE Last(wal).lsn
  /\ queue' = <<>> /\ batch' = NoPost /\ todo' = {}
  /\ course' = [f \in Followers |-> "rough"]
  /\ UNCHANGED <<wal, base, posts, contents, known, threads, setting, clock, rotates,
                 past>>

-----------------------------------------------------------------------------
(* A follower takes up changes. *)

Quiet(f, t) == \A u \in Threads \ {t} : step[f][u] \in {"idle", "sync"}

\* Thread t starts on the changes of cs at the places S, in the order of their LSNs;
\* those of the same LSN stay in the order of cs.
Begin(f, t, cs, S) ==
  \E q \in Bijection(1..Cardinality(S), S) :
    /\ \A i, j \in DOMAIN q : i < j =>
         \/ cs[q[i]].lsn < cs[q[j]].lsn
         \/ cs[q[i]].lsn = cs[q[j]].lsn /\ q[i] < q[j]
    /\ work' = [work EXCEPT ![f][t] = [i \in DOMAIN q |-> cs[q[i]]]]
    /\ step' = [step EXCEPT ![f][t] = IF S = {} THEN "idle" ELSE "check"]
    /\ UNCHANGED <<image, left>>

\* POST /replication/sync
Serve(f, i) ==
  /\ step[f]["push"] = "idle"
  /\ i \in DOMAIN posts[f]
  /\ posts' = [posts EXCEPT ![f] = RemoveAt(@, i)]
  /\ known' = [known EXCEPT ![f] = Larger(@, posts[f][i].lsn)]
  /\ Begin(f, "push", posts[f][i].changes, DOMAIN posts[f][i].changes)
  /\ course' = [course EXCEPT ![f] = IF i = 1 /\ Quiet(f, "push") THEN @ ELSE "rough"]
  /\ UNCHANGED <<leader, sender, contents, env, past>>

\* GET /replication/wal of the leader: 410 when the log does not go back far enough,
\* otherwise the entries after the follower's LSN.
Pull(f) ==
  LET news == {i \in DOMAIN wal : wal[i].lsn > applied[f]}
      gone == setting.log /\ applied[f] + 1 < base
  IN /\ step[f]["pull"] = "idle"
     /\ \/ /\ gone
           /\ step' = [step EXCEPT ![f]["pull"] = "sync"]
           /\ UNCHANGED <<work, image, left, known, course>>
        \/ /\ ~gone
           /\ known' = [known EXCEPT ![f] = Larger(@, lsn)]
           /\ Begin(f, "pull", wal, news)
           /\ course' = [course EXCEPT ![f] = IF news = {} THEN @ ELSE "rough"]
     /\ UNCHANGED <<leader, sender, posts, contents, env, past>>

-----------------------------------------------------------------------------
(* _apply_changes_impl, for the next change of a thread. *)

Next1(f, t) == Head(work[f][t])

\* Bug: a change is applied whatever the follower's LSN is.
CheckNothing(f, t) ==
  /\ step[f][t] = "check"
  /\ step' = [step EXCEPT ![f][t] =
                IF ShouldApply(data[f], Next1(f, t)) THEN "do" ELSE "mark"]
  /\ UNCHANGED <<work, leader, sender, posts, contents, known, image, left, env,
                 history>>

\* Old changes are skipped, conflicts resolved; one that lost is passed over.
Check(f, t) ==
  /\ step[f][t] = "check"
  /\ \/ /\ Next1(f, t).lsn <= applied[f]
        /\ work' = [work EXCEPT ![f][t] = Tail(@)]
        /\ step' = [step EXCEPT ![f][t] =
                      IF Len(work[f][t]) = 1 THEN "idle" ELSE "check"]
     \/ /\ Next1(f, t).lsn > applied[f]
        /\ step' = [step EXCEPT ![f][t] =
                      IF ShouldApply(data[f], Next1(f, t)) THEN "do" ELSE "mark"]
        /\ UNCHANGED work
  /\ UNCHANGED <<leader, sender, posts, contents, known, image, left, env, history>>

\* The call of the store, which is all that a lock covers.
Do(f, t) ==
  /\ step[f][t] = "do"
  /\ data' = [data EXCEPT ![f] = After(@, Next1(f, t), clock)]
  /\ step' = [step EXCEPT ![f][t] = "mark"]
  /\ UNCHANGED <<leader, sender, posts, applied, age, known, work, image, left, env,
                 history>>

\* Here the time of the last change is set with every change, not with the last of
\* the batch.
Mark(f, t) ==
  /\ step[f][t] = "mark"
  /\ applied' = [applied EXCEPT ![f] = Next1(f, t).lsn]
  /\ age' = [age EXCEPT ![f] = "recent"]
  /\ work' = [work EXCEPT ![f][t] = Tail(@)]
  /\ step' = [step EXCEPT ![f][t] = IF Len(work[f][t]) = 1 THEN "idle" ELSE "check"]
  /\ UNCHANGED <<leader, sender, posts, data, known, image, left, env, history>>

-----------------------------------------------------------------------------
(* _initial_full_sync *)

\* GET /replication/snapshot of the leader
SyncDump(f, t) ==
  /\ step[f][t] = "sync"
  /\ step' = [step EXCEPT ![f][t] = "load"]
  /\ image' = [image EXCEPT ![f][t] = [data |-> stored, lsn |-> lsn]]
  /\ left' = [left EXCEPT ![f][t] = Keys]
  /\ course' = [course EXCEPT ![f] = IF Quiet(f, t) THEN "syncing" ELSE "rough"]
  /\ UNCHANGED <<leader, sender, posts, contents, known, work, env, past>>

\* The shards are loaded one by one; here every key is in one of its own.
SyncLoad(f, t, k) ==
  /\ step[f][t] = "load"
  /\ k \in left[f][t]
  /\ data' = [data EXCEPT ![f][k] = image[f][t].data[k]]
  /\ left' = [left EXCEPT ![f][t] = @ \ {k}]
  /\ UNCHANGED <<leader, sender, posts, applied, age, known, step, work, image, env,
                 history>>

\* Bug: the leader's LSN that came with the snapshot is not taken note of.
SyncMarkSilent(f, t) ==
  /\ step[f][t] = "load" /\ left[f][t] = {}
  /\ applied' = [applied EXCEPT ![f] = image[f][t].lsn]
  /\ age' = [age EXCEPT ![f] = "recent"]
  /\ step' = [step EXCEPT ![f][t] = "idle"]
  /\ image' = [image EXCEPT ![f][t] = None]
  /\ course' = [course EXCEPT ![f] = IF @ = "syncing" THEN "smooth" ELSE @]
  /\ UNCHANGED <<leader, sender, posts, data, known, work, left, env, past>>

SyncMark(f, t) ==
  /\ step[f][t] = "load" /\ left[f][t] = {}
  /\ applied' = [applied EXCEPT ![f] = image[f][t].lsn]
  /\ age' = [age EXCEPT ![f] = "recent"]
  /\ known' = [known EXCEPT ![f] = Larger(@, image[f][t].lsn)]
  /\ step' = [step EXCEPT ![f][t] = "idle"]
  /\ image' = [image EXCEPT ![f][t] = None]
  /\ course' = [course EXCEPT ![f] = IF @ = "syncing" THEN "smooth" ELSE @]
  /\ UNCHANGED <<leader, sender, posts, data, work, left, env, past>>

\* The leader does not answer, or the stream breaks off: another attempt, or, after
\* ten, none.
SyncFails(f, t) ==
  /\ step[f][t] \in {"sync", "load"}
  /\ faults < MaxFaults
  /\ faults' = faults + 1
  /\ step' = [step EXCEPT ![f][t] = "idle"] \/ step' = [step EXCEPT ![f][t] = "sync"]
  /\ image' = [image EXCEPT ![f][t] = None]
  /\ left' = [left EXCEPT ![f][t] = {}]
  /\ course' = [course EXCEPT ![f] = "rough"]
  /\ UNCHANGED <<leader, sender, posts, contents, known, work, setting, clock, rotates,
                 past>>

\* Time goes by without a change.
Ages(f) ==
  /\ age[f] = "recent"
  /\ age' = [age EXCEPT ![f] = "old"]
  /\ UNCHANGED <<leader, sender, posts, data, applied, known, threads, env, history>>

\* Bug: only the lag counts.
RepairByLag(f) ==
  /\ step[f]["repair"] = "idle"
  /\ known[f] > applied[f] + MaxLag
  /\ step' = [step EXCEPT ![f]["repair"] = "sync"]
  /\ UNCHANGED <<leader, sender, posts, contents, known, work, image, left, env,
                 history>>

\* _anti_entropy_loop.  A follower that never applied anything has no age.
Repair(f) ==
  /\ step[f]["repair"] = "idle"
  /\ known[f] > applied[f] + MaxLag \/ age[f] = "old"
  /\ step' = [step EXCEPT ![f]["repair"] = "sync"]
  /\ UNCHANGED <<leader, sender, posts, contents, known, work, image, left, env,
                 history>>

\* Without files of its own a follower starts empty.
FollowerRestart(f) ==
  /\ faults < MaxFaults
  /\ faults' = faults + 1
  /\ data' = [data EXCEPT ![f] = NoItems]
  /\ applied' = [applied EXCEPT ![f] = 0] /\ known' = [known EXCEPT ![f] = 0]
  /\ age' = [age EXCEPT ![f] = "never"]
  /\ posts' = [posts EXCEPT ![f] = <<>>]
  /\ step' = [step EXCEPT ![f] = Started]
  /\ work' = [work EXCEPT ![f] = [t \in Threads |-> <<>>]]
  /\ image' = [image EXCEPT ![f] = [t \in Threads |-> None]]
  /\ left' = [left EXCEPT ![f] = [t \in Threads |-> {}]]
  /\ course' = [course EXCEPT ![f] = "rough"]
  /\ UNCHANGED <<leader, sender, setting, clock, rotates, past>>

-----------------------------------------------------------------------------
\* A thread goes on with what it has begun.
Continues(f, t) ==
  \/ Check(f, t) \/ Do(f, t) \/ Mark(f, t)
  \/ SyncDump(f, t)
  \/ \E k \in Keys : SyncLoad(f, t, k)
  \/ SyncMark(f, t)

Next ==
  \/ \E r \in Request : Write(r)
  \/ Dispatch
  \/ Rotate
  \/ LeaderRestart
  \/ \E f \in Followers :
       \/ PostTo(f)
       \/ \E i \in DOMAIN posts[f] : Serve(f, i)
       \/ Pull(f) \/ Ages(f) \/ Repair(f) \/ FollowerRestart(f)
       \/ \E t \in Threads : Continues(f, t) \/ SyncFails(f, t)

Spec == Init /\ [][Next]_vars

\* The threads of a follower run, and time goes by.  Nothing is assumed of the
\* leader's thread, of its posts, or of the pulling.
FairSpec ==
  /\ Spec
  /\ \A f \in Followers :
       /\ WF_vars(Ages(f))
       /\ WF_vars(Repair(f))
       /\ \A t \in Threads : WF_vars(Continues(f, t))

-----------------------------------------------------------------------------
(* Properties. *)

AtRest(f) == \A t \in Threads : step[f][t] \in {"idle", "sync"}

\* What the leader's first n changes make.
Made(n) == made[n + 1]

\* A follower never reports less lag than there is for want of news: the leader's
\* LSN as it knows it covers what it has applied.  The staleness bound of routed
\* reads is computed from the two.
LagNotUnderstated == \A f \in Followers : applied[f] <= known[f]

\* A key that was incremented, or written together with one.
Incremented(k) ==
  \E i, j \in DOMAIN log :
    k \in log[i].keys /\ log[j].op = "incr" /\ log[i].keys \cap log[j].keys # {}

\* As long as posts arrive in order, one at a time and undisturbed, a follower holds
\* exactly what the leader held at the LSN it reports, but for keys that have been
\* incremented, or written together with one that was: an increment is stamped with
\* the follower's time, and changes made before that are refused.
FollowerIsPrefixOfPuts ==
  /\ TypeOK
  /\ \A f \in Followers :
       course[f] = "smooth" /\ AtRest(f) /\ lsn = clock
         => \A k \in Keys : ~Incremented(k) => Contents(data[f])[k] = Made(applied[f])[k]

\* When the leader stops writing, a follower that ever heard from it ends up with its
\* contents, whatever was lost, reordered or restarted before.
Converges ==
  \A f \in Followers :
    <>[](age[f] # "never" => Contents(data[f]) = Contents(stored))
=============================================================================
