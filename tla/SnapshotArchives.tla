-------------------------- MODULE SnapshotArchives --------------------------
(***************************************************************************)
(* The snapshot files: SnapshotManager.snapshot_once, the archives with    *)
(* their diffs and pruning, and the recovery to a point in time, of        *)
(* pxkv/persistence/snapshot.py.  Two threads may be inside snapshot_once  *)
(* at once: the snapshot thread and a request for GET /admin/snapshot.     *)
(* Durability has the crash and the failing rotation.                      *)
(*                                                                         *)
(* A page (the unit of diffs) is a shard with one key.  The lines of the   *)
(* log are puts (create, mset), deletes and increments; a put of line l    *)
(* stores the number l.  An inode is what a path leads to: two threads     *)
(* that open the same temporary file share one.                            *)
(***************************************************************************)
EXTENDS Naturals, Sequences, FiniteSets

CONSTANTS
  Pages,
  Threads,    \* those that may be in snapshot_once
  None,       \* no page, no file, no base, no recovery yet
  Torn,       \* a file that is not the payload of any one dump
  MaxLsn,     \* bound on the writes
  MaxSnaps,   \* bound on the snapshots
  Keep        \* PITR_SNAPSHOT_KEEP

Lsn == 0..MaxLsn
Contents == [Pages -> Nat \cup {None}]
Payload == [lsn: Lsn, pages: Contents]
Line == [page: Pages, kind: {"put", "delete", "incr"}]
Inode == 1..(Cardinality(Threads) + 2)

\* A recovery: to which LSN, from what, and did it succeed?
Source == [lsn: Lsn, pages: Contents \cup {None}, diff: BOOLEAN]
Recovery == [target: Lsn, start: Source \cup {None}, done: BOOLEAN]

ASSUME ArchiveAssumption ==
  /\ MaxLsn \in Nat /\ MaxSnaps \in Nat /\ Keep \in Nat \ {0}
  /\ IsFiniteSet(Threads) /\ IsFiniteSet(Pages)
  /\ None \notin Nat \cup Contents \cup Payload \cup Source \cup Recovery
  /\ Torn \notin Payload \cup {None}

VARIABLES
  store,     \* the contents in memory
  lsn,       \* WAL._lsn
  log,       \* every line ever logged, by LSN (those up to logFrom are rotated away)
  logFrom,
  lapsed,    \* a history: the pages that also changed without a write
  pc,        \* where each thread stands in snapshot_once
  job,       \* the payload it dumped
  plan,      \* the archive it is about to write
  tmp, main, \* the inodes at path.tmp and path
  fd,        \* the inode a thread has open
  disk,      \* what each inode holds: a payload, Torn, or None when empty
  mixed,     \* a history: two threads had the temporary file at the same time
  archives,  \* the archives on disk
  rushed,    \* a history: two threads were in their archive steps together
  snaps,     \* the snapshots begun so far
  found      \* the recovery that ended this behaviour

vars == <<store, lsn, log, logFrom, lapsed, pc, job, plan, tmp, main, fd, disk,
          mixed, archives, rushed, snaps, found>>
files == <<tmp, main, fd, disk, mixed>>
memory == <<store, lsn, log, lapsed>>

Empty == [p \in Pages |-> None]

\* Line l over the contents c.
Apply(c, l) ==
  [c EXCEPT ![log[l].page] =
     CASE log[l].kind = "put"    -> l
       [] log[l].kind = "delete" -> None
       [] log[l].kind = "incr"   -> IF @ = None THEN 1 ELSE @ + 1]

\* The lines from..to over c, in order.
Replay(c, from, to) ==
  LET upto[n \in (from - 1)..to] == IF n < from THEN c ELSE Apply(upto[n - 1], n)
  IN IF to < from THEN c ELSE upto[to]

Init ==
  /\ store = Empty /\ lsn = 0 /\ log = <<>> /\ logFrom = 0 /\ lapsed = {}
  /\ pc = [t \in Threads |-> "idle"]
  /\ job = [t \in Threads |-> None] /\ plan = [t \in Threads |-> None]
  /\ tmp = None /\ main = None /\ fd = [t \in Threads |-> None]
  /\ disk = [i \in Inode |-> None] /\ mixed = FALSE
  /\ archives = {} /\ rushed = FALSE
  /\ snaps = 0
  /\ found = None

-----------------------------------------------------------------------------
(* The store beside it. *)

Write(line) ==
  /\ lsn < MaxLsn
  /\ line.kind = "delete" => store[line.page] # None
  /\ lsn' = lsn + 1
  /\ log' = Append(log, line)
  /\ store' = [store EXCEPT ![line.page] =
                 CASE line.kind = "put"    -> lsn'
                   [] line.kind = "delete" -> None
                   [] line.kind = "incr"   -> IF @ = None THEN 1 ELSE @ + 1]
  /\ UNCHANGED <<lapsed, logFrom, pc, job, plan, files, archives, rushed, snaps>>

\* An expiration, an eviction: contents change and the LSN does not.
Lapse(p) ==
  /\ store[p] # None
  /\ store' = [store EXCEPT ![p] = None]
  /\ lapsed' = lapsed \cup {p}
  /\ UNCHANGED <<lsn, log, logFrom, pc, job, plan, files, archives, rushed, snaps>>

-----------------------------------------------------------------------------
(* snapshot_once: the dump, and _write_json_atomic on the snapshot itself. *)

Step(t, from, to) == pc[t] = from /\ pc' = [pc EXCEPT ![t] = to]

Dump(t) ==
  /\ Step(t, "idle", "open")
  /\ snaps < MaxSnaps
  /\ snaps' = snaps + 1
  /\ job' = [job EXCEPT ![t] = [lsn |-> lsn, pages |-> store]]
  /\ UNCHANGED <<memory, logFrom, plan, files, archives, rushed>>

\* Bug: the snapshot is written in place, not beside and then moved.
OpenInPlace(t) ==
  /\ Step(t, "open", "write")
  /\ LET i == IF main # None THEN main ELSE 1 IN
       /\ main' = i /\ tmp' = i
       /\ fd' = [fd EXCEPT ![t] = i]
       /\ disk' = [disk EXCEPT ![i] = None]
  /\ UNCHANGED <<memory, mixed, logFrom, job, plan, archives, rushed, snaps>>

\* open(tmp, "w"): the file there is emptied, whoever is writing to it.
Open(t) ==
  /\ Step(t, "open", "write")
  /\ LET i == IF tmp # None THEN tmp
              ELSE CHOOSE j \in Inode : j # main /\ \A u \in Threads : fd[u] # j
     IN /\ tmp' = i
        /\ fd' = [fd EXCEPT ![t] = i]
        /\ disk' = [disk EXCEPT ![i] = None]
  /\ mixed' = (mixed \/ \E u \in Threads \ {t} : pc[u] \in {"write", "replace"})
  /\ UNCHANGED <<memory, main, logFrom, job, plan, archives, rushed, snaps>>

\* json.dump and close.  Over what another thread wrote, or beside one that still
\* writes, the two texts may mix.
WriteTmp(t) ==
  /\ Step(t, "write", "replace")
  /\ \E c \in {job[t]} \cup
              (IF disk[fd[t]] # None \/ \E u \in Threads \ {t} : fd[u] = fd[t]
               THEN {Torn} ELSE {}) :
       disk' = [disk EXCEPT ![fd[t]] = c]
  /\ fd' = [fd EXCEPT ![t] = None]
  /\ UNCHANGED <<memory, tmp, main, mixed, logFrom, job, plan, archives, rushed, snaps>>

\* os.replace; when the other thread has moved the file, it raises, and the whole
\* snapshot ends in the handler of snapshot_once.
Replace(t) ==
  /\ \/ /\ tmp # None
        /\ Step(t, "replace", "build")
        /\ main' = tmp
        /\ UNCHANGED job
     \/ /\ tmp = None
        /\ Step(t, "replace", "idle")
        /\ job' = [job EXCEPT ![t] = None]
        /\ UNCHANGED main
  /\ tmp' = None
  /\ UNCHANGED <<memory, fd, disk, mixed, logFrom, plan, archives, rushed, snaps>>

-----------------------------------------------------------------------------
(* Archives: full payloads, or the pages that differ from an older archive. *)

\* _build_diff_payload: the changed pages, and the deleted ones as None.
Diff(pages, base) == [p \in {q \in Pages : pages[q] # base[q]} |-> pages[p]]

\* Pages of the base with those of the diff over them.
Patched(base, diff) ==
  [p \in Pages |-> IF p \in DOMAIN diff THEN diff[p] ELSE base[p]]

\* _load_snapshot_payload: what the archive f may load as, None when the base is
\* missing or the manifest is not that of the pages.  A diff names its base by LSN,
\* and any file with that LSN may be the one that is found.
Loads(f) ==
  LET load[g \in archives] ==
        IF g.base = None THEN {g.body}
        ELSE LET bases == {b \in archives : b.lsn = g.base} IN
             IF bases = {} THEN {None}
             ELSE {IF c # None /\ Patched(c, g.body) = g.manifest
                   THEN g.manifest ELSE None : c \in UNION {load[b] : b \in bases}}
  IN load[f]

\* list_snapshot_archives puts the highest LSN first.
Newest(A) == {f \in A : \A g \in A : g.lsn <= f.lsn}

Full(t) ==
  [lsn |-> job[t].lsn, base |-> None, body |-> job[t].pages, manifest |-> job[t].pages]

\* The archive to write: a diff against the newest one with a lower LSN, a full
\* one when there is none, it cannot be loaded, or nothing has changed.
Build(t) ==
  /\ Step(t, "build", "archive")
  /\ LET older == Newest({f \in archives : f.lsn < job[t].lsn})
         diffs(f) == {IF c = None \/ c = job[t].pages THEN Full(t)
                      ELSE [Full(t) EXCEPT !.base = f.lsn, !.body = Diff(job[t].pages, c)]
                        : c \in Loads(f)}
     IN \E a \in IF older = {} THEN {Full(t)} ELSE UNION {diffs(f) : f \in older} :
          plan' = [plan EXCEPT ![t] = a]
  /\ rushed' = (rushed \/ \E u \in Threads \ {t} : pc[u] \in {"archive", "prune"})
  /\ UNCHANGED <<memory, logFrom, job, files, archives, snaps>>

\* The name is made of the LSN, the second and the kind: an archive written with the
\* same LSN and kind in the same second is written over.
WriteArchive(t) ==
  /\ Step(t, "archive", "prune")
  /\ LET same == {f \in archives : /\ f.lsn = plan[t].lsn
                                   /\ (f.base = None) = (plan[t].base = None)}
     IN \E over \in {{}, same} : archives' = (archives \ over) \cup {plan[t]}
  /\ plan' = [plan EXCEPT ![t] = None]
  /\ UNCHANGED <<memory, logFrom, job, files, rushed, snaps>>

\* Bug: only the archives kept, and not those their diffs rest on.
KeptOnly(S) == {S}

\* The archives in S with their chains of bases, through any choice of the file
\* for an LSN.
Closures(S) ==
  {C \in SUBSET archives :
     /\ S \subseteq C
     /\ \A f \in C : f.base # None /\ (\E g \in archives : g.lsn = f.base) =>
          \E g \in C : g.lsn = f.base
     /\ \A g \in C \ S : \E f \in C : f.base = g.lsn}

\* prune_snapshot_archives.  What follows depends on WAL_ROTATE_ENABLED, a setting
\* that can be reloaded at any time.
Prune(t) ==
  /\ \E to \in {"rotate", "idle"} : Step(t, "prune", to)
  /\ IF Cardinality(archives) <= Keep THEN UNCHANGED archives
     ELSE \E S \in SUBSET archives :
            /\ Cardinality(S) = Keep
            /\ \A f \in S, g \in archives \ S : g.lsn <= f.lsn
            /\ \E C \in Closures(S) : archives' = C
  /\ job' = [job EXCEPT ![t] = None]
  /\ UNCHANGED <<memory, logFrom, files, plan, rushed, snaps>>

\* rotate_after_snapshot: every line so far leaves the log, those after the
\* snapshot too.
Rotate(t) ==
  /\ Step(t, "rotate", "idle")
  /\ logFrom' = lsn
  /\ UNCHANGED <<memory, job, plan, files, archives, rushed, snaps>>

-----------------------------------------------------------------------------
(* POST /admin/pitr/restore on the live store, while nothing else runs. *)

\* The snapshot at its path, if it is one and not past the target.
Main(target) ==
  IF main # None /\ disk[main] \notin {None, Torn} /\ disk[main].lsn <= target
  THEN {[lsn |-> disk[main].lsn, pages |-> disk[main].pages, diff |-> FALSE]} ELSE {}

\* What the newest of the archives in A may load as.
LoadsNewest(A) ==
  UNION {{[lsn |-> f.lsn, pages |-> c, diff |-> f.base # None] : c \in Loads(f)} : f \in Newest(A)}

\* Bug: the newest archive, whatever the target.
StartsNewest(target) == IF archives = {} THEN {None} ELSE LoadsNewest(archives)

\* find_snapshot_for_lsn: the newest archive up to the target, or else the main
\* snapshot.
Starts(target) ==
  LET A == {f \in archives : f.lsn <= target} IN
  IF A # {} THEN LoadsNewest(A) ELSE IF Main(target) # {} THEN Main(target) ELSE {None}

\* ShardedKeyValueStore.load.  A shard the payload does not mention is left as it
\* is: every shard when there is no snapshot and {} is loaded, and those that were
\* empty when the payload comes from a diff.
LoadedFrom(s) ==
  IF s = None \/ s.pages = None THEN store
  ELSE [p \in Pages |-> IF s.diff /\ s.pages[p] = None THEN store[p] ELSE s.pages[p]]

Recovered(target, s, c, l) ==
  /\ \A t \in Threads : pc[t] = "idle"
  /\ found' = [target |-> target, start |-> s, done |-> s = None \/ s.pages # None]
  /\ store' = IF found'.done THEN c ELSE store
  /\ lsn' = IF found'.done THEN l ELSE lsn
  /\ UNCHANGED <<log, lapsed, logFrom, pc, job, plan, files, archives, rushed, snaps>>

\* recover_to_lsn: all lines of the log up to the target are applied, those that
\* the snapshot covers too.  The LSN becomes that of the last line applied.
RecoverToLsn(target) ==
  /\ target <= lsn
  /\ \E s \in Starts(target) :
       Recovered(target, s, Replay(LoadedFrom(s), logFrom + 1, target),
                 IF target > logFrom THEN target ELSE 0)

\* recover_to_timestamp, for the last moment before the line after target, when the
\* log holds no line as old as that (otherwise it is RecoverToLsn): a snapshot alone,
\* the one at the path first, then the newest archive that loads.
RecoverToTimestamp(target) ==
  /\ target <= logFrom
  /\ LET usable == {f \in archives : f.lsn <= target /\ Loads(f) # {None}} IN
     \E s \in IF Main(target) # {} THEN Main(target)
              ELSE {r \in LoadsNewest(usable) : r.pages # None} :
       Recovered(target, s, LoadedFrom(s), lsn)

-----------------------------------------------------------------------------
Next ==
  /\ found = None
  /\ \/ /\ \/ \E p \in Pages : Lapse(p)
           \/ \E line \in Line : Write(line)
           \/ \E t \in Threads :
                \/ Dump(t) \/ Open(t) \/ WriteTmp(t) \/ Replace(t)
                \/ Build(t) \/ WriteArchive(t) \/ Prune(t) \/ Rotate(t)
        /\ UNCHANGED found
     \/ \E target \in Lsn : RecoverToLsn(target) \/ RecoverToTimestamp(target)

Spec == Init /\ [][Next]_vars

-----------------------------------------------------------------------------
(* Properties. *)

\* An archive: its manifest is the contents that were dumped; its body all of them, or
\* with a base, the LSN of an older archive, the pages that differ from that one's.
IsArchive(f) ==
  /\ f.lsn \in Lsn /\ f.base \in Lsn \cup {None}
  /\ f.manifest \in Contents
  /\ f.body \in [DOMAIN f.body -> Nat \cup {None}] /\ DOMAIN f.body \subseteq Pages

TypeOK ==
  /\ store \in Contents /\ lsn \in Lsn /\ logFrom \in 0..Len(log)
  /\ log \in Seq(Line) /\ lapsed \subseteq Pages
  /\ pc \in [Threads -> {"idle", "open", "write", "replace", "build", "archive",
                         "prune", "rotate"}]
  /\ job \in [Threads -> Payload \cup {None}] /\ DOMAIN plan = Threads
  /\ fd \in [Threads -> Inode \cup {None}]
  /\ \A t \in Threads :
       /\ job[t] # None <=> pc[t] \notin {"idle", "rotate"}
       /\ IF pc[t] = "archive" THEN IsArchive(plan[t]) ELSE plan[t] = None
       /\ fd[t] # None <=> pc[t] = "write"
  /\ tmp \in Inode \cup {None} /\ main \in Inode \cup {None}
  /\ disk \in [Inode -> Payload \cup {None, Torn}]
  /\ \A f \in archives : IsArchive(f)
  /\ snaps \in 0..MaxSnaps

\* Whatever a crash would leave at the path of the snapshot is the whole payload of
\* one dump, with the LSN it was cut at; only two threads in the temporary file at
\* the same time may leave less.
MainIsADump ==
  /\ TypeOK
  /\ main # None /\ ~mixed => disk[main] \in Payload

\* Every archive that is kept can be loaded, through however many diffs, and gives
\* the contents that were dumped.  What can break it: a second snapshot between
\* building a diff and writing it (pruning takes its base), and changes without a
\* log line, which make two archives with one LSN differ.
ArchivesLoad ==
  ~rushed /\ lapsed = {} => \A f \in archives : Loads(f) = {f.manifest}

\* The contents after line l.
Past(l) == Replay(Empty, 1, l)

\* The lines of p that set it, whatever it was, that recovery applies.
Sets(p) ==
  {l \in (logFrom + 1)..found.target : log[l].page = p /\ log[l].kind # "incr"}

\* The snapshot restores p, the log continues where it ended, and no increment in
\* it is counted by the log once more.
Carried(p) ==
  LET s == found.start IN
  /\ s # None
  /\ ~(s.diff /\ s.pages[p] = None)
  /\ \A l \in 1..found.target : log[l].page = p => (l <= s.lsn <=> l <= logFrom)

\* A recovery to a point in time that reports success gives every page the value it
\* had after that line, if the log still has a line that sets the page or the
\* snapshot carries it; pages that lapsed aside.
RestoresWhatItCan ==
  found # None /\ found.done =>
    \A p \in Pages \ lapsed :
      Sets(p) # {} \/ Carried(p) => store[p] = Past(found.target)[p]
=============================================================================
