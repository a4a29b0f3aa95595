----------------------------- MODULE Durability -----------------------------
(***************************************************************************)
(* The write-ahead log (pxkv/persistence/wal.py), the snapshot manager     *)
(* (pxkv/persistence/snapshot.py) and the start-up recovery of             *)
(* pxkv/api/server.py, around the write path of pxkv/core/sharded.py.      *)
(*                                                                         *)
(* A write holds the store's write lock while it changes a shard and logs  *)
(* the change; a snapshot holds it while it dumps, and no longer: writing  *)
(* the file, replacing the old one and rotating the log run beside the     *)
(* writes.  A crash is that of the process: what was written to a file     *)
(* survives, except that the line being written may be cut short.          *)
(*                                                                         *)
(* The shards are one map here, with room for every key; a batch is the    *)
(* writes of its keys.  One snapshot is under way at a time.               *)
(***************************************************************************)
EXTENDS Naturals, Sequences, FiniteSets, SequencesExt

CONSTANTS
  Keys,
  MaxNum,     \* clients write, and count up to, 0..MaxNum
  None,       \* no item, no file, no deadline
  TTLs,       \* the time-to-live values clients pass
  MaxTime,    \* bound on the clock
  Requests,   \* the requests clients make
  Rotations,  \* the values WAL_ROTATE_ENABLED may have
  MaxLsn,     \* bound on the LSN
  MaxCrashes, \* bound on the number of crashes
  MaxTears    \* bound on the number of lines a crash cuts short

Val  == 0..MaxNum
Item == [val: Nat, exp: Nat \cup {None}]
Args == TTLs \cup {None}

\* A write request is also what its line in the log says.  incr goes by 1.
Request ==
  [op: {"create", "update", "mset"}, key: Keys, val: Val, ttl: Args]
    \cup [op: {"incr"}, key: Keys, val: {1}, ttl: Args]
    \cup [op: {"delete", "persist"}, key: Keys, val: {0}, ttl: {None}]

\* A line; one cut short has op "torn", and what is then written on the same line has
\* op "spoilt".  Neither can be read.
Line == [op: {"create", "update", "mset", "incr", "delete", "persist", "torn", "spoilt"},
         key: Keys, val: Nat, ttl: Args, lsn: Nat]

Unread == {"torn", "spoilt"}

\* What a snapshot file holds.  Its items hold the time left to live, not the deadline.
Kept == [val: Nat, left: Nat \cup {None}]
Image == [lsn: Nat, data: [Keys -> Kept \cup {None}]]

ASSUME DurabilityAssumption ==
  /\ MaxNum \in Nat \ {0} /\ MaxTime \in Nat /\ MaxLsn \in Nat
  /\ MaxCrashes \in Nat /\ MaxTears \in Nat
  /\ TTLs \subseteq Nat
  /\ Requests \subseteq Request
  /\ Rotations \subseteq BOOLEAN
  /\ None \notin Nat \cup Item \cup Request \cup Kept \cup Image

VARIABLES
  wal,       \* the lines of the log file
  snap,      \* the snapshot file
  phase,     \* of the process: "up", "down", or "replay" while it recovers
  now,
  mem,       \* the items in the shards
  lsn,       \* WAL._lsn
  file,      \* WAL._file: "open" or "none"
  wpc, req,  \* the write that holds the lock: where it stands, what it does
  pos,       \* the next line to replay
  spc,       \* where snapshot_once stands
  image,     \* the contents it will write
  rotate,    \* WAL_ROTATE_ENABLED
  crashes, tears,
  (* history *)
  committed, \* the items that the writes so far, by this process or by earlier ones,
             \* make; one that had a deadline, as the last recovery brought it back
  since,     \* the keys written since the dump of the snapshot under way
  started,   \* when the last recovery began
  leaks      \* per key, the reasons why recovery need not bring it back as it was

process == <<phase, now, rotate>>
memory  == <<mem, lsn, file, wpc, req, pos>>
snapper == <<spc, image>>
disk    == <<wal, snap>>
bounds  == <<crashes, tears>>
history == <<committed, since, started, leaks>>

vars == <<process, memory, snapper, disk, bounds, history>>

-----------------------------------------------------------------------------
(* What the operations do to one item. *)

DeadlineOf(t) == IF t = None THEN None ELSE now + t

Purged(m) ==
  [k \in Keys |-> IF m[k] # None /\ m[k].exp # None /\ m[k].exp <= now
                  THEN None ELSE m[k]]

Fresh(e) == [val |-> e.val, exp |-> DeadlineOf(e.ttl)]

\* Without a ttl argument an item keeps the deadline it has.
Changed(x, v, t) == [val |-> v, exp |-> IF t = None THEN x.exp ELSE now + t]

\* Bug: the replay of a create that finds its key is given up.
AfterNoFallback(x, e) ==
  CASE e.op = "mset" -> Fresh(e)
    [] e.op = "create" -> IF x = None THEN Fresh(e) ELSE x
    [] e.op = "update" -> IF x = None THEN None ELSE Changed(x, e.val, e.ttl)
    [] e.op = "incr" -> IF x = None THEN Fresh(e)
                                    ELSE Changed(x, x.val + e.val, e.ttl)
    [] e.op = "delete" -> None
    [] e.op = "persist" -> IF x = None THEN None ELSE [x EXCEPT !.exp = None]
    [] e.op \in Unread -> x

\* The item of e's key after e.  A create that finds the key is an update, which is
\* how a line of the log is replayed; an update or persist that does not is refused.
After(x, e) ==
  CASE e.op = "mset" -> Fresh(e)
    [] e.op = "create" -> IF x = None THEN Fresh(e) ELSE Changed(x, e.val, e.ttl)
    [] e.op = "update" -> IF x = None THEN None ELSE Changed(x, e.val, e.ttl)
    [] e.op = "incr" -> IF x = None THEN Fresh(e)
                                    ELSE Changed(x, x.val + e.val, e.ttl)
    [] e.op = "delete" -> None
    [] e.op = "persist" -> IF x = None THEN None ELSE [x EXCEPT !.exp = None]
    [] e.op \in Unread -> x

Applied(m, e) == [Purged(m) EXCEPT ![e.key] = After(@, e)]

\* Which requests a client gets through.
Accepts(x, e) ==
  CASE e.op = "create" -> x = None
    [] e.op \in {"update", "delete", "persist"} -> x # None
    [] e.op = "mset" -> TRUE
    [] e.op = "incr" -> x # None => x.val < MaxNum

-----------------------------------------------------------------------------
NoItems == [k \in Keys |-> None]

TypeOK ==
  /\ wal \in Seq(Line) /\ snap \in Image \cup {None}
  /\ phase \in {"up", "down", "replay"} /\ now \in Nat /\ rotate \in BOOLEAN
  /\ mem \in [Keys -> Item \cup {None}] /\ lsn \in Nat
  /\ file \in {"open", "none"}
  /\ wpc \in {"idle", "logging"} /\ req \in Request \cup {None}
  /\ pos \in Nat
  /\ spc \in {"idle", "dumped", "replaced", "closed", "renewed"}
  /\ image \in Image \cup {None}
  /\ crashes \in Nat /\ tears \in Nat
  /\ committed \in [Keys -> Item \cup {None}]
  /\ since \subseteq Keys /\ started \in Nat
  /\ leaks \in [Keys -> SUBSET {"ttl", "incr", "lost", "lsn"}]

Init ==
  /\ wal = <<>> /\ snap = None
  /\ phase = "up" /\ now = 0 /\ rotate \in Rotations
  /\ mem = NoItems /\ lsn = 0 /\ file = "open" /\ pos = 1
  /\ wpc = "idle" /\ req = None
  /\ spc = "idle" /\ image = None
  /\ crashes = 0 /\ tears = 0
  /\ committed = NoItems /\ since = {} /\ started = 0
  /\ leaks = [k \in Keys |-> {}]

Tick ==
  /\ now < MaxTime
  /\ now' = now + 1
  /\ UNCHANGED <<phase, rotate, memory, snapper, disk, bounds, history>>

-----------------------------------------------------------------------------
(* A write: change the shard, take the next LSN, write the line.  All of it    *)
(* under the write lock, but not under any lock that rotation takes.           *)

\* The write of e is over, with item x as its effect; is there a line for it?
Returns(e, x, logged) ==
  LET odd == (IF e.ttl # None THEN {"ttl"} ELSE {})
             \cup (IF e.op = "incr" THEN {"incr"} ELSE {})
             \cup (IF logged THEN {} ELSE {"lost"})
             \cup (IF snap # None /\ lsn <= snap.lsn THEN {"lsn"} ELSE {})
  IN /\ wpc' = "idle" /\ req' = None
     /\ committed' = [committed EXCEPT ![e.key] = x]
     /\ leaks' = [leaks EXCEPT ![e.key] = @ \cup odd]
     /\ since' = IF spc = "idle" THEN {} ELSE since \cup {e.key}
     /\ UNCHANGED started

\* Up to the test for a file.  With none, as while the log is rotated, the write
\* succeeds unlogged.
Write(e) ==
  /\ phase = "up" /\ wpc = "idle"
  /\ lsn < MaxLsn
  /\ Accepts(Purged(mem)[e.key], e)
  /\ mem' = Applied(mem, e)
  /\ lsn' = lsn + 1
  /\ \/ file = "none" /\ Returns(e, mem'[e.key], FALSE)
     \/ /\ file = "open"
        /\ wpc' = "logging" /\ req' = e
        /\ UNCHANGED history
  /\ UNCHANGED <<process, file, pos, snapper, disk, bounds>>

\* What follows a line cut short ends up on the same line, and ends that.
LogWrite ==
  /\ wpc = "logging"
  /\ LET torn == wal # <<>> /\ Last(wal).op = "torn"
         line == [op |-> req.op, key |-> req.key, val |-> req.val,
                  ttl |-> req.ttl, lsn |-> lsn]
     IN \/ /\ file = "open" /\ ~torn
           /\ wal' = Append(wal, line)
           /\ Returns(req, mem[req.key], TRUE)
        \/ /\ file = "open" /\ torn
           /\ wal' = Append(wal, [line EXCEPT !.op = "spoilt"])
           /\ Returns(req, mem[req.key], FALSE)
        \/ /\ file = "none"               \* closed meanwhile: write() raises
           /\ Returns(req, mem[req.key], FALSE)
           /\ UNCHANGED wal
  /\ UNCHANGED <<process, mem, lsn, file, pos, snapper, snap, bounds>>

-----------------------------------------------------------------------------
(* snapshot_once *)

At(from, to) == spc = from /\ spc' = to

\* Bug: the dump does not take the write lock.
DumpUnlocked ==
  /\ phase = "up"
  /\ At("idle", "dumped")
  /\ mem' = Purged(mem)
  /\ image' = [lsn |-> lsn,
               data |-> [k \in Keys |->
                 LET x == mem'[k] IN
                   IF x = None THEN None
                   ELSE [val |-> x.val,
                         left |-> IF x.exp = None THEN None ELSE x.exp - now]]]
  /\ since' = {}
  /\ UNCHANGED <<process, lsn, file, wpc, req, pos, disk, bounds, committed, started,
                 leaks>>

\* dump_with_lsn, under the write lock.
Dump ==
  /\ phase = "up" /\ wpc = "idle"
  /\ At("idle", "dumped")
  /\ mem' = Purged(mem)
  /\ image' = [lsn |-> lsn,
               data |-> [k \in Keys |->
                 LET x == mem'[k] IN
                   IF x = None THEN None
                   ELSE [val |-> x.val,
                         left |-> IF x.exp = None THEN None ELSE x.exp - now]]]
  /\ since' = {}
  /\ UNCHANGED <<process, lsn, file, wpc, req, pos, disk, bounds, committed, started,
                 leaks>>

\* Bug: the LSN is read when the file is written.
ReplaceLateLsn ==
  /\ At("dumped", IF rotate THEN "replaced" ELSE "idle")
  /\ snap' = [image EXCEPT !.lsn = lsn] /\ image' = None
  /\ UNCHANGED <<process, memory, wal, bounds, history>>

\* _write_json_atomic: the temporary file is complete when os.replace gives it the
\* snapshot's name.
Replace ==
  /\ At("dumped", IF rotate THEN "replaced" ELSE "idle")
  /\ snap' = image /\ image' = None
  /\ UNCHANGED <<process, memory, wal, bounds, history>>

\* rotate_after_snapshot: close the file, ...
RotateClose ==
  /\ At("replaced", "closed")
  /\ file' = "none"
  /\ UNCHANGED <<process, mem, lsn, wpc, req, pos, image, disk, bounds, history>>

\* ... remove it, or rename it to a name no recovery looks for, and put a new one
\* in its place.  What was logged since the dump goes with it.
RotateRenew ==
  /\ At("closed", "renewed")
  /\ wal' = <<>>
  /\ leaks' = [k \in Keys |-> IF k \in since THEN leaks[k] \cup {"lost"}
                                             ELSE leaks[k]]
  /\ UNCHANGED <<process, memory, image, snap, bounds, committed, since, started>>

\* ... and open that.
RotateOpen ==
  /\ At("renewed", "idle")
  /\ file' = "open"
  /\ UNCHANGED <<process, mem, lsn, wpc, req, pos, image, disk, bounds, history>>

\* An error on the way, a full disk say, is logged as a warning; the log stays
\* without a file.
RotateFails ==
  /\ spc \in {"closed", "renewed"}
  /\ spc' = "idle"
  /\ UNCHANGED <<process, memory, image, disk, bounds, history>>

-----------------------------------------------------------------------------
(* Crash and recovery. *)

Crash ==
  /\ phase # "down" /\ crashes < MaxCrashes
  /\ phase' = "down" /\ crashes' = crashes + 1
  /\ \/ UNCHANGED <<wal, tears>>
     \/ /\ wpc = "logging" /\ file = "open" /\ tears < MaxTears
        /\ wal' = Append(wal, [op |-> "torn", key |-> req.key, val |-> req.val,
                               ttl |-> req.ttl, lsn |-> lsn])
        /\ tears' = tears + 1
  /\ mem' = NoItems /\ lsn' = 0 /\ file' = "none" /\ pos' = 1
  /\ wpc' = "idle" /\ req' = None
  /\ spc' = "idle" /\ image' = None /\ since' = {} /\ started' = 0
  /\ UNCHANGED <<now, rotate, snap, committed, leaks>>

\* The largest LSN of the lines that can be read.
TopLsn ==
  LET read == {wal[i].lsn : i \in {j \in DOMAIN wal : wal[j].op \notin Unread}}
  IN IF read = {} THEN 0 ELSE Max(read)

\* The WAL is opened and scanned, then the snapshot is loaded; deadlines count from
\* now.
Boot ==
  /\ phase = "down"
  /\ phase' = "replay"
  /\ file' = "open" /\ pos' = 1 /\ started' = now
  /\ IF snap # None
     THEN /\ mem' = [k \in Keys |->
                       LET x == snap.data[k] IN
                         IF x = None THEN None
                         ELSE [val |-> x.val, exp |-> DeadlineOf(x.left)]]
          /\ lsn' = Max({TopLsn, snap.lsn})
     ELSE mem' = NoItems /\ lsn' = TopLsn
  /\ UNCHANGED <<now, rotate, wpc, req, snapper, disk, bounds, committed, since,
                 leaks>>

\* recover_from_wal replays every line, whatever the snapshot's LSN is.
Replay ==
  /\ phase = "replay" /\ pos <= Len(wal)
  /\ mem' = Applied(mem, wal[pos])
  /\ pos' = pos + 1
  /\ UNCHANGED <<process, lsn, file, wpc, req, snapper, disk, bounds, history>>

Recovered ==
  /\ phase = "replay" /\ pos > Len(wal)
  /\ phase' = "up"
  /\ lsn' = TopLsn /\ pos' = 1
  /\ committed' = [k \in Keys |-> IF "ttl" \in leaks[k] THEN mem[k] ELSE committed[k]]
  /\ UNCHANGED <<now, rotate, mem, file, wpc, req, snapper, disk, bounds, since, started,
                 leaks>>

Snapshot ==
  Dump \/ Replace \/ RotateClose \/ RotateRenew \/ RotateOpen \/ RotateFails

Next ==
  \/ Tick
  \/ \E e \in Requests : Write(e)
  \/ LogWrite
  \/ Snapshot
  \/ Crash \/ Boot \/ Replay \/ Recovered

Spec == Init /\ [][Next]_vars

-----------------------------------------------------------------------------
(* Properties. *)

\* Between two calls the memory holds what the logged writes made, also after any
\* number of crashes at any point of a write, a snapshot or a recovery, but for
\* the keys known to leak: those whose deadlines the replay counts anew, those it
\* counts up again on top of a snapshot, those whose line was lost to a torn
\* one, to a rotation or to a log without a file.
RecoveryIsExact ==
  /\ TypeOK
  /\ phase = "up" /\ wpc = "idle" =>
       \A k \in Keys :
         leaks[k] \subseteq {"lsn"} \cup (IF snap = None THEN {"incr"} ELSE {})
           => mem[k] = committed[k]

\* A key with a deadline may come back with another one, but a recovery during
\* which the clock stands still gives every live key the value it had.
LiveValuesRecovered ==
  [][phase = "replay" /\ phase' = "up" /\ now = started =>
       \A k \in Keys :
         leaks[k] \subseteq {"ttl", "lsn"} /\ Purged(committed)[k] # None =>
           mem[k] # None /\ mem[k].val = committed[k].val]_vars

\* What the lines with an LSN up to `upto` make.
MadeUpTo(upto) ==
  LET made[i \in 0..Len(wal)] ==
        IF i = 0 THEN NoItems
        ELSE IF wal[i].lsn <= upto THEN Applied(made[i - 1], wal[i])
        ELSE made[i - 1]
  IN made[Len(wal)]

\* A snapshot is a cut of the log: its items are what the lines up to its LSN
\* make.  Point-in-time recovery and a follower's first synchronisation rest on
\* that.
SnapshotIsCut ==
  snap # None /\ ~rotate =>
    \A k \in Keys : leaks[k] \subseteq (IF crashes = 0 THEN {"incr"} ELSE {}) =>
      LET made == MadeUpTo(snap.lsn)[k]
      IN /\ snap.data[k] = None <=> made = None
         /\ snap.data[k] # None => snap.data[k].val = made.val

\* Crash recovery brings back exactly what was logged.
RecoversExactState ==
  [][phase = "replay" /\ phase' = "up" => Purged(mem) = Purged(committed)]_vars
=============================================================================
