---------------------------- MODULE SnapshotPool ----------------------------
(* Content-addressed snapshots: agentjail/src/snapshot.rs (create_incremental,
   restore_incremental, gc_objects_pool) as the control plane uses them from
   agentjail-ctl/src/routes/snapshots.rs, with the snapshot rows and the retention
   sweeper of agentjail-ctl/src/snapshots.rs.

   Handlers run on several threads, so a capture, a restore, a delete and a sweep
   interleave at every file they touch.  Files and blobs are inodes: a restore hard
   links the pool's inode into the workspace where the two directories share a file
   system (linkable) and copies it where they do not.  A content stands for its own
   BLAKE3 hash: two contents have one hash only if they are equal. *)
EXTENDS Naturals, FiniteSets, Sequences, Functions

CONSTANTS None,       \* no file, no blob, no snapshot
          Dirs,       \* workspace source directories
          Home,       \* the one of the workspace that exists at the start
          Paths,      \* relative paths inside a source directory
          Contents,   \* file contents, and their hashes
          MaxSnaps,   \* bound: snapshots taken
          MaxInodes,  \* bound: files and blobs at a time
          MaxCount,   \* SnapshotGcConfig::max_count
          ListCap,    \* the store's page limit, 500 rows in the code
          MaxFaults,  \* bound: restarts, failed removals and failed statements
          Workloads   \* sequences of requests and events, begun in this order

ASSUME PoolAssumption ==
    /\ Home \in Dirs
    /\ MaxCount \in Nat \ {0} /\ ListCap \in Nat \ {0}
    /\ MaxInodes \in Nat /\ MaxSnaps \in Nat
    /\ None \notin Contents \cup Nat

VARIABLES linkable,  \* hard_link from the pool to a workspace works
          content,   \* inode -> what it holds, None when free
          files,     \* source directory -> path -> inode
          live,      \* directories a workspace row names
          pool,      \* hash -> inode of the blob
          snapDir,   \* snapshot id -> its directory
          rows,      \* ids in the store
          born,      \* ids ever inserted, in order of created_at
          aged,      \* how many of born are older than max_age_secs
          capture,   \* per snapshot id, the handler that takes it
          restore,   \* per directory, the handler that restores into it
          delete,    \* per snapshot id, the delete handler
          sweep,     \* the retention sweeper
          script,    \* what is still to begin
          faults
store == <<snapDir, rows, born, aged>>
disk == <<content, files, pool>>
budget == <<script, faults>>
vars == <<linkable, disk, live, store, capture, restore, delete, sweep, budget>>

-----------------------------------------------------------------------------
(* The file system. *)

Snaps == 1..MaxSnaps     \* new_snapshot_id: an id is never used twice
Inodes == 1..MaxInodes
NoFiles == [p \in Paths |-> None]

\* The inode a new file gets: the first one nobody names.
Fresh(i) == content[i] = None /\ \A j \in Inodes : j < i => content[j] # None

\* The state of the disk after a step: an inode lives as long as a name points to it.
Disk(fs, blobs, data) ==
    /\ files' = fs /\ pool' = blobs
    /\ content' = [i \in Inodes |->
          IF (\E d \in Dirs, p \in Paths : fs[d][p] = i) \/ (\E h \in Contents : blobs[h] = i)
          THEN data[i] ELSE None]

Reads(i) == IF i = None THEN None ELSE content[i]
ReadsDir(d) == [p \in Paths |-> Reads(files[d][p])]

\* A snapshot directory is gone, bare (no manifest.json) or whole; the manifest maps a
\* path to a hash, None for a path without an entry.
Gone == [is |-> "gone", entries |-> NoFiles]
Bare == [is |-> "bare", entries |-> NoFiles]
Manifest(m) == [is |-> "whole", entries |-> m]
Whole(s) == snapDir[s].is = "whole"
referenced_blobs(s) == {snapDir[s].entries[p] : p \in Paths} \ {None}

-----------------------------------------------------------------------------
(* The rows. *)

\* list: newest first, and never more than the page limit, whatever the caller asks for:
\* the place of a row is the number of younger rows.
Younger(s) == {r \in rows : \E j, k \in 1..Len(born) : j < k /\ born[j] = s /\ born[k] = r}
Listed == {s \in rows : Cardinality(Younger(s)) < ListCap}
TooOld(s) == \E k \in 1..aged : born[k] = s

NoCapture == [at |-> "idle", dir |-> Home, todo |-> {}, blob |-> None, entries |-> NoFiles]
Over == [NoCapture EXCEPT !.at = "over"]
NoRestore == [at |-> "idle", snap |-> None, todo |-> NoFiles]
NoSweep == [at |-> "idle", todo |-> {}, cur |-> None]

Init ==
    /\ linkable \in BOOLEAN
    /\ files = [d \in Dirs |-> NoFiles]
    /\ content = [i \in Inodes |-> None]
    /\ live = {Home}
    /\ pool = [h \in Contents |-> None]
    /\ snapDir = [s \in Snaps |-> Gone]
    /\ rows = {} /\ born = <<>> /\ aged = 0
    /\ capture = [s \in Snaps |-> NoCapture]
    /\ restore = [d \in Dirs |-> NoRestore]
    /\ delete = [s \in Snaps |-> "idle"]
    /\ sweep = NoSweep
    /\ script \in Workloads /\ faults = 0

\* The next request or event of the workload begins.
Asked(op) == script # <<>> /\ Head(script) = op /\ script' = Tail(script) /\ UNCHANGED faults
\* A failure the code answers.
Fault == faults < MaxFaults /\ faults' = faults + 1 /\ UNCHANGED script

-----------------------------------------------------------------------------
(* create_snapshot and pause_one: capture_snapshot with a pool, then the row. *)

\* new_snapshot_id and the directory for the manifest.
BeginCapture(s, d) ==
    /\ Asked([op |-> "take", dir |-> d])
    /\ d \in live
    /\ capture[s].at = "idle"
    /\ \A r \in Snaps : r < s => capture[r].at # "idle"
    /\ capture' = [capture EXCEPT ![s] =
          [at |-> "walk", dir |-> d, todo |-> Paths, blob |-> None, entries |-> NoFiles]]
    /\ snapDir' = [snapDir EXCEPT ![s] = Bare]
    /\ UNCHANGED <<linkable, disk, live, rows, born, aged, restore, delete, sweep>>

\* walk_and_hash reaches a path: the file is streamed into a temporary file and hashed,
\* and the pool is asked whether it has the blob.  A path without a file gets no entry.
walk_and_hash(s) ==
    /\ capture[s].at = "walk" /\ capture[s].blob = None
    /\ \E p \in capture[s].todo :
        LET h == Reads(files[capture[s].dir][p])
        IN  capture' = [capture EXCEPT ![s] =
              [at |-> "walk", dir |-> @.dir, todo |-> @.todo \ {p},
               blob |-> IF h # None /\ pool[h] = None THEN h ELSE None,
               entries |-> [@.entries EXCEPT ![p] = h]]]
    /\ UNCHANGED <<linkable, disk, live, store, restore, delete, sweep, budget>>

\* Mutant of hash_into_pool: the blob gets its name before its bytes.
hash_into_poolEarly(s) ==
    LET h == capture[s].blob
    IN  /\ capture[s].at = "walk" /\ h # None
        /\ \E i \in Inodes : Fresh(i) /\ Disk(files, [pool EXCEPT ![h] = i], content)
        /\ capture' = [capture EXCEPT ![s].blob = None]
        /\ UNCHANGED <<linkable, live, store, restore, delete, sweep, budget>>

\* The temporary file becomes the blob, in place of one that a concurrent capture put
\* there since the pool was asked.
hash_into_pool(s) ==
    LET h == capture[s].blob
    IN  /\ capture[s].at = "walk" /\ h # None
        /\ \E i \in Inodes : Fresh(i) /\
              Disk(files, [pool EXCEPT ![h] = i], [content EXCEPT ![i] = h])
        /\ capture' = [capture EXCEPT ![s].blob = None]
        /\ UNCHANGED <<linkable, live, store, restore, delete, sweep, budget>>

\* The manifest is written once every file is in the pool.
WriteManifest(s) ==
    /\ capture[s].at = "walk" /\ capture[s].todo = {} /\ capture[s].blob = None
    /\ snapDir' = [snapDir EXCEPT ![s] = Manifest(capture[s].entries)]
    /\ capture' = [capture EXCEPT ![s].at = "insert"]
    /\ UNCHANGED <<linkable, disk, live, rows, born, aged, restore, delete, sweep, budget>>

\* SnapshotStore::insert, stamped with the time.
InsertRow(s) ==
    /\ capture[s].at = "insert"
    /\ rows' = rows \cup {s} /\ born' = Append(born, s)
    /\ capture' = [capture EXCEPT ![s] = Over]
    /\ UNCHANGED <<linkable, disk, live, snapDir, aged, restore, delete, sweep, budget>>

\* A file that cannot be read or written ends the capture and leaves its directory
\* without a manifest; a failed insert takes the directory away again.
FailCapture(s) ==
    /\ Fault
    /\ \/ capture[s].at = "walk" /\ UNCHANGED snapDir
       \/ capture[s].at = "insert" /\ snapDir' = [snapDir EXCEPT ![s] = Gone]
    /\ capture' = [capture EXCEPT ![s] = Over]
    /\ UNCHANGED <<linkable, disk, live, rows, born, aged, restore, delete, sweep>>

-----------------------------------------------------------------------------
(* create_workspace_from_snapshot (a new directory) and auto-resume (a live one):
   restore_snapshot under a row read before. *)

BeginRestore(d, s) ==
    /\ Asked([op |-> "restore", dir |-> d, snap |-> s])
    /\ s \in rows /\ restore[d].at = "idle"
    /\ d \in live \/ files[d] = NoFiles
    /\ restore' = [restore EXCEPT ![d] = [at |-> "open", snap |-> s, todo |-> NoFiles]]
    /\ UNCHANGED <<linkable, disk, live, store, capture, delete, sweep>>

\* Whatever the target directory held is gone.
clear_dir(d) == [files EXCEPT ![d] = NoFiles]

\* A restore that failed: from-snapshot removes the new workspace's directory,
\* auto-resume leaves what is there.
EndRestore(d) == restore' = [restore EXCEPT ![d] = NoRestore]
Failed(d) ==
    /\ EndRestore(d)
    /\ Disk(IF d \in live THEN files ELSE clear_dir(d), pool, content)

\* Mutant of restore_snapshot: the target is not cleared.
restore_snapshotOver(d) ==
    LET m == snapDir[restore[d].snap]
    IN  /\ restore[d].at = "open"
        /\ IF m = Gone THEN Failed(d)
           ELSE /\ restore' = [restore EXCEPT ![d].at = "link", ![d].todo = m.entries]
                /\ UNCHANGED disk
        /\ UNCHANGED <<linkable, live, store, capture, delete, sweep, budget>>

\* restore_snapshot picks the format by the presence of manifest.json: with one, the
\* target is cleared and the entries follow; without one, the directory is taken for a
\* full copy, and a directory that is only being removed restores as an empty tree.
restore_snapshot(d) ==
    LET m == snapDir[restore[d].snap]
    IN  /\ restore[d].at = "open"
        /\ IF m = Gone THEN Failed(d)
           ELSE /\ Disk(clear_dir(d), pool, content)
                /\ restore' = [restore EXCEPT ![d].at = "link", ![d].todo = m.entries]
        /\ UNCHANGED <<linkable, live, store, capture, delete, sweep, budget>>

\* Mutant of restore_incremental: a symbolic link to the blob where a hard link fails.
restore_incrementalSymlink(d) ==
    /\ restore[d].at = "link"
    /\ \E p \in Paths :
        LET h == restore[d].todo[p]
        IN  /\ h # None
            /\ IF pool[h] = None THEN Failed(d)
               ELSE /\ restore' = [restore EXCEPT ![d].todo[p] = None]
                    /\ Disk([files EXCEPT ![d][p] = pool[h]], pool, content)
    /\ UNCHANGED <<linkable, live, store, capture, delete, sweep, budget>>

\* One manifest entry: the blob is hard linked, or copied where linking fails.
restore_incremental(d) ==
    /\ restore[d].at = "link"
    /\ \E p \in Paths :
        LET h == restore[d].todo[p]
        IN  /\ h # None
            /\ IF pool[h] = None THEN Failed(d)
               ELSE /\ restore' = [restore EXCEPT ![d].todo[p] = None]
                    /\ IF linkable
                       THEN Disk([files EXCEPT ![d][p] = pool[h]], pool, content)
                       ELSE \E i \in Inodes : Fresh(i) /\
                              Disk([files EXCEPT ![d][p] = i], pool,
                                   [content EXCEPT ![i] = content[pool[h]]])
    /\ UNCHANGED <<linkable, live, store, capture, delete, sweep, budget>>

\* Every entry is in place: the workspace row is inserted, or the exec goes on.
Restored(d) == restore[d].at = "link" /\ restore[d].todo = NoFiles
FinishRestore(d) ==
    /\ Restored(d)
    /\ EndRestore(d) /\ live' = live \cup {d}
    /\ UNCHANGED <<linkable, disk, store, capture, delete, sweep, budget>>

\* The insert of the workspace row fails.
FailRestore(d) ==
    /\ Restored(d) /\ d \notin live /\ Fault
    /\ Failed(d)
    /\ UNCHANGED <<linkable, live, store, capture, delete, sweep>>

-----------------------------------------------------------------------------
(* remove_dir_all of a snapshot directory is two steps: manifest.json goes, then the
   directory.  Either can fail, and both callers then go on. *)

Unlinked(s) == snapDir' = [snapDir EXCEPT ![s] = IF @ = Gone THEN Gone ELSE Bare]
Removed(s) == snapDir' = [snapDir EXCEPT ![s] = Gone]

\* delete_snapshot: the row first, then the directory.
DeleteRow(s) ==
    /\ Asked([op |-> "delete", snap |-> s])
    /\ s \in rows /\ delete[s] = "idle"
    /\ rows' = rows \ {s}
    /\ delete' = [delete EXCEPT ![s] = "unlink"]
    /\ UNCHANGED <<linkable, disk, live, snapDir, born, aged, capture, restore, sweep>>

\* Mutant of DeleteDir: the blobs no other manifest names go with the directory.
DeleteDirAndBlobs(s) ==
    LET kept == UNION {referenced_blobs(r) : r \in Snaps \ {s}}
    IN  /\ delete[s] = "unlink" /\ Removed(s)
        /\ Disk(files, [h \in Contents |->
                IF h \in referenced_blobs(s) \ kept THEN None ELSE pool[h]], content)
        /\ delete' = [delete EXCEPT ![s] = "idle"]
        /\ UNCHANGED <<linkable, live, rows, born, aged, capture, restore, sweep, budget>>

\* Then the directory, best effort.
DeleteDir(s) ==
    /\ \/ delete[s] = "unlink" /\ Unlinked(s)
          /\ delete' = [delete EXCEPT ![s] = "rmdir"] /\ UNCHANGED budget
       \/ delete[s] = "rmdir" /\ Removed(s)
          /\ delete' = [delete EXCEPT ![s] = "idle"] /\ UNCHANGED budget
       \/ delete[s] # "idle" /\ Fault /\ UNCHANGED snapDir
          /\ delete' = [delete EXCEPT ![s] = "idle"]
    /\ UNCHANGED <<linkable, disk, live, rows, born, aged, capture, restore, sweep>>

\* Mutants of Surplus: the wrong end of the list, and one row too many kept.
SurplusNewest == {s \in Listed : Cardinality(Younger(s)) + MaxCount < Cardinality(Listed)}
SurplusAfter == {s \in Listed : Cardinality(Younger(s)) > MaxCount}

\* The rows beyond max_count on the page, which is newest first.
Surplus == {s \in Listed : Cardinality(Younger(s)) >= MaxCount}

\* gc::run_once reads the rows once and takes those past max_age_secs and the surplus.
run_once ==
    /\ sweep.at = "idle"
    /\ LET todo == {s \in Listed : TooOld(s)} \cup Surplus
       IN  todo # {} /\ sweep' = [at |-> "unlink", todo |-> todo, cur |-> None]
    /\ UNCHANGED <<linkable, disk, live, store, capture, restore, delete, budget>>

\* Then for each: the directory first, whatever comes of that, and the row.  Ids are
\* random, so going through them in the order of ids is any order.
SweepDir ==
    /\ \/ /\ sweep.at = "unlink"
          /\ \E s \in sweep.todo :
              \/ /\ Unlinked(s) /\ UNCHANGED budget
                 /\ sweep' = [sweep EXCEPT !.at = "rmdir", !.cur = s]
              \/ /\ UNCHANGED snapDir /\ Fault
                 /\ sweep' = [sweep EXCEPT !.at = "row", !.cur = s]
       \/ /\ sweep.at = "rmdir"
          /\ \/ Removed(sweep.cur) /\ UNCHANGED budget
             \/ UNCHANGED snapDir /\ Fault
          /\ sweep' = [sweep EXCEPT !.at = "row"]
    /\ UNCHANGED <<linkable, disk, live, rows, born, aged, capture, restore, delete>>

\* A statement that fails leaves the row to a later sweep.
SweepRow ==
    /\ sweep.at = "row"
    /\ \/ rows' = rows \ {sweep.cur} /\ UNCHANGED budget
       \/ rows' = rows /\ Fault
    /\ LET todo == sweep.todo \ {sweep.cur}
       IN  sweep' = IF todo = {} THEN NoSweep ELSE [at |-> "unlink", todo |-> todo, cur |-> None]
    /\ UNCHANGED <<linkable, disk, live, snapDir, born, aged, capture, restore, delete>>

\* spawn_sweeper: one task that ticks and sweeps for as long as the server runs.
Sweeper == run_once \/ SweepDir \/ SweepRow

\* Time: the oldest row that is not yet past max_age_secs gets there.
Age ==
    /\ Asked([op |-> "age"])
    /\ aged < Len(born)
    /\ aged' = aged + 1
    /\ UNCHANGED <<linkable, disk, live, snapDir, rows, born, capture, restore, delete, sweep>>

-----------------------------------------------------------------------------
(* Around the handlers. *)

\* gc_objects_pool, called with the references of every manifest while no capture is
\* under way (its caller is outside the server).
Capturing(s) == capture[s].at \notin {"idle", "over"}
gc_objects_pool ==
    LET kept == UNION {referenced_blobs(s) : s \in Snaps}
    IN  /\ Asked([op |-> "collect"])
        /\ \A s \in Snaps : ~Capturing(s)
        /\ Disk(files, [h \in Contents |-> IF h \in kept THEN pool[h] ELSE None], content)
        /\ UNCHANGED <<linkable, live, store, capture, restore, delete, sweep>>

\* A jail writes /workspace: over the bytes of a file that is there, or by putting
\* another file at the path.
JailWrite(d) ==
    /\ d \in live /\ restore[d].at = "idle"
    /\ \E p \in Paths, c \in Contents :
        /\ c # Reads(files[d][p])
        /\ \/ /\ Asked([op |-> "edit", dir |-> d])
              /\ files[d][p] # None
              /\ Disk(files, pool, [content EXCEPT ![files[d][p]] = c])
           \/ /\ Asked([op |-> "put", dir |-> d])
              /\ \E i \in Inodes : Fresh(i) /\
                    Disk([files EXCEPT ![d][p] = i], pool, [content EXCEPT ![i] = c])
    /\ UNCHANGED <<linkable, live, store, capture, restore, delete, sweep>>

\* The server restarts.  Handlers are gone wherever they were; the rows are there again
\* with PostgreSQL and lost with the in-memory store.
Restart ==
    /\ Fault
    /\ capture' = [s \in Snaps |-> IF capture[s].at = "idle" THEN NoCapture ELSE Over]
    /\ restore' = [d \in Dirs |-> NoRestore]
    /\ delete' = [s \in Snaps |-> "idle"]
    /\ sweep' = NoSweep
    /\ rows' \in {rows, {}}
    /\ UNCHANGED <<linkable, disk, live, snapDir, born, aged>>

\* A request that finds nothing to act on (404), or an event that has nothing to happen to.
NotFound ==
    /\ script # <<>> /\ Asked(Head(script))
    /\ LET r == Head(script)
       IN  \/ r.op = "take" /\ r.dir \notin live
           \/ r.op \in {"restore", "delete"} /\ r.snap \notin rows
           \/ r.op \in {"edit", "put"} /\ (r.dir \notin live \/ restore[r.dir].at # "idle")
           \/ r.op = "age" /\ aged = Len(born)
           \/ r.op = "collect" /\ \E s \in Snaps : Capturing(s)
    /\ UNCHANGED <<linkable, disk, live, store, capture, restore, delete, sweep>>

Next ==
    \/ \E s \in Snaps :
        \/ \E d \in Dirs : BeginCapture(s, d) \/ BeginRestore(d, s)
        \/ walk_and_hash(s) \/ hash_into_pool(s) \/ WriteManifest(s)
        \/ InsertRow(s) \/ FailCapture(s) \/ DeleteRow(s) \/ DeleteDir(s)
    \/ \E d \in Dirs :
        \/ restore_snapshot(d) \/ restore_incremental(d)
        \/ FinishRestore(d) \/ FailRestore(d) \/ JailWrite(d)
    \/ Sweeper \/ Age
    \/ gc_objects_pool \/ Restart \/ NotFound

Spec == Init /\ [][Next]_vars

\* The sweeper's task is polled for as long as the server runs.
FairSpec == Spec /\ WF_vars(Sweeper)

-----------------------------------------------------------------------------
(* Properties. *)

\* Every variable has its type, and every name on disk points to an inode in use.
TypeOK ==
    /\ linkable \in BOOLEAN
    /\ content \in [Inodes -> Contents \cup {None}]
    /\ \A d \in Dirs, p \in Paths : files[d][p] # None => content[files[d][p]] \in Contents
    /\ \A h \in Contents : pool[h] # None => content[pool[h]] \in Contents
    /\ live \subseteq Dirs
    /\ \A s \in Snaps : /\ snapDir[s].is \in {"gone", "bare", "whole"}
                       /\ snapDir[s].entries \in [Paths -> Contents \cup {None}]
    /\ rows \subseteq Range(born) /\ IsInjective(born)
    /\ \A s \in Snaps : delete[s] \in {"idle", "unlink", "rmdir"}
    /\ sweep.at \in {"idle", "unlink", "rmdir", "row"} /\ sweep.todo \subseteq Snaps

\* "Pool writes are idempotent; stale writes from an interrupted previous snapshot are
\* safely overwritten" (create_incremental): every blob a manifest on disk names is in
\* the pool, whatever captures, deletes, sweeps and restarts ran beside the capture.
ManifestsBacked ==
    \A s \in Snaps : \A h \in referenced_blobs(s) : pool[h] # None

\* What a restore of s would read.
View(s) ==
    [p \in Paths |-> LET h == snapDir[s].entries[p]
                     IN  IF h = None THEN None ELSE Reads(pool[h])]

\* "A snapshot is a copy of a workspace's output_dir taken at a point in time": from
\* its row on, what it restores stays the same until it is removed.
SnapshotsKeepContent ==
    [][\A s \in rows : Whole(s)' => View(s)' = View(s)]_vars

\* The same where restores copy: a workspace's writes never reach the pool, and a
\* blob that two captures publish at once holds the same bytes either way.
CopiesKeepContent ==
    [][\A s \in rows : ~linkable /\ Whole(s)' => View(s)' = View(s)]_vars

\* A restore that reports success has put back the files of the manifest and nothing
\* else, whatever the target held before and whatever ran beside it (where restores
\* copy, and the snapshot was not being removed meanwhile: see restore_snapshot).
RestoreExact ==
    \A d \in Dirs :
        (Restored(d) /\ ~linkable /\ Whole(restore[d].snap))
            => ReadsDir(d) = snapDir[restore[d].snap].entries

\* "Keep at most this many snapshots": once requests stop, the sweeps bring the rows
\* down to max_count, even where the rows do not fit the page one sweep reads.
SweepsBoundRows == []<>(Cardinality(rows) <= MaxCount)

\* "Evict the oldest tail": the sweeper removes a row only if max_count younger snapshots
\* were taken or it is past max_age_secs, whatever is captured or deleted since it read
\* the rows.
SweepsSpareNewest ==
    [][sweep.at = "row" /\ rows' # rows /\ sweep' # sweep =>
          \/ TooOld(sweep.cur)
          \/ \E k \in 1..Len(born) : born[k] = sweep.cur /\ Len(born) - k >= MaxCount]_vars
=============================================================================
