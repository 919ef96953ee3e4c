------------------------- MODULE SnapshotPoolProofs -------------------------
(* Manifests are backed by the pool, snapshots keep their content and restores put it
   back where restores copy, and sweeps spare the newest snapshots, for every number
   of workspaces, files, contents and snapshots and every workload. *)
EXTENDS SnapshotPool, TLAPS, FiniteSetTheorems

Hashes == Contents \cup {None}
Names == Inodes \cup {None}
Tree == [Paths -> Hashes]

SnapDir == [is : {"gone", "bare", "whole"}, entries : Tree]
Capture == [at : {"idle", "walk", "insert", "over"}, dir : Dirs, todo : SUBSET Paths,
            blob : Hashes, entries : Tree]
Restore == [at : {"idle", "open", "link"}, snap : Snaps \cup {None}, todo : Tree]

\* The shapes of the state.
Shapes ==
    /\ content \in [Inodes -> Hashes]
    /\ files \in [Dirs -> [Paths -> Names]]
    /\ pool \in [Contents -> Names]
    /\ snapDir \in [Snaps -> SnapDir]
    /\ capture \in [Snaps -> Capture]
    /\ restore \in [Dirs -> Restore]
    /\ \A d \in Dirs : restore[d].at # "idle" => restore[d].snap \in Snaps

\* An inode with a name is in use.
InUse ==
    /\ \A d \in Dirs, p \in Paths : files[d][p] # None => content[files[d][p]] # None
    /\ \A h \in Contents : pool[h] # None => content[pool[h]] # None

\* A capture has put every file it has hashed into the pool, but for the one it is
\* about to rename.
CapturesBacked ==
    \A s \in Snaps :
        /\ capture[s].at \in {"walk", "insert"} => \A p \in Paths :
              LET h == capture[s].entries[p]
              IN  h # None => pool[h] # None \/ h = capture[s].blob
        /\ capture[s].at = "insert" => capture[s].blob = None

\* Where restores copy, a blob holds what its name says and no file shares its inode.
PoolApart ==
    ~linkable =>
        /\ \A h \in Contents : pool[h] # None => content[pool[h]] = h
        /\ \A d \in Dirs, p \in Paths, h \in Contents :
              files[d][p] # None => files[d][p] # pool[h]

\* A row belongs to a capture that is over.
RowsTaken == rows \subseteq Snaps /\ \A s \in rows : capture[s].at = "over"

IInv == Shapes /\ InUse /\ CapturesBacked /\ ManifestsBacked /\ PoolApart /\ RowsTaken

-----------------------------------------------------------------------------
\* None is no content, no inode and no snapshot id.
LEMMA NoneApart == None \notin Contents /\ None \notin Inodes /\ None \notin Snaps
BY PoolAssumption DEF Inodes, Snaps

\* The empty values are of their types.
LEMMA Empties ==
    /\ NoFiles \in Tree /\ NoFiles \in [Paths -> Names]
    /\ Gone \in SnapDir /\ Bare \in SnapDir
    /\ Gone.entries = NoFiles /\ Bare.entries = NoFiles
    /\ NoCapture \in Capture /\ Over \in Capture
    /\ NoCapture.at = "idle" /\ Over.at = "over"
    /\ NoRestore \in Restore
    /\ NoRestore.at = "idle"
<1>1. NoFiles \in Tree /\ NoFiles \in [Paths -> Names]
  BY Zenon DEF NoFiles, Tree, Hashes, Names
<1>2. None \in Hashes /\ Home \in Dirs BY Zenon, PoolAssumption DEF Hashes
<1> QED BY Zenon, <1>1, <1>2 DEF Gone, Bare, NoCapture, Over, NoRestore, SnapDir, Capture, Restore

\* Nothing is on disk and nothing runs at the start.
LEMMA InitIInv == Init => IInv
<1> SUFFICES ASSUME Init PROVE IInv BY Zenon
<1>1. Shapes BY Zenon, Empties DEF Init, Shapes, Hashes, Names
<1>2. InUse BY Zenon DEF Init, InUse, NoFiles
<1>3. CapturesBacked BY Zenon, Empties DEF Init, CapturesBacked
<1>4. ManifestsBacked BY Zenon, Empties DEF Init, ManifestsBacked, referenced_blobs, NoFiles
<1>5. PoolApart BY Zenon DEF Init, PoolApart
<1>6. RowsTaken BY Zenon DEF Init, RowsTaken
<1> QED BY Zenon, <1>1, <1>2, <1>3, <1>4, <1>5, <1>6 DEF IInv

-----------------------------------------------------------------------------
\* Disk writes the names it is given and keeps the data of every named inode.
LEMMA DiskStep ==
    ASSUME NEW fs \in [Dirs -> [Paths -> Names]], NEW blobs \in [Contents -> Names],
           NEW data \in [Inodes -> Hashes], Disk(fs, blobs, data)
    PROVE  /\ files' = fs /\ pool' = blobs /\ content' \in [Inodes -> Hashes]
           /\ \A d \in Dirs, p \in Paths : fs[d][p] # None => content'[fs[d][p]] = data[fs[d][p]]
           /\ \A h \in Contents : blobs[h] # None => content'[blobs[h]] = data[blobs[h]]
<1>1. files' = fs /\ pool' = blobs BY Zenon DEF Disk
<1>2. content' \in [Inodes -> Hashes] BY Zenon DEF Disk, Hashes
<1>3. \A i \in Inodes : (\E d \in Dirs, p \in Paths : fs[d][p] = i) => content'[i] = data[i]
  BY Zenon DEF Disk
<1>4. \A i \in Inodes : (\E h \in Contents : blobs[h] = i) => content'[i] = data[i]
  BY Zenon DEF Disk
<1>5. \A d \in Dirs, p \in Paths : fs[d][p] # None => fs[d][p] \in Inodes BY DEF Names
<1>6. \A h \in Contents : blobs[h] # None => blobs[h] \in Inodes BY Zenon DEF Names
<1> QED BY Zenon, <1>1, <1>2, <1>3, <1>4, <1>5, <1>6

\* A step of the disk that leaves blobs and data alone and gives each path its old
\* name or none keeps what the invariant says of the disk.
LEMMA DiskForgets ==
    ASSUME IInv, NEW fs \in [Dirs -> [Paths -> Names]], Disk(fs, pool, content),
           \A d \in Dirs, p \in Paths : fs[d][p] \in {files[d][p], None},
           UNCHANGED linkable
    PROVE  /\ InUse' /\ PoolApart' /\ pool' = pool
           /\ content' \in [Inodes -> Hashes] /\ files' = fs
<1>1. /\ pool \in [Contents -> Names] /\ content \in [Inodes -> Hashes]
      /\ files \in [Dirs -> [Paths -> Names]]
  BY Zenon DEF IInv, Shapes
<1>2. /\ files' = fs /\ pool' = pool /\ content' \in [Inodes -> Hashes]
      /\ \A d \in Dirs, p \in Paths : fs[d][p] # None => content'[fs[d][p]] = content[fs[d][p]]
      /\ \A h \in Contents : pool[h] # None => content'[pool[h]] = content[pool[h]]
  BY <1>1, DiskStep, Zenon
<1>3. InUse' BY <1>2 DEF IInv, InUse
<1>4. PoolApart' BY <1>2 DEF IInv, PoolApart
<1> QED BY Zenon, <1>2, <1>3, <1>4

-----------------------------------------------------------------------------
(* One lemma per action that changes the disk, a manifest or a capture. *)

\* The fields of a capture.
LEMMA CaptureFields ==
    ASSUME Shapes, NEW s \in Snaps
    PROVE  /\ capture[s] \in Capture
           /\ capture[s].dir \in Dirs /\ capture[s].todo \subseteq Paths
           /\ capture[s].blob \in Hashes /\ capture[s].entries \in Tree
BY Zenon DEF Shapes, Capture

\* A new capture names no blob yet, and its directory holds no manifest.
LEMMA BeginCaptureKeeps ==
    ASSUME IInv, NEW s \in Snaps, NEW d \in Dirs, BeginCapture(s, d) PROVE IInv'
<1> USE DEF BeginCapture, disk
<1>1. [at |-> "walk", dir |-> d, todo |-> Paths, blob |-> None, entries |-> NoFiles] \in Capture
  BY Zenon, Empties DEF Capture, Hashes
<1>2. Shapes' BY Zenon, <1>1, Empties DEF IInv, Shapes
<1>3. InUse' BY Zenon DEF IInv, InUse
<1>4. CapturesBacked' BY Zenon, Empties DEF IInv, CapturesBacked, Shapes, NoFiles
<1>5. ManifestsBacked'
  BY Empties DEF IInv, Shapes, ManifestsBacked, referenced_blobs, NoFiles
<1>6. PoolApart' BY Zenon DEF IInv, PoolApart
<1>7. RowsTaken' BY Zenon DEF IInv, RowsTaken, Shapes
<1> QED BY Zenon, <1>2, <1>3, <1>4, <1>5, <1>6, <1>7 DEF IInv

\* A hashed file is in the pool or is the one to rename next.
LEMMA WalkKeeps ==
    ASSUME IInv, NEW s \in Snaps, walk_and_hash(s) PROVE IInv'
<1>1. PICK p \in capture[s].todo :
        LET h == Reads(files[capture[s].dir][p])
        IN  capture' = [capture EXCEPT ![s] =
              [at |-> "walk", dir |-> @.dir, todo |-> @.todo \ {p},
               blob |-> IF h # None /\ pool[h] = None THEN h ELSE None,
               entries |-> [@.entries EXCEPT ![p] = h]]]
  BY Zenon DEF walk_and_hash
<1> DEFINE h == Reads(files[capture[s].dir][p])
           blob == IF h # None /\ pool[h] = None THEN h ELSE None
           new == [at |-> "walk", dir |-> capture[s].dir, todo |-> capture[s].todo \ {p},
                   blob |-> blob, entries |-> [capture[s].entries EXCEPT ![p] = h]]
<1>2. /\ p \in Paths /\ capture[s].dir \in Dirs /\ capture[s].todo \subseteq Paths
      /\ capture[s].entries \in Tree
  BY Zenon, CaptureFields DEF IInv
<1>3. h \in Hashes BY <1>2 DEF IInv, Shapes, Reads, Names, Hashes
<1>4. capture' = [capture EXCEPT ![s] = new] BY Zenon, <1>1
<1>5. /\ capture[s].at = "walk" /\ capture[s].blob = None
      /\ UNCHANGED <<linkable, content, files, pool, snapDir, restore, rows>>
  BY Zenon DEF walk_and_hash, disk, store
<1> HIDE DEF h
<1>6. new \in Capture /\ new.at = "walk" BY Zenon, <1>2, <1>3 DEF Capture, Tree, Hashes
<1>7. \A q \in Paths : new.entries[q] # None => pool[new.entries[q]] # None \/ new.entries[q] = new.blob
  BY Zenon, <1>2, <1>5 DEF IInv, CapturesBacked, Tree
<1> HIDE DEF new
<1>8. Shapes' BY Zenon, <1>4, <1>5, <1>6 DEF IInv, Shapes
<1>9. CapturesBacked'
  <2>1. capture'[s] = new /\ \A r \in Snaps : r # s => capture'[r] = capture[r]
    BY Zenon, <1>4 DEF IInv, Shapes
  <2>2. new.at # "insert" BY Zenon, <1>6
  <2>3. \A r \in Snaps : r # s =>
          /\ capture[r].at \in {"walk", "insert"} => \A q \in Paths :
                capture[r].entries[q] # None =>
                    pool[capture[r].entries[q]] # None \/ capture[r].entries[q] = capture[r].blob
          /\ capture[r].at = "insert" => capture[r].blob = None
    BY Zenon DEF IInv, CapturesBacked
  <2> QED BY <1>5, <1>7, <2>1, <2>2, <2>3 DEF CapturesBacked
<1>10. InUse' /\ PoolApart' /\ ManifestsBacked'
  BY <1>5 DEF IInv, InUse, PoolApart, ManifestsBacked, referenced_blobs
<1>11. RowsTaken'
  <2>1. s \notin rows BY Zenon, <1>5 DEF IInv, RowsTaken
  <2>2. \A r \in Snaps : r # s => capture'[r] = capture[r] BY Zenon, <1>4 DEF IInv, Shapes
  <2> QED BY Zenon, <1>5, <2>1, <2>2 DEF IInv, RowsTaken
<1> QED BY Zenon, <1>8, <1>9, <1>10, <1>11 DEF IInv

\* The rename gives the hash an inode nobody shares, and no other blob loses its own.
LEMMA RenameKeeps ==
    ASSUME IInv, NEW s \in Snaps, hash_into_pool(s) PROVE IInv'
<1> DEFINE h == capture[s].blob
<1>1. PICK i \in Inodes :
        Fresh(i) /\ Disk(files, [pool EXCEPT ![h] = i], [content EXCEPT ![i] = h])
  BY Zenon DEF hash_into_pool
<1>2. h \in Contents BY Zenon, CaptureFields DEF hash_into_pool, IInv, Hashes
<1>3. /\ capture[s].at = "walk" /\ capture' = [capture EXCEPT ![s].blob = None]
      /\ UNCHANGED <<linkable, snapDir, restore, rows>>
  BY Zenon DEF hash_into_pool, store
<1> HIDE DEF h
<1> DEFINE blobs == [pool EXCEPT ![h] = i]
           data == [content EXCEPT ![i] = h]
<1>4. /\ files \in [Dirs -> [Paths -> Names]] /\ blobs \in [Contents -> Names]
      /\ data \in [Inodes -> Hashes] /\ Disk(files, blobs, data)
  BY Zenon, <1>1, <1>2 DEF IInv, Shapes, Names, Hashes
<1> HIDE DEF blobs, data
<1>5. /\ files' = files /\ pool' = blobs /\ content' \in [Inodes -> Hashes]
      /\ \A d \in Dirs, p \in Paths : files[d][p] # None =>
            content'[files[d][p]] = data[files[d][p]]
      /\ \A g \in Contents : blobs[g] # None => content'[blobs[g]] = data[blobs[g]]
  BY Zenon, <1>1, <1>4, DiskStep
<1> USE DEF blobs, data
<1>6. content[i] = None /\ i # None BY Zenon, <1>1, NoneApart DEF Fresh
<1>7. /\ \A d \in Dirs, p \in Paths : files[d][p] # None => files[d][p] \in Inodes \ {i}
      /\ \A g \in Contents : pool[g] # None => pool[g] \in Inodes \ {i}
  BY <1>6 DEF IInv, InUse, Shapes, Names
<1>8. /\ \A d \in Dirs, p \in Paths : files[d][p] # None => content'[files[d][p]] = content[files[d][p]]
      /\ \A g \in Contents : g # h /\ pool[g] # None =>
            pool'[g] = pool[g] /\ content'[pool[g]] = content[pool[g]]
      /\ pool'[h] = i /\ content'[i] = h
      /\ \A g \in Contents : g # h => pool'[g] = pool[g]
  BY <1>2, <1>5, <1>6, <1>7 DEF IInv, Shapes
<1>9. Shapes'
  <2>1. [capture[s] EXCEPT !.blob = None] \in Capture
    BY Zenon, CaptureFields DEF IInv, Capture, Hashes
  <2>3. capture' \in [Snaps -> Capture] BY Zenon, <1>3, <2>1 DEF IInv, Shapes
  <2>2. pool' \in [Contents -> Names] /\ files' \in [Dirs -> [Paths -> Names]]
    BY Zenon, <1>4, <1>5
  <2> QED BY Zenon, <1>3, <1>5, <2>2, <2>3 DEF IInv, Shapes
<1>10. InUse' BY <1>2, <1>5, <1>8, NoneApart DEF IInv, InUse
<1>11. \A g \in Contents : pool[g] # None => pool'[g] # None BY Zenon, <1>6, <1>8
<1>12. CapturesBacked'
  <2>1. \A r \in Snaps : /\ capture'[r].at = capture[r].at
                         /\ capture'[r].entries = capture[r].entries
                         /\ capture'[r].blob = IF r = s THEN None ELSE capture[r].blob
    BY Zenon, <1>3 DEF IInv, Shapes, Capture
  <2>2. pool'[h] # None BY Zenon, <1>6, <1>8
  <2>3. \A r \in Snaps, p \in Paths : capture[r].entries[p] \in Hashes
    BY DEF IInv, Shapes, Capture, Tree
  <2> QED BY <1>11, <2>1, <2>2, <2>3 DEF IInv, CapturesBacked, Hashes, h
<1>13. ManifestsBacked'
  <2>1. \A r \in Snaps : referenced_blobs(r) \subseteq Contents
    BY DEF IInv, Shapes, SnapDir, referenced_blobs, Tree, Hashes
  <2>2. \A r \in Snaps : referenced_blobs(r)' = referenced_blobs(r)
    BY Zenon, <1>3 DEF referenced_blobs
  <2> QED BY Zenon, <1>11, <2>1, <2>2 DEF IInv, ManifestsBacked
<1>14. PoolApart'
  <2>1. \A d \in Dirs, p \in Paths, g \in Contents : files'[d][p] # None /\ ~linkable =>
           files'[d][p] # pool'[g]
    BY <1>5, <1>7, <1>8 DEF IInv, PoolApart
  <2>2. \A g \in Contents : pool'[g] # None /\ ~linkable => content'[pool'[g]] = g
    BY Zenon, <1>8 DEF IInv, PoolApart
  <2> QED BY <1>3, <2>1, <2>2 DEF PoolApart
<1>15. RowsTaken' BY Zenon, <1>3 DEF IInv, RowsTaken, Shapes
<1> QED BY Zenon, <1>9, <1>10, <1>12, <1>13, <1>14, <1>15 DEF IInv

\* The manifest names only blobs that the capture found or put in the pool.
LEMMA ManifestKeeps ==
    ASSUME IInv, NEW s \in Snaps, WriteManifest(s) PROVE IInv'
<1> USE DEF WriteManifest, disk
<1>1. /\ [capture[s] EXCEPT !.at = "insert"] \in Capture
      /\ Manifest(capture[s].entries) \in SnapDir
      /\ Manifest(capture[s].entries).entries = capture[s].entries
  BY Zenon, CaptureFields DEF IInv, Capture, Manifest, SnapDir
<1>2. \A r \in Snaps : /\ capture'[r].at = IF r = s THEN "insert" ELSE capture[r].at
                       /\ capture'[r].entries = capture[r].entries
                       /\ capture'[r].blob = capture[r].blob
  BY Zenon DEF IInv, Shapes, Capture
<1>3. Shapes' BY Zenon, <1>1 DEF IInv, Shapes
<1>4. CapturesBacked' BY <1>2 DEF IInv, CapturesBacked
<1>5. ManifestsBacked'
  <2>1. \A r \in Snaps : r # s => referenced_blobs(r)' = referenced_blobs(r)
    BY Zenon DEF IInv, Shapes, referenced_blobs
  <2>2. referenced_blobs(s)' = {capture[s].entries[p] : p \in Paths} \ {None}
    BY Zenon, <1>1 DEF IInv, Shapes, referenced_blobs
  <2>3. \A p \in Paths : capture[s].entries[p] # None => pool[capture[s].entries[p]] # None
    BY Zenon DEF IInv, CapturesBacked
  <2> QED BY <2>1, <2>2, <2>3 DEF IInv, ManifestsBacked
<1>6. InUse' /\ PoolApart' BY Zenon DEF IInv, InUse, PoolApart
<1>7. RowsTaken' BY Zenon, <1>2 DEF IInv, RowsTaken, Shapes
<1> QED BY Zenon, <1>3, <1>4, <1>5, <1>6, <1>7 DEF IInv

\* InsertRow and FailCapture end the capture; the manifest stays or its directory goes.
LEMMA EndCaptureKeeps ==
    ASSUME IInv, NEW s \in Snaps, InsertRow(s) \/ FailCapture(s) PROVE IInv'
<1> USE DEF InsertRow, FailCapture, disk, budget
<1>1. /\ capture' = [capture EXCEPT ![s] = Over]
      /\ UNCHANGED <<linkable, content, files, pool, restore>>
      /\ snapDir' \in {snapDir, [snapDir EXCEPT ![s] = Gone]}
      /\ rows' \in {rows, rows \cup {s}}
  BY Zenon
<1>2. Shapes' BY Zenon, <1>1, Empties DEF IInv, Shapes
<1>3. CapturesBacked' BY Zenon, <1>1, Empties DEF IInv, Shapes, CapturesBacked
<1>4. ManifestsBacked'
  BY <1>1, Empties DEF IInv, Shapes, ManifestsBacked, referenced_blobs, NoFiles
<1>5. InUse' /\ PoolApart' BY <1>1 DEF IInv, InUse, PoolApart
<1>6. RowsTaken' BY <1>1, Empties DEF IInv, RowsTaken, Shapes
<1> QED BY Zenon, <1>2, <1>3, <1>4, <1>5, <1>6 DEF IInv

\* A step that changes neither the disk nor a capture, and takes snapshot directories
\* and rows away if anything.
LEMMA RemovalKeeps ==
    ASSUME IInv, UNCHANGED <<linkable, content, files, pool, capture, restore>>,
           \A s \in Snaps : snapDir'[s] \in {snapDir[s], Bare, Gone},
           snapDir' \in [Snaps -> SnapDir], rows' \subseteq rows
    PROVE  IInv'
<1>1. Shapes' BY Zenon DEF IInv, Shapes
<1>2. CapturesBacked' BY Zenon DEF IInv, CapturesBacked
<1>3. ManifestsBacked' BY Empties DEF IInv, ManifestsBacked, referenced_blobs, NoFiles
<1>4. InUse' /\ PoolApart' BY DEF IInv, InUse, PoolApart
<1>5. RowsTaken' BY Zenon DEF IInv, RowsTaken
<1> QED BY Zenon, <1>1, <1>2, <1>3, <1>4, <1>5 DEF IInv

\* A step that changes the disk and the restores only, and loses no blob of the pool.
LEMMA DiskKeeps ==
    ASSUME IInv, Shapes', InUse', PoolApart', pool' = pool,
           UNCHANGED <<snapDir, capture, rows>>
    PROVE  IInv'
<1>1. CapturesBacked' BY Zenon DEF IInv, CapturesBacked
<1>2. ManifestsBacked' BY Zenon DEF IInv, ManifestsBacked, referenced_blobs
<1>3. RowsTaken' BY Zenon DEF IInv, RowsTaken
<1> QED BY Zenon, <1>1, <1>2, <1>3 DEF IInv

\* A restore begins without touching the disk.
LEMMA BeginRestoreKeeps ==
    ASSUME IInv, NEW s \in Snaps, NEW d \in Dirs, BeginRestore(d, s) PROVE IInv'
<1> USE DEF BeginRestore, disk, store
<1>1. [at |-> "open", snap |-> s, todo |-> NoFiles] \in Restore BY Zenon, Empties DEF Restore
<1>2. Shapes' BY Zenon, <1>1 DEF IInv, Shapes
<1>3. InUse' /\ PoolApart' BY DEF IInv, InUse, PoolApart
<1> QED BY Zenon, <1>2, <1>3, DiskKeeps

\* A failed restore leaves the target or clears it.
LEMMA FailedKeeps ==
    ASSUME IInv, NEW d \in Dirs, Failed(d), UNCHANGED <<linkable, snapDir, capture, rows>>
    PROVE  IInv'
<1> DEFINE fs == IF d \in live THEN files ELSE [files EXCEPT ![d] = NoFiles]
<1>1. fs \in [Dirs -> [Paths -> Names]] BY Zenon, Empties DEF IInv, Shapes
<1>2. \A e \in Dirs, p \in Paths : fs[e][p] \in {files[e][p], None}
  BY Zenon DEF IInv, Shapes, NoFiles
<1>3. Disk(fs, pool, content) BY Zenon DEF Failed, clear_dir
<1> HIDE DEF fs
<1>4. InUse' /\ PoolApart' /\ pool' = pool /\ content' \in [Inodes -> Hashes] /\ files' = fs
  BY Zenon, <1>1, <1>2, <1>3, DiskForgets
<1>5. restore' = [restore EXCEPT ![d] = NoRestore] BY Zenon DEF Failed, EndRestore
<1>6. Shapes' BY Zenon, <1>1, <1>4, <1>5, Empties DEF IInv, Shapes
<1> QED BY Zenon, <1>4, <1>6, DiskKeeps

\* What a new file in a workspace, on an inode nobody named, does to the disk.
LEMMA NewFileKeeps ==
    ASSUME IInv, NEW d \in Dirs, NEW p \in Paths, NEW i \in Inodes, NEW c \in Contents,
           Fresh(i), Disk([files EXCEPT ![d][p] = i], pool, [content EXCEPT ![i] = c]),
           UNCHANGED <<linkable, snapDir, capture, rows>>, restore' \in [Dirs -> Restore],
           \A e \in Dirs : restore'[e].at # "idle" => restore'[e].snap \in Snaps
    PROVE  IInv'
<1> DEFINE fs == [files EXCEPT ![d][p] = i]
           data == [content EXCEPT ![i] = c]
<1>1. /\ fs \in [Dirs -> [Paths -> Names]] /\ data \in [Inodes -> Hashes]
      /\ pool \in [Contents -> Names] /\ Disk(fs, pool, data)
  BY Zenon DEF IInv, Shapes, Names, Hashes
<1>2. /\ \A e \in Dirs, q \in Paths :
            fs[e][q] = IF e = d /\ q = p THEN i ELSE files[e][q]
      /\ \A j \in Inodes : data[j] = IF j = i THEN c ELSE content[j]
  BY Zenon DEF IInv, Shapes
<1> HIDE DEF fs, data
<1>3. /\ files' = fs /\ pool' = pool /\ content' \in [Inodes -> Hashes]
      /\ \A e \in Dirs, q \in Paths : fs[e][q] # None => content'[fs[e][q]] = data[fs[e][q]]
      /\ \A h \in Contents : pool[h] # None => content'[pool[h]] = data[pool[h]]
  BY Zenon, <1>1, DiskStep
<1>4. content[i] = None /\ i # None /\ c # None BY Zenon, NoneApart DEF Fresh
<1>5. \A h \in Contents : pool[h] # None => pool[h] \in Inodes \ {i}
  BY Zenon, <1>4 DEF IInv, InUse, Shapes, Names
<1>6. \A e \in Dirs, q \in Paths : files[e][q] # None => files[e][q] \in Inodes \ {i}
  BY <1>4 DEF IInv, InUse, Shapes, Names
<1>7. Shapes' BY Zenon, <1>1, <1>3 DEF IInv, Shapes
<1>8. InUse'
  <2>1. \A h \in Contents : pool'[h] # None => content'[pool'[h]] # None
    BY Zenon, <1>2, <1>3, <1>5 DEF IInv, InUse
  <2>2. \A e \in Dirs, q \in Paths : files'[e][q] # None => content'[files'[e][q]] # None
    BY <1>2, <1>3, <1>4, <1>6 DEF IInv, InUse
  <2> QED BY Zenon, <2>1, <2>2 DEF InUse
<1>9. PoolApart'
  <2>1. \A h \in Contents : ~linkable /\ pool'[h] # None => content'[pool'[h]] = h
    BY <1>2, <1>3, <1>5 DEF IInv, PoolApart
  <2>2. \A e \in Dirs, q \in Paths, h \in Contents :
           ~linkable /\ files'[e][q] # None => files'[e][q] # pool'[h]
    BY <1>2, <1>3, <1>4, <1>5 DEF IInv, PoolApart
  <2> QED BY <2>1, <2>2 DEF PoolApart
<1> QED BY Zenon, <1>3, <1>7, <1>8, <1>9, DiskKeeps

\* The fields of a restore.
LEMMA RestoreFields ==
    ASSUME Shapes, NEW d \in Dirs
    PROVE  restore[d] \in Restore /\ restore[d].todo \in Tree
BY Zenon DEF Shapes, Restore

\* Opening a snapshot clears the target and takes its entries.
LEMMA OpenKeeps ==
    ASSUME IInv, NEW d \in Dirs, restore_snapshot(d) PROVE IInv'
<1> DEFINE m == snapDir[restore[d].snap]
<1>1. CASE m = Gone BY Zenon, <1>1, FailedKeeps DEF restore_snapshot, store
<1>2. CASE m # Gone
  <2> DEFINE fs == [files EXCEPT ![d] = NoFiles]
             new == [restore[d] EXCEPT !.at = "link", !.todo = m.entries]
  <2>1. /\ Disk(fs, pool, content) /\ restore[d].at = "open"
        /\ restore' = [restore EXCEPT ![d].at = "link", ![d].todo = m.entries]
        /\ UNCHANGED <<linkable, snapDir, capture, rows>>
    BY Zenon, <1>2 DEF restore_snapshot, clear_dir, store
  <2>2. restore[d].snap \in Snaps BY Zenon, <2>1 DEF IInv, Shapes
  <2>3. m.entries \in Tree BY Zenon, <2>2 DEF IInv, Shapes, SnapDir
  <2>4. new \in Restore /\ new.snap = restore[d].snap
    BY Zenon, <2>3, RestoreFields DEF IInv, Restore
  <2>5. restore' = [restore EXCEPT ![d] = new] BY Zenon, <2>1 DEF IInv, Shapes
  <2>6. /\ fs \in [Dirs -> [Paths -> Names]]
        /\ \A e \in Dirs, p \in Paths : fs[e][p] \in {files[e][p], None}
    BY Zenon, Empties DEF IInv, Shapes, NoFiles
  <2> HIDE DEF fs, new, m
  <2>7. InUse' /\ PoolApart' /\ pool' = pool /\ content' \in [Inodes -> Hashes] /\ files' = fs
    BY Zenon, <2>1, <2>6, DiskForgets
  <2>8. Shapes' BY ZenonT(30), <2>1, <2>2, <2>4, <2>5, <2>6, <2>7 DEF IInv, Shapes
  <2> QED BY Zenon, <2>1, <2>7, <2>8, DiskKeeps
<1> QED BY Zenon, <1>1, <1>2

\* An entry is linked where the file system allows it and copied to a new inode otherwise.
LEMMA LinkKeeps ==
    ASSUME IInv, NEW d \in Dirs, restore_incremental(d) PROVE IInv'
<1>1. /\ restore[d].at = "link"
      /\ UNCHANGED <<linkable, snapDir, capture, rows>>
  BY Zenon DEF restore_incremental, store
<1>2. PICK p \in Paths :
        LET h == restore[d].todo[p]
        IN  /\ h # None
            /\ IF pool[h] = None THEN Failed(d)
               ELSE /\ restore' = [restore EXCEPT ![d].todo[p] = None]
                    /\ IF linkable
                       THEN Disk([files EXCEPT ![d][p] = pool[h]], pool, content)
                       ELSE \E i \in Inodes : Fresh(i) /\
                              Disk([files EXCEPT ![d][p] = i], pool,
                                   [content EXCEPT ![i] = content[pool[h]]])
  BY Zenon DEF restore_incremental
<1> DEFINE h == restore[d].todo[p]
<1>3. h \in Contents BY Zenon, <1>2, RestoreFields DEF IInv, Tree, Hashes
<1>4. CASE pool[h] = None BY Zenon, <1>1, <1>2, <1>4, FailedKeeps
<1>5. CASE pool[h] # None
  <2> DEFINE new == [restore[d] EXCEPT !.todo[p] = None]
  <2>1. restore' = [restore EXCEPT ![d] = new] BY Zenon, <1>2, <1>5 DEF IInv, Shapes
  <2>2. new \in Restore /\ new.snap = restore[d].snap
    BY Zenon, RestoreFields DEF IInv, Restore, Tree, Hashes
  <2> HIDE DEF new
  <2>3. /\ restore' \in [Dirs -> Restore]
        /\ \A e \in Dirs : restore'[e].at # "idle" => restore'[e].snap \in Snaps
    BY Zenon, <1>1, <2>1, <2>2 DEF IInv, Shapes
  <2>4. /\ pool[h] \in Inodes /\ content[pool[h]] \in Contents
    BY Zenon, <1>3, <1>5 DEF IInv, Shapes, InUse, Names, Hashes
  <2>5. CASE linkable
    <3> DEFINE fs == [files EXCEPT ![d][p] = pool[h]]
    <3>1. /\ fs \in [Dirs -> [Paths -> Names]] /\ Disk(fs, pool, content)
          /\ pool \in [Contents -> Names] /\ content \in [Inodes -> Hashes]
      BY Zenon, <1>2, <1>5, <2>4, <2>5 DEF IInv, Shapes, Names
    <3>2. \A e \in Dirs, q \in Paths : fs[e][q] = IF e = d /\ q = p THEN pool[h] ELSE files[e][q]
      BY Zenon DEF IInv, Shapes
    <3> HIDE DEF fs, h
    <3>3. /\ files' = fs /\ pool' = pool /\ content' \in [Inodes -> Hashes]
          /\ \A e \in Dirs, q \in Paths : fs[e][q] # None => content'[fs[e][q]] = content[fs[e][q]]
          /\ \A g \in Contents : pool[g] # None => content'[pool[g]] = content[pool[g]]
      BY Zenon, <3>1, DiskStep
    <3>4. Shapes' BY Zenon, <1>1, <2>3, <3>1, <3>3 DEF IInv, Shapes
    <3>5. InUse' BY <1>3, <3>2, <3>3 DEF IInv, InUse
    <3>6. PoolApart' BY Zenon, <1>1, <2>5 DEF PoolApart
    <3> QED BY Zenon, <1>1, <3>3, <3>4, <3>5, <3>6, DiskKeeps
  <2>6. CASE ~linkable
    <3>1. PICK i \in Inodes : Fresh(i) /\ Disk([files EXCEPT ![d][p] = i], pool,
                                               [content EXCEPT ![i] = content[pool[h]]])
      BY Zenon, <1>2, <1>5, <2>6
    <3> DEFINE c == content[pool[h]]
    <3> HIDE DEF c
    <3>2. Disk([files EXCEPT ![d][p] = i], pool, [content EXCEPT ![i] = c]) BY Zenon, <3>1 DEF c
    <3>3. c \in Contents BY Zenon, <2>4 DEF c
    <3> QED BY Zenon, <1>1, <2>3, <3>1, <3>2, <3>3, NewFileKeeps
  <2> QED BY Zenon, <2>5, <2>6
<1> QED BY Zenon, <1>4, <1>5

\* A finished restore touches no file.
LEMMA FinishKeeps ==
    ASSUME IInv, NEW d \in Dirs, FinishRestore(d) PROVE IInv'
<1> USE DEF FinishRestore, EndRestore, disk, store
<1>1. Shapes' BY Zenon, Empties DEF IInv, Shapes
<1>2. InUse' /\ PoolApart' BY DEF IInv, InUse, PoolApart
<1> QED BY Zenon, <1>1, <1>2, DiskKeeps

\* A jail writes to an inode of its own where restores copy.
LEMMA JailWriteKeeps ==
    ASSUME IInv, NEW d \in Dirs, JailWrite(d) PROVE IInv'
<1>1. UNCHANGED <<linkable, snapDir, capture, restore, rows>> BY Zenon DEF JailWrite, store
<1>2. PICK p \in Paths, c \in Contents :
        \/ files[d][p] # None /\ Disk(files, pool, [content EXCEPT ![files[d][p]] = c])
        \/ \E i \in Inodes : Fresh(i) /\
             Disk([files EXCEPT ![d][p] = i], pool, [content EXCEPT ![i] = c])
  BY Zenon DEF JailWrite
<1>3. CASE files[d][p] # None /\ Disk(files, pool, [content EXCEPT ![files[d][p]] = c])
  <2> DEFINE i == files[d][p]
             data == [content EXCEPT ![i] = c]
  <2>1. i \in Inodes BY <1>3 DEF IInv, Shapes, Names
  <2>2. /\ files \in [Dirs -> [Paths -> Names]] /\ data \in [Inodes -> Hashes]
        /\ pool \in [Contents -> Names] /\ Disk(files, pool, data)
    BY Zenon, <1>3, <2>1 DEF IInv, Shapes, Hashes
  <2>3. \A j \in Inodes : data[j] = IF j = i THEN c ELSE content[j] BY Zenon, <2>1 DEF IInv, Shapes
  <2> HIDE DEF data
  <2>4. /\ files' = files /\ pool' = pool /\ content' \in [Inodes -> Hashes]
        /\ \A e \in Dirs, q \in Paths : files[e][q] # None => content'[files[e][q]] = data[files[e][q]]
        /\ \A h \in Contents : pool[h] # None => content'[pool[h]] = data[pool[h]]
    BY Zenon, <2>2, DiskStep
  <2>5. Shapes' BY Zenon, <1>1, <2>2, <2>4 DEF IInv, Shapes
  <2>6. c # None BY Zenon, NoneApart
  <2>7. InUse'
    <3>1. /\ \A e \in Dirs, q \in Paths : files[e][q] # None => files[e][q] \in Inodes
          /\ \A h \in Contents : pool[h] # None => pool[h] \in Inodes
      BY <2>2 DEF Names
    <3>2. \A j \in Inodes : content[j] # None => data[j] # None BY Zenon, <2>3, <2>6
    <3> QED BY Zenon, <2>4, <3>1, <3>2 DEF IInv, InUse
  <2>8. PoolApart'
    <3>1. \A h \in Contents : ~linkable /\ pool[h] # None => pool[h] \in Inodes /\ pool[h] # i
      BY Zenon, <1>3, <2>2 DEF IInv, PoolApart, Names
    <3> QED BY <1>1, <2>3, <2>4, <3>1 DEF IInv, PoolApart
  <2> QED BY Zenon, <1>1, <2>4, <2>5, <2>7, <2>8, DiskKeeps
<1>4. CASE \E i \in Inodes : Fresh(i) /\
             Disk([files EXCEPT ![d][p] = i], pool, [content EXCEPT ![i] = c])
  <2>1. /\ restore' \in [Dirs -> Restore]
        /\ \A e \in Dirs : restore'[e].at # "idle" => restore'[e].snap \in Snaps
    BY Zenon, <1>1 DEF IInv, Shapes
  <2> QED BY Zenon, <1>1, <1>4, <2>1, NewFileKeeps
<1> QED BY Zenon, <1>2, <1>3, <1>4

\* A collection between captures takes only blobs no manifest names.
LEMMA CollectKeeps ==
    ASSUME IInv, gc_objects_pool PROVE IInv'
<1> DEFINE kept == UNION {referenced_blobs(s) : s \in Snaps}
           blobs == [h \in Contents |-> IF h \in kept THEN pool[h] ELSE None]
<1>1. /\ \A s \in Snaps : capture[s].at \in {"idle", "over"}
      /\ Disk(files, blobs, content)
      /\ UNCHANGED <<linkable, snapDir, capture, restore, rows>>
  BY Zenon DEF gc_objects_pool, Capturing, store
<1>2. /\ files \in [Dirs -> [Paths -> Names]] /\ blobs \in [Contents -> Names]
      /\ content \in [Inodes -> Hashes]
  BY Zenon DEF IInv, Shapes, Names
<1>3. \A h \in Contents : blobs[h] \in {pool[h], None} /\ (h \in kept => blobs[h] = pool[h])
  BY Zenon
<1> HIDE DEF blobs
<1>4. /\ files' = files /\ pool' = blobs /\ content' \in [Inodes -> Hashes]
      /\ \A d \in Dirs, p \in Paths : files[d][p] # None => content'[files[d][p]] = content[files[d][p]]
      /\ \A h \in Contents : blobs[h] # None => content'[blobs[h]] = content[blobs[h]]
  BY Zenon, <1>1, <1>2, DiskStep
<1>5. Shapes' BY Zenon, <1>1, <1>2, <1>4 DEF IInv, Shapes
<1>6. InUse' BY <1>3, <1>4 DEF IInv, InUse
<1>7. CapturesBacked' BY Zenon, <1>1 DEF CapturesBacked
<1>8. ManifestsBacked'
  <2>1. \A s \in Snaps : referenced_blobs(s)' = referenced_blobs(s) BY Zenon, <1>1 DEF referenced_blobs
  <2>2. \A s \in Snaps : referenced_blobs(s) \subseteq kept BY Zenon
  <2>3. \A s \in Snaps : referenced_blobs(s) \subseteq Contents
    BY DEF IInv, Shapes, SnapDir, referenced_blobs, Tree, Hashes
  <2> HIDE DEF kept
  <2>4. ASSUME NEW s \in Snaps, NEW h \in referenced_blobs(s) PROVE pool'[h] # None
    <3>1. h \in Contents /\ h \in kept BY Zenon, <2>2, <2>3
    <3>2. pool[h] # None BY Zenon DEF IInv, ManifestsBacked
    <3> QED BY Zenon, <1>3, <1>4, <3>1, <3>2
  <2> QED BY Zenon, <2>1, <2>4 DEF ManifestsBacked
<1>9. PoolApart'
  <2>1. \A h \in Contents : ~linkable /\ pool'[h] # None => content'[pool'[h]] = h
    BY <1>3, <1>4 DEF IInv, PoolApart
  <2>2. \A d \in Dirs, p \in Paths, h \in Contents :
          ~linkable /\ files'[d][p] # None => files'[d][p] # pool'[h]
    BY <1>3, <1>4 DEF IInv, PoolApart
  <2> QED BY Zenon, <1>1, <2>1, <2>2 DEF PoolApart
<1>10. RowsTaken' BY Zenon, <1>1 DEF IInv, RowsTaken
<1> QED BY Zenon, <1>5, <1>6, <1>7, <1>8, <1>9, <1>10 DEF IInv

\* A restart ends every handler and leaves the disk.
LEMMA RestartKeeps ==
    ASSUME IInv, Restart PROVE IInv'
<1> USE DEF Restart, disk
<1>1. Shapes' BY Zenon, Empties DEF IInv, Shapes
<1>2. CapturesBacked' BY Zenon, Empties DEF CapturesBacked
<1>3. ManifestsBacked' BY Zenon DEF IInv, ManifestsBacked, referenced_blobs
<1>4. InUse' /\ PoolApart' BY DEF IInv, InUse, PoolApart
<1>5. RowsTaken' BY Zenon, Empties DEF IInv, RowsTaken
<1> QED BY Zenon, <1>1, <1>2, <1>3, <1>4, <1>5 DEF IInv

\* The removals: a delete and a sweep.
LEMMA RemoversKeep ==
    ASSUME IInv, (\E s \in Snaps : DeleteRow(s) \/ DeleteDir(s)) \/ SweepDir \/ SweepRow
    PROVE  IInv'
<1>1. UNCHANGED <<linkable, content, files, pool, capture, restore>>
  BY Zenon DEF DeleteRow, DeleteDir, SweepDir, SweepRow, disk
<1>2. rows' \subseteq rows BY Zenon DEF DeleteRow, DeleteDir, SweepDir, SweepRow
<1>3. \/ snapDir' = snapDir
      \/ \E s : Unlinked(s) \/ Removed(s)
  BY Zenon DEF DeleteRow, DeleteDir, SweepDir, SweepRow
<1>4. snapDir \in [Snaps -> SnapDir] BY Zenon DEF IInv, Shapes
<1>5. /\ snapDir' \in [Snaps -> SnapDir]
      /\ \A s \in Snaps : snapDir'[s] \in {snapDir[s], Bare, Gone}
  BY Zenon, <1>3, <1>4, Empties DEF Unlinked, Removed
<1> QED BY Zenon, <1>1, <1>2, <1>5, RemovalKeeps

\* Steps that touch none of the variables the invariant is about.
LEMMA QuietKeeps ==
    ASSUME IInv, run_once \/ Age \/ NotFound \/ UNCHANGED vars PROVE IInv'
<1>1. UNCHANGED <<linkable, content, files, pool, snapDir, capture, restore, rows>>
  BY Zenon DEF run_once, Age, NotFound, vars, disk, store
<1>2. snapDir' \in [Snaps -> SnapDir] /\ rows' \subseteq rows
  BY Zenon, <1>1 DEF IInv, Shapes
<1> QED BY Zenon, <1>1, <1>2, RemovalKeeps

\* Every step keeps the invariant.
LEMMA StepIInv == IInv /\ [Next]_vars => IInv'
<1> SUFFICES ASSUME IInv, [Next]_vars PROVE IInv' BY Zenon
<1>1. ASSUME NEW s \in Snaps, NEW d \in Dirs, BeginCapture(s, d) PROVE IInv'
  BY Zenon, <1>1, BeginCaptureKeeps
<1>2. ASSUME NEW s \in Snaps, NEW d \in Dirs, BeginRestore(d, s) PROVE IInv'
  BY Zenon, <1>2, BeginRestoreKeeps
<1>3. ASSUME NEW s \in Snaps, walk_and_hash(s) PROVE IInv' BY Zenon, <1>3, WalkKeeps
<1>4. ASSUME NEW s \in Snaps, hash_into_pool(s) PROVE IInv' BY Zenon, <1>4, RenameKeeps
<1>5. ASSUME NEW s \in Snaps, WriteManifest(s) PROVE IInv' BY Zenon, <1>5, ManifestKeeps
<1>6. ASSUME NEW s \in Snaps, InsertRow(s) \/ FailCapture(s) PROVE IInv'
  BY Zenon, <1>6, EndCaptureKeeps
<1>7. ASSUME NEW d \in Dirs, restore_snapshot(d) PROVE IInv' BY Zenon, <1>7, OpenKeeps
<1>8. ASSUME NEW d \in Dirs, restore_incremental(d) PROVE IInv' BY Zenon, <1>8, LinkKeeps
<1>9. ASSUME NEW d \in Dirs, FinishRestore(d) PROVE IInv' BY Zenon, <1>9, FinishKeeps
<1>10. ASSUME NEW d \in Dirs, FailRestore(d) PROVE IInv'
  BY Zenon, <1>10, FailedKeeps DEF FailRestore, store
<1>11. ASSUME NEW d \in Dirs, JailWrite(d) PROVE IInv' BY Zenon, <1>11, JailWriteKeeps
<1>12. CASE gc_objects_pool BY Zenon, <1>12, CollectKeeps
<1>13. CASE Restart BY Zenon, <1>13, RestartKeeps
<1>14. CASE (\E s \in Snaps : DeleteRow(s) \/ DeleteDir(s)) \/ SweepDir \/ SweepRow
  BY Zenon, <1>14, RemoversKeep
<1>15. CASE run_once \/ Age \/ NotFound \/ UNCHANGED vars BY Zenon, <1>15, QuietKeeps
<1> QED
  BY Zenon, <1>1, <1>2, <1>3, <1>4, <1>5, <1>6, <1>7, <1>8, <1>9, <1>10, <1>11, <1>12, <1>13,
     <1>14, <1>15 DEF Next, Sweeper

\* The inductive invariant.
LEMMA PoolInvariant == Spec => []IInv
<1> QED BY InitIInv, StepIInv, PTL DEF Spec

-----------------------------------------------------------------------------
\* Every blob that a manifest on disk names is in the pool, whatever captures, deletes,
\* sweeps, collections between captures and restarts interleave (create_incremental,
\* hash_into_pool, gc_objects_pool).
THEOREM ManifestsAreBacked == Spec => []ManifestsBacked
<1>1. IInv => ManifestsBacked BY Zenon DEF IInv
<1> QED BY PoolInvariant, <1>1, PTL

\* Where restores copy, a manifest's blobs read back as the hashes it names.
LEMMA ViewIsManifest == IInv /\ ~linkable => \A s \in Snaps : View(s) = snapDir[s].entries
<1> SUFFICES ASSUME IInv, ~linkable, NEW s \in Snaps PROVE View(s) = snapDir[s].entries
  BY Zenon
<1>1. snapDir[s].entries \in Tree BY Zenon DEF IInv, Shapes, SnapDir
<1>2. ASSUME NEW p \in Paths, snapDir[s].entries[p] # None
      PROVE  Reads(pool[snapDir[s].entries[p]]) = snapDir[s].entries[p]
  <2> DEFINE h == snapDir[s].entries[p]
  <2>1. h \in Contents BY Zenon, <1>1, <1>2 DEF Tree, Hashes
  <2>2. pool[h] # None BY <1>2 DEF IInv, ManifestsBacked, referenced_blobs
  <2> QED BY Zenon, <2>1, <2>2 DEF IInv, PoolApart, Reads
<1> QED BY Zenon, <1>1, <1>2 DEF View, Tree

\* A manifest whose capture is over stays as it is or goes, and the capture stays over.
LEMMA OverStays ==
    ASSUME IInv, [Next]_vars, NEW s \in Snaps, capture[s].at = "over"
    PROVE  capture'[s].at = "over" /\ (Whole(s)' => snapDir'[s] = snapDir[s])
<1>2. snapDir \in [Snaps -> SnapDir] /\ capture \in [Snaps -> Capture] BY Zenon DEF IInv, Shapes
<1>3. \A r : Unlinked(r) \/ Removed(r) => snapDir'[s] \in {snapDir[s], Bare, Gone}
  BY Zenon, <1>2 DEF Unlinked, Removed
<1>4. ASSUME NEW r \in Snaps,
             WriteManifest(r) \/ FailCapture(r) \/ \E d \in Dirs : BeginCapture(r, d)
      PROVE  snapDir'[s] \in {snapDir[s], Gone}
  BY Zenon, <1>2, <1>4 DEF WriteManifest, FailCapture, BeginCapture
<1>5. \/ snapDir' = snapDir
      \/ \E r : Unlinked(r) \/ Removed(r)
      \/ \E r \in Snaps : WriteManifest(r) \/ FailCapture(r) \/ \E d \in Dirs : BeginCapture(r, d)
  BY Zenon DEF Next, BeginRestore, walk_and_hash, hash_into_pool, InsertRow, DeleteRow, DeleteDir,
         restore_snapshot, restore_incremental, FinishRestore, FailRestore, JailWrite, vars,
         Sweeper, run_once, SweepDir, SweepRow, Age, gc_objects_pool, Restart, NotFound, store
<1>6. Whole(s)' => snapDir'[s] = snapDir[s]
  BY <1>3, <1>4, <1>5 DEF Whole, Bare, Gone
<1>7. \/ capture' = capture
      \/ \E r \in Snaps : capture[r].at # "over" /\ \A q \in Snaps \ {r} : capture'[q] = capture[q]
      \/ Restart
  <2>1. ASSUME NEW r \in Snaps, NEW d \in Dirs, BeginCapture(r, d) PROVE <1>7
    BY Zenon, <1>2, <2>1 DEF BeginCapture
  <2>2. ASSUME NEW r \in Snaps, walk_and_hash(r) \/ hash_into_pool(r) \/ WriteManifest(r) PROVE <1>7
    BY Zenon, <1>2, <2>2 DEF walk_and_hash, hash_into_pool, WriteManifest
  <2>3. ASSUME NEW r \in Snaps, InsertRow(r) \/ FailCapture(r) PROVE <1>7
    BY Zenon, <1>2, <2>3 DEF InsertRow, FailCapture
  <2> QED
    BY Zenon, <2>1, <2>2, <2>3
    DEF Next, BeginRestore, DeleteRow, DeleteDir, vars, restore_snapshot, restore_incremental,
        FinishRestore, FailRestore, JailWrite, Sweeper, run_once, SweepDir, SweepRow, Age,
        gc_objects_pool, NotFound
<1>8. capture'[s].at = "over"
  BY Zenon, <1>2, <1>7, Empties DEF Restart
<1> QED BY Zenon, <1>6, <1>8

\* Where restores copy, what a snapshot with a row restores never changes until the
\* snapshot is removed (hash_into_pool, restore_incremental, gc_objects_pool).
THEOREM CopiesAreKept == Spec => CopiesKeepContent
<1>1. (IInv /\ ~linkable => \A s \in Snaps : View(s) = snapDir[s].entries)'
  BY ViewIsManifest, PTL
<1>2. IInv /\ IInv' /\ [Next]_vars =>
        [\A s \in rows : ~linkable /\ Whole(s)' => View(s)' = View(s)]_vars
  <2> SUFFICES ASSUME IInv, IInv', Next, NEW s \in rows, ~linkable, Whole(s)'
               PROVE  View(s)' = View(s)
    BY Zenon
  <2>1. linkable' = linkable
    BY Zenon DEF Next, BeginCapture, BeginRestore, walk_and_hash, hash_into_pool, WriteManifest,
           InsertRow, FailCapture, DeleteRow, DeleteDir, restore_snapshot,
           restore_incremental, FinishRestore, FailRestore, JailWrite, Sweeper, run_once,
           SweepDir, SweepRow, Age, gc_objects_pool, Restart, NotFound
  <2>2. s \in Snaps /\ capture[s].at = "over" BY Zenon DEF IInv, RowsTaken
  <2>3. View(s) = snapDir[s].entries BY Zenon, <2>2, ViewIsManifest
  <2>4. View(s)' = snapDir'[s].entries BY Zenon, <1>1, <2>1, <2>2
  <2>5. snapDir'[s] = snapDir[s] BY Zenon, <2>2, OverStays
  <2> QED BY Zenon, <2>3, <2>4, <2>5
<1> QED BY PoolInvariant, <1>2, PTL DEF Spec, CopiesKeepContent

-----------------------------------------------------------------------------
(* What a restore has put back *)

\* Where restores copy, no two names in workspaces share an inode.
FilesApart ==
    ~linkable => \A d, e \in Dirs, p, q \in Paths :
        files[d][p] # None /\ files[d][p] = files[e][q] => d = e /\ p = q

\* The manifest under a restore is final: its capture is over.
RestoresTaken == \A d \in Dirs : restore[d].at # "idle" => capture[restore[d].snap].at = "over"

\* While the manifest is there, a path without a pending entry reads as the manifest
\* says, and a path with one has no file yet.
PlacedAt(d, p) ==
    restore[d].at = "link" /\ Whole(restore[d].snap) =>
        LET h == snapDir[restore[d].snap].entries[p]
        IN  \/ restore[d].todo[p] = None /\ Reads(files[d][p]) = h
            \/ restore[d].todo[p] = h /\ files[d][p] = None
Placed == ~linkable => \A d \in Dirs, p \in Paths : PlacedAt(d, p)

RInv == FilesApart /\ RestoresTaken /\ Placed

\* Each restore goes on as it was over files that read as before, begins, has another
\* entry in place, or ends.
LEMMA RestoresGoOn ==
    ASSUME IInv, RInv, [Next]_vars, FilesApart', linkable' = linkable,
           \A d \in Dirs : restore'[d].at # "idle" =>
              \/ restore'[d].at = "open" /\ restore'[d].snap \in Snaps
                 /\ capture[restore'[d].snap].at = "over"
              \/ /\ restore'[d] = restore[d]
                 /\ \A p \in Paths : files'[d][p] = files[d][p] /\ Reads(files[d][p])' = Reads(files[d][p])
              \/ /\ restore[d].at # "idle" /\ restore'[d].snap = restore[d].snap
                 /\ ~linkable => \A p \in Paths : PlacedAt(d, p)'
    PROVE  RInv'
<1>1. \A d \in Dirs : restore[d].at # "idle" => restore[d].snap \in Snaps
  BY Zenon DEF IInv, Shapes
<1>2. RestoresTaken' BY Zenon, <1>1, OverStays DEF RInv, RestoresTaken
<1>3. Placed'
  <2> SUFFICES ASSUME ~linkable, NEW d \in Dirs, NEW p \in Paths, restore'[d].at = "link",
                      snapDir'[restore'[d].snap].is = "whole"
               PROVE  PlacedAt(d, p)'
    BY Zenon DEF Placed, PlacedAt, Whole
  <2>1. CASE /\ restore'[d] = restore[d] /\ files'[d][p] = files[d][p]
             /\ Reads(files[d][p])' = Reads(files[d][p])
    <3>2. restore[d].snap \in Snaps /\ capture[restore[d].snap].at = "over"
      BY Zenon, <1>1, <2>1 DEF RInv, RestoresTaken
    <3>3. snapDir'[restore[d].snap] = snapDir[restore[d].snap] BY Zenon, <2>1, <3>2, OverStays DEF Whole
    <3> QED BY <2>1, <3>3 DEF RInv, Placed, PlacedAt, Whole
  <2> QED BY Zenon, <2>1
<1> QED BY Zenon, <1>2, <1>3 DEF RInv

\* A directory whose names and whose inodes' data are kept reads as before.
LEMMA ReadsKept ==
    ASSUME NEW fs \in [Dirs -> [Paths -> Names]], NEW blobs \in [Contents -> Names],
           NEW data \in [Inodes -> Hashes], Disk(fs, blobs, data), NEW d \in Dirs, NEW p \in Paths,
           fs[d][p] = files[d][p],
           files[d][p] # None => data[files[d][p]] = content[files[d][p]]
    PROVE  files'[d][p] = files[d][p] /\ Reads(files[d][p])' = Reads(files[d][p])
<1>1. files' = fs /\ (fs[d][p] # None => content'[fs[d][p]] = data[fs[d][p]])
  BY Zenon, DiskStep
<1> QED BY Zenon, <1>1 DEF Reads

\* Names that are taken away leave the others apart.
LEMMA ApartForgets ==
    ASSUME FilesApart, linkable' = linkable,
           \A d \in Dirs, p \in Paths : files'[d][p] \in {files[d][p], None}
    PROVE  FilesApart'
  BY DEF FilesApart

\* A new name on an inode nobody named is apart from the others.
LEMMA ApartNew ==
    ASSUME IInv, FilesApart, linkable' = linkable, NEW d \in Dirs, NEW p \in Paths, NEW i \in Inodes,
           Fresh(i), files' = [files EXCEPT ![d][p] = i]
    PROVE  FilesApart'
<1>1. content[i] = None BY Zenon DEF Fresh
<1>2. \A e \in Dirs, q \in Paths : files[e][q] # i BY Zenon, <1>1, NoneApart DEF IInv, InUse
<1>3. \A e \in Dirs, q \in Paths : files'[e][q] = IF e = d /\ q = p THEN i ELSE files[e][q]
  BY Zenon DEF IInv, Shapes
<1> QED BY <1>2, <1>3 DEF FilesApart

\* A step that leaves the file system alone, begins restores under a row and ends them.
LEMMA QuietRestores ==
    ASSUME IInv, RInv, [Next]_vars, UNCHANGED <<linkable, files, content>>,
           \A d \in Dirs : restore'[d].at # "idle" =>
              \/ restore'[d] = restore[d]
              \/ restore'[d].at = "open" /\ restore'[d].snap \in rows
    PROVE  RInv'
<1>1. FilesApart' BY DEF RInv, FilesApart
<1>2. \A d \in Dirs, p \in Paths : files'[d][p] = files[d][p] /\ Reads(files[d][p])' = Reads(files[d][p])
  BY Zenon DEF Reads
<1>3. \A s \in rows : s \in Snaps /\ capture[s].at = "over" BY Zenon DEF IInv, RowsTaken
<1> QED BY Zenon, <1>1, <1>2, <1>3, RestoresGoOn

\* A step of the disk that only takes names away, from directories whose restore ends.
LEMMA ForgettingRestores ==
    ASSUME IInv, RInv, [Next]_vars, linkable' = linkable,
           NEW fs \in [Dirs -> [Paths -> Names]], NEW blobs \in [Contents -> Names],
           NEW data \in [Inodes -> Hashes], Disk(fs, blobs, data),
           \A d \in Dirs, p \in Paths : fs[d][p] \in {files[d][p], None},
           \A d \in Dirs, p \in Paths : files[d][p] # None => data[files[d][p]] = content[files[d][p]],
           \A d \in Dirs : restore'[d].at # "idle" => restore'[d] = restore[d] /\ fs[d] = files[d]
    PROVE  RInv'
<1>1. files' = fs BY Zenon DEF Disk
<1>2. FilesApart' BY Zenon, <1>1, ApartForgets DEF RInv
<1>3. \A d \in Dirs, p \in Paths : fs[d] = files[d] =>
        files'[d][p] = files[d][p] /\ Reads(files[d][p])' = Reads(files[d][p])
  <2> SUFFICES ASSUME NEW d \in Dirs, NEW p \in Paths, fs[d] = files[d]
               PROVE  files'[d][p] = files[d][p] /\ Reads(files[d][p])' = Reads(files[d][p])
    BY Zenon
  <2>1. fs[d][p] = files[d][p] BY Zenon
  <2>2. files[d][p] # None => data[files[d][p]] = content[files[d][p]] BY Zenon
  <2> QED BY Zenon, <2>1, <2>2, ReadsKept
<1> QED BY Zenon, <1>2, <1>3, RestoresGoOn

\* The rename of a blob writes an inode no file names.
LEMMA RenameRestores ==
    ASSUME IInv, RInv, [Next]_vars, NEW s \in Snaps, hash_into_pool(s) PROVE RInv'
<1> DEFINE h == capture[s].blob
<1>1. PICK i \in Inodes :
        Fresh(i) /\ Disk(files, [pool EXCEPT ![h] = i], [content EXCEPT ![i] = h])
  BY Zenon DEF hash_into_pool
<1>2. h \in Contents /\ UNCHANGED <<linkable, restore>>
  BY Zenon, CaptureFields DEF hash_into_pool, IInv, Hashes
<1> HIDE DEF h
<1> DEFINE blobs == [pool EXCEPT ![h] = i]
           data == [content EXCEPT ![i] = h]
<1>3. /\ files \in [Dirs -> [Paths -> Names]] /\ blobs \in [Contents -> Names]
      /\ data \in [Inodes -> Hashes]
  BY Zenon, <1>2 DEF IInv, Shapes, Names, Hashes
<1>4. content[i] = None BY Zenon, <1>1 DEF Fresh
<1>5. \A d \in Dirs, p \in Paths : files[d][p] # None => files[d][p] \in Inodes \ {i}
  BY <1>4 DEF IInv, InUse, Shapes, Names
<1>6. \A d \in Dirs, p \in Paths : files[d][p] # None => data[files[d][p]] = content[files[d][p]]
  BY Zenon, <1>5 DEF IInv, Shapes
<1>7. Disk(files, blobs, data) BY Zenon, <1>1
<1> HIDE DEF blobs, data
<1> QED BY Zenon, <1>2, <1>3, <1>6, <1>7, ForgettingRestores

\* A collection touches no file.
LEMMA CollectRestores ==
    ASSUME IInv, RInv, [Next]_vars, gc_objects_pool PROVE RInv'
<1> DEFINE kept == UNION {referenced_blobs(s) : s \in Snaps}
           blobs == [h \in Contents |-> IF h \in kept THEN pool[h] ELSE None]
<1>1. Disk(files, blobs, content) /\ UNCHANGED <<linkable, restore>>
  BY Zenon DEF gc_objects_pool
<1>2. /\ files \in [Dirs -> [Paths -> Names]] /\ blobs \in [Contents -> Names]
      /\ content \in [Inodes -> Hashes]
  BY Zenon DEF IInv, Shapes, Names
<1> HIDE DEF blobs
<1> QED BY Zenon, <1>1, <1>2, ForgettingRestores

\* A failed restore ends, and takes the names of its own target only.
LEMMA FailedRestores ==
    ASSUME IInv, RInv, [Next]_vars, NEW d \in Dirs, Failed(d), linkable' = linkable PROVE RInv'
<1> DEFINE fs == IF d \in live THEN files ELSE [files EXCEPT ![d] = NoFiles]
<1>1. fs \in [Dirs -> [Paths -> Names]] BY Zenon, Empties DEF IInv, Shapes
<1>2. /\ \A e \in Dirs, p \in Paths : fs[e][p] \in {files[e][p], None}
      /\ \A e \in Dirs \ {d} : fs[e] = files[e]
  BY Zenon DEF IInv, Shapes, NoFiles
<1>3. Disk(fs, pool, content) BY Zenon DEF Failed, clear_dir
<1>4. \A e \in Dirs : restore'[e] = IF e = d THEN NoRestore ELSE restore[e]
  BY Zenon DEF Failed, EndRestore, IInv, Shapes
<1>5. \A e \in Dirs : restore'[e].at # "idle" => restore'[e] = restore[e] /\ fs[e] = files[e]
  BY Zenon, <1>2, <1>4, Empties
<1>6. pool \in [Contents -> Names] /\ content \in [Inodes -> Hashes] BY Zenon DEF IInv, Shapes
<1> HIDE DEF fs
<1> QED BY Zenon, <1>1, <1>2, <1>3, <1>5, <1>6, ForgettingRestores

\* Opening a snapshot leaves no file in the target and every entry pending.
LEMMA OpenRestores ==
    ASSUME IInv, RInv, [Next]_vars, NEW d \in Dirs, restore_snapshot(d) PROVE RInv'
<1> DEFINE m == snapDir[restore[d].snap]
<1>0. linkable' = linkable /\ snapDir' = snapDir BY Zenon DEF restore_snapshot, store
<1>1. CASE m = Gone BY Zenon, <1>0, <1>1, FailedRestores DEF restore_snapshot
<1>2. CASE m # Gone
  <2> DEFINE fs == [files EXCEPT ![d] = NoFiles]
  <2>1. /\ Disk(fs, pool, content) /\ restore[d].at = "open"
        /\ restore' = [restore EXCEPT ![d].at = "link", ![d].todo = m.entries]
    BY Zenon, <1>2 DEF restore_snapshot, clear_dir
  <2>2. /\ restore'[d].at = "link" /\ restore'[d].snap = restore[d].snap
        /\ restore'[d].todo = m.entries
        /\ \A e \in Dirs \ {d} : restore'[e] = restore[e]
    BY Zenon, <2>1, RestoreFields DEF IInv, Shapes, Restore
  <2>3. /\ fs \in [Dirs -> [Paths -> Names]] /\ pool \in [Contents -> Names]
        /\ content \in [Inodes -> Hashes]
    BY Zenon, Empties DEF IInv, Shapes
  <2>4. /\ \A p \in Paths : fs[d][p] = None
        /\ \A e \in Dirs \ {d} : fs[e] = files[e]
    BY Zenon DEF IInv, Shapes, NoFiles
  <2> HIDE DEF fs
  <2>5. files' = fs BY Zenon, <2>1 DEF Disk
  <2>6. FilesApart'
    <3>1. \A e \in Dirs, p \in Paths : files'[e][p] \in {files[e][p], None} BY Zenon, <2>4, <2>5
    <3> QED BY Zenon, <1>0, <3>1, ApartForgets DEF RInv
  <2>7. \A e \in Dirs \ {d}, p \in Paths :
          files'[e][p] = files[e][p] /\ Reads(files[e][p])' = Reads(files[e][p])
    BY ZenonT(30), <2>1, <2>3, <2>4, ReadsKept
  <2>8. \A p \in Paths : PlacedAt(d, p)'
    BY Zenon, <1>0, <2>2, <2>4, <2>5 DEF PlacedAt
  <2> QED BY Zenon, <1>0, <2>1, <2>2, <2>6, <2>7, <2>8, RestoresGoOn
<1> QED BY Zenon, <1>1, <1>2

\* A new file at a path of d, on an inode nobody named, leaves every other path.
LEMMA NewFileReads ==
    ASSUME IInv, RInv, linkable' = linkable, NEW d \in Dirs, NEW p \in Paths, NEW i \in Inodes,
           NEW c \in Contents, Fresh(i), Disk([files EXCEPT ![d][p] = i], pool, [content EXCEPT ![i] = c])
    PROVE  /\ FilesApart' /\ Reads(files[d][p])' = c
           /\ \A e \in Dirs, q \in Paths : e # d \/ q # p =>
                 files'[e][q] = files[e][q] /\ Reads(files[e][q])' = Reads(files[e][q])
<1> DEFINE fs == [files EXCEPT ![d][p] = i]
           data == [content EXCEPT ![i] = c]
<1>1. /\ fs \in [Dirs -> [Paths -> Names]] /\ data \in [Inodes -> Hashes]
      /\ pool \in [Contents -> Names] /\ Disk(fs, pool, data)
  BY Zenon DEF IInv, Shapes, Names, Hashes
<1>2. /\ \A e \in Dirs, q \in Paths :
            fs[e][q] = IF e = d /\ q = p THEN i ELSE files[e][q]
      /\ \A j \in Inodes : data[j] = IF j = i THEN c ELSE content[j]
  BY Zenon DEF IInv, Shapes
<1>3. content[i] = None /\ i # None BY Zenon, NoneApart DEF Fresh
<1>4. \A e \in Dirs, q \in Paths : files[e][q] # None => files[e][q] \in Inodes \ {i}
  BY <1>3 DEF IInv, InUse, Shapes, Names
<1>5. files' = [files EXCEPT ![d][p] = i] BY Zenon DEF Disk
<1>6. FilesApart' BY Zenon, <1>5, ApartNew DEF RInv
<1> HIDE DEF fs, data
<1>7. \A e \in Dirs, q \in Paths : e # d \/ q # p =>
        files'[e][q] = files[e][q] /\ Reads(files[e][q])' = Reads(files[e][q])
  <2> SUFFICES ASSUME NEW e \in Dirs, NEW q \in Paths, e # d \/ q # p
               PROVE  files'[e][q] = files[e][q] /\ Reads(files[e][q])' = Reads(files[e][q])
    BY Zenon
  <2>1. fs[e][q] = files[e][q] BY Zenon, <1>2
  <2>2. files[e][q] # None => data[files[e][q]] = content[files[e][q]] BY Zenon, <1>2, <1>4
  <2> QED BY Zenon, <1>1, <2>1, <2>2, ReadsKept
<1>8. Reads(files[d][p])' = c
  <2>1. files' = fs /\ content'[fs[d][p]] = data[fs[d][p]]
    BY <1>1, <1>2, <1>3, DiskStep
  <2> QED BY Zenon, <1>2, <1>3, <2>1 DEF Reads
<1> QED BY Zenon, <1>6, <1>7, <1>8

\* Where restores copy, an entry's copy reads as the manifest says.
LEMMA CopyRestores ==
    ASSUME IInv, RInv, [Next]_vars, NEW d \in Dirs, restore_incremental(d) PROVE RInv'
<1>1. /\ restore[d].at = "link" /\ restore[d].snap \in Snaps
      /\ UNCHANGED <<linkable, snapDir>>
  BY Zenon DEF restore_incremental, store, IInv, Shapes
<1>2. PICK p \in Paths :
        LET h == restore[d].todo[p]
        IN  /\ h # None
            /\ IF pool[h] = None THEN Failed(d)
               ELSE /\ restore' = [restore EXCEPT ![d].todo[p] = None]
                    /\ IF linkable
                       THEN Disk([files EXCEPT ![d][p] = pool[h]], pool, content)
                       ELSE \E i \in Inodes : Fresh(i) /\
                              Disk([files EXCEPT ![d][p] = i], pool,
                                   [content EXCEPT ![i] = content[pool[h]]])
  BY Zenon DEF restore_incremental
<1> DEFINE h == restore[d].todo[p]
<1>3. h \in Contents BY Zenon, <1>2, RestoreFields DEF IInv, Tree, Hashes
<1>4. CASE pool[h] = None BY Zenon, <1>1, <1>2, <1>4, FailedRestores
<1>5. CASE pool[h] # None
  <2>1. restore' = [restore EXCEPT ![d].todo[p] = None] BY Zenon, <1>2, <1>5
  <2>2. /\ restore'[d].at = "link" /\ restore'[d].snap = restore[d].snap
        /\ \A q \in Paths : restore'[d].todo[q] = IF q = p THEN None ELSE restore[d].todo[q]
        /\ \A e \in Dirs \ {d} : restore'[e] = restore[e]
    <3> DEFINE new == [restore[d] EXCEPT !.todo[p] = None]
    <3>1. restore' = [restore EXCEPT ![d] = new] BY Zenon, <2>1 DEF IInv, Shapes
    <3>2. /\ new.at = "link" /\ new.snap = restore[d].snap
          /\ \A q \in Paths : new.todo[q] = IF q = p THEN None ELSE restore[d].todo[q]
      BY Zenon, <1>1, RestoreFields DEF IInv, Restore, Tree
    <3> HIDE DEF new
    <3> QED BY Zenon, <3>1, <3>2 DEF IInv, Shapes
  <2>3. CASE linkable
    <3>1. FilesApart' /\ Placed' BY Zenon, <1>1, <2>3 DEF FilesApart, Placed
    <3>2. \A e \in Dirs : restore'[e].at # "idle" =>
            /\ restore[e].at # "idle" /\ restore[e].snap \in Snaps
            /\ restore'[e].snap = restore[e].snap
      BY Zenon, <1>1, <2>2 DEF IInv, Shapes
    <3>3. RestoresTaken' BY Zenon, <3>2, OverStays DEF RInv, RestoresTaken
    <3> QED BY Zenon, <3>1, <3>3 DEF RInv
  <2>4. CASE ~linkable
    <3>1. content[pool[h]] = h BY Zenon, <1>3, <1>5, <2>4 DEF IInv, PoolApart
    <3>2. PICK i \in Inodes : Fresh(i) /\ Disk([files EXCEPT ![d][p] = i], pool,
                                               [content EXCEPT ![i] = h])
      BY Zenon, <1>2, <1>5, <2>4, <3>1
    <3> HIDE DEF h
    <3>3. /\ FilesApart' /\ Reads(files[d][p])' = h
          /\ \A e \in Dirs, q \in Paths : e # d \/ q # p =>
                files'[e][q] = files[e][q] /\ Reads(files[e][q])' = Reads(files[e][q])
      BY Zenon, <1>1, <1>3, <3>2, NewFileReads
    <3>4. ASSUME NEW q \in Paths PROVE PlacedAt(d, q)'
      <4> SUFFICES ASSUME Whole(restore[d].snap)
                   PROVE  LET g == snapDir[restore[d].snap].entries[q]
                          IN  \/ restore'[d].todo[q] = None /\ Reads(files[d][q])' = g
                              \/ restore'[d].todo[q] = g /\ files'[d][q] = None
        BY Zenon, <1>1, <2>2 DEF PlacedAt, Whole
      <4>1. \/ restore[d].todo[q] = None
               /\ Reads(files[d][q]) = snapDir[restore[d].snap].entries[q]
            \/ restore[d].todo[q] = snapDir[restore[d].snap].entries[q] /\ files[d][q] = None
        BY Zenon, <1>1, <2>4 DEF RInv, Placed, PlacedAt
      <4>2. CASE q # p BY Zenon, <2>2, <3>3, <4>1, <4>2
      <4>3. CASE q = p BY Zenon, <1>2, <2>2, <3>3, <4>1, <4>3 DEF h
      <4> QED BY Zenon, <4>2, <4>3
    <3>5. \A e \in Dirs \ {d}, q \in Paths :
            files'[e][q] = files[e][q] /\ Reads(files[e][q])' = Reads(files[e][q])
      BY Zenon, <3>3
    <3> QED BY Zenon, <1>1, <2>2, <3>3, <3>4, <3>5, RestoresGoOn
  <2> QED BY Zenon, <2>3, <2>4
<1> QED BY Zenon, <1>4, <1>5

\* A jail writes in a directory nothing is restored into; where restores copy, no other
\* directory shares its files.
LEMMA JailWriteRestores ==
    ASSUME IInv, RInv, [Next]_vars, NEW d \in Dirs, JailWrite(d) PROVE RInv'
<1>1. restore[d].at = "idle" /\ UNCHANGED <<linkable, capture, restore>>
  BY Zenon DEF JailWrite
<1>2. PICK p \in Paths, c \in Contents :
        \/ files[d][p] # None /\ Disk(files, pool, [content EXCEPT ![files[d][p]] = c])
        \/ \E i \in Inodes : Fresh(i) /\
             Disk([files EXCEPT ![d][p] = i], pool, [content EXCEPT ![i] = c])
  BY Zenon DEF JailWrite
<1>3. CASE linkable BY Zenon, <1>1, <1>3 DEF RInv, FilesApart, Placed, RestoresTaken
<1>4. CASE ~linkable /\ files[d][p] # None /\ Disk(files, pool, [content EXCEPT ![files[d][p]] = c])
  <2> DEFINE data == [content EXCEPT ![files[d][p]] = c]
  <2>1. /\ files \in [Dirs -> [Paths -> Names]] /\ data \in [Inodes -> Hashes]
        /\ pool \in [Contents -> Names] /\ Disk(files, pool, data)
    BY Zenon, <1>4 DEF IInv, Shapes, Hashes, Names
  <2>2. files' = files BY Zenon, <1>4 DEF Disk
  <2>3. FilesApart' BY <1>1, <2>2 DEF RInv, FilesApart
  <2>4. \A e \in Dirs \ {d}, q \in Paths : files[e][q] # None =>
          files[e][q] \in Inodes /\ files[e][q] # files[d][p]
    BY <1>4, <2>1 DEF RInv, FilesApart, Names
  <2>5. \A e \in Dirs \ {d}, q \in Paths : files[e][q] # None =>
          data[files[e][q]] = content[files[e][q]]
    BY Zenon, <2>4 DEF IInv, Shapes
  <2> HIDE DEF data
  <2>6. ASSUME NEW e \in Dirs \ {d}, NEW q \in Paths
        PROVE  files'[e][q] = files[e][q] /\ Reads(files[e][q])' = Reads(files[e][q])
    <3>1. e \in Dirs /\ (files[e][q] # None => data[files[e][q]] = content[files[e][q]])
      BY Zenon, <2>5
    <3> QED BY <2>1, <3>1, ReadsKept
  <2> QED BY Zenon, <1>1, <2>3, <2>6, RestoresGoOn
<1>5. CASE \E i \in Inodes : Fresh(i) /\
             Disk([files EXCEPT ![d][p] = i], pool, [content EXCEPT ![i] = c])
  <2>1. /\ FilesApart'
        /\ \A e \in Dirs, q \in Paths : e # d \/ q # p =>
              files'[e][q] = files[e][q] /\ Reads(files[e][q])' = Reads(files[e][q])
    BY Zenon, <1>1, <1>5, NewFileReads
  <2> QED BY Zenon, <1>1, <2>1, RestoresGoOn
<1> QED BY Zenon, <1>2, <1>3, <1>4, <1>5

\* Every step keeps what is said of restores.
LEMMA StepRInv == IInv /\ RInv /\ [Next]_vars => RInv'
<1> SUFFICES ASSUME IInv, RInv, [Next]_vars PROVE RInv' BY Zenon
<1>1. ASSUME NEW s \in Snaps, NEW d \in Dirs, BeginRestore(d, s) PROVE RInv'
  <2>1. /\ UNCHANGED <<linkable, files, content>> /\ s \in rows
        /\ \A e \in Dirs : restore'[e] =
              IF e = d THEN [at |-> "open", snap |-> s, todo |-> NoFiles] ELSE restore[e]
    BY Zenon, <1>1 DEF BeginRestore, disk, IInv, Shapes
  <2> QED BY <2>1, QuietRestores
<1>2. ASSUME NEW d \in Dirs, FinishRestore(d) PROVE RInv'
  <2>1. /\ UNCHANGED <<linkable, files, content>>
        /\ \A e \in Dirs : restore'[e] = IF e = d THEN NoRestore ELSE restore[e]
    BY Zenon, <1>2 DEF FinishRestore, EndRestore, disk, IInv, Shapes
  <2> QED BY Zenon, <2>1, Empties, QuietRestores
<1>3. CASE Restart
  <2>1. UNCHANGED <<linkable, files, content>> /\ \A e \in Dirs : restore'[e] = NoRestore
    BY Zenon, <1>3 DEF Restart, disk
  <2> QED BY Zenon, <2>1, Empties, QuietRestores
<1>4. ASSUME NEW s \in Snaps, hash_into_pool(s) PROVE RInv' BY Zenon, <1>4, RenameRestores
<1>5. CASE gc_objects_pool BY Zenon, <1>5, CollectRestores
<1>6. ASSUME NEW d \in Dirs, restore_snapshot(d) PROVE RInv' BY Zenon, <1>6, OpenRestores
<1>7. ASSUME NEW d \in Dirs, restore_incremental(d) PROVE RInv' BY Zenon, <1>7, CopyRestores
<1>8. ASSUME NEW d \in Dirs, FailRestore(d) PROVE RInv'
  BY Zenon, <1>8, FailedRestores DEF FailRestore
<1>9. ASSUME NEW d \in Dirs, JailWrite(d) PROVE RInv' BY Zenon, <1>9, JailWriteRestores
<1>10. CASE \/ \E s \in Snaps :
                 \/ \E d \in Dirs : BeginCapture(s, d)
                 \/ walk_and_hash(s) \/ WriteManifest(s) \/ InsertRow(s) \/ FailCapture(s)
                 \/ DeleteRow(s) \/ DeleteDir(s)
            \/ Sweeper \/ Age \/ NotFound \/ UNCHANGED vars
  <2>1. UNCHANGED <<linkable, files, content, restore>>
    BY Zenon, <1>10 DEF BeginCapture, walk_and_hash, WriteManifest, InsertRow, FailCapture, DeleteRow,
                 DeleteDir, Sweeper, run_once, SweepDir, SweepRow, Age, NotFound, disk, vars
  <2> QED BY Zenon, <2>1, QuietRestores
<1> QED
  BY Zenon, <1>1, <1>2, <1>3, <1>4, <1>5, <1>6, <1>7, <1>8, <1>9, <1>10 DEF Next

\* At the start nothing is restored and there is no file.
LEMMA InitRInv == Init => RInv
BY Empties DEF Init, RInv, FilesApart, RestoresTaken, Placed, PlacedAt, NoFiles

\* Where restores copy, a restore that has put its last entry in place leaves the files of
\* the manifest and nothing else, for every target and whatever captures, deletes, sweeps,
\* collections, writes of other jails and restarts ran beside it (restore_snapshot,
\* restore_incremental).
THEOREM RestoresAreExact == Spec => []RestoreExact
<1>1. IInv /\ RInv => RestoreExact
  <2> SUFFICES ASSUME IInv, RInv, NEW d \in Dirs, Restored(d), ~linkable, Whole(restore[d].snap)
               PROVE  ReadsDir(d) = snapDir[restore[d].snap].entries
    BY Zenon DEF RestoreExact
  <2>1. restore[d].at = "link" /\ \A p \in Paths : restore[d].todo[p] = None
    BY Zenon DEF Restored, NoFiles
  <2>2. snapDir[restore[d].snap].entries \in Tree
    BY Zenon, <2>1 DEF IInv, Shapes, SnapDir
  <2>3. \A p \in Paths : Reads(files[d][p]) = snapDir[restore[d].snap].entries[p]
    BY Zenon, <2>1 DEF RInv, Placed, PlacedAt, Reads
  <2> QED BY Zenon, <2>2, <2>3 DEF ReadsDir, Tree
<1>2. Spec => []RInv BY InitRInv, StepRInv, PoolInvariant, PTL DEF Spec
<1> QED BY <1>1, <1>2, PoolInvariant, PTL

-----------------------------------------------------------------------------
(* What the sweeper may take *)

\* Past max_age_secs, or followed by max_count younger snapshots.
Sweepable(s) ==
    \/ TooOld(s)
    \/ \E k \in 1..Len(born) : born[k] = s /\ Len(born) - k >= MaxCount

\* Ids are inserted once, at the end of their capture, and the rows are among them.
BornInv ==
    /\ born \in Seq(Snaps) /\ aged \in 0..Len(born)
    /\ \A k \in 1..Len(born) : capture[born[k]].at = "over"
    /\ \A j, k \in 1..Len(born) : born[j] = born[k] => j = k
    /\ \A s \in rows : \E k \in 1..Len(born) : born[k] = s

\* What a sweep has on its list stays sweepable, and it works on a member of the list.
SweepInv ==
    /\ sweep \in [at : {"idle", "unlink", "rmdir", "row"}, todo : SUBSET Snaps,
                  cur : Snaps \cup {None}]
    /\ sweep.at \in {"rmdir", "row"} => sweep.cur \in sweep.todo
    /\ \A s \in sweep.todo : Sweepable(s)

\* Workspaces and deletes.
MiscInv ==
    /\ linkable \in BOOLEAN /\ live \subseteq Dirs
    /\ delete \in [Snaps -> {"idle", "unlink", "rmdir"}]

SInv == BornInv /\ SweepInv /\ MiscInv

\* What a step may do to the history of rows: nothing, add the row of a capture that ends,
\* or age.
LEMMA HistoryGrows ==
    ASSUME Shapes, [Next]_vars
    PROVE  \/ UNCHANGED <<born, aged>> /\ rows' \subseteq rows
           \/ \E s \in Snaps : capture[s].at = "insert" /\ capture'[s].at = "over"
                              /\ born' = Append(born, s) /\ aged' = aged /\ rows' = rows \cup {s}
           \/ aged < Len(born) /\ aged' = aged + 1 /\ born' = born /\ rows' = rows
<1>1. ASSUME NEW s \in Snaps, InsertRow(s)
      PROVE  /\ capture[s].at = "insert" /\ capture'[s].at = "over"
             /\ born' = Append(born, s) /\ aged' = aged /\ rows' = rows \cup {s}
  BY Zenon, <1>1, Empties DEF InsertRow, Shapes
<1>2. ASSUME NEW s \in Snaps,
             \/ \E d \in Dirs : BeginCapture(s, d) \/ BeginRestore(d, s)
             \/ walk_and_hash(s) \/ hash_into_pool(s) \/ WriteManifest(s) \/ FailCapture(s)
             \/ DeleteRow(s) \/ DeleteDir(s)
      PROVE  UNCHANGED <<born, aged>> /\ rows' \subseteq rows
  BY Zenon, <1>2 DEF BeginCapture, BeginRestore, walk_and_hash, hash_into_pool, WriteManifest,
              FailCapture, DeleteRow, DeleteDir, store
<1>3. ASSUME NEW d \in Dirs, restore_snapshot(d) \/ restore_incremental(d) \/ FinishRestore(d)
                             \/ FailRestore(d) \/ JailWrite(d)
      PROVE  UNCHANGED <<born, aged>> /\ rows' \subseteq rows
  BY Zenon, <1>3 DEF restore_snapshot, restore_incremental, FinishRestore, FailRestore, JailWrite, store
<1>4. CASE Sweeper \/ gc_objects_pool \/ Restart \/ NotFound \/ UNCHANGED vars
  BY Zenon, <1>4 DEF Sweeper, run_once, SweepDir, SweepRow, gc_objects_pool, Restart, NotFound, store, vars
<1>5. CASE Age BY Zenon, <1>5 DEF Age
<1> QED BY Zenon, <1>1, <1>2, <1>3, <1>4, <1>5 DEF Next

\* The history has each id once, and what was sweepable stays so.
LEMMA StepBorn ==
    ASSUME IInv, BornInv, [Next]_vars
    PROVE  BornInv' /\ \A s : Sweepable(s) => Sweepable(s)'
<1>1. /\ born \in Seq(Snaps) /\ aged \in 0..Len(born) /\ Len(born) \in Nat
      /\ \A k \in 1..Len(born) : born[k] \in Snaps
  BY DEF BornInv
<1>2. \A s \in Snaps : capture[s].at = "over" => capture'[s].at = "over" BY Zenon, OverStays
<1>3. CASE UNCHANGED <<born, aged>> /\ rows' \subseteq rows
  BY Zenon, <1>1, <1>2, <1>3 DEF BornInv, Sweepable, TooOld
<1>4. CASE aged < Len(born) /\ aged' = aged + 1 /\ born' = born /\ rows' = rows
  BY <1>1, <1>2, <1>4 DEF BornInv, Sweepable, TooOld
<1>5. ASSUME NEW s \in Snaps, capture[s].at = "insert", capture'[s].at = "over",
             born' = Append(born, s), aged' = aged, rows' = rows \cup {s}
      PROVE  BornInv' /\ \A r : Sweepable(r) => Sweepable(r)'
  <2>1. /\ born' \in Seq(Snaps) /\ Len(born') = Len(born) + 1
        /\ \A k \in 1..Len(born) : born'[k] = born[k]
        /\ born'[Len(born) + 1] = s
    BY <1>1, <1>5
  <2>2. \A k \in 1..Len(born) : born[k] # s BY Zenon, <1>5 DEF BornInv
  <2>3. \A k \in 1..Len(born') : k \in 1..Len(born) \/ k = Len(born) + 1 BY <1>1, <2>1
  <2>4. aged' \in 0..Len(born') BY <1>1, <1>5, <2>1
  <2>5. \A k \in 1..Len(born') : capture'[born'[k]].at = "over"
    BY <1>1, <1>2, <1>5, <2>1, <2>3 DEF BornInv
  <2>6. \A j, k \in 1..Len(born') : born'[j] = born'[k] => j = k
    BY <2>1, <2>2, <2>3 DEF BornInv
  <2>7. \A r \in rows' : \E k \in 1..Len(born') : born'[k] = r
    <3>1. 1..Len(born) \subseteq 1..Len(born') /\ Len(born) + 1 \in 1..Len(born')
      BY <1>1, <2>1
    <3> QED BY <1>5, <2>1, <3>1 DEF BornInv
  <2>8. ASSUME NEW r, Sweepable(r) PROVE Sweepable(r)'
    <3>1. CASE TooOld(r)
      <4>1. 1..aged \subseteq 1..Len(born) BY <1>1
      <4> QED BY Zenon, <1>5, <2>1, <3>1, <4>1 DEF TooOld, Sweepable
    <3>2. ASSUME NEW k \in 1..Len(born), born[k] = r, Len(born) - k >= MaxCount PROVE Sweepable(r)'
      <4>1. k \in 1..Len(born') /\ born'[k] = r BY <1>1, <2>1, <3>2
      <4>2. Len(born') - k >= MaxCount BY <1>1, <2>1, <3>2, PoolAssumption
      <4> QED BY Zenon, <4>1, <4>2 DEF Sweepable
    <3> QED BY Zenon, <2>8, <3>1, <3>2 DEF Sweepable
  <2> QED BY Zenon, <2>1, <2>4, <2>5, <2>6, <2>7, <2>8 DEF BornInv
<1> QED BY Zenon, <1>3, <1>4, <1>5, HistoryGrows DEF IInv

\* The younger rows of a snapshot were inserted after it, so there are no more of them
\* than insertions since.
LEMMA YoungerBound ==
    ASSUME BornInv, NEW k \in 1..Len(born)
    PROVE  Cardinality(Younger(born[k])) \in Nat /\ Cardinality(Younger(born[k])) <= Len(born) - k
<1> DEFINE L == Len(born)
           I == (k + 1)..L
           R == {born[j] : j \in I}
           f == [j \in I |-> born[j]]
<1>1. L \in Nat /\ k \in Nat /\ k <= L BY DEF BornInv
<1>2. IsFiniteSet(I) /\ Cardinality(I) = L - k
  <2>1. k + 1 \in Int /\ L \in Int BY <1>1
  <2>2. IsFiniteSet(I) /\ Cardinality(I) = IF k + 1 > L THEN 0 ELSE L - (k + 1) + 1
    BY Zenon, <2>1, FS_Interval
  <2> QED BY <1>1, <2>2
<1>3. f \in Surjection(I, R) BY Zenon DEF Surjection
<1>4. IsFiniteSet(R) /\ Cardinality(R) <= Cardinality(I)
  <2> HIDE DEF I, R, f
  <2> QED BY Zenon, <1>2, <1>3, FS_Surjection
<1>5. Younger(born[k]) \subseteq R
  <2> SUFFICES ASSUME NEW r \in Younger(born[k]) PROVE r \in R BY Zenon
  <2>1. PICK i, j \in 1..L : i < j /\ born[i] = born[k] /\ born[j] = r BY Zenon DEF Younger
  <2>2. i = k BY Zenon, <2>1 DEF BornInv
  <2>3. j \in I BY <1>1, <2>1, <2>2
  <2> QED BY Zenon, <2>1, <2>3
<1>6. /\ IsFiniteSet(Younger(born[k])) /\ Cardinality(Younger(born[k])) <= Cardinality(R)
  <2> HIDE DEF R
  <2> QED BY Zenon, <1>4, <1>5, FS_Subset
<1>7. Cardinality(R) \in Nat /\ Cardinality(Younger(born[k])) \in Nat
  <2> HIDE DEF R
  <2> QED BY Zenon, <1>4, <1>6, FS_CardinalityType
<1> QED BY <1>1, <1>2, <1>4, <1>6, <1>7

\* What gc::run_once lists is sweepable.
LEMMA ListedSweepable ==
    ASSUME BornInv, NEW s, s \in {r \in Listed : TooOld(r)} \cup Surplus
    PROVE  s \in rows /\ Sweepable(s)
<1>1. s \in rows BY Zenon DEF Listed, Surplus
<1>2. CASE TooOld(s) BY Zenon, <1>1, <1>2 DEF Sweepable
<1>3. CASE Cardinality(Younger(s)) >= MaxCount
  <2>1. PICK k \in 1..Len(born) : born[k] = s BY Zenon, <1>1 DEF BornInv
  <2>2. Cardinality(Younger(s)) \in Nat /\ Cardinality(Younger(s)) <= Len(born) - k
    BY Zenon, <2>1, YoungerBound
  <2>3. Len(born) \in Nat /\ k \in Nat BY DEF BornInv
  <2>4. Len(born) - k >= MaxCount BY <1>3, <2>2, <2>3, PoolAssumption
  <2> QED BY Zenon, <1>1, <2>1, <2>4 DEF Sweepable
<1> QED BY Zenon, <1>2, <1>3 DEF Surplus

\* The sweep works on its list, which only shrinks.
LEMMA StepSweep ==
    ASSUME IInv, BornInv, SweepInv, [Next]_vars PROVE SweepInv'
<1>1. BornInv' /\ \A s : Sweepable(s) => Sweepable(s)' BY Zenon, StepBorn
<1>2. CASE sweep' = sweep BY Zenon, <1>1, <1>2 DEF SweepInv
<1>3. CASE run_once
  <2>1. /\ sweep' = [at |-> "unlink", cur |-> None,
                     todo |-> {r \in Listed : TooOld(r)} \cup Surplus]
    BY Zenon, <1>3 DEF run_once
  <2>2. \A s \in sweep'.todo : s \in rows /\ Sweepable(s) BY Zenon, <2>1, ListedSweepable
  <2>3. sweep'.at = "unlink" BY Zenon, <2>1
  <2>4. rows \subseteq Snaps BY Zenon DEF IInv, RowsTaken
  <2>5. sweep' \in [at : {"idle", "unlink", "rmdir", "row"}, todo : SUBSET Snaps,
                    cur : Snaps \cup {None}]
    BY Zenon, <2>1, <2>2, <2>4
  <2> QED BY Zenon, <1>1, <2>2, <2>3, <2>5 DEF SweepInv
<1>4. CASE SweepDir
  <2>1. \E s \in sweep.todo, at \in {"rmdir", "row"} :
          \/ sweep' = [sweep EXCEPT !.at = at, !.cur = s]
          \/ sweep' = [sweep EXCEPT !.at = at] /\ s = sweep.cur
    BY Zenon, <1>4 DEF SweepDir, SweepInv
  <2>2. /\ sweep'.todo = sweep.todo /\ sweep'.at \in {"rmdir", "row"}
        /\ sweep'.cur \in sweep.todo
        /\ sweep' \in [at : {"idle", "unlink", "rmdir", "row"}, todo : SUBSET Snaps,
                       cur : Snaps \cup {None}]
    BY Zenon, <2>1 DEF SweepInv
  <2> QED BY Zenon, <1>1, <2>2 DEF SweepInv
<1>5. CASE SweepRow
  <2>1. /\ sweep'.todo \subseteq sweep.todo /\ sweep'.at \in {"idle", "unlink"}
        /\ sweep' \in [at : {"idle", "unlink", "rmdir", "row"}, todo : SUBSET Snaps,
                       cur : Snaps \cup {None}]
    BY Zenon, <1>5 DEF SweepRow, SweepInv, NoSweep
  <2> QED BY Zenon, <1>1, <2>1 DEF SweepInv
<1>6. CASE Restart
  <2>1. sweep' = [at |-> "idle", todo |-> {}, cur |-> None] BY Zenon, <1>6 DEF Restart, NoSweep
  <2> QED BY Zenon, <2>1 DEF SweepInv
<1>7. sweep' = sweep \/ run_once \/ SweepDir \/ SweepRow \/ Restart
  BY Zenon DEF Next, BeginCapture, BeginRestore, walk_and_hash, hash_into_pool, WriteManifest,
         InsertRow, FailCapture, DeleteRow, DeleteDir, restore_snapshot,
         restore_incremental, FinishRestore, FailRestore, JailWrite, Sweeper, Age,
         gc_objects_pool, NotFound, vars
<1> QED BY Zenon, <1>2, <1>3, <1>4, <1>5, <1>6, <1>7

\* Workspaces come and stay, deletes go from stage to stage.
LEMMA StepMisc ==
    ASSUME MiscInv, [Next]_vars PROVE MiscInv'
<1>1. linkable' = linkable
  BY Zenon DEF Next, BeginCapture, BeginRestore, walk_and_hash, hash_into_pool, WriteManifest,
         InsertRow, FailCapture, DeleteRow, DeleteDir, restore_snapshot,
         restore_incremental, FinishRestore, FailRestore, JailWrite, Sweeper, run_once,
         SweepDir, SweepRow, Age, gc_objects_pool, Restart, NotFound, vars
<1>2. live' = live \/ \E d \in Dirs : live' = live \cup {d}
  BY Zenon DEF Next, BeginCapture, BeginRestore, walk_and_hash, hash_into_pool, WriteManifest,
         InsertRow, FailCapture, DeleteRow, DeleteDir, restore_snapshot,
         restore_incremental, FinishRestore, FailRestore, JailWrite, Sweeper, run_once,
         SweepDir, SweepRow, Age, gc_objects_pool, Restart, NotFound, vars
<1>3. \/ delete' = delete \/ delete' = [s \in Snaps |-> "idle"]
      \/ \E s \in Snaps, at \in {"idle", "unlink", "rmdir"} : delete' = [delete EXCEPT ![s] = at]
  BY Zenon DEF Next, BeginCapture, BeginRestore, walk_and_hash, hash_into_pool, WriteManifest,
         InsertRow, FailCapture, DeleteRow, DeleteDir, restore_snapshot,
         restore_incremental, FinishRestore, FailRestore, JailWrite, Sweeper, run_once,
         SweepDir, SweepRow, Age, gc_objects_pool, Restart, NotFound, vars
<1> QED BY Zenon, <1>1, <1>2, <1>3 DEF MiscInv

\* Nothing is inserted, listed or deleted at the start.
LEMMA InitSInv == Init => SInv
<1> SUFFICES ASSUME Init PROVE SInv BY Zenon
<1>1. BornInv
  <2>1. born = <<>> /\ aged = 0 /\ rows = {} BY Zenon DEF Init
  <2>2. born \in Seq(Snaps) /\ Len(born) = 0 BY <2>1
  <2> QED BY <2>1, <2>2 DEF BornInv
<1>2. SweepInv BY Zenon DEF Init, SweepInv, NoSweep
<1>3. MiscInv BY Zenon, PoolAssumption DEF Init, MiscInv
<1> QED BY Zenon, <1>1, <1>2, <1>3 DEF SInv

\* The invariant of rows, sweeps and deletes.
LEMMA SweepInvariant == Spec => []SInv
<1>1. IInv /\ SInv /\ [Next]_vars => SInv' BY Zenon, StepBorn, StepSweep, StepMisc DEF SInv
<1> QED BY InitSInv, <1>1, PoolInvariant, PTL DEF Spec

\* The sweeper removes a row only if max_count snapshots were taken since or it is past
\* max_age_secs, although it works through a list that captures, deletes and failed
\* removals have made stale, and although a page may not show it every row (gc::run_once).
THEOREM SweepsSpareTheNewest == Spec => SweepsSpareNewest
<1>1. SInv /\ [Next]_vars =>
        [sweep.at = "row" /\ rows' # rows /\ sweep' # sweep =>
            \/ TooOld(sweep.cur)
            \/ \E k \in 1..Len(born) : born[k] = sweep.cur /\ Len(born) - k >= MaxCount]_vars
  BY Zenon DEF SInv, SweepInv, Sweepable
<1> QED BY SweepInvariant, <1>1, PTL DEF Spec, SweepsSpareNewest

\* Every variable keeps its type, every name on disk points to an inode in use, and a row's
\* id was inserted once (SnapshotStore::insert, hash_into_pool, restore_incremental).
THEOREM PoolTypes == Spec => []TypeOK
<1>1. ASSUME IInv, SInv PROVE TypeOK
  <2>1. /\ linkable \in BOOLEAN /\ live \subseteq Dirs
        /\ \A s \in Snaps : delete[s] \in {"idle", "unlink", "rmdir"}
        /\ sweep.at \in {"idle", "unlink", "rmdir", "row"} /\ sweep.todo \subseteq Snaps
    BY Zenon, <1>1 DEF SInv, MiscInv, SweepInv
  <2>2. /\ content \in [Inodes -> Contents \cup {None}]
        /\ \A d \in Dirs, p \in Paths : files[d][p] # None => content[files[d][p]] \in Contents
        /\ \A h \in Contents : pool[h] # None => content[pool[h]] \in Contents
    BY <1>1 DEF IInv, Shapes, InUse, Hashes, Names
  <2>3. \A s \in Snaps : /\ snapDir[s].is \in {"gone", "bare", "whole"}
                         /\ snapDir[s].entries \in [Paths -> Contents \cup {None}]
    BY Zenon, <1>1 DEF IInv, Shapes, SnapDir, Tree, Hashes
  <2>4. DOMAIN born = 1..Len(born) BY <1>1 DEF SInv, BornInv
  <2>5. rows \subseteq Range(born) /\ IsInjective(born)
    BY Zenon, <1>1, <2>4 DEF SInv, BornInv, Range, IsInjective
  <2> QED BY Zenon, <2>1, <2>2, <2>3, <2>5 DEF TypeOK
<1> QED BY <1>1, PoolInvariant, SweepInvariant, PTL
=============================================================================
