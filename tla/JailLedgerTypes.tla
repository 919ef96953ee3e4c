--------------------------- MODULE JailLedgerTypes --------------------------
(* The shape of JailLedger's state and the kinds of its steps, for every    *)
(* workload, either ledger, every number of permits and every capacity of   *)
(* the ring.  A step of a handler is first shown to be of one of a few      *)
(* kinds: it works, starts a row or ends one.                               *)
EXTENDS JailLedger, TLAPS

Places == {"idle", "prepare", "start", "spawn", "settle", "fork", "clone", "children",
           "monitor", "stream", "reap", "record", "stragglers"}
JailStates == {"off", "up", "gone", "swept", "done", "failed"}
ForkStates == [clones : 0..MaxRows, read : Seq(0..MaxLines), writes : 0..MaxLines,
               freezer : {"off", "asked", "on"}, was_frozen : BOOLEAN]

\* The clone being made holds one version of the parent's output when the
\* freeze was reported as done: the freezer is on, so the version is current.
CloneShaped(at, f) ==
    /\ at \notin {"settle", "fork", "clone"} => f = NoFork
    /\ at \in {"settle", "fork"} => f.read = <<>>
    /\ at = "clone" /\ f.was_frozen =>
          f.freezer = "on" /\ \A i \in DOMAIN f.read : f.read[i] = f.writes

\* A handler's rows and jails at each of its places.
RowsShaped(h) ==
    /\ h.at \in {"idle", "prepare", "start"} => h.recs = <<>>
    /\ h.at \in {"spawn", "settle", "fork", "clone", "stream", "reap"} => Len(h.recs) = 1
    /\ h.at = "children" => Len(h.recs) \in 1..h.kids
    /\ h.at \in {"monitor", "record"} =>
          Len(h.recs) = IF h.kind = "fork" THEN h.kids + 1 ELSE 1
    /\ h.at = "stragglers" => Len(h.recs) \in 1..(h.kids + 1)
    /\ h.at \notin {"record", "stragglers"} => h.ended = 0
    /\ h.at = "record" => h.ended < Len(h.recs)
    /\ h.ended <= Len(h.recs)

JailsShaped(h) ==
    /\ h.at \in {"idle", "prepare", "spawn", "stragglers"} => h.jails = <<>>
    /\ h.at = "start" => h.jails = IF h.kind = "stream" THEN <<"up">> ELSE <<>>
    /\ h.at \in {"settle", "fork", "clone", "stream", "reap"} => h.jails = <<"up">>
    /\ h.at \in {"children", "monitor", "record"} => Len(h.jails) = Len(h.recs)
    /\ h.at = "children" => h.jails[1] = "up"
    /\ h.at = "monitor" /\ h.kind = "fork" => h.jails[1] \in {"up", "gone"}
    /\ h.at = "record" => \A k \in DOMAIN h.jails : h.jails[k] \in {"gone", "done", "failed"}

KindShaped(h) ==
    /\ h.kind = "fork" => h.kids > 0 /\ h.kids < MaxRows
    /\ h.at \in {"spawn", "settle", "fork", "clone", "children", "stragglers"} => h.kind = "fork"
    /\ h.at \in {"settle", "fork", "clone"} => h.fork.clones < h.kids
    /\ h.at \in {"stream", "reap"} => h.kind = "stream"
    /\ h.at = "monitor" => h.kind # "stream"

Shaped(h) ==
    /\ h \in Handlers
    /\ CloneShaped(h.at, h.fork) /\ RowsShaped(h) /\ JailsShaped(h) /\ KindShaped(h)

\* A request that has not arrived.
Fresh(h) ==
    /\ h \in Handlers /\ h = Request(h.kind, h.repos, h.kids)
    /\ h.kind = "fork" => h.kids > 0 /\ h.kids < MaxRows

Rows == [Ids -> JailRecord \cup {Absent}]

Typed ==
    /\ backend \in Backends
    /\ rows \in Rows
    /\ next_id \in 1..(MaxRows + 1)
    /\ todo \in Seq(Handlers) /\ \A i \in DOMAIN todo : Fresh(todo[i])
    /\ req \in Seq(Handlers) /\ \A r \in Requests : Shaped(req[r])
    /\ buf \in [Ids -> 0..MaxLines]
    /\ samplers \subseteq Ids /\ flushers \subseteq Ids
    /\ samples \subseteq Ids
    /\ tails \subseteq Ids \X (0..MaxLines)
    /\ orphans \subseteq Ids
-----------------------------------------------------------------------------
(* Sequences *)

\* Replacing an element.
LEMMA Replaced ==
    ASSUME NEW S, NEW s \in Seq(S), NEW k \in DOMAIN s, NEW x \in S
    PROVE  /\ [s EXCEPT ![k] = x] \in Seq(S)
           /\ Len([s EXCEPT ![k] = x]) = Len(s)
           /\ DOMAIN [s EXCEPT ![k] = x] = DOMAIN s
           /\ [s EXCEPT ![k] = x][k] = x
           /\ \A j \in DOMAIN s : j # k => [s EXCEPT ![k] = x][j] = s[j]
OBVIOUS

\* Adding one at the end.
LEMMA Appended ==
    ASSUME NEW S, NEW s \in Seq(S), NEW x \in S
    PROVE  /\ Append(s, x) \in Seq(S)
           /\ Len(Append(s, x)) = Len(s) + 1
           /\ DOMAIN Append(s, x) = 1..(Len(s) + 1)
           /\ Append(s, x)[Len(s) + 1] = x
           /\ \A j \in DOMAIN s : Append(s, x)[j] = s[j]
OBVIOUS

\* The rest of a sequence.
LEMMA Rest ==
    ASSUME NEW S, NEW s \in Seq(S), s # <<>>
    PROVE  /\ Head(s) \in S /\ Head(s) = s[1] /\ 1 \in DOMAIN s
           /\ Tail(s) \in Seq(S)
           /\ \A i \in DOMAIN Tail(s) : i + 1 \in DOMAIN s /\ Tail(s)[i] = s[i + 1]
OBVIOUS
-----------------------------------------------------------------------------
(* The kinds of steps a handler takes *)

Mon(h, k) == h.kind \in {"run", "exec"} \/ (h.kind = "fork" /\ k > 1)

\* Where the k-th row of a handler may have a sampler, and a flush task.
Sampled(h, k) ==
    \/ h.at \in {"stream", "stragglers"}
    \/ h.at \in {"settle", "fork", "clone", "children"} /\ k = 1
    \/ h.at = "monitor" /\ (Mon(h, k) => h.jails[k] \in {"up", "gone"})
Flushed(h, k) == h.at = "monitor" /\ Mon(h, k) /\ h.jails[k] \in {"up", "gone"}

Moves(r, h) == Shaped(h) /\ req' = [req EXCEPT ![r] = h]

\* A write that a detached task or a last tail may make.
LiveWrite ==
    /\ rows' \in Rows
    /\ \A j \in Ids :
          /\ rows'[j] = Absent <=> rows[j] = Absent
          /\ rows[j] # Absent => rows'[j].status = rows[j].status
          /\ Pg /\ rows[j] # Absent /\ rows[j].status = "completed" => rows'[j] = rows[j]

\* Tasks are spawned for rows the handler is still to end, and where it goes
\* admits those that are left.
TasksFit(r, h) ==
    /\ samplers' \subseteq Ids /\ flushers' \subseteq Ids /\ samples' \subseteq Ids
    /\ tails' \subseteq Ids \X (0..MaxLines)
    /\ \A id \in (samplers' \ samplers) \cup (flushers' \ flushers) :
          \E k \in DOMAIN h.recs : k > h.ended /\ h.recs[k] = id
    /\ \A k \in DOMAIN h.recs :
          \/ \E j \in DOMAIN h.recs : j # k /\ h.recs[j] = h.recs[k]
          \/ /\ h.recs[k] \in samplers' =>
                   Sampled(h, k) \/ (h.recs[k] \in samplers /\ ~Sampled(req[r], k))
             /\ h.recs[k] \in flushers' =>
                   Flushed(h, k) \/ (h.recs[k] \in flushers /\ ~Flushed(req[r], k))

Works(r, h) ==
    /\ Moves(r, h) /\ h.recs = req[r].recs /\ h.ended = req[r].ended
    /\ LiveWrite /\ TasksFit(r, h)
    /\ UNCHANGED <<backend, todo, next_id, buf, orphans>>

RowStarted(id) ==
    \/ id = NoRow /\ Pg /\ UNCHANGED <<rows, next_id>>
    \/ /\ id = next_id /\ id \in Ids /\ next_id' = next_id + 1
       /\ rows' \in Rows /\ rows'[id] = new_running
       /\ \A j \in Ids \ {id} : rows'[j] \in {rows[j], Absent}
       /\ ~Pg => rows' = mem_start

Starts(r, h, id) ==
    /\ Moves(r, h) /\ h.recs = Append(req[r].recs, id) /\ h.ended = 0 /\ req[r].ended = 0
    /\ id \in Ids \cup {NoRow} /\ RowStarted(id) /\ TasksFit(r, h)
    /\ UNCHANGED <<backend, todo, buf, orphans>>

RowEnded(r, id) ==
    \/ rows' = mem_finish(id) /\ At(r, "record") /\ UNCHANGED orphans
    \/ rows' = mem_error(id) /\ UNCHANGED orphans
    \/ rows' = rows /\ orphans' = orphans \cup ({id} \cap Ids)

Ends(r, h) ==
    /\ Moves(r, h) /\ req[r].at \in {"record", "stragglers"} /\ TasksFit(r, h)
    /\ \/ /\ req[r].ended + 1 \in DOMAIN req[r].recs
          /\ RowEnded(r, req[r].recs[req[r].ended + 1])
          /\ \/ h.recs = req[r].recs /\ h.ended = req[r].ended + 1
             \/ h.recs = <<>> /\ Len(req[r].recs) = req[r].ended + 1
       \/ h.recs = <<>> /\ Len(req[r].recs) = req[r].ended /\ UNCHANGED <<rows, orphans>>
    /\ UNCHANGED <<backend, todo, next_id, buf, tasks>>
-----------------------------------------------------------------------------
(* Each kind keeps the shape of the state *)

\* Where a handler goes, its shape is right; the others are as they were.
LEMMA MovesTyped ==
    ASSUME Typed, NEW r \in Requests, NEW h, Moves(r, h)
    PROVE  /\ req' \in Seq(Handlers) /\ DOMAIN req' = Requests
           /\ req'[r] = h /\ \A s \in Requests : s # r => req'[s] = req[s]
           /\ \A s \in DOMAIN req' : Shaped(req'[s])
<1>1. h \in Handlers /\ req \in Seq(Handlers) /\ r \in DOMAIN req
  BY Zenon DEF Moves, Shaped, Typed, Requests
<1>2. /\ req' \in Seq(Handlers) /\ DOMAIN req' = DOMAIN req
      /\ req'[r] = h /\ \A s \in DOMAIN req : s # r => req'[s] = req[s]
  BY Zenon, <1>1, Replaced DEF Moves
<1>. QED  BY Zenon, <1>2 DEF Typed, Moves, Requests

LEMMA WorksTyped ==
    ASSUME Typed, NEW r \in Requests, NEW h, Works(r, h)
    PROVE  Typed'
<1>1. /\ req' \in Seq(Handlers)
      /\ \A s \in DOMAIN req' : Shaped(req'[s])
  BY Zenon, MovesTyped DEF Works
<1>. QED  BY Zenon, <1>1 DEF Typed, Works, LiveWrite, TasksFit, Requests

LEMMA StartsTyped ==
    ASSUME Typed, NEW r \in Requests, NEW h, NEW id, Starts(r, h, id)
    PROVE  Typed'
<1>1. /\ req' \in Seq(Handlers)
      /\ \A s \in DOMAIN req' : Shaped(req'[s])
  BY Zenon, MovesTyped DEF Starts
<1>2. rows' \in Rows /\ next_id' \in 1..(MaxRows + 1)
  BY LedgerAssumption DEF Starts, RowStarted, Typed, Ids
<1>. QED  BY Zenon, <1>1, <1>2 DEF Typed, Starts, TasksFit, Requests

\* An update of a row by a record of its type.
LEMMA UpdateTyped ==
    ASSUME rows \in Rows, NEW id, NEW row, Present(id) => row \in JailRecord
    PROVE  /\ Update(id, row) \in Rows
           /\ \A j \in Ids : Update(id, row)[j] = IF j = id /\ Present(id) THEN row ELSE rows[j]
BY Zenon DEF Update, Rows, Present

\* A row that is present is a record of the ledger.
LEMMA PresentRow ==
    ASSUME rows \in Rows, NEW id, Present(id)
    PROVE  id \in Ids /\ rows[id] \in JailRecord /\ rows[id] # Absent
BY Zenon DEF Present, Rows

\* What the store's statements make of a row.
Completed(id) == [status |-> "completed", stats |-> "final", out |-> buf[id]]
Errored(row) == [row EXCEPT !.status = "error"]
Resampled(row) == [row EXCEPT !.stats = "live"]
Tailed(row, n) == [row EXCEPT !.out = n]

LEMMA RowsOf ==
    ASSUME NEW row \in JailRecord, NEW n \in 0..MaxLines
    PROVE  /\ Errored(row) \in JailRecord /\ Errored(row).status = "error"
           /\ Resampled(row) \in JailRecord /\ Resampled(row).status = row.status
           /\ Tailed(row, n) \in JailRecord /\ Tailed(row, n).status = row.status
BY Zenon DEF JailRecord, Errored, Resampled, Tailed

\* A row of the ledger is not the absent one.
LEMMA RecordPresent ==
    ASSUME NEW row \in JailRecord
    PROVE  row # Absent
BY DEF JailRecord, Absent

LEMMA CompletedRow ==
    ASSUME Typed, NEW id \in Ids
    PROVE  Completed(id) \in JailRecord /\ Completed(id).status = "completed"
BY Zenon DEF Typed, Completed, JailRecord

\* Finishing a row, or marking it as failed.
LEMMA FinishError ==
    ASSUME Typed, NEW id
    PROVE  /\ mem_finish(id) \in Rows /\ mem_error(id) \in Rows
           /\ \A j \in Ids : mem_finish(id)[j] = IF j = id /\ Present(id) THEN Completed(id) ELSE rows[j]
           /\ \A j \in Ids : mem_error(id)[j] = IF j = id /\ Present(id) THEN Errored(rows[id]) ELSE rows[j]
<1>1. mem_finish(id) = Update(id, Completed(id))
  BY Zenon DEF mem_finish, Completed
<1>2. mem_error(id) = Update(id, Errored(rows[id]))
  BY Zenon DEF mem_error, Errored
<1>3. rows \in Rows /\ 0 \in 0..MaxLines
  BY LedgerAssumption DEF Typed
<1>4. Present(id) => Completed(id) \in JailRecord /\ Errored(rows[id]) \in JailRecord
  BY Zenon, <1>3, PresentRow, RowsOf, CompletedRow
<1>. QED  BY <1>1, <1>2, <1>3, <1>4, UpdateTyped

LEMMA EndsTyped ==
    ASSUME Typed, NEW r \in Requests, NEW h, Ends(r, h)
    PROVE  Typed'
<1>1. /\ req' \in Seq(Handlers)
      /\ \A s \in DOMAIN req' : Shaped(req'[s])
  BY Zenon, MovesTyped DEF Ends
<1>2. rows' \in Rows /\ orphans' \subseteq Ids
  BY FinishError DEF Ends, RowEnded, Typed
<1>. QED  BY Zenon, <1>1, <1>2 DEF Typed, Ends, TasksFit, Requests, tasks
-----------------------------------------------------------------------------
(* Every step of a handler is of one of the kinds *)

\* The fields of a handler.
LEMMA Fields ==
    ASSUME NEW h \in Handlers
    PROVE  /\ h.at \in Places /\ h.kind \in Kinds /\ h.repos \in Nat /\ h.kids \in 0..MaxRows
           /\ h.recs \in Seq(Ids \cup {NoRow}) /\ h.jails \in Seq(JailStates)
           /\ h.ended \in 0..MaxRows /\ h.fork \in ForkStates
BY Zenon DEF Handlers, Places, JailStates, ForkStates

LEMMA NoForkTyped == NoFork \in ForkStates
<1>1. <<>> \in Seq(0..MaxLines)
  OBVIOUS
<1>. QED  BY <1>1, LedgerAssumption DEF NoFork, ForkStates

LEMMA IdleShaped == Shaped(Idle) /\ Idle.recs = <<>> /\ Idle.ended = 0 /\ Idle.at = "idle"
<1>1. <<>> \in Seq(Ids \cup {NoRow}) /\ <<>> \in Seq(JailStates) /\ Len(<<>>) = 0
  OBVIOUS
<1>2. Idle \in Handlers
  BY <1>1, NoForkTyped, LedgerAssumption DEF Idle, Request, Handlers, Kinds, JailStates, ForkStates
<1>. QED  BY <1>1, <1>2
         DEF Idle, Request, Shaped, CloneShaped, RowsShaped, JailsShaped, KindShaped

LEMMA Here ==
    ASSUME Typed, NEW r \in Requests
    PROVE  Shaped(req[r]) /\ req[r] \in Handlers
BY Zenon DEF Typed, Requests, Shaped

\* A step that touches nothing but the handler.
LEMMA QuietWorks ==
    ASSUME Typed, NEW r \in Requests, NEW h, Moves(r, h),
           h.recs = req[r].recs, h.ended = req[r].ended,
           \A k \in DOMAIN h.recs : /\ Sampled(req[r], k) => Sampled(h, k)
                                    /\ Flushed(req[r], k) => Flushed(h, k),
           UNCHANGED <<backend, todo, rows, next_id, buf, tasks, orphans>>
    PROVE  Works(r, h)
BY Zenon DEF Typed, Works, LiveWrite, TasksFit, tasks

\* A handler that has no row yet returns.
LEMMA ReturnWorks ==
    ASSUME Typed, NEW r \in Requests, req[r].at = "prepare", Return(r),
           UNCHANGED <<backend, todo, rows, next_id, buf, tasks, orphans>>
    PROVE  Works(r, Idle)
<1>1. req[r].recs = <<>> /\ req[r].ended = 0
  BY Zenon, Here DEF Shaped, RowsShaped
<1>2. Moves(r, Idle)
  BY Zenon, IdleShaped DEF Return, Moves
<1>3. DOMAIN Idle.recs = {}
  BY IdleShaped
<1>. QED  BY Zenon, <1>1, <1>2, <1>3, IdleShaped, QuietWorks

\* The handler with other values of the fields its steps assign.
With(h, at, recs, jails, ended, fork) ==
    [h EXCEPT !.at = at, !.recs = recs, !.jails = jails, !.ended = ended, !.fork = fork]

\* One jail that runs, one that is still to be spawned, or none.
LEMMA UpTyped ==
    <<"up">> \in Seq(JailStates) /\ <<"off">> \in Seq(JailStates) /\ <<>> \in Seq(JailStates)
BY DEF JailStates

LEMMA PrepareToStart ==
    ASSUME Typed, NEW r \in Requests, At(r, "prepare"), req[r].kind # "stream", To(r, "start"),
           UNCHANGED <<backend, todo, rows, next_id, buf, tasks, orphans>>
    PROVE  \E h : Works(r, h)
<1>1. PICK q \in Handlers : q = req[r] /\ Shaped(q)
  BY Zenon, Here
<1>2. q.at = "prepare" /\ q.kind # "stream"
  BY Zenon, <1>1 DEF At
<1> DEFINE h == With(q, "start", q.recs, q.jails, q.ended, q.fork)
<1>3. /\ h \in Handlers /\ h.at = "start" /\ h.kind = q.kind /\ h.kids = q.kids
      /\ h.recs = q.recs /\ h.jails = q.jails /\ h.ended = q.ended /\ h.fork = q.fork
  BY Zenon DEF With, Handlers
<1>4. req' = [req EXCEPT ![r] = h]
  BY Zenon, <1>1 DEF To, With, Handlers
<1>. HIDE DEF h
<1>5. CloneShaped(h.at, h.fork) /\ KindShaped(h)
  BY Zenon, <1>1, <1>2, <1>3 DEF Shaped, CloneShaped, KindShaped
<1>6. RowsShaped(h) /\ h.recs = <<>>
  BY Zenon, <1>1, <1>2, <1>3 DEF Shaped, RowsShaped
<1>7. JailsShaped(h)
  BY Zenon, <1>1, <1>2, <1>3 DEF Shaped, JailsShaped
<1>8. Moves(r, h)
  BY Zenon, <1>3, <1>4, <1>5, <1>6, <1>7 DEF Moves, Shaped
<1>9. DOMAIN h.recs = {}
  BY <1>6
<1>. QED  BY Zenon, <1>1, <1>3, <1>8, <1>9, QuietWorks

LEMMA PrepareExecWorks ==
    ASSUME Typed, NEW r \in Requests, PrepareExec(r)
    PROVE  \E h : Works(r, h)
BY Zenon, ReturnWorks, PrepareToStart DEF PrepareExec, At

LEMMA PrepareRunWorks ==
    ASSUME Typed, NEW r \in Requests, PrepareRun(r)
    PROVE  \E h : Works(r, h)
BY Zenon, ReturnWorks, PrepareToStart DEF PrepareRun, At

LEMMA CloneRepoWorks ==
    ASSUME Typed, NEW r \in Requests, CloneRepo(r)
    PROVE  \E h : Works(r, h)
<1>1. CASE Return(r)
  BY Zenon, <1>1, ReturnWorks DEF CloneRepo, At
<1>2. CASE req' = [req EXCEPT ![r].repos = @ - 1]
  <2>1. PICK q \in Handlers : q = req[r] /\ Shaped(q)
    BY Zenon, Here
  <2>2. q.at = "prepare" /\ q.repos \in Nat /\ q.repos > 0
    BY Zenon, <2>1, Fields DEF CloneRepo, At
  <2> DEFINE h == [q EXCEPT !.repos = q.repos - 1]
  <2>3. /\ h \in Handlers /\ h.at = q.at /\ h.kind = q.kind /\ h.kids = q.kids
        /\ h.recs = q.recs /\ h.jails = q.jails /\ h.ended = q.ended /\ h.fork = q.fork
    <3>1. q.repos - 1 \in Nat
      BY <2>2
    <3>. QED  BY Zenon, <3>1 DEF Handlers
  <2>4. req' = [req EXCEPT ![r] = h]
    BY Zenon, <1>2, <2>1
  <2>. HIDE DEF h
  <2>5. CloneShaped(h.at, h.fork) /\ KindShaped(h)
    BY Zenon, <2>1, <2>2, <2>3 DEF Shaped, CloneShaped, KindShaped
  <2>6. RowsShaped(h) /\ h.recs = <<>>
    BY Zenon, <2>1, <2>2, <2>3 DEF Shaped, RowsShaped
  <2>7. JailsShaped(h)
    BY Zenon, <2>1, <2>2, <2>3 DEF Shaped, JailsShaped
  <2>8. Moves(r, h)
    BY Zenon, <2>3, <2>4, <2>5, <2>6, <2>7 DEF Moves, Shaped
  <2>9. DOMAIN h.recs = {}
    BY <2>6
  <2>. QED  BY Zenon, <2>1, <2>3, <2>8, <2>9, QuietWorks DEF CloneRepo
<1>. QED  BY Zenon, <1>1, <1>2 DEF CloneRepo

LEMMA PrepareStreamWorks ==
    ASSUME Typed, NEW r \in Requests, PrepareStream(r)
    PROVE  \E h : Works(r, h)
<1>1. CASE Return(r)
  BY Zenon, <1>1, ReturnWorks DEF PrepareStream, At
<1>2. CASE req' = [req EXCEPT ![r].at = "start", ![r].jails = <<"up">>]
  <2>1. PICK q \in Handlers : q = req[r] /\ Shaped(q)
    BY Zenon, Here
  <2>2. q.at = "prepare" /\ q.kind = "stream"
    BY Zenon, <2>1 DEF PrepareStream, At
  <2> DEFINE h == With(q, "start", q.recs, <<"up">>, q.ended, q.fork)
  <2>3. /\ h \in Handlers /\ h.at = "start" /\ h.kind = q.kind /\ h.kids = q.kids
        /\ h.recs = q.recs /\ h.jails = <<"up">> /\ h.ended = q.ended /\ h.fork = q.fork
    BY Zenon, UpTyped DEF With, Handlers, JailStates
  <2>4. req' = [req EXCEPT ![r] = h]
    BY ZenonT(30), <1>2, <2>1 DEF With, Handlers
  <2>. HIDE DEF h
  <2>5. CloneShaped(h.at, h.fork) /\ KindShaped(h)
    BY Zenon, <2>1, <2>2, <2>3 DEF Shaped, CloneShaped, KindShaped
  <2>6. RowsShaped(h) /\ h.recs = <<>>
    BY Zenon, <2>1, <2>2, <2>3 DEF Shaped, RowsShaped
  <2>7. JailsShaped(h)
    BY Zenon, <2>1, <2>2, <2>3 DEF Shaped, JailsShaped
  <2>8. Moves(r, h)
    BY Zenon, <2>3, <2>4, <2>5, <2>6, <2>7 DEF Moves, Shaped
  <2>9. DOMAIN h.recs = {}
    BY <2>6
  <2>. QED  BY Zenon, <2>1, <2>3, <2>8, <2>9, QuietWorks DEF PrepareStream
<1>. QED  BY Zenon, <1>1, <1>2 DEF PrepareStream

\* A fork fails before its rows are recorded.
LEMMA FailForkShape ==
    ASSUME Typed, NEW r \in Requests, req[r].at \in {"spawn", "settle", "fork", "clone"}, FailFork(r)
    PROVE  \E h : /\ Moves(r, h) /\ h.recs = req[r].recs /\ h.ended = req[r].ended
                  /\ h.at = "stragglers"
<1>1. PICK q \in Handlers : q = req[r] /\ Shaped(q)
  BY Zenon, Here
<1>2. q.at \in {"spawn", "settle", "fork", "clone"} /\ q.kids \in Nat
  BY <1>1, Fields
<1> DEFINE h == With(q, "stragglers", q.recs, <<>>, q.ended, NoFork)
<1>3. /\ h \in Handlers /\ h.at = "stragglers" /\ h.kind = q.kind /\ h.kids = q.kids
      /\ h.recs = q.recs /\ h.jails = <<>> /\ h.ended = q.ended /\ h.fork = NoFork
  BY Zenon, UpTyped, NoForkTyped DEF With, Handlers, JailStates, ForkStates
<1>4. req' = [req EXCEPT ![r] = h]
  BY ZenonT(30), <1>1 DEF FailFork, With, Handlers
<1>. HIDE DEF h
<1>5. CloneShaped(h.at, h.fork) /\ KindShaped(h)
  BY Zenon, <1>1, <1>2, <1>3 DEF Shaped, CloneShaped, KindShaped
<1>6. RowsShaped(h)
  <2>1. Len(h.recs) = 1 /\ h.ended = 0
    BY Zenon, <1>1, <1>2, <1>3 DEF Shaped, RowsShaped
  <2>. QED  BY <1>2, <1>3, <2>1 DEF RowsShaped
<1>7. JailsShaped(h)
  BY Zenon, <1>1, <1>2, <1>3 DEF Shaped, JailsShaped
<1>. QED  BY Zenon, <1>1, <1>3, <1>4, <1>5, <1>6, <1>7 DEF Moves, Shaped

LEMMA FailForkWorks ==
    ASSUME Typed, NEW r \in Requests, req[r].at \in {"spawn", "settle", "fork", "clone"}, FailFork(r),
           UNCHANGED <<backend, todo, rows, next_id, buf, tasks, orphans>>
    PROVE  \E h : Works(r, h)
<1>1. PICK h : /\ Moves(r, h) /\ h.recs = req[r].recs /\ h.ended = req[r].ended
               /\ h.at = "stragglers"
  BY Zenon, FailForkShape
<1>2. \A k \in DOMAIN h.recs : Sampled(h, k) /\ ~Flushed(req[r], k)
  BY Zenon, <1>1 DEF Sampled, Flushed
<1>. QED  BY Zenon, <1>1, <1>2, QuietWorks

\* A fork's clone goes on.
LEMMA ForkWorks ==
    ASSUME Typed, NEW r \in Requests, req[r].at \in {"settle", "fork", "clone"},
           NEW at \in {"settle", "fork", "clone"}, NEW f \in ForkStates,
           CloneShaped(at, f), f.clones < req[r].kids,
           req' = [req EXCEPT ![r] = With(req[r], at, req[r].recs, req[r].jails, req[r].ended, f)],
           UNCHANGED <<backend, todo, rows, next_id, buf, tasks, orphans>>
    PROVE  \E h : Works(r, h)
<1>1. PICK q \in Handlers : q = req[r] /\ Shaped(q)
  BY Zenon, Here
<1>2. q.at \in {"settle", "fork", "clone"}
  BY Zenon, <1>1
<1> DEFINE h == With(q, at, q.recs, q.jails, q.ended, f)
<1>3. /\ h \in Handlers /\ h.at = at /\ h.kind = q.kind /\ h.kids = q.kids
      /\ h.recs = q.recs /\ h.jails = q.jails /\ h.ended = q.ended /\ h.fork = f
  BY Zenon DEF With, Handlers, ForkStates
<1>4. req' = [req EXCEPT ![r] = h]
  BY Zenon, <1>1
<1>. HIDE DEF h
<1>5. KindShaped(h)
  BY Zenon, <1>1, <1>2, <1>3 DEF Shaped, KindShaped
<1>6. RowsShaped(h)
  <2>1. Len(h.recs) = 1 /\ h.ended = 0
    BY Zenon, <1>1, <1>2, <1>3 DEF Shaped, RowsShaped
  <2>. QED  BY <1>2, <1>3, <2>1 DEF RowsShaped
<1>7. JailsShaped(h)
  BY Zenon, <1>1, <1>2, <1>3 DEF Shaped, JailsShaped
<1>8. Moves(r, h)
  BY Zenon, <1>3, <1>4, <1>5, <1>6, <1>7 DEF Moves, Shaped
<1>9. \A k \in DOMAIN h.recs : Sampled(q, k) => Sampled(h, k)
  BY Zenon, <1>2, <1>3 DEF Sampled
<1>10. \A k \in DOMAIN h.recs : ~Flushed(q, k)
  BY Zenon, <1>2 DEF Flushed
<1>. QED  BY Zenon, <1>1, <1>3, <1>8, <1>9, <1>10, QuietWorks

\* The fields of a clone's state.
LEMMA ForkHere ==
    ASSUME Typed, NEW r \in Requests
    PROVE  /\ req[r].fork \in ForkStates /\ CloneShaped(req[r].at, req[r].fork)
           /\ req[r].at \in {"settle", "fork", "clone"} => req[r].fork.clones < req[r].kids
<1>1. Shaped(req[r]) /\ req[r] \in Handlers
  BY Zenon, Here
<1>. QED  BY Zenon, <1>1, Fields DEF Shaped, KindShaped

\* What Cgroup::freeze reports: success only when the freezer is on.
LEMMA Outcomes ==
    ASSUME NEW f \in {"off", "asked", "on"}, NEW o \in wait_for_frozen(f)
    PROVE  o.freezer \in {"off", "asked", "on"} /\ o.ok \in BOOLEAN /\ (o.ok => o.freezer = "on")
<1>1. CASE o = [freezer |-> "on", ok |-> TRUE]
  BY Zenon, <1>1
<1>2. CASE o = [freezer |-> f, ok |-> FALSE]
  BY Zenon, <1>2
<1>3. CASE o = [freezer |-> IF f = "on" THEN f ELSE "asked", ok |-> FALSE]
  BY Zenon, <1>3
<1>. QED  BY Zenon, <1>1, <1>2, <1>3 DEF wait_for_frozen

LEMMA FreezeWorks ==
    ASSUME Typed, NEW r \in Requests, Freeze(r)
    PROVE  \E h : Works(r, h)
<1>1. CASE FailFork(r)
  BY Zenon, <1>1, FailForkWorks DEF Freeze
<1>2. ASSUME NEW o \in wait_for_frozen(req[r].fork.freezer),
             req' = [req EXCEPT ![r].at = "clone", ![r].fork.freezer = o.freezer,
                                ![r].fork.was_frozen = o.ok]
      PROVE  \E h : Works(r, h)
  <2>1. PICK g \in ForkStates : g = req[r].fork
    BY Zenon, ForkHere
  <2>2. g.read = <<>> /\ g.clones < req[r].kids
    BY Zenon, <2>1, ForkHere DEF Freeze, CloneShaped
  <2>3. o.freezer \in {"off", "asked", "on"} /\ o.ok \in BOOLEAN /\ (o.ok => o.freezer = "on")
    BY Zenon, <1>2, <2>1, Outcomes DEF ForkStates
  <2> DEFINE f == [g EXCEPT !.freezer = o.freezer, !.was_frozen = o.ok]
  <2>4. /\ f \in ForkStates /\ f.read = <<>> /\ f.clones = g.clones
        /\ f.was_frozen = o.ok /\ f.freezer = o.freezer
    BY Zenon, <2>2, <2>3 DEF ForkStates
  <2>5. req' = [req EXCEPT ![r] = With(req[r], "clone", req[r].recs, req[r].jails, req[r].ended, f)]
    BY ZenonT(30), <1>2, <2>1, Here DEF With, Handlers
  <2>. HIDE DEF f
  <2>6. CloneShaped("clone", f)
    BY <2>3, <2>4 DEF CloneShaped
  <2>. QED  BY Zenon, <2>2, <2>4, <2>5, <2>6, ForkWorks DEF Freeze
<1>. QED  BY Zenon, <1>1, <1>2 DEF Freeze

LEMMA cow_cloneWorks ==
    ASSUME Typed, NEW r \in Requests, cow_clone(r)
    PROVE  \E h : Works(r, h)
<1>1. CASE FailFork(r)
  BY Zenon, <1>1, FailForkWorks DEF cow_clone, At
<1>2. CASE req' = [req EXCEPT ![r].fork.read = Append(@, req[r].fork.writes)]
  <2>1. PICK g \in ForkStates : g = req[r].fork
    BY Zenon, ForkHere
  <2>2. /\ CloneShaped("clone", g) /\ g.clones < req[r].kids /\ req[r].at = "clone"
        /\ g.read \in Seq(0..MaxLines) /\ g.writes \in 0..MaxLines
    BY Zenon, <2>1, ForkHere DEF cow_clone, At, ForkStates
  <2> DEFINE s == Append(g.read, g.writes)
             f == [g EXCEPT !.read = s]
  <2>3. s \in Seq(0..MaxLines) /\ \A i \in DOMAIN s : s[i] = g.writes \/ (i \in DOMAIN g.read /\ s[i] = g.read[i])
    BY <2>2
  <2>4. req' = [req EXCEPT ![r] = With(req[r], "clone", req[r].recs, req[r].jails, req[r].ended, f)]
    <3>1. req' = [req EXCEPT ![r] = [req[r] EXCEPT !.fork = f]]
      BY Zenon, <1>2, <2>1
    <3>. HIDE DEF f
    <3>2. [req[r] EXCEPT !.fork = f] = With(req[r], "clone", req[r].recs, req[r].jails, req[r].ended, f)
      BY Zenon, <2>2, Here DEF With, Handlers
    <3>. QED  BY Zenon, <3>1, <3>2
  <2>. HIDE DEF s
  <2>5. /\ f \in ForkStates /\ f.read = s /\ f.clones = g.clones /\ f.writes = g.writes
        /\ f.was_frozen = g.was_frozen /\ f.freezer = g.freezer
    BY Zenon, <2>3 DEF ForkStates
  <2>. HIDE DEF f
  <2>6. CloneShaped("clone", f)
    BY Zenon, <2>2, <2>3, <2>5 DEF CloneShaped
  <2>. QED  BY Zenon, <2>2, <2>4, <2>5, <2>6, ForkWorks DEF cow_clone
<1>. QED  BY Zenon, <1>1, <1>2 DEF cow_clone

LEMMA ParentRunsWorks ==
    ASSUME Typed, NEW r \in Requests, ParentRuns(r)
    PROVE  \E h : Works(r, h)
<1>1. PICK g \in ForkStates : g = req[r].fork
  BY Zenon, ForkHere
<1>2. /\ CloneShaped(req[r].at, g) /\ g.clones < req[r].kids
      /\ req[r].at \in {"settle", "fork", "clone"} /\ g.writes \in 0..MaxLines
  BY Zenon, <1>1, ForkHere DEF ParentRuns, ForkStates
<1>3. CASE /\ g.freezer # "on" /\ g.writes < MaxLines
           /\ req' = [req EXCEPT ![r].fork.writes = @ + 1]
  <2> DEFINE f == [g EXCEPT !.writes = g.writes + 1]
  <2>1. g.writes + 1 \in 0..MaxLines
    BY <1>2, <1>3, LedgerAssumption
  <2>2. /\ f \in ForkStates /\ f.read = g.read /\ f.clones = g.clones
        /\ f.was_frozen = g.was_frozen /\ f.freezer = g.freezer
    BY Zenon, <2>1 DEF ForkStates
  <2>3. req' = [req EXCEPT ![r] = With(req[r], req[r].at, req[r].recs, req[r].jails, req[r].ended, f)]
    BY Zenon, <1>1, <1>3, Here DEF With, Handlers
  <2>. HIDE DEF f
  <2>4. CloneShaped(req[r].at, f)
    BY Zenon, <1>2, <1>3, <2>2 DEF CloneShaped
  <2>. QED  BY Zenon, <1>2, <2>2, <2>3, <2>4, ForkWorks DEF ParentRuns
<1>4. CASE /\ g.freezer = "asked"
           /\ req' = [req EXCEPT ![r].fork.freezer = "on"]
  <2> DEFINE f == [g EXCEPT !.freezer = "on"]
  <2>1. /\ f \in ForkStates /\ f.read = g.read /\ f.clones = g.clones
        /\ f.was_frozen = g.was_frozen /\ f.freezer = "on" /\ f.writes = g.writes
    BY Zenon DEF ForkStates
  <2>2. req' = [req EXCEPT ![r] = With(req[r], req[r].at, req[r].recs, req[r].jails, req[r].ended, f)]
    BY Zenon, <1>1, <1>4, Here DEF With, Handlers
  <2>. HIDE DEF f
  <2>3. CloneShaped(req[r].at, f)
    BY Zenon, <1>2, <1>4, <2>1 DEF CloneShaped
  <2>. QED  BY Zenon, <1>2, <2>1, <2>2, <2>3, ForkWorks DEF ParentRuns
<1>. QED  BY Zenon, <1>1, <1>3, <1>4 DEF ParentRuns

LEMMA LiveForkWorks ==
    ASSUME Typed, NEW r \in Requests, LiveFork(r)
    PROVE  \E h : Works(r, h)
<1>1. PICK g \in ForkStates : g = req[r].fork
  BY Zenon, ForkHere
<1>2. /\ g.clones < req[r].kids /\ req[r].at = "clone" /\ g.clones \in 0..MaxRows
      /\ req[r].kids \in 0..MaxRows
  BY Zenon, <1>1, ForkHere, Here, Fields DEF LiveFork, At, ForkStates
<1>3. PICK fr \in {g.freezer} \cup (IF g.was_frozen THEN {"off"} ELSE {}) :
         req' = IF g.clones + 1 = req[r].kids
                THEN [req EXCEPT ![r].at = "children", ![r].fork = NoFork]
                ELSE [req EXCEPT ![r].at = "fork",
                         ![r].fork = [g EXCEPT !.clones = @ + 1, !.read = <<>>, !.freezer = fr,
                                               !.was_frozen = FALSE]]
  BY Zenon, <1>1 DEF LiveFork
<1>4. CASE g.clones + 1 = req[r].kids
  <2>1. PICK q \in Handlers : q = req[r] /\ Shaped(q)
    BY Zenon, Here
  <2>2. q.at = "clone" /\ q.kids \in Nat /\ q.kids > 0
    BY <1>2, <1>4, <2>1
  <2> DEFINE h == With(q, "children", q.recs, q.jails, q.ended, NoFork)
  <2>3. /\ h \in Handlers /\ h.at = "children" /\ h.kind = q.kind /\ h.kids = q.kids
        /\ h.recs = q.recs /\ h.jails = q.jails /\ h.ended = q.ended /\ h.fork = NoFork
    BY Zenon, NoForkTyped DEF With, Handlers, ForkStates
  <2>4. req' = [req EXCEPT ![r] = h]
    BY ZenonT(30), <1>3, <1>4, <2>1 DEF With, Handlers
  <2>. HIDE DEF h
  <2>5. CloneShaped(h.at, h.fork) /\ KindShaped(h)
    BY Zenon, <2>1, <2>2, <2>3 DEF Shaped, CloneShaped, KindShaped
  <2>6. Len(h.recs) = 1 /\ h.ended = 0 /\ h.jails = <<"up">>
    BY Zenon, <2>1, <2>2, <2>3 DEF Shaped, RowsShaped, JailsShaped
  <2>7. RowsShaped(h)
    BY <2>2, <2>3, <2>6 DEF RowsShaped
  <2>8. JailsShaped(h)
    BY <2>3, <2>6 DEF JailsShaped
  <2>9. Moves(r, h)
    BY Zenon, <2>3, <2>4, <2>5, <2>7, <2>8 DEF Moves, Shaped
  <2>10. \A k \in DOMAIN h.recs : (Sampled(q, k) => Sampled(h, k)) /\ ~Flushed(q, k)
    BY Zenon, <2>2, <2>3 DEF Sampled, Flushed
  <2>. QED  BY Zenon, <2>1, <2>3, <2>9, <2>10, QuietWorks DEF LiveFork
<1>5. CASE g.clones + 1 # req[r].kids
  <2> DEFINE f == [g EXCEPT !.clones = @ + 1, !.read = <<>>, !.freezer = fr, !.was_frozen = FALSE]
  <2>1. fr \in {"off", "asked", "on"} /\ g.clones + 1 < req[r].kids /\ g.clones + 1 \in 0..MaxRows
    BY <1>2, <1>3, <1>5, LedgerAssumption DEF ForkStates
  <2>2. <<>> \in Seq(0..MaxLines)
    OBVIOUS
  <2>3. f \in ForkStates /\ f.read = <<>> /\ f.clones = g.clones + 1
    BY Zenon, <2>1, <2>2 DEF ForkStates
  <2>4. req' = [req EXCEPT ![r].at = "fork", ![r].fork = f]
    BY Zenon, <1>3, <1>5
  <2>. HIDE DEF f
  <2>5. req' = [req EXCEPT ![r] = With(req[r], "fork", req[r].recs, req[r].jails, req[r].ended, f)]
    BY Zenon, <2>4, Here DEF With, Handlers
  <2>6. CloneShaped("fork", f)
    BY Zenon, <2>3 DEF CloneShaped
  <2>. QED  BY Zenon, <1>2, <2>1, <2>3, <2>5, <2>6, ForkWorks DEF LiveFork
<1>. QED  BY Zenon, <1>4, <1>5

\* A jail of a handler that monitors it changes its state.
LEMMA WithJails ==
    ASSUME NEW q \in Handlers, NEW at \in Places, NEW jails \in Seq(JailStates)
    PROVE  LET h == With(q, at, q.recs, jails, q.ended, q.fork)
           IN  /\ h \in Handlers /\ h.at = at /\ h.kind = q.kind /\ h.kids = q.kids
               /\ h.recs = q.recs /\ h.jails = jails /\ h.ended = q.ended /\ h.fork = q.fork
BY Zenon DEF With, Handlers, JailStates, Places

LEMMA JailSet ==
    ASSUME NEW q \in Handlers, Shaped(q), q.at = "monitor", NEW k \in DOMAIN q.jails, NEW x,
           q.kind = "fork" /\ k = 1 => x \in {"up", "gone"},
           NEW js \in Seq(JailStates), Len(js) = Len(q.jails), js[k] = x,
           \A j \in DOMAIN q.jails : j # k => js[j] = q.jails[j]
    PROVE  Shaped(With(q, "monitor", q.recs, js, q.ended, q.fork))
<1> DEFINE h == With(q, "monitor", q.recs, js, q.ended, q.fork)
<1>1. /\ h \in Handlers /\ h.at = "monitor" /\ h.kind = q.kind /\ h.kids = q.kids
      /\ h.recs = q.recs /\ h.jails = js /\ h.ended = q.ended /\ h.fork = q.fork
  BY WithJails DEF Places
<1>. HIDE DEF h
<1>2. CloneShaped(h.at, h.fork) /\ KindShaped(h)
  BY Zenon, <1>1 DEF Shaped, CloneShaped, KindShaped
<1>3. RowsShaped(h)
  <2>1. RowsShaped(q)
    BY Zenon DEF Shaped
  <2>. QED  BY Zenon, <1>1, <2>1 DEF RowsShaped
<1>4. /\ Len(q.jails) = Len(q.recs) /\ (q.kind = "fork" => q.jails[1] \in {"up", "gone"})
      /\ q.jails \in Seq(JailStates)
  BY Zenon, Fields DEF Shaped, JailsShaped
<1>5. q.kind = "fork" => js[1] \in {"up", "gone"}
  <2>1. 1 \in DOMAIN q.jails
    BY <1>4
  <2>. QED  BY Zenon, <1>4, <2>1
<1>6. JailsShaped(h)
  BY Zenon, <1>1, <1>4, <1>5 DEF JailsShaped
<1>. QED  BY Zenon, <1>1, <1>2, <1>3, <1>6 DEF Shaped, h

LEMMA JailShape ==
    ASSUME Typed, NEW r \in Requests, req[r].at = "monitor",
           NEW k, k \in DOMAIN req[r].jails, NEW x \in JailStates,
           req[r].kind = "fork" /\ k = 1 => x \in {"up", "gone"}
    PROVE  LET q  == req[r]
               js == [q.jails EXCEPT ![k] = x]
               h  == With(q, "monitor", q.recs, js, q.ended, q.fork)
           IN  /\ Shaped(h) /\ h.at = "monitor" /\ h.kind = q.kind
               /\ h.recs = q.recs /\ h.ended = q.ended /\ h.ended = 0 /\ h.jails = js
               /\ DOMAIN q.jails = DOMAIN h.recs
               /\ js[k] = x /\ \A j \in DOMAIN q.jails : j # k => js[j] = q.jails[j]
<1>1. PICK q \in Handlers : q = req[r] /\ Shaped(q)
  BY Zenon, Here
<1>2. /\ q.at = "monitor" /\ q.jails \in Seq(JailStates) /\ k \in DOMAIN q.jails
      /\ q.recs \in Seq(Ids \cup {NoRow})
  BY Zenon, <1>1, Fields
<1>3. PICK js \in Seq(JailStates) : /\ js = [q.jails EXCEPT ![k] = x] /\ Len(js) = Len(q.jails)
                                    /\ DOMAIN js = DOMAIN q.jails /\ js[k] = x
                                    /\ \A j \in DOMAIN q.jails : j # k => js[j] = q.jails[j]
  <2> DEFINE s == [q.jails EXCEPT ![k] = x]
  <2>1. s \in Seq(JailStates) /\ Len(s) = Len(q.jails) /\ DOMAIN s = DOMAIN q.jails /\ s[k] = x
    BY <1>2
  <2>2. \A j \in DOMAIN q.jails : j # k => s[j] = q.jails[j]
    BY Zenon, <1>2
  <2>. HIDE DEF s
  <2>3. s = [q.jails EXCEPT ![k] = x]
    BY Zenon DEF s
  <2>. QED  BY Zenon, <2>1, <2>2, <2>3
<1> DEFINE h == With(q, "monitor", q.recs, js, q.ended, q.fork)
<1>4. Shaped(h)
  BY Zenon, <1>1, <1>2, <1>3, JailSet
<1>5. /\ h.at = "monitor" /\ h.kind = q.kind
      /\ h.recs = q.recs /\ h.jails = js /\ h.ended = q.ended /\ h.fork = q.fork
  BY WithJails DEF Places
<1>6. Len(q.jails) = Len(q.recs) /\ q.ended = 0
  BY Zenon, <1>1, <1>2 DEF Shaped, JailsShaped, RowsShaped
<1>7. DOMAIN q.jails = DOMAIN q.recs
  BY <1>2, <1>6
<1>. HIDE DEF h
<1>8. h = With(req[r], "monitor", req[r].recs, [req[r].jails EXCEPT ![k] = x], req[r].ended, req[r].fork)
  BY Zenon, <1>1, <1>3 DEF h
<1>. QED  BY Zenon, <1>1, <1>3, <1>4, <1>5, <1>6, <1>7, <1>8

\* The step's effect: the jail's state, and nothing else of the handlers; what
\* the other jails' tasks may do is as before.
JailTo(r, k, x, h) ==
    /\ Moves(r, h) /\ h.at = "monitor" /\ h.kind = req[r].kind
    /\ h.recs = req[r].recs /\ h.ended = req[r].ended /\ h.ended = 0
    /\ k \in DOMAIN h.recs /\ h.jails[k] = x
    /\ \A j \in DOMAIN h.recs : j # k => /\ Sampled(h, j) <=> Sampled(req[r], j)
                                         /\ Flushed(h, j) <=> Flushed(req[r], j)

LEMMA JailReq ==
    ASSUME NEW r, req[r] \in Handlers, NEW k, NEW x, req' = [req EXCEPT ![r].jails[k] = x]
    PROVE  req' = [req EXCEPT ![r] = With(req[r], req[r].at, req[r].recs,
                                          [req[r].jails EXCEPT ![k] = x], req[r].ended, req[r].fork)]
BY Zenon DEF With, Handlers

LEMMA JailStep ==
    ASSUME Typed, NEW r \in Requests, req[r].at = "monitor",
           NEW k, k \in DOMAIN req[r].jails, NEW x \in JailStates,
           req[r].kind = "fork" /\ k = 1 => x \in {"up", "gone"}
    PROVE  req' = [req EXCEPT ![r].jails[k] = x] => \E h : JailTo(r, k, x, h)
<1> DEFINE q  == req[r]
           js == [q.jails EXCEPT ![k] = x]
           h  == With(q, "monitor", q.recs, js, q.ended, q.fork)
<1>1. /\ Shaped(h) /\ h.at = "monitor" /\ h.kind = q.kind
      /\ h.recs = q.recs /\ h.ended = q.ended /\ h.ended = 0 /\ h.jails = js
      /\ DOMAIN q.jails = DOMAIN h.recs
      /\ js[k] = x /\ \A j \in DOMAIN q.jails : j # k => js[j] = q.jails[j]
  BY Zenon, JailShape
<1>2. req' = [req EXCEPT ![r].jails[k] = x] => req' = [req EXCEPT ![r] = h]
  <2>1. req[r] \in Handlers /\ req[r].at = "monitor"
    BY Zenon, Here
  <2>2. req' = [req EXCEPT ![r].jails[k] = x] =>
           req' = [req EXCEPT ![r] = With(req[r], req[r].at, req[r].recs,
                                          [req[r].jails EXCEPT ![k] = x], req[r].ended, req[r].fork)]
    BY <2>1, JailReq, Zenon
  <2>. QED  BY <2>1, <2>2, Zenon
<1>. HIDE DEF js, h
<1>3. \A j \in DOMAIN h.recs : j # k => h.jails[j] = q.jails[j]
  BY Zenon, <1>1
<1>4. \A j \in DOMAIN h.recs : j # k => /\ Sampled(h, j) <=> Sampled(q, j)
                                        /\ Flushed(h, j) <=> Flushed(q, j)
  BY Zenon, <1>1, <1>3 DEF Sampled, Flushed, Mon
<1>. QED  BY Zenon, <1>1, <1>2, <1>4 DEF JailTo, Moves

LEMMA WaitJailWorks ==
    ASSUME Typed, NEW r \in Requests, NEW k \in DOMAIN req[r].jails, WaitJail(r, k)
    PROVE  \E h : Works(r, h)
<1>1. req[r].at = "monitor" /\ req[r].jails[k] = "up" /\ "gone" \in JailStates
  BY Zenon DEF WaitJail, At, Alive, JailStates
<1>2. PICK h : JailTo(r, k, "gone", h)
  BY Zenon, <1>1, JailStep DEF WaitJail
<1>3. (Sampled(req[r], k) => Sampled(h, k)) /\ (Flushed(req[r], k) => Flushed(h, k))
  BY Zenon, <1>1, <1>2 DEF JailTo, Sampled, Flushed, Mon
<1>4. \A j \in DOMAIN h.recs : /\ Sampled(req[r], j) => Sampled(h, j)
                               /\ Flushed(req[r], j) => Flushed(h, j)
  BY Zenon, <1>2, <1>3 DEF JailTo
<1>. QED  BY Zenon, <1>2, <1>4, QuietWorks DEF WaitJail, JailTo

\* A step that leaves the rows, and touches tasks.
LEMMA StillWorks ==
    ASSUME Typed, NEW r \in Requests, NEW h, Moves(r, h), h.recs = req[r].recs,
           h.ended = req[r].ended, TasksFit(r, h),
           UNCHANGED <<backend, todo, rows, next_id, buf, orphans>>
    PROVE  Works(r, h)
BY Zenon DEF Typed, Works, LiveWrite

\* The ids a handler holds.
LEMMA RowOf ==
    ASSUME Typed, NEW r \in Requests, NEW k \in DOMAIN req[r].recs
    PROVE  req[r].recs[k] \in Ids \cup {NoRow} /\ (req[r].recs[k] # NoRow => req[r].recs[k] \in Ids)
<1>1. req[r].recs \in Seq(Ids \cup {NoRow})
  BY Zenon, Here, Fields
<1>. QED  BY <1>1

LEMMA SpawnJailWorks ==
    ASSUME Typed, NEW r \in Requests, NEW k \in DOMAIN req[r].jails, SpawnJail(r, k)
    PROVE  \E h : Works(r, h)
<1>1. /\ req[r].at = "monitor" /\ req[r].jails[k] = "off" /\ Mon(req[r], k)
      /\ {"up", "failed"} \subseteq JailStates /\ ~(req[r].kind = "fork" /\ k = 1)
  BY DEF SpawnJail, At, Monitored, Mon, JailStates
<1> DEFINE id == req[r].recs[k]
<1>2. CASE /\ req' = [req EXCEPT ![r].jails[k] = "up"]
           /\ samplers' = samplers \cup ({id} \ {NoRow})
           /\ flushers' = flushers \cup ({id} \ {NoRow})
  <2>1. PICK h : JailTo(r, k, "up", h)
    BY Zenon, <1>1, <1>2, JailStep
  <2>2. Sampled(h, k) /\ Flushed(h, k) /\ h.recs[k] = id
    BY Zenon, <1>1, <2>1 DEF JailTo, Sampled, Flushed, Mon
  <2>3. id \in Ids \cup {NoRow} /\ (id # NoRow => id \in Ids)
    BY Zenon, <2>1, RowOf DEF JailTo
  <2>4. \A j \in DOMAIN h.recs :
           \/ \E i \in DOMAIN h.recs : i # j /\ h.recs[i] = h.recs[j]
           \/ /\ h.recs[j] \in samplers' =>
                    Sampled(h, j) \/ (h.recs[j] \in samplers /\ ~Sampled(req[r], j))
              /\ h.recs[j] \in flushers' =>
                    Flushed(h, j) \/ (h.recs[j] \in flushers /\ ~Flushed(req[r], j))
    <3>1. SUFFICES ASSUME NEW j \in DOMAIN h.recs, j # k, h.recs[j] # id
                   PROVE  /\ h.recs[j] \in samplers' =>
                                Sampled(h, j) \/ (h.recs[j] \in samplers /\ ~Sampled(req[r], j))
                          /\ h.recs[j] \in flushers' =>
                                Flushed(h, j) \/ (h.recs[j] \in flushers /\ ~Flushed(req[r], j))
      BY Zenon, <2>1, <2>2 DEF JailTo
    <3>. QED  BY Zenon, <1>2, <2>1, <3>1 DEF JailTo
  <2>5. \A i \in (samplers' \ samplers) \cup (flushers' \ flushers) :
           \E j \in DOMAIN h.recs : j > h.ended /\ h.recs[j] = i
    <3>1. k \in DOMAIN h.recs /\ k > h.ended
      <4>1. h.recs \in Seq(Ids \cup {NoRow})
        BY Zenon, <2>1, Here, Fields DEF JailTo
      <4>. QED  BY <2>1, <4>1 DEF JailTo
    <3>. QED  BY Zenon, <1>2, <2>2, <3>1
  <2>6. TasksFit(r, h)
    BY Zenon, <1>2, <2>3, <2>4, <2>5 DEF TasksFit, Typed, SpawnJail
  <2>. QED  BY Zenon, <2>1, <2>6, StillWorks DEF JailTo, SpawnJail
<1>3. CASE req' = [req EXCEPT ![r].jails[k] = "failed"] /\ UNCHANGED <<samplers, flushers>>
  <2>1. PICK h : JailTo(r, k, "failed", h)
    BY Zenon, <1>1, <1>3, JailStep
  <2>2. ~Sampled(req[r], k) /\ ~Flushed(req[r], k)
    BY Zenon, <1>1 DEF Sampled, Flushed
  <2>3. TasksFit(r, h)
    BY Zenon, <1>3, <2>1, <2>2 DEF TasksFit, Typed, SpawnJail, JailTo
  <2>. QED  BY Zenon, <2>1, <2>3, StillWorks DEF JailTo, SpawnJail
<1>. QED  BY Zenon, <1>2, <1>3 DEF SpawnJail

\* What abort leaves: no task, and at most one call under way.
LEMMA AbortTyped ==
    ASSUME Typed, NEW id
    PROVE  /\ AbortSampler(id) => samplers' = samplers \ {id} /\ samplers' \subseteq Ids /\ samples' \subseteq Ids
           /\ AbortFlusher(id) => /\ flushers' = flushers \ {id} /\ flushers' \subseteq Ids
                                  /\ tails' \subseteq Ids \X (0..MaxLines)
<1>1. samplers \subseteq Ids /\ flushers \subseteq Ids /\ samples \subseteq Ids /\ tails \subseteq Ids \X (0..MaxLines)
  BY Zenon DEF Typed
<1>2. AbortSampler(id) => samplers' = samplers \ {id} /\ samplers' \subseteq Ids /\ samples' \subseteq Ids
  BY Zenon, <1>1 DEF AbortSampler
<1>3. AbortFlusher(id) => flushers' = flushers \ {id} /\ flushers' \subseteq Ids
  BY Zenon, <1>1 DEF AbortFlusher
<1>4. AbortFlusher(id) => tails' \subseteq Ids \X (0..MaxLines)
  <2>. SUFFICES ASSUME AbortFlusher(id) PROVE tails' \subseteq Ids \X (0..MaxLines)
    BY Zenon
  <2>1. CASE tails' = tails
    BY Zenon, <1>1, <2>1
  <2>2. ASSUME NEW n \in {m \in 0..MaxLines : id \in flushers /\ m <= buf[id]}, tails' = tails \cup {<<id, n>>}
        PROVE  tails' \subseteq Ids \X (0..MaxLines)
    BY <1>1, <2>2
  <2>. QED  BY Zenon, <2>1, <2>2 DEF AbortFlusher
<1>. QED  BY Zenon, <1>2, <1>3, <1>4

LEMMA StopTasksWorks ==
    ASSUME Typed, NEW r \in Requests, NEW k \in DOMAIN req[r].jails, StopTasks(r, k)
    PROVE  \E h : Works(r, h)
<1>1. /\ req[r].at = "monitor" /\ Mon(req[r], k) /\ "swept" \in JailStates
      /\ ~(req[r].kind = "fork" /\ k = 1)
  BY DEF StopTasks, At, Monitored, Mon, JailStates
<1>2. PICK h : JailTo(r, k, "swept", h)
  BY Zenon, <1>1, JailStep DEF StopTasks
<1>3. /\ samplers' = samplers \ {h.recs[k]} /\ flushers' = flushers \ {h.recs[k]}
      /\ samplers' \subseteq Ids /\ flushers' \subseteq Ids /\ samples' \subseteq Ids
      /\ tails' \subseteq Ids \X (0..MaxLines)
  BY Zenon, <1>2, AbortTyped DEF StopTasks, JailTo
<1>4. TasksFit(r, h)
  BY Zenon, <1>2, <1>3 DEF TasksFit, JailTo
<1>. QED  BY Zenon, <1>2, <1>4, StillWorks DEF JailTo, StopTasks

\* A live write of a row that is there, by a record with its status.
LEMMA LiveUpdate ==
    ASSUME Typed, NEW id, NEW row, Present(id) => row \in JailRecord /\ row.status = rows[id].status,
           rows' = Update(id, row) \/ rows' = rows,
           Pg /\ Present(id) => rows[id].status = "running" \/ rows' = rows
    PROVE  LiveWrite
<1>1. rows \in Rows
  BY Zenon DEF Typed
<1>2. CASE rows' = rows
  BY Zenon, <1>1, <1>2 DEF LiveWrite
<1>3. CASE rows' = Update(id, row) /\ rows' # rows
  <2>1. /\ rows' \in Rows
        /\ \A j \in Ids : rows'[j] = IF j = id /\ Present(id) THEN row ELSE rows[j]
    BY Zenon, <1>1, <1>3, UpdateTyped
  <2>2. ASSUME NEW j \in Ids
        PROVE  /\ rows'[j] = Absent <=> rows[j] = Absent
               /\ rows[j] # Absent => rows'[j].status = rows[j].status
               /\ Pg /\ rows[j] # Absent /\ rows[j].status = "completed" => rows'[j] = rows[j]
    <3>1. CASE j = id /\ Present(id)
      <4>1. rows'[j] = row /\ row # Absent /\ rows[j] # Absent
        BY Zenon, <2>1, <3>1, RecordPresent DEF Present
      <4>. QED  BY Zenon, <1>3, <3>1, <4>1
    <3>2. CASE ~(j = id /\ Present(id))
      BY Zenon, <2>1, <3>2
    <3>. QED  BY Zenon, <3>1, <3>2
  <2>. QED  BY Zenon, <2>1, <2>2 DEF LiveWrite
<1>. QED  BY Zenon, <1>2, <1>3

LEMMA TailWrites ==
    ASSUME Typed, NEW id, NEW n \in 0..MaxLines, tail(id, n)
    PROVE  LiveWrite
<1>1. mem_tail(id, n) = Update(id, Tailed(rows[id], n))
  BY Zenon DEF mem_tail, Tailed
<1>2. Present(id) => Tailed(rows[id], n) \in JailRecord /\ Tailed(rows[id], n).status = rows[id].status
  BY Zenon, PresentRow, RowsOf DEF Typed
<1>3. /\ rows' = mem_tail(id, n) \/ rows' = rows
      /\ Pg /\ Present(id) => rows[id].status = "running" \/ rows' = rows
  BY Zenon DEF tail, pg_tail, WhileRunning
<1>. QED  BY Zenon, <1>1, <1>2, <1>3, LiveUpdate

LEMMA SampleWrites ==
    ASSUME Typed, NEW id, sample_stats(id)
    PROVE  LiveWrite
<1>1. mem_sample_stats(id) = Update(id, Resampled(rows[id]))
  BY Zenon DEF mem_sample_stats, Resampled
<1>2. Present(id) => Resampled(rows[id]) \in JailRecord /\ Resampled(rows[id]).status = rows[id].status
  <2>1. 0 \in 0..MaxLines
    BY LedgerAssumption
  <2>. QED  BY Zenon, <2>1, PresentRow, RowsOf DEF Typed
<1>3. /\ rows' = mem_sample_stats(id) \/ rows' = rows
      /\ Pg /\ Present(id) => rows[id].status = "running" \/ rows' = rows
  BY Zenon DEF sample_stats, pg_sample_stats, WhileRunning
<1>. QED  BY Zenon, <1>1, <1>2, <1>3, LiveUpdate

LEMMA FinalTailWorks ==
    ASSUME Typed, NEW r \in Requests, NEW k \in DOMAIN req[r].jails, FinalTail(r, k)
    PROVE  \E h : Works(r, h)
<1>1. req[r].at = "monitor" /\ req[r].jails[k] = "swept" /\ "done" \in JailStates
  BY Zenon DEF FinalTail, At, JailStates
<1>2. ~(req[r].kind = "fork" /\ k = 1)
  BY Zenon, <1>1, Here DEF Shaped, JailsShaped
<1>3. PICK h : JailTo(r, k, "done", h)
  BY Zenon, <1>1, <1>2, JailStep DEF FinalTail
<1>4. LiveWrite
  <2>1. CASE req[r].recs[k] = NoRow
    BY Zenon, <2>1 DEF FinalTail, LiveWrite, Typed
  <2>2. CASE req[r].recs[k] # NoRow
    <3>1. req[r].recs[k] \in Ids
      BY Zenon, <1>3, <2>2, RowOf DEF JailTo
    <3>2. buf[req[r].recs[k]] \in 0..MaxLines
      BY Zenon, <3>1 DEF Typed
    <3>. QED  BY Zenon, <2>2, <3>2, TailWrites DEF FinalTail
  <2>. QED  BY Zenon, <2>1, <2>2
<1>5. ~Sampled(req[r], k) \/ ~Mon(req[r], k)
  BY Zenon, <1>1 DEF Sampled
<1>6. Mon(req[r], k)
  <2>1. req[r].kind # "stream" /\ req[r].kind \in Kinds
    BY Zenon, <1>1, Here, Fields DEF Shaped, KindShaped
  <2>2. k \in Nat \ {0}
    BY <1>3, Here, Fields DEF JailTo
  <2>. QED  BY <1>2, <2>1, <2>2 DEF Mon, Kinds
<1>7. ~Flushed(req[r], k)
  BY Zenon, <1>1 DEF Flushed
<1>8. TasksFit(r, h)
  BY Zenon, <1>3, <1>5, <1>6, <1>7 DEF TasksFit, JailTo, FinalTail, Typed, tasks
<1>. QED  BY Zenon, <1>3, <1>4, <1>8 DEF Works, JailTo, FinalTail

LEMMA JoinedWorks ==
    ASSUME Typed, NEW r \in Requests, Joined(r)
    PROVE  \E h : Works(r, h)
<1>1. PICK q \in Handlers : q = req[r] /\ Shaped(q)
  BY Zenon, Here
<1>2. /\ q.at = "monitor" /\ q.kind \in {"run", "exec", "fork"}
      /\ q.jails \in Seq(JailStates) /\ q.recs \in Seq(Ids \cup {NoRow})
      /\ Len(q.jails) = Len(q.recs) /\ Len(q.recs) > 0 /\ q.ended = 0
  BY <1>1, Fields DEF Joined, At, Shaped, KindShaped, RowsShaped, JailsShaped, Kinds
<1>3. \A k \in DOMAIN q.jails : q.jails[k] \in (IF Mon(q, k) THEN {"done", "failed"} ELSE {"gone"})
  BY Zenon, <1>1 DEF Joined, HasReturned, Monitored, Mon
<1> DEFINE h == With(q, "record", q.recs, q.jails, q.ended, q.fork)
<1>4. /\ h \in Handlers /\ h.at = "record" /\ h.kind = q.kind /\ h.kids = q.kids
      /\ h.recs = q.recs /\ h.jails = q.jails /\ h.ended = q.ended /\ h.fork = q.fork
  BY Zenon DEF With, Handlers
<1>5. req' = [req EXCEPT ![r] = h]
  BY Zenon, <1>1 DEF Joined, To, With, Handlers
<1>. HIDE DEF h
<1>6. CloneShaped(h.at, h.fork) /\ KindShaped(h)
  BY Zenon, <1>1, <1>2, <1>4 DEF Shaped, CloneShaped, KindShaped
<1>7. RowsShaped(h)
  <2>1. RowsShaped(q)
    BY Zenon, <1>1 DEF Shaped
  <2>. QED  BY Zenon, <1>2, <1>4, <2>1 DEF RowsShaped
<1>8. JailsShaped(h)
  <2>1. \A k \in DOMAIN h.jails : h.jails[k] \in {"gone", "done", "failed"}
    BY Zenon, <1>3, <1>4
  <2>. QED  BY Zenon, <1>2, <1>4, <2>1 DEF JailsShaped
<1>9. Moves(r, h)
  BY Zenon, <1>4, <1>5, <1>6, <1>7, <1>8 DEF Moves, Shaped
<1>10. DOMAIN q.recs = DOMAIN q.jails
  BY <1>2
<1>11. \A k \in DOMAIN h.recs : (Sampled(q, k) => q.kind = "fork" /\ k = 1) /\ ~Flushed(q, k)
  <2>. SUFFICES ASSUME NEW k \in DOMAIN q.jails
                PROVE  (Sampled(q, k) => q.kind = "fork" /\ k = 1) /\ ~Flushed(q, k)
    BY Zenon, <1>4, <1>10
  <2>1. k \in Nat /\ k > 0
    BY <1>2
  <2>2. CASE Mon(q, k)
    BY Zenon, <1>2, <1>3, <2>2 DEF Sampled, Flushed
  <2>3. CASE ~Mon(q, k)
    BY <1>2, <2>1, <2>3 DEF Mon, Flushed
  <2>. QED  BY Zenon, <2>2, <2>3
<1>12. /\ samplers' \subseteq Ids /\ samples' \subseteq Ids /\ samplers' \subseteq samplers
       /\ q.kind = "fork" => q.recs[1] \notin samplers'
  <2>1. CASE q.kind = "fork"
    BY <1>1, <2>1, AbortTyped DEF Joined
  <2>2. CASE q.kind # "fork"
    BY Zenon, <1>1, <2>2 DEF Joined, Typed
  <2>. QED  BY Zenon, <2>1, <2>2
<1>13. TasksFit(r, h)
  BY Zenon, <1>1, <1>4, <1>11, <1>12 DEF TasksFit, Joined, Typed
<1>. QED  BY Zenon, <1>1, <1>4, <1>9, <1>13, StillWorks DEF Joined

LEMMA DrainStreamWorks ==
    ASSUME Typed, NEW r \in Requests, DrainStream(r)
    PROVE  \E h : Works(r, h)
<1>1. PICK q \in Handlers : q = req[r] /\ Shaped(q)
  BY Zenon, Here
<1>2. /\ q.at = "stream" /\ q.jails \in Seq(JailStates) /\ q.recs \in Seq(Ids \cup {NoRow})
      /\ Len(q.recs) = 1
  BY Zenon, <1>1, Fields DEF DrainStream, At, Shaped, RowsShaped
<1> DEFINE h == With(q, "reap", q.recs, q.jails, q.ended, q.fork)
<1>4. /\ h \in Handlers /\ h.at = "reap" /\ h.kind = q.kind /\ h.kids = q.kids
      /\ h.recs = q.recs /\ h.jails = q.jails /\ h.ended = q.ended /\ h.fork = q.fork
  BY Zenon DEF With, Handlers
<1>5. req' = [req EXCEPT ![r] = h]
  BY Zenon, <1>1 DEF DrainStream, To, With, Handlers
<1>. HIDE DEF h
<1>6. CloneShaped(h.at, h.fork) /\ KindShaped(h)
  BY Zenon, <1>1, <1>2, <1>4 DEF Shaped, CloneShaped, KindShaped
<1>7. RowsShaped(h) /\ JailsShaped(h)
  BY Zenon, <1>1, <1>2, <1>4 DEF Shaped, RowsShaped, JailsShaped
<1>8. Moves(r, h)
  BY Zenon, <1>4, <1>5, <1>6, <1>7 DEF Moves, Shaped
<1>9. DOMAIN h.recs = {1} /\ ~Flushed(q, 1)
  BY <1>2, <1>4 DEF Flushed
<1>10. samplers' \subseteq Ids /\ samples' \subseteq Ids /\ samplers' = samplers \ {h.recs[1]}
  BY Zenon, <1>1, <1>4, AbortTyped DEF DrainStream
<1>11. TasksFit(r, h)
  BY Zenon, <1>1, <1>4, <1>9, <1>10 DEF TasksFit, DrainStream, Typed
<1>. QED  BY Zenon, <1>1, <1>4, <1>8, <1>11, StillWorks DEF DrainStream

LEMMA ReapStreamWorks ==
    ASSUME Typed, NEW r \in Requests, ReapStream(r)
    PROVE  \E h : Works(r, h)
<1>1. PICK q \in Handlers : q = req[r] /\ Shaped(q)
  BY Zenon, Here
<1>2. q.at = "reap" /\ Len(q.recs) = 1 /\ q.kind = "stream" /\ q.ended = 0
  BY Zenon, <1>1 DEF ReapStream, At, Shaped, RowsShaped, KindShaped
<1>3. <<"done">> \in Seq(JailStates)
  BY DEF JailStates
<1> DEFINE h == With(q, "record", q.recs, <<"done">>, q.ended, q.fork)
<1>4. /\ h \in Handlers /\ h.at = "record" /\ h.kind = q.kind /\ h.kids = q.kids
      /\ h.recs = q.recs /\ h.jails = <<"done">> /\ h.ended = q.ended /\ h.fork = q.fork
  BY Zenon, <1>3 DEF With, Handlers, JailStates
<1>5. req' = [req EXCEPT ![r] = h]
  BY Zenon, <1>1 DEF ReapStream, With, Handlers
<1>. HIDE DEF h
<1>6. CloneShaped(h.at, h.fork) /\ KindShaped(h)
  BY Zenon, <1>1, <1>2, <1>4 DEF Shaped, CloneShaped, KindShaped
<1>7. RowsShaped(h) /\ JailsShaped(h)
  <2>1. h.jails[1] = "done" /\ DOMAIN h.jails = {1} /\ Len(h.jails) = 1
    BY <1>4
  <2>2. \A k \in DOMAIN h.jails : h.jails[k] \in {"gone", "done", "failed"}
    BY Zenon, <2>1
  <2>3. RowsShaped(h)
    <3>1. h.at = "record" /\ h.kind = "stream" /\ Len(h.recs) = 1 /\ h.ended = 0
      BY Zenon, <1>2, <1>4
    <3>. QED  BY <3>1 DEF RowsShaped
  <2>4. JailsShaped(h)
    BY Zenon, <1>2, <1>4, <2>1, <2>2 DEF JailsShaped
  <2>. QED  BY Zenon, <2>3, <2>4
<1>8. Moves(r, h)
  BY Zenon, <1>4, <1>5, <1>6, <1>7 DEF Moves, Shaped
<1>9. \A k \in DOMAIN h.recs : ~Sampled(q, k) /\ ~Flushed(q, k)
  BY Zenon, <1>2 DEF Sampled, Flushed
<1>. QED  BY Zenon, <1>1, <1>4, <1>8, <1>9, QuietWorks DEF ReapStream

\* A jail runs whose row was just started.
LEMMA SpawnParentWorks ==
    ASSUME Typed, NEW r \in Requests, SpawnParent(r)
    PROVE  \E h : Works(r, h)
<1>1. CASE FailFork(r) /\ UNCHANGED samplers
  BY Zenon, <1>1, FailForkWorks DEF SpawnParent, At, tasks
<1>2. CASE /\ req' = [req EXCEPT ![r].at = "settle", ![r].jails = <<"up">>]
           /\ samplers' = samplers \cup ({req[r].recs[1]} \ {NoRow})
  <2>1. PICK q \in Handlers : q = req[r] /\ Shaped(q)
    BY Zenon, Here
  <2>2. /\ q.at = "spawn" /\ q.recs \in Seq(Ids \cup {NoRow}) /\ Len(q.recs) = 1 /\ q.ended = 0
        /\ q.kind = "fork" /\ q.kids \in Nat /\ q.kids > 0 /\ q.fork = NoFork
    BY <2>1, Fields DEF SpawnParent, At, Shaped, RowsShaped, KindShaped, CloneShaped
  <2> DEFINE h == With(q, "settle", q.recs, <<"up">>, q.ended, q.fork)
  <2>3. /\ h \in Handlers /\ h.at = "settle" /\ h.kind = q.kind /\ h.kids = q.kids
        /\ h.recs = q.recs /\ h.jails = <<"up">> /\ h.ended = q.ended /\ h.fork = q.fork
    BY Zenon, UpTyped DEF With, Handlers, JailStates
  <2>4. req' = [req EXCEPT ![r] = h]
    BY Zenon, <1>2, <2>1 DEF With, Handlers
  <2>. HIDE DEF h
  <2>5. CloneShaped(h.at, h.fork) /\ KindShaped(h)
    <3>1. h.fork.read = <<>> /\ h.fork.clones = 0 /\ ~h.fork.was_frozen
      BY <2>2, <2>3 DEF NoFork
    <3>2. KindShaped(q)
      BY Zenon, <2>1 DEF Shaped
    <3>. QED  BY Zenon, <2>2, <2>3, <3>1, <3>2 DEF CloneShaped, KindShaped
  <2>6. RowsShaped(h)
    BY <2>2, <2>3 DEF RowsShaped
  <2>7. JailsShaped(h)
    BY Zenon, <2>3 DEF JailsShaped
  <2>8. Moves(r, h)
    BY Zenon, <2>3, <2>4, <2>5, <2>6, <2>7 DEF Moves, Shaped
  <2>9. DOMAIN h.recs = {1} /\ ~Flushed(q, 1) /\ Sampled(h, 1) /\ 1 > h.ended
    BY <2>2, <2>3 DEF Flushed, Sampled
  <2>10. samplers' \subseteq Ids /\ samplers' = samplers \cup ({h.recs[1]} \ {NoRow})
    <3>1. h.recs[1] \in Ids \cup {NoRow}
      BY <2>2, <2>3
    <3>. QED  BY Zenon, <1>2, <2>1, <2>3, <3>1 DEF Typed
  <2>11. TasksFit(r, h)
    BY Zenon, <2>1, <2>3, <2>9, <2>10 DEF TasksFit, SpawnParent, Typed
  <2>. QED  BY Zenon, <2>1, <2>3, <2>8, <2>11, StillWorks DEF SpawnParent
<1>. QED  BY Zenon, <1>1, <1>2 DEF SpawnParent

-----------------------------------------------------------------------------
(* Steps that start a row *)

\* The ring makes room by dropping one row.
LEMMA RingStarts ==
    ASSUME Typed, next_id \in Ids
    PROVE  /\ mem_start \in Rows /\ mem_start[next_id] = new_running
           /\ \A j \in Ids \ {next_id} : mem_start[j] \in {rows[j], Absent}
<1>1. new_running \in JailRecord
  BY LedgerAssumption DEF new_running, JailRecord
<1> DEFINE kept == {i \in Ids : Present(i)}
           old  == CHOOSE i \in kept : \A j \in kept : i <= j
<1>2. mem_start = IF Cardinality(kept) >= Capacity
                  THEN [rows EXCEPT ![old] = Absent, ![next_id] = new_running]
                  ELSE [rows EXCEPT ![next_id] = new_running]
  BY Zenon DEF mem_start
<1>. HIDE DEF kept, old
<1>3. rows \in [Ids -> JailRecord \cup {Absent}]
  BY Zenon DEF Typed, Rows
<1>. QED  BY Zenon, <1>1, <1>2, <1>3 DEF Rows

LEMMA StartStarts ==
    ASSUME Typed, NEW parents, NEW id \in Ids \cup {NoRow}, start(parents, id)
    PROVE  RowStarted(id)
<1>1. new_running \in JailRecord
  BY LedgerAssumption DEF new_running, JailRecord
<1>2. next_id # NoRow
  BY DEF Typed, NoRow
<1>3. CASE ~Pg
  <2>1. id = next_id /\ id \in Ids
    BY Zenon, <1>2, <1>3 DEF start
  <2>. QED  BY Zenon, <1>3, <2>1, RingStarts DEF start, RowStarted
<1>4. CASE Pg /\ id = NoRow /\ UNCHANGED <<rows, next_id>>
  BY Zenon, <1>4 DEF RowStarted
<1>5. CASE /\ Pg /\ id = next_id
           /\ rows' = [rows EXCEPT ![id] = new_running] /\ next_id' = next_id + 1
  <2>1. id \in Ids
    BY Zenon, <1>2, <1>5
  <2>2. /\ rows' \in Rows /\ rows'[id] = new_running
        /\ \A j \in Ids \ {id} : rows'[j] = rows[j]
    BY Zenon, <1>1, <1>5, <2>1 DEF Typed, Rows
  <2>. QED  BY Zenon, <1>5, <2>1, <2>2 DEF RowStarted
<1>. QED  BY Zenon, <1>3, <1>4, <1>5 DEF start, pg_start

\* The handler that got its first row: recs was empty.
LEMMA FirstRow ==
    ASSUME NEW id \in Ids \cup {NoRow}
    PROVE  /\ <<id>> \in Seq(Ids \cup {NoRow}) /\ Len(<<id>>) = 1 /\ <<id>>[1] = id
           /\ DOMAIN <<id>> = {1} /\ Append(<<>>, id) = <<id>>
OBVIOUS

\* Where a handler goes with its first row, and the jails it then has.
FirstPlace(kind, at, jails) ==
    \/ at = "monitor" /\ jails = <<"off">> /\ kind \in {"run", "exec"}
    \/ at = "stream" /\ jails = <<"up">> /\ kind = "stream"
    \/ at = "spawn" /\ jails = <<>> /\ kind = "fork"

LEMMA FirstShape ==
    ASSUME NEW q \in Handlers, Shaped(q), q.at = "start",
           NEW recs \in Seq(Ids \cup {NoRow}), Len(recs) = 1,
           NEW at, NEW jails, FirstPlace(q.kind, at, jails)
    PROVE  \E h : /\ h = With(q, at, recs, jails, q.ended, q.fork)
                  /\ Shaped(h) /\ h.at = at /\ h.recs = recs /\ h.ended = 0
<1> DEFINE h == With(q, at, recs, jails, q.ended, q.fork)
<1>1. at \in Places /\ jails \in Seq(JailStates)
  <2>1. jails \in {<<"off">>, <<"up">>, <<>>} /\ at \in Places
    BY Zenon DEF Places, FirstPlace
  <2>. QED  BY Zenon, <2>1, UpTyped
<1>2. /\ h \in Handlers /\ h.at = at /\ h.kind = q.kind /\ h.kids = q.kids
      /\ h.recs = recs /\ h.jails = jails /\ h.ended = q.ended /\ h.fork = q.fork
  BY Zenon, <1>1 DEF With, Handlers, Places, JailStates
<1>3. q.ended = 0 /\ q.fork = NoFork /\ KindShaped(q)
  BY Zenon DEF Shaped, RowsShaped, CloneShaped
<1>4. Len(h.recs) = 1
  BY Zenon, <1>2
<1>. HIDE DEF h
<1>5. CloneShaped(h.at, h.fork) /\ KindShaped(h)
  BY Zenon, <1>2, <1>3 DEF CloneShaped, KindShaped, FirstPlace
<1>6. RowsShaped(h)
  BY <1>2, <1>3, <1>4 DEF RowsShaped, FirstPlace
<1>7. JailsShaped(h)
  <2>1. CASE at = "monitor"
    <3>1. h.at = "monitor" /\ h.kind # "fork" /\ Len(h.jails) = 1
      BY Zenon, <1>2, <2>1 DEF FirstPlace
    <3>. QED  BY Zenon, <1>4, <3>1 DEF JailsShaped
  <2>2. CASE at = "stream"
    BY Zenon, <1>2, <2>2 DEF JailsShaped, FirstPlace
  <2>3. CASE at = "spawn"
    BY Zenon, <1>2, <2>3 DEF JailsShaped, FirstPlace
  <2>. QED  BY Zenon, <2>1, <2>2, <2>3 DEF FirstPlace
<1>8. Shaped(h)
  BY Zenon, <1>2, <1>5, <1>6, <1>7 DEF Shaped
<1>. QED  BY Zenon, <1>2, <1>3, <1>8 DEF h

LEMMA FirstStarts ==
    ASSUME Typed, NEW r \in Requests, req[r].at = "start", NEW id \in Ids \cup {NoRow},
           start({}, id), NEW h, Moves(r, h), h.recs = <<id>>, h.ended = 0,
           UNCHANGED <<backend, todo, buf, flushers, samples, tails, orphans>>,
           \/ samplers' = samplers
           \/ samplers' = samplers \cup ({id} \ {NoRow}) /\ h.at = "stream"
    PROVE  Starts(r, h, id)
<1>1. req[r].recs = <<>> /\ req[r].ended = 0
  BY Zenon, Here DEF Shaped, RowsShaped
<1>2. h.recs = Append(req[r].recs, id) /\ DOMAIN h.recs = {1} /\ h.recs[1] = id
  BY Zenon, <1>1, FirstRow
<1>3. RowStarted(id)
  BY Zenon, StartStarts
<1>4. ~Sampled(req[r], 1) /\ ~Flushed(req[r], 1) /\ (h.at = "stream" => Sampled(h, 1)) /\ 1 > h.ended
  BY DEF Sampled, Flushed
<1>5. TasksFit(r, h)
  BY Zenon, <1>2, <1>4 DEF TasksFit, Typed
<1>. QED  BY Zenon, <1>1, <1>2, <1>3, <1>5 DEF Starts

LEMMA StartRowStarts ==
    ASSUME Typed, NEW r \in Requests, StartRow(r)
    PROVE  \E h, id : Starts(r, h, id)
<1>1. PICK q \in Handlers : q = req[r] /\ Shaped(q)
  BY Zenon, Here
<1>2. Shaped(q) /\ q.at = "start" /\ q.kind \in {"run", "exec"}
  BY Zenon, <1>1 DEF StartRow, At
<1>3. PICK id \in Ids \cup {NoRow} :
         /\ start({}, id)
         /\ req' = [req EXCEPT ![r].at = "monitor", ![r].recs = <<id>>, ![r].jails = <<"off">>]
  BY Zenon DEF StartRow
<1>4. PICK at, jails : at = "monitor" /\ jails = <<"off">>
  BY Zenon
<1>5. FirstPlace(q.kind, at, jails)
  BY Zenon, <1>2, <1>4 DEF FirstPlace
<1>6. PICK recs : recs = <<id>> /\ recs \in Seq(Ids \cup {NoRow}) /\ Len(recs) = 1
  BY Zenon, FirstRow
<1>7. PICK h : /\ h = With(q, at, recs, jails, q.ended, q.fork)
               /\ Shaped(h) /\ h.at = at /\ h.recs = recs /\ h.ended = 0
  <2>1. recs \in Seq(Ids \cup {NoRow}) /\ Len(recs) = 1
    BY Zenon, <1>6
  <2>2. Shaped(q) /\ q.at = "start"
    BY Zenon, <1>2
  <2>. QED  BY <1>5, <2>1, <2>2, FirstShape
<1>8. req' = [req EXCEPT ![r] = h]
  <2>1. req' = [req EXCEPT ![r] = With(q, "monitor", <<id>>, <<"off">>, q.ended, q.fork)]
    BY ZenonT(30), <1>1, <1>3 DEF With, Handlers
  <2>. QED  BY Zenon, <1>4, <1>6, <1>7, <2>1
<1>9. Moves(r, h)
  BY Zenon, <1>7, <1>8 DEF Moves
<1>10. Starts(r, h, id)
  BY Zenon, <1>1, <1>2, <1>3, <1>4, <1>6, <1>7, <1>9, FirstStarts DEF StartRow, tasks
<1>. QED  BY Zenon, <1>10

LEMMA StartStreamStarts ==
    ASSUME Typed, NEW r \in Requests, StartStream(r)
    PROVE  \E h, id : Starts(r, h, id)
<1>1. PICK q \in Handlers : q = req[r] /\ Shaped(q)
  BY Zenon, Here
<1>2. Shaped(q) /\ q.at = "start" /\ q.kind = "stream" /\ q.jails = <<"up">>
  BY Zenon, <1>1 DEF StartStream, At, Shaped, JailsShaped
<1>3. PICK id \in Ids \cup {NoRow} :
         /\ start({}, id)
         /\ req' = [req EXCEPT ![r].at = "stream", ![r].recs = <<id>>]
         /\ samplers' = samplers \cup ({id} \ {NoRow})
  BY Zenon DEF StartStream
<1>4. PICK at, jails : at = "stream" /\ jails = q.jails
  BY Zenon
<1>5. FirstPlace(q.kind, at, jails)
  BY Zenon, <1>2, <1>4 DEF FirstPlace
<1>6. PICK recs : recs = <<id>> /\ recs \in Seq(Ids \cup {NoRow}) /\ Len(recs) = 1
  BY Zenon, FirstRow
<1>7. PICK h : /\ h = With(q, at, recs, jails, q.ended, q.fork)
               /\ Shaped(h) /\ h.at = at /\ h.recs = recs /\ h.ended = 0
  <2>1. recs \in Seq(Ids \cup {NoRow}) /\ Len(recs) = 1
    BY Zenon, <1>6
  <2>2. Shaped(q) /\ q.at = "start"
    BY Zenon, <1>2
  <2>. QED  BY <1>5, <2>1, <2>2, FirstShape
<1>8. req' = [req EXCEPT ![r] = h]
  <2>1. req' = [req EXCEPT ![r] = With(q, "stream", <<id>>, q.jails, q.ended, q.fork)]
    BY Zenon, <1>1, <1>3 DEF With, Handlers
  <2>. QED  BY Zenon, <1>4, <1>6, <1>7, <2>1
<1>9. Moves(r, h)
  BY Zenon, <1>7, <1>8 DEF Moves
<1>10. Starts(r, h, id)
  BY Zenon, <1>1, <1>2, <1>3, <1>4, <1>6, <1>7, <1>9, FirstStarts DEF StartStream
<1>. QED  BY Zenon, <1>10

LEMMA StartParentStarts ==
    ASSUME Typed, NEW r \in Requests, StartParent(r)
    PROVE  \E h, id : Starts(r, h, id)
<1>1. PICK q \in Handlers : q = req[r] /\ Shaped(q)
  BY Zenon, Here
<1>2. Shaped(q) /\ q.at = "start" /\ q.kind = "fork" /\ q.jails = <<>>
  BY Zenon, <1>1 DEF StartParent, At, Shaped, JailsShaped
<1>3. PICK id \in Ids \cup {NoRow} :
         /\ start({}, id)
         /\ req' = [req EXCEPT ![r].at = "spawn", ![r].recs = <<id>>]
  BY Zenon DEF StartParent
<1>4. PICK at, jails : at = "spawn" /\ jails = q.jails
  BY Zenon
<1>5. FirstPlace(q.kind, at, jails)
  BY Zenon, <1>2, <1>4 DEF FirstPlace
<1>6. PICK recs : recs = <<id>> /\ recs \in Seq(Ids \cup {NoRow}) /\ Len(recs) = 1
  BY Zenon, FirstRow
<1>7. PICK h : /\ h = With(q, at, recs, jails, q.ended, q.fork)
               /\ Shaped(h) /\ h.at = at /\ h.recs = recs /\ h.ended = 0
  <2>1. recs \in Seq(Ids \cup {NoRow}) /\ Len(recs) = 1
    BY Zenon, <1>6
  <2>2. Shaped(q) /\ q.at = "start"
    BY Zenon, <1>2
  <2>. QED  BY <1>5, <2>1, <2>2, FirstShape
<1>8. req' = [req EXCEPT ![r] = h]
  <2>1. req' = [req EXCEPT ![r] = With(q, "spawn", <<id>>, q.jails, q.ended, q.fork)]
    BY Zenon, <1>1, <1>3 DEF With, Handlers
  <2>. QED  BY Zenon, <1>4, <1>6, <1>7, <2>1
<1>9. Moves(r, h)
  BY Zenon, <1>7, <1>8 DEF Moves
<1>10. Starts(r, h, id)
  BY Zenon, <1>1, <1>2, <1>3, <1>4, <1>6, <1>7, <1>9, FirstStarts DEF StartParent, tasks
<1>. QED  BY Zenon, <1>10

\* A fork's next child: after the last one its jails are run.
LEMMA ChildShape ==
    ASSUME NEW q \in Handlers, Shaped(q), q.at = "children", NEW id \in Ids \cup {NoRow},
           NEW at, at = IF Len(q.recs) = q.kids THEN "monitor" ELSE "children"
    PROVE  \E h : /\ h = With(q, at, Append(q.recs, id), Append(q.jails, "off"), q.ended, q.fork)
                  /\ Shaped(h) /\ h.at = at /\ h.recs = Append(q.recs, id) /\ h.ended = 0
                  /\ \A k \in DOMAIN h.recs : Sampled(q, k) => Sampled(h, k)
<1>1. /\ q.recs \in Seq(Ids \cup {NoRow}) /\ q.jails \in Seq(JailStates) /\ q.kids \in Nat
      /\ "off" \in JailStates
  BY Fields DEF JailStates
<1>2. /\ Len(q.recs) \in 1..q.kids /\ q.ended = 0 /\ q.kind = "fork" /\ q.fork = NoFork
      /\ Len(q.jails) = Len(q.recs) /\ q.jails[1] = "up" /\ KindShaped(q)
  BY Zenon DEF Shaped, RowsShaped, JailsShaped, KindShaped, CloneShaped
<1>3. PICK recs : /\ recs = Append(q.recs, id) /\ recs \in Seq(Ids \cup {NoRow})
                  /\ Len(recs) = Len(q.recs) + 1
  <2>1. Append(q.recs, id) \in Seq(Ids \cup {NoRow}) /\ Len(Append(q.recs, id)) = Len(q.recs) + 1
    BY <1>1, Appended
  <2>. QED  BY Zenon, <2>1
<1>4. PICK jails : /\ jails = Append(q.jails, "off") /\ jails \in Seq(JailStates)
                   /\ Len(jails) = Len(q.jails) + 1 /\ jails[1] = "up"
  <2>1. 1 \in DOMAIN q.jails
    BY <1>1, <1>2
  <2>2. /\ Append(q.jails, "off") \in Seq(JailStates) /\ Append(q.jails, "off")[1] = q.jails[1]
        /\ Len(Append(q.jails, "off")) = Len(q.jails) + 1
    BY <1>1, <2>1, Appended
  <2>. QED  BY Zenon, <1>2, <2>2
<1>5. recs \in Seq(Ids \cup {NoRow}) /\ Len(recs) = Len(q.recs) + 1
  BY Zenon, <1>3
<1>6. jails \in Seq(JailStates) /\ Len(jails) = Len(recs) /\ jails[1] = "up"
  BY Zenon, <1>2, <1>4, <1>5
<1> DEFINE h == With(q, at, recs, jails, q.ended, q.fork)
<1>7. /\ h \in Handlers /\ h.at = at /\ h.kind = q.kind /\ h.kids = q.kids
      /\ h.recs = recs /\ h.jails = jails /\ h.ended = q.ended /\ h.fork = q.fork
  BY Zenon, <1>5, <1>6 DEF With, Handlers, JailStates
<1>. HIDE DEF h
<1>8. CloneShaped(h.at, h.fork) /\ KindShaped(h)
  BY Zenon, <1>2, <1>7 DEF CloneShaped, KindShaped
<1>9. RowsShaped(h)
  BY <1>1, <1>2, <1>5, <1>7 DEF RowsShaped
<1>10. JailsShaped(h)
  BY Zenon, <1>2, <1>6, <1>7 DEF JailsShaped
<1>11. \A k \in DOMAIN h.recs : Sampled(q, k) => Sampled(h, k)
  BY <1>2, <1>7 DEF Sampled, Mon
<1>12. Shaped(h)
  BY Zenon, <1>7, <1>8, <1>9, <1>10 DEF Shaped
<1>. QED  BY Zenon, <1>2, <1>3, <1>4, <1>7, <1>11, <1>12 DEF h

LEMMA StartChildStarts ==
    ASSUME Typed, NEW r \in Requests, StartChild(r)
    PROVE  \E h, id : Starts(r, h, id)
<1>1. PICK q \in Handlers : q = req[r] /\ Shaped(q)
  BY Zenon, Here
<1>2. Shaped(q) /\ q.at = "children" /\ q.ended = 0
  BY Zenon, <1>1 DEF StartChild, At, Shaped, RowsShaped
<1>3. PICK at : at = IF Len(q.recs) = q.kids THEN "monitor" ELSE "children"
  BY Zenon
<1>4. PICK id \in Ids \cup {NoRow} :
         /\ start({q.recs[1]}, id)
         /\ req' = [req EXCEPT ![r].recs = Append(@, id), ![r].jails = Append(@, "off"),
                               ![r].at = IF Len(q.recs) = q.kids THEN "monitor" ELSE @]
  BY Zenon, <1>1 DEF StartChild
<1>5. req' = [req EXCEPT ![r] =
                  With(q, at, Append(q.recs, id), Append(q.jails, "off"), q.ended, q.fork)]
  BY ZenonT(30), <1>1, <1>2, <1>3, <1>4 DEF With, Handlers
<1>6. PICK h : /\ h = With(q, at, Append(q.recs, id), Append(q.jails, "off"), q.ended, q.fork)
               /\ Shaped(h) /\ h.at = at /\ h.recs = Append(q.recs, id) /\ h.ended = 0
               /\ \A k \in DOMAIN h.recs : Sampled(q, k) => Sampled(h, k)
  BY <1>2, <1>3, ChildShape
<1>7. Moves(r, h)
  BY Zenon, <1>5, <1>6 DEF Moves
<1>8. \A k \in DOMAIN h.recs : ~Flushed(q, k)
  BY Zenon, <1>2 DEF Flushed
<1>9. TasksFit(r, h)
  <2>1. /\ samplers' = samplers /\ flushers' = flushers /\ tails' = tails /\ samples' = samples
        /\ samplers \subseteq Ids /\ flushers \subseteq Ids /\ samples \subseteq Ids
        /\ tails \subseteq Ids \X (0..MaxLines)
    BY Zenon DEF StartChild, Typed, tasks
  <2>2. (samplers' \ samplers) \cup (flushers' \ flushers) = {}
    BY Zenon, <2>1
  <2>3. \A k \in DOMAIN h.recs : Sampled(req[r], k) => Sampled(h, k)
    BY Zenon, <1>1, <1>6
  <2>4. \A k \in DOMAIN h.recs : ~Flushed(req[r], k)
    BY Zenon, <1>1, <1>8
  <2>. QED  BY Zenon, <2>1, <2>2, <2>3, <2>4 DEF TasksFit
<1>10. RowStarted(id)
  BY Zenon, <1>4, StartStarts
<1>11. h.recs = Append(req[r].recs, id) /\ h.ended = 0 /\ req[r].ended = 0
  BY Zenon, <1>1, <1>2, <1>6
<1>12. Starts(r, h, id)
  BY Zenon, <1>7, <1>9, <1>10, <1>11 DEF Starts, StartChild
<1>. QED  BY Zenon, <1>12
-----------------------------------------------------------------------------
(* Steps that end a row *)

\* Whether the ledger is the ring or the table.
LEMMA EndingRow ==
    ASSUME NEW r, NEW id, error(id) \/ (finish(id) /\ At(r, "record"))
    PROVE  RowEnded(r, id)
BY Zenon DEF error, finish, pg_error, pg_finish, RowEnded

\* A handler that is through with its rows returns.
LEMMA ReturnMoves ==
    ASSUME Typed, NEW r \in Requests, Return(r), UNCHANGED tasks
    PROVE  Moves(r, Idle) /\ TasksFit(r, Idle) /\ Idle.recs = <<>>
<1>1. Moves(r, Idle)
  BY Zenon, IdleShaped DEF Return, Moves
<1>2. DOMAIN Idle.recs = {}
  BY IdleShaped
<1>. QED  BY Zenon, <1>1, <1>2, IdleShaped DEF TasksFit, tasks, Typed

LEMMA RecordRowEnds ==
    ASSUME Typed, NEW r \in Requests, RecordRow(r)
    PROVE  \E h : Ends(r, h)
<1>1. /\ req[r].at = "record" /\ req[r].ended = 0 /\ Len(req[r].recs) = 1
      /\ 1 \in DOMAIN req[r].recs
  <2>1. PICK q \in Handlers : q = req[r] /\ Shaped(q)
    BY Zenon, Here
  <2>2. q.at = "record" /\ q.kind # "fork" /\ q.recs \in Seq(Ids \cup {NoRow}) /\ q.ended \in Nat
    BY <2>1, Fields DEF RecordRow, At
  <2>3. Len(q.recs) = 1 /\ q.ended < Len(q.recs)
    BY Zenon, <2>1, <2>2 DEF Shaped, RowsShaped
  <2>. QED  BY <2>1, <2>2, <2>3
<1>2. RowEnded(r, req[r].recs[1])
  BY Zenon, EndingRow DEF RecordRow
<1>3. Moves(r, Idle) /\ TasksFit(r, Idle) /\ Idle.recs = <<>>
  BY Zenon, ReturnMoves DEF RecordRow
<1>4. Ends(r, Idle)
  BY <1>1, <1>2, <1>3 DEF Ends, RecordRow
<1>. QED  BY Zenon, <1>4

\* A fork that has ended its next row: it goes on recording, or on to what is
\* left.
LEMMA EndShape ==
    ASSUME NEW q \in Handlers, Shaped(q), q.kind = "fork", q.at \in {"record", "stragglers"},
           q.ended < Len(q.recs), NEW at, NEW jails,
           \/ at = "stragglers" /\ jails = <<>>
           \/ at = "record" /\ q.at = "record" /\ jails = q.jails /\ q.ended + 1 < Len(q.recs)
    PROVE  \E h : /\ h = With(q, at, q.recs, jails, q.ended + 1, q.fork)
                  /\ Shaped(h) /\ h.at = at /\ h.recs = q.recs /\ h.ended = q.ended + 1
<1>1. /\ q.recs \in Seq(Ids \cup {NoRow}) /\ Len(q.recs) \in Nat /\ q.jails \in Seq(JailStates)
      /\ q.kids \in Nat /\ q.ended \in Nat /\ MaxRows \in Nat
  BY Fields, LedgerAssumption
<1>2. q.kids > 0 /\ q.kids < MaxRows /\ q.fork = NoFork /\ KindShaped(q)
  BY Zenon DEF Shaped, KindShaped, CloneShaped
<1>3. Len(q.recs) \in 1..(q.kids + 1) /\ (q.at = "record" => Len(q.recs) = q.kids + 1)
  BY <1>1 DEF Shaped, RowsShaped
<1>4. jails \in Seq(JailStates) /\ q.ended + 1 \in 0..MaxRows /\ at \in Places
  <2>1. jails \in Seq(JailStates)
    BY Zenon, <1>1, UpTyped
  <2>2. q.ended + 1 \in 0..MaxRows
    BY <1>1, <1>2, <1>3
  <2>. QED  BY Zenon, <2>1, <2>2 DEF Places
<1> DEFINE h == With(q, at, q.recs, jails, q.ended + 1, q.fork)
<1>5. /\ h \in Handlers /\ h.at = at /\ h.kind = q.kind /\ h.kids = q.kids
      /\ h.recs = q.recs /\ h.jails = jails /\ h.ended = q.ended + 1 /\ h.fork = q.fork
  BY Zenon, <1>4 DEF With, Handlers, JailStates, Places
<1>. HIDE DEF h
<1>6. CloneShaped(h.at, h.fork) /\ KindShaped(h)
  BY Zenon, <1>2, <1>5 DEF CloneShaped, KindShaped
<1>7. RowsShaped(h)
  BY <1>1, <1>3, <1>5 DEF RowsShaped
<1>8. JailsShaped(h)
  BY Zenon, <1>5 DEF Shaped, JailsShaped
<1>9. Shaped(h)
  BY Zenon, <1>5, <1>6, <1>7, <1>8 DEF Shaped
<1>. QED  BY Zenon, <1>5, <1>9 DEF h

\* It has ended its next row.
LEMMA NextEnds ==
    ASSUME Typed, NEW r \in Requests, NEW h, Moves(r, h),
           req[r].at \in {"record", "stragglers"}, h.at \in {"stragglers", req[r].at},
           req[r].ended < Len(req[r].recs), h.recs = req[r].recs, h.ended = req[r].ended + 1,
           RowEnded(r, req[r].recs[req[r].ended + 1]),
           UNCHANGED <<backend, todo, next_id, buf, tasks>>
    PROVE  Ends(r, h)
<1>1. req[r].recs \in Seq(Ids \cup {NoRow}) /\ req[r].ended \in Nat
  BY Here, Fields
<1>2. req[r].ended + 1 \in DOMAIN req[r].recs
  BY <1>1
<1>3. \A k \in DOMAIN h.recs : (Sampled(req[r], k) => Sampled(h, k)) /\ ~Flushed(req[r], k)
  BY Zenon DEF Sampled, Flushed
<1>4. TasksFit(r, h)
  BY Zenon, <1>3 DEF TasksFit, tasks, Typed
<1>. QED  BY Zenon, <1>2, <1>4 DEF Ends

LEMMA RecordForkEnds ==
    ASSUME Typed, NEW r \in Requests, RecordFork(r)
    PROVE  \E h : Ends(r, h)
<1>1. PICK q \in Handlers : q = req[r] /\ Shaped(q)
  BY Zenon, Here
<1>2. Shaped(q) /\ q.at = "record" /\ q.kind = "fork" /\ q.ended < Len(q.recs)
  BY Zenon, <1>1 DEF RecordFork, At, Shaped, RowsShaped
<1>3. q.recs \in Seq(Ids \cup {NoRow}) /\ q.ended \in Nat
  BY Fields
<1>4. At(r, "record") /\ UNCHANGED <<backend, todo, next_id, buf, tasks>>
  BY Zenon DEF RecordFork
<1>5. CASE error_row(r, q.ended + 1)
  <2>1. RowEnded(r, req[r].recs[req[r].ended + 1])
    BY Zenon, <1>1, <1>5, EndingRow DEF error_row
  <2>2. req' = [req EXCEPT ![r] = With(q, "stragglers", q.recs, <<>>, q.ended + 1, q.fork)]
    BY ZenonT(30), <1>1, <1>5 DEF error_row, With, Handlers
  <2>3. PICK h : /\ h = With(q, "stragglers", q.recs, <<>>, q.ended + 1, q.fork)
                 /\ Shaped(h) /\ h.at = "stragglers" /\ h.recs = q.recs /\ h.ended = q.ended + 1
    BY <1>2, EndShape
  <2>4. Moves(r, h)
    BY Zenon, <2>2, <2>3 DEF Moves
  <2>. QED  BY Zenon, <1>1, <1>2, <1>4, <2>1, <2>3, <2>4, NextEnds
<1>6. CASE finish(q.recs[q.ended + 1]) /\ q.ended + 1 # Len(q.recs)
           /\ req' = [req EXCEPT ![r].ended = q.ended + 1]
  <2>1. RowEnded(r, req[r].recs[req[r].ended + 1])
    BY Zenon, <1>1, <1>4, <1>6, EndingRow
  <2>2. req' = [req EXCEPT ![r] = With(q, "record", q.recs, q.jails, q.ended + 1, q.fork)]
    <3>1. [q EXCEPT !.ended = q.ended + 1] = With(q, "record", q.recs, q.jails, q.ended + 1, q.fork)
      BY ZenonT(30), <1>2 DEF With, Handlers
    <3>2. req' = [req EXCEPT ![r] = [q EXCEPT !.ended = q.ended + 1]]
      BY <1>1, <1>6
    <3>. QED  BY Zenon, <3>1, <3>2
  <2>3. q.ended + 1 < Len(q.recs)
    BY <1>2, <1>3, <1>6
  <2>4. PICK h : /\ h = With(q, "record", q.recs, q.jails, q.ended + 1, q.fork)
                 /\ Shaped(h) /\ h.at = "record" /\ h.recs = q.recs /\ h.ended = q.ended + 1
    BY <1>2, <2>3, EndShape
  <2>5. Moves(r, h)
    BY Zenon, <2>2, <2>4 DEF Moves
  <2>. QED  BY Zenon, <1>1, <1>2, <1>4, <2>1, <2>4, <2>5, NextEnds
<1>7. CASE finish(q.recs[q.ended + 1]) /\ q.ended + 1 = Len(q.recs) /\ Return(r)
  <2>1. RowEnded(r, req[r].recs[req[r].ended + 1]) /\ req[r].ended + 1 \in DOMAIN req[r].recs
    BY <1>1, <1>3, <1>4, <1>7, EndingRow
  <2>2. Moves(r, Idle) /\ TasksFit(r, Idle) /\ Idle.recs = <<>>
    BY Zenon, <1>4, <1>7, ReturnMoves
  <2>3. Ends(r, Idle)
    BY Zenon, <1>1, <1>2, <1>4, <1>7, <2>1, <2>2 DEF Ends
  <2>. QED  BY Zenon, <2>3
<1>. QED  BY Zenon, <1>1, <1>5, <1>6, <1>7 DEF RecordFork

LEMMA FailStragglerEnds ==
    ASSUME Typed, NEW r \in Requests, FailStraggler(r)
    PROVE  \E h : Ends(r, h)
<1>1. PICK q \in Handlers : q = req[r] /\ Shaped(q)
  BY Zenon, Here
<1>2. Shaped(q) /\ q.at = "stragglers" /\ q.kind = "fork" /\ q.ended <= Len(q.recs) /\ q.jails = <<>>
  BY Zenon, <1>1 DEF FailStraggler, At, Shaped, RowsShaped, KindShaped, JailsShaped
<1>3. q.recs \in Seq(Ids \cup {NoRow}) /\ q.ended \in Nat
  BY Fields
<1>4. UNCHANGED <<backend, todo, next_id, buf, tasks>>
  BY Zenon DEF FailStraggler
<1>5. fail_stragglers(r) = {k \in DOMAIN q.recs : k > q.ended}
  BY Zenon, <1>1 DEF fail_stragglers
<1>6. CASE fail_stragglers(r) = {}
  <2>1. Len(q.recs) = q.ended
    <3>1. q.ended < Len(q.recs) => Len(q.recs) \in fail_stragglers(r)
      BY <1>3, <1>5
    <3>. QED  BY <1>2, <1>3, <1>6, <3>1
  <2>2. Moves(r, Idle) /\ TasksFit(r, Idle) /\ Idle.recs = <<>> /\ UNCHANGED <<rows, orphans>>
    BY Zenon, <1>4, <1>6, ReturnMoves DEF FailStraggler
  <2>3. Ends(r, Idle)
    BY Zenon, <1>1, <1>2, <1>4, <2>1, <2>2 DEF Ends
  <2>. QED  BY Zenon, <2>3
<1>7. CASE fail_stragglers(r) # {}
  <2> DEFINE k == CHOOSE i \in fail_stragglers(r) : \A j \in fail_stragglers(r) : i <= j
  <2>1. q.ended + 1 \in fail_stragglers(r) /\ \A j \in fail_stragglers(r) : q.ended + 1 <= j
    BY <1>3, <1>5, <1>7
  <2>2. k \in fail_stragglers(r) /\ \A j \in fail_stragglers(r) : k <= j
    BY Zenon, <2>1
  <2>3. error(q.recs[k]) /\ req' = [req EXCEPT ![r].ended = k]
    BY Zenon, <1>1, <1>7 DEF FailStraggler
  <2>. HIDE DEF k
  <2>4. k = q.ended + 1 /\ q.ended < Len(q.recs)
    BY <1>3, <1>5, <2>1, <2>2
  <2>5. RowEnded(r, req[r].recs[req[r].ended + 1])
    BY Zenon, <1>1, <2>3, <2>4, EndingRow
  <2>6. req' = [req EXCEPT ![r] = With(q, "stragglers", q.recs, <<>>, q.ended + 1, q.fork)]
    BY ZenonT(30), <1>1, <1>2, <2>3, <2>4 DEF With, Handlers
  <2>7. PICK h : /\ h = With(q, "stragglers", q.recs, <<>>, q.ended + 1, q.fork)
                 /\ Shaped(h) /\ h.at = "stragglers" /\ h.recs = q.recs /\ h.ended = q.ended + 1
    BY <1>2, <2>4, EndShape
  <2>8. Moves(r, h)
    BY Zenon, <2>6, <2>7 DEF Moves
  <2>. QED  BY Zenon, <1>1, <1>2, <1>4, <2>4, <2>5, <2>7, <2>8, NextEnds
<1>. QED  BY Zenon, <1>6, <1>7

\* Before the row: directories and clones.
LEMMA PrepareSteps ==
    ASSUME Typed
    PROVE  \A r \in Requests : PrepareExec(r) \/ CloneRepo(r) \/ PrepareRun(r) \/ PrepareStream(r) =>
              \E h : Works(r, h)
BY Zenon, PrepareExecWorks, CloneRepoWorks, PrepareRunWorks, PrepareStreamWorks

\* A fork's parent and the clones of its output.
LEMMA ForkSteps ==
    ASSUME Typed
    PROVE  \A r \in Requests : SpawnParent(r) \/ Freeze(r) \/ cow_clone(r) \/ LiveFork(r) \/ ParentRuns(r) =>
              \E h : Works(r, h)
BY Zenon, SpawnParentWorks, FreezeWorks, cow_cloneWorks, LiveForkWorks, ParentRunsWorks

\* The jails of a handler, side by side.
LEMMA MonitorSteps ==
    ASSUME Typed
    PROVE  \A r \in Requests : \A k \in DOMAIN req[r].jails :
              SpawnJail(r, k) \/ WaitJail(r, k) \/ StopTasks(r, k) \/ FinalTail(r, k) =>
                 \E h : Works(r, h)
BY Zenon, SpawnJailWorks, WaitJailWorks, StopTasksWorks, FinalTailWorks

\* The jails have returned, or the stream has ended.
LEMMA JoinSteps ==
    ASSUME Typed
    PROVE  \A r \in Requests : Joined(r) \/ DrainStream(r) \/ ReapStream(r) =>
              \E h : Works(r, h)
BY Zenon, JoinedWorks, DrainStreamWorks, ReapStreamWorks

\* A row is started.
LEMMA StartSteps ==
    ASSUME Typed
    PROVE  \A r \in Requests : StartRow(r) \/ StartStream(r) \/ StartParent(r) \/ StartChild(r) =>
              \E h, id : Starts(r, h, id)
BY Zenon, StartRowStarts, StartStreamStarts, StartParentStarts, StartChildStarts

\* A row is ended.
LEMMA EndSteps ==
    ASSUME Typed
    PROVE  \A r \in Requests : RecordRow(r) \/ RecordFork(r) \/ FailStraggler(r) =>
              \E h : Ends(r, h)
BY Zenon, RecordRowEnds, RecordForkEnds, FailStragglerEnds

\* Every step of a handler, and of a fork's parent, is of one of the kinds.
LEMMA HandleKinds ==
    ASSUME Typed, NEW r \in Requests, Handle(r) \/ ParentRuns(r)
    PROVE  (\E h : Works(r, h)) \/ (\E h, id : Starts(r, h, id)) \/ (\E h : Ends(r, h))
BY Zenon, PrepareSteps, ForkSteps, MonitorSteps, JoinSteps, StartSteps, EndSteps DEF Handle
-----------------------------------------------------------------------------
(* The other steps *)

\* A request arrives, a line is captured or a task writes: the handlers there
\* are stay where they are, and one that is new has no row.
Aside ==
    /\ LiveWrite
    /\ req' \in Seq(Handlers) /\ Requests \subseteq DOMAIN req'
    /\ \A s \in Requests : req'[s] = req[s]
    /\ \A s \in DOMAIN req' \ Requests : req'[s].recs = <<>>
    /\ \A id \in Ids : buf'[id] # buf[id] =>
          \E r \in Requests : \E k \in DOMAIN req[r].recs : Alive(r, k) /\ req[r].recs[k] = id
    /\ UNCHANGED <<backend, next_id, samplers, flushers, orphans>>

\* A handler whose client went away is idle, the others are as they were.
LEMMA HangupMoves ==
    ASSUME Typed, NEW r \in Requests, Hangup(r)
    PROVE  Moves(r, Idle) /\ Typed'
<1>1. Moves(r, Idle)
  BY Zenon, IdleShaped DEF Hangup, Return, Moves
<1>2. /\ req' \in Seq(Handlers)
      /\ \A s \in DOMAIN req' : Shaped(req'[s])
  BY Zenon, <1>1, MovesTyped
<1>3. orphans' \subseteq Ids
  BY Zenon DEF Hangup, Typed
<1>. QED  BY Zenon, <1>1, <1>2, <1>3 DEF Typed, Hangup, Requests, tasks

\* After a restart every handler is idle.
LEMMA RestartTyped ==
    ASSUME Typed, Restart
    PROVE  Typed' /\ DOMAIN req' = Requests /\ \A s \in Requests : req'[s] = Idle
<1>1. req \in Seq(Handlers) /\ Idle \in Handlers /\ Shaped(Idle)
  BY Zenon, IdleShaped DEF Typed, Shaped
<1>2. req' \in Seq(Handlers) /\ DOMAIN req' = Requests /\ \A s \in Requests : req'[s] = Idle
  BY <1>1 DEF Restart, Requests
<1>3. rows' \in Rows /\ next_id' \in 1..(MaxRows + 1) /\ buf' \in [Ids -> 0..MaxLines]
  BY LedgerAssumption DEF Restart, Typed, Rows
<1>4. orphans' \subseteq Ids
  BY Zenon DEF Restart, Typed
<1>. QED  BY Zenon, <1>1, <1>2, <1>3, <1>4 DEF Typed, Restart, Requests

\* A request that arrives, if there is a permit.
LEMMA BeginAside ==
    ASSUME Typed, Begin
    PROVE  Typed' /\ Aside
<1>1. /\ todo \in Seq(Handlers) /\ todo # <<>> /\ req \in Seq(Handlers)
      /\ \A i \in DOMAIN todo : Fresh(todo[i])
  BY Zenon DEF Typed, Begin
<1>2. PICK q \in Handlers : q = Head(todo) /\ Fresh(q)
  BY Zenon, <1>1, Rest
<1>3. todo' \in Seq(Handlers) /\ \A i \in DOMAIN todo' : Fresh(todo'[i])
  BY Zenon, <1>1, Rest DEF Begin
<1> DEFINE h == With(q, "prepare", q.recs, q.jails, q.ended, q.fork)
<1>4. /\ h \in Handlers /\ h.at = "prepare" /\ h.kind = q.kind /\ h.kids = q.kids
      /\ h.recs = q.recs /\ h.jails = q.jails /\ h.ended = q.ended /\ h.fork = q.fork
  BY Zenon DEF With, Handlers
<1>5. req' = Append(req, h) \/ req' = req
  BY Zenon, <1>2 DEF Begin, With, Handlers
<1>. HIDE DEF h
<1>6. q.recs = <<>> /\ q.jails = <<>> /\ q.ended = 0 /\ q.fork = NoFork
  BY <1>2 DEF Fresh, Request
<1>7. Shaped(h)
  <2>1. CloneShaped(h.at, h.fork) /\ KindShaped(h)
    BY Zenon, <1>2, <1>4, <1>6 DEF CloneShaped, KindShaped, Fresh
  <2>2. Len(h.recs) = 0
    BY <1>4, <1>6
  <2>3. RowsShaped(h) /\ JailsShaped(h)
    BY <1>4, <1>6, <2>2 DEF RowsShaped, JailsShaped
  <2>. QED  BY Zenon, <1>4, <2>1, <2>3 DEF Shaped
<1>8. /\ req' \in Seq(Handlers) /\ Requests \subseteq DOMAIN req'
      /\ \A s \in Requests : req'[s] = req[s]
      /\ \A s \in DOMAIN req' \ Requests : req'[s] = h
  <2>1. CASE req' = req
    BY Zenon, <1>1, <2>1 DEF Requests
  <2>2. CASE req' = Append(req, h)
    BY <1>1, <1>4, <2>2, Appended DEF Requests
  <2>. QED  BY Zenon, <1>5, <2>1, <2>2
<1>9. \A s \in DOMAIN req' : Shaped(req'[s])
  BY Zenon, <1>7, <1>8 DEF Typed
<1>10. LiveWrite
  BY Zenon DEF Begin, LiveWrite, Typed
<1>11. Typed'
  BY Zenon, <1>3, <1>8, <1>9 DEF Typed, Begin, tasks, Requests
<1>12. Aside
  BY Zenon, <1>4, <1>6, <1>8, <1>10 DEF Aside, Begin, tasks
<1>. QED  BY Zenon, <1>11, <1>12

\* A row that a task writes, with the tasks' calls under way.
LEMMA TaskAside ==
    ASSUME Typed, LiveWrite, samples' \subseteq samples, tails' \subseteq tails,
           UNCHANGED <<backend, todo, next_id, req, buf, samplers, flushers, orphans>>
    PROVE  Typed' /\ Aside
<1>1. Typed'
  BY Zenon DEF Typed, LiveWrite, Requests
<1>2. Aside
  BY Zenon DEF Typed, Aside, Requests
<1>. QED  BY Zenon, <1>1, <1>2

LEMMA WritesAside ==
    ASSUME Typed, (\E id \in Ids : WriteSample(id) \/ Flush(id)) \/ FlushLate
    PROVE  Typed' /\ Aside
<1>1. ASSUME NEW id \in Ids, WriteSample(id)
      PROVE  Typed' /\ Aside
  BY Zenon, <1>1, SampleWrites, TaskAside DEF WriteSample
<1>2. ASSUME NEW id \in Ids, Flush(id)
      PROVE  Typed' /\ Aside
  <2>1. buf[id] \in 0..MaxLines
    BY Zenon DEF Typed
  <2>. QED  BY Zenon, <1>2, <2>1, TailWrites, TaskAside DEF Flush, tasks
<1>3. CASE FlushLate
  <2>1. PICK w \in tails : tail(w[1], w[2]) /\ tails' = tails \ {w}
    BY Zenon, <1>3 DEF FlushLate
  <2>2. w[2] \in 0..MaxLines
    BY Zenon DEF Typed
  <2>. QED  BY Zenon, <1>3, <2>1, <2>2, TailWrites, TaskAside DEF FlushLate
<1>. QED  BY Zenon, <1>1, <1>2, <1>3

LEMMA ReadLineAside ==
    ASSUME Typed, NEW r \in Requests, NEW k \in DOMAIN req[r].jails, ReadLine(r, k)
    PROVE  Typed' /\ Aside
<1>1. req[r].at = "monitor" /\ Alive(r, k) /\ req[r].recs[k] # NoRow
  BY Zenon DEF ReadLine, At
<1>2. PICK id \in Ids : id = req[r].recs[k] /\ k \in DOMAIN req[r].recs
  <2>1. PICK q \in Handlers : q = req[r] /\ Shaped(q)
    BY Zenon, Here
  <2>2. Len(q.jails) = Len(q.recs) /\ q.jails \in Seq(JailStates) /\ q.recs \in Seq(Ids \cup {NoRow})
    BY Zenon, <1>1, <2>1, Fields DEF Shaped, JailsShaped
  <2>3. k \in DOMAIN req[r].recs
    BY <2>1, <2>2
  <2>. QED  BY Zenon, <1>1, <2>3, RowOf
<1>3. /\ buf' = [buf EXCEPT ![id] = buf[id] + 1] /\ buf[id] < MaxLines
      /\ UNCHANGED <<backend, todo, rows, next_id, req, tasks, orphans>>
  BY Zenon, <1>2 DEF ReadLine
<1>4. buf' \in [Ids -> 0..MaxLines] /\ \A j \in Ids : buf'[j] # buf[j] => j = id
  BY <1>3, LedgerAssumption DEF Typed
<1>5. Typed'
  BY Zenon, <1>3, <1>4 DEF Typed, Requests, tasks
<1>6. LiveWrite
  BY Zenon, <1>3 DEF LiveWrite, Typed
<1>7. Aside
  BY <1>1, <1>2, <1>3, <1>4, <1>6 DEF Typed, Aside, Requests, tasks
<1>. QED  BY Zenon, <1>5, <1>7

\* A step is one of a handler, drops one or all of them, or leaves them alone.
LEMMA Steps ==
    ASSUME Typed, [Next]_vars
    PROVE  \/ \E r \in Requests : \E h : Works(r, h)
           \/ \E r \in Requests : \E h, id : Starts(r, h, id)
           \/ \E r \in Requests : \E h : Ends(r, h)
           \/ \E r \in Requests : Hangup(r)
           \/ Restart
           \/ Typed' /\ Aside
<1>1. CASE UNCHANGED vars
  <2>1. LiveWrite
    BY Zenon, <1>1 DEF vars, LiveWrite, Typed
  <2>. QED  BY Zenon, <1>1, <2>1, TaskAside DEF vars
<1>2. ASSUME NEW r \in Requests, NEW k \in DOMAIN req[r].jails, ReadLine(r, k)
      PROVE  Typed' /\ Aside
  BY Zenon, <1>2, ReadLineAside
<1>. QED  BY Zenon, <1>1, <1>2, HandleKinds, BeginAside, WritesAside DEF Next

LEMMA TypedStep == Typed /\ [Next]_vars => Typed'
BY Zenon, Steps, WorksTyped, StartsTyped, EndsTyped, HangupMoves, RestartTyped

LEMMA TypedInit == Init => Typed
<1> SUFFICES ASSUME Init PROVE Typed
  BY Zenon
<1>1. todo \in Seq(Handlers) /\ \A i \in DOMAIN todo : todo[i] \in Handlers /\ Fresh(todo[i])
  <2>1. todo \in Workloads /\ todo \in Seq(Handlers)
    BY Zenon, WorkloadAssumption DEF Init
  <2>. QED  BY <2>1, WorkloadAssumption DEF Fresh
<1>2. rows \in Rows /\ next_id \in 1..(MaxRows + 1) /\ buf \in [Ids -> 0..MaxLines]
  BY LedgerAssumption DEF Init, Rows
<1>3. req \in Seq(Handlers) /\ DOMAIN req = {}
  BY DEF Init
<1>. QED  BY Zenon, <1>1, <1>2, <1>3 DEF Init, Typed, Requests

\* Every handler has the rows, jails and clone that its place in the code
\* says, and the ledger, the tasks and their writes are of their types.
THEOREM Typing == Spec => []Typed
BY TypedInit, TypedStep, PTL DEF Spec

\* A fork's clone that was reported as frozen is of one version.
THEOREM ClonesConsistent == Spec => []FrozenClonesConsistent
<1>1. Typed => FrozenClonesConsistent
  BY DEF Typed, Shaped, CloneShaped, FrozenClonesConsistent, At
<1>. QED  BY <1>1, Typing, PTL
=============================================================================
