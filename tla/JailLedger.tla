----------------------------- MODULE JailLedger -----------------------------
(***************************************************************************)
(* The jail ledger and the four handlers that write it: POST /v1/runs,     *)
(* POST /v1/sessions/:id/exec, POST /v1/runs/stream and POST /v1/runs/fork.*)
(* A handler takes an execution permit, starts one ledger row per jail,    *)
(* runs the jails and ends the rows.  While a jail runs, two detached      *)
(* tasks write the same row: a sampler of its cgroup and (for a monitored  *)
(* jail) a ticker that flushes the captured output.  The ledger is either  *)
(* the in-memory ring or the Postgres table.                               *)
(*                                                                         *)
(* A handler is a future: a client that hangs up drops it at an await, and *)
(* with it its jails and its permit, but not the tasks it had spawned.     *)
(***************************************************************************)
EXTENDS Naturals, Sequences, FiniteSets

CONSTANTS
    Workloads,  \* the sequences of requests to explore, in order of arrival
    Backends,   \* the ledgers to explore: "memory", "postgres"
    MaxExecs,   \* permits of exec_semaphore
    Capacity,   \* rows the in-memory ring keeps
    MaxRows,    \* bound: the most rows a workload starts
    MaxLines,   \* bound: output lines captured from one jail, writes of a fork's parent
    MaxFiles    \* bound: files in a fork parent's output directory

ASSUME LedgerAssumption ==
    /\ {MaxExecs, Capacity, MaxRows, MaxLines, MaxFiles} \subseteq Nat
    /\ Capacity > 0
    /\ Backends \subseteq {"memory", "postgres"}

VARIABLES
    backend,    \* which JailStore the server was started with
    rows,       \* the ledger: id -> row
    next_id,    \* the id the next row gets
    todo,       \* requests yet to arrive
    req,        \* the handlers of those that have
    buf,        \* id -> lines captured from the row's jail so far
    samplers,   \* ids whose cgroup sampler task is running
    flushers,   \* ids whose output flush task is running
    samples,    \* ids with a sample_stats call still under way after the abort
    tails,      \* the same for tail calls of flush tasks: <<id, lines read>>
    orphans     \* history: ids whose handler was dropped or died before it
                \* ended the row, or whose ending statement failed

vars == <<backend, rows, next_id, todo, req, buf, samplers, flushers, samples, tails,
          orphans>>
tasks == <<samplers, flushers, samples, tails>>
-----------------------------------------------------------------------------
(* Rows.  Absent: never started, evicted from the ring, or NoRow, the      *)
(* sentinel id start returns when the INSERT failed.                       *)

Ids == 1..MaxRows
Requests == DOMAIN req
NoRow == 0
Absent == [status |-> "absent"]

\* stats: sampled while it ran (or not yet), or the ones its Output carried;
\* out: how many captured lines the row shows.
new_running == [status |-> "running", stats |-> "live", out |-> 0]

JailRecord ==
    [status : {"running", "completed", "error"}, stats : {"live", "final"},
     out : 0..MaxLines]

Present(id) == id \in Ids /\ rows[id] # Absent
Pg == backend = "postgres"

\* A row-updating statement: WHERE id = $1, or find(|r| r.id == id).
Update(id, row) == IF Present(id) THEN [rows EXCEPT ![id] = row] ELSE rows

(* The in-memory store. *)
mem_startUnbounded == [rows EXCEPT ![next_id] = new_running]
mem_start ==
    LET kept == {i \in Ids : Present(i)}
        old  == CHOOSE i \in kept : \A j \in kept : i <= j
    IN  IF Cardinality(kept) >= Capacity
        THEN [rows EXCEPT ![old] = Absent, ![next_id] = new_running]
        ELSE [rows EXCEPT ![next_id] = new_running]
mem_sample_stats(id) == Update(id, [rows[id] EXCEPT !.stats = "live"])
mem_tail(id, n) == Update(id, [rows[id] EXCEPT !.out = n])
mem_finish(id) ==
    Update(id, [status |-> "completed", stats |-> "final", out |-> buf[id]])
mem_error(id) == Update(id, [rows[id] EXCEPT !.status = "error"])

(* The Postgres store: live updates carry "AND status = 'running'". *)
WhileRunning(id, updated) ==
    IF Present(id) /\ rows[id].status = "running" THEN updated ELSE rows
pg_sample_statsAnytime(id) == mem_sample_stats(id)
pg_sample_stats(id) == WhileRunning(id, mem_sample_stats(id))
pg_tail(id, n) == WhileRunning(id, mem_tail(id, n))

\* start returns its id; a failed INSERT (also one whose parent row does not
\* exist) gives NoRow, and every later update of NoRow is a no-op.
pg_start(parents, id) ==
    \/ /\ id = next_id /\ \A p \in parents : Present(p)
       /\ rows' = [rows EXCEPT ![id] = new_running]
       /\ next_id' = next_id + 1
    \/ id = NoRow /\ UNCHANGED <<rows, next_id>>

\* An UPDATE that ends the row; its failure is dropped.
pg_finish(id) ==
    \/ rows' = mem_finish(id) /\ UNCHANGED orphans
    \/ rows' = rows /\ orphans' = orphans \cup ({id} \cap Ids)
pg_error(id) ==
    \/ rows' = mem_error(id) /\ UNCHANGED orphans
    \/ rows' = rows /\ orphans' = orphans \cup ({id} \cap Ids)

(* The JailStore trait.  The configuration that attach_config stores and   *)
(* the parent link are not kept in the model.                              *)
start(parents, id) ==
    IF Pg THEN pg_start(parents, id)
    ELSE id = next_id /\ rows' = mem_start /\ next_id' = next_id + 1
sample_stats(id) ==
    rows' = IF Pg THEN pg_sample_stats(id) ELSE mem_sample_stats(id)
tail(id, n) == rows' = IF Pg THEN pg_tail(id, n) ELSE mem_tail(id, n)
finish(id) == IF Pg THEN pg_finish(id) ELSE rows' = mem_finish(id) /\ UNCHANGED orphans
error(id) == IF Pg THEN pg_error(id) ELSE rows' = mem_error(id) /\ UNCHANGED orphans
-----------------------------------------------------------------------------
(* Handlers.  recs are the ids of the rows the handler has started, jails  *)
(* the matching jails, ended how many of the rows it has ended (the code's *)
(* finalized set: rows are ended in order).                                *)

Kinds == {"run", "exec", "stream", "fork"}
\* A fork's clones made so far and the one being made: the versions of the
\* parent's output its files were read at, and the parent's freezer.
NoFork == [clones |-> 0, read |-> <<>>, writes |-> 0, freezer |-> "off",
           was_frozen |-> FALSE]
Request(kind, repos, kids) ==
    [at |-> "idle", kind |-> kind, repos |-> repos, kids |-> kids,
     recs |-> <<>>, jails |-> <<>>, ended |-> 0, fork |-> NoFork]
Idle == Request("run", 0, 0)

At(r, place) == req[r].at = place
InProgress(r) == r \in Requests /\ ~At(r, "idle")
To(r, place) == req' = [req EXCEPT ![r].at = place]
Return(r) == req' = [req EXCEPT ![r] = Idle]
\* Jails that run_monitored runs; a fork's parent is awaited directly.
Monitored(r, k) == req[r].kind \in {"run", "exec"} \/ (req[r].kind = "fork" /\ k > 1)

\* try_acquire; the permit goes when the handler's future, or a fork's run,
\* is gone, so a fork ending its stragglers holds none.
Holders == {r \in Requests : req[r].at \notin {"idle", "stragglers"}}

Alive(r, k) == k \in DOMAIN req[r].jails /\ req[r].jails[k] = "up"
Owns(r, id) == \E k \in DOMAIN req[r].recs :
                   req[r].recs[k] = id /\ k > req[r].ended
-----------------------------------------------------------------------------
(* Request validation, then the permit; a refused request is gone.         *)
Begin ==
    /\ todo # <<>>
    /\ todo' = Tail(todo)
    /\ req' = IF Cardinality(Holders) < MaxExecs
              THEN Append(req, [Head(todo) EXCEPT !.at = "prepare"]) ELSE req
    /\ UNCHANGED <<backend, rows, next_id, buf, tasks, orphans>>

\* exec_in_session: directories and Jail::new; an error returns before any row
\* exists.
PrepareExec(r) ==
    /\ At(r, "prepare") /\ req[r].kind = "exec"
    /\ Return(r) \/ To(r, "start")
    /\ UNCHANGED <<backend, todo, rows, next_id, buf, tasks, orphans>>

\* clone_one, once per repository of git_clone: a bad URL or ref, 60 s, or a
\* non-zero exit of git end the request.
CloneRepo(r) ==
    /\ At(r, "prepare") /\ req[r].kind \in {"run", "fork"} /\ req[r].repos > 0
    /\ Return(r) \/ req' = [req EXCEPT ![r].repos = @ - 1]
    /\ UNCHANGED <<backend, todo, rows, next_id, buf, tasks, orphans>>

\* create_run and a fork's run, after the clones: the same for them.
PrepareRun(r) ==
    /\ At(r, "prepare") /\ req[r].kind \in {"run", "fork"} /\ req[r].repos = 0
    /\ Return(r) \/ To(r, "start")
    /\ UNCHANGED <<backend, todo, rows, next_id, buf, tasks, orphans>>

\* A stream clones nothing, and spawns its jail before it starts the row.
PrepareStream(r) ==
    /\ At(r, "prepare") /\ req[r].kind = "stream"
    /\ Return(r) \/ req' = [req EXCEPT ![r].at = "start", ![r].jails = <<"up">>]
    /\ UNCHANGED <<backend, todo, rows, next_id, buf, tasks, orphans>>

\* jails.start and jails.attach_config of a run or an exec.
StartRow(r) ==
    /\ At(r, "start") /\ req[r].kind \in {"run", "exec"}
    /\ \E id \in Ids \cup {NoRow} :
          /\ start({}, id)
          /\ req' = [req EXCEPT ![r].at = "monitor", ![r].recs = <<id>>,
                                ![r].jails = <<"off">>]
    /\ UNCHANGED <<backend, todo, buf, tasks, orphans>>

\* The same for a stream, which then starts its sampler and returns its body.
StartStream(r) ==
    /\ At(r, "start") /\ req[r].kind = "stream"
    /\ \E id \in Ids \cup {NoRow} :
          /\ start({}, id)
          /\ req' = [req EXCEPT ![r].at = "stream", ![r].recs = <<id>>]
          /\ samplers' = samplers \cup ({id} \ {NoRow})
    /\ UNCHANGED <<backend, todo, buf, flushers, samples, tails, orphans>>
-----------------------------------------------------------------------------
(* Fork: the parent, then a copy-on-write clone of its output per child.   *)

StartParent(r) ==
    /\ At(r, "start") /\ req[r].kind = "fork"
    /\ \E id \in Ids \cup {NoRow} :
          /\ start({}, id)
          /\ req' = [req EXCEPT ![r].at = "spawn", ![r].recs = <<id>>]
    /\ UNCHANGED <<backend, todo, buf, tasks, orphans>>

\* run returned Err: its locals, the parent's handle among them, are dropped
\* (the sampler's JoinHandle too, which does not stop the task), and the
\* handler goes on to fail_stragglers.
FailForkHolds(r) == To(r, "stragglers")
FailFork(r) ==
    req' = [req EXCEPT ![r].at = "stragglers", ![r].jails = <<>>, ![r].fork = NoFork]

SpawnParent(r) ==
    /\ At(r, "spawn")
    /\ \/ /\ req' = [req EXCEPT ![r].at = "settle", ![r].jails = <<"up">>]
          /\ samplers' = samplers \cup ({req[r].recs[1]} \ {NoRow})
       \/ FailFork(r) /\ UNCHANGED samplers
    /\ UNCHANGED <<backend, todo, rows, next_id, buf, flushers, samples, tails, orphans>>

\* Cgroup::freeze writes "1" and polls cgroup.events for 50 ms: frozen; or the
\* write failed; or the deadline passed, and the freeze stays requested.
wait_for_frozenNot(f) == {[freezer |-> "asked", ok |-> TRUE], [freezer |-> f, ok |-> FALSE]}
wait_for_frozen(f) ==
    {[freezer |-> "on", ok |-> TRUE], [freezer |-> f, ok |-> FALSE],
     [freezer |-> IF f = "on" THEN f ELSE "asked", ok |-> FALSE]}

\* After the sleep, once per child: a directory for it, and the freeze.
Freeze(r) ==
    /\ req[r].at \in {"settle", "fork"}
    /\ \/ FailFork(r)
       \/ \E o \in wait_for_frozen(req[r].fork.freezer) :
             req' = [req EXCEPT ![r].at = "clone", ![r].fork.freezer = o.freezer,
                                ![r].fork.was_frozen = o.ok]
    /\ UNCHANGED <<backend, todo, rows, next_id, buf, tasks, orphans>>

\* The next file, by reflink or by copy; the first that fails ends the clone.
cow_clone(r) ==
    /\ At(r, "clone") /\ Len(req[r].fork.read) < MaxFiles
    /\ \/ FailFork(r)
       \/ req' = [req EXCEPT ![r].fork.read = Append(@, req[r].fork.writes)]
    /\ UNCHANGED <<backend, todo, rows, next_id, buf, tasks, orphans>>

\* Every file is there: the thaw, whose failure is dropped, if the freeze
\* succeeded, and the next child.  (After the last one the model forgets the
\* parent's freezer: a frozen parent is killed at its timeout.)
LiveFork(r) ==
    LET q == req[r].fork IN
    /\ At(r, "clone") /\ Len(q.read) = MaxFiles
    /\ \E f \in {q.freezer} \cup (IF q.was_frozen THEN {"off"} ELSE {}) :
          req' = IF q.clones + 1 = req[r].kids
                 THEN [req EXCEPT ![r].at = "children", ![r].fork = NoFork]
                 ELSE [req EXCEPT ![r].at = "fork",
                          ![r].fork = [q EXCEPT !.clones = @ + 1, !.read = <<>>, !.freezer = f,
                                                !.was_frozen = FALSE]]
    /\ UNCHANGED <<backend, todo, rows, next_id, buf, tasks, orphans>>

\* The parent's command writes its output unless it is frozen; a freeze that
\* missed its deadline may still come into effect.
ParentRuns(r) ==
    /\ req[r].at \in {"settle", "fork", "clone"}
    /\ \/ /\ req[r].fork.freezer # "on" /\ req[r].fork.writes < MaxLines
          /\ req' = [req EXCEPT ![r].fork.writes = @ + 1]
       \/ /\ req[r].fork.freezer = "asked"
          /\ req' = [req EXCEPT ![r].fork.freezer = "on"]
    /\ UNCHANGED <<backend, todo, rows, next_id, buf, tasks, orphans>>

\* One row per child, linked to the parent's; after the last one the children
\* are run.
StartChild(r) ==
    LET q == req[r] IN
    /\ At(r, "children")
    /\ \E id \in Ids \cup {NoRow} :
          /\ start({q.recs[1]}, id)
          /\ req' = [req EXCEPT ![r].recs = Append(@, id),
                                ![r].jails = Append(@, "off"),
                                ![r].at = IF Len(q.recs) = q.kids THEN "monitor" ELSE @]
    /\ UNCHANGED <<backend, todo, buf, tasks, orphans>>
-----------------------------------------------------------------------------
(* run_monitored, one per monitored jail of the handler, side by side.     *)

SpawnJail(r, k) ==
    LET id == req[r].recs[k] IN
    /\ At(r, "monitor") /\ Monitored(r, k) /\ req[r].jails[k] = "off"
    /\ \/ /\ req' = [req EXCEPT ![r].jails[k] = "up"]
          /\ samplers' = samplers \cup ({id} \ {NoRow})
          /\ flushers' = flushers \cup ({id} \ {NoRow})
       \/ /\ req' = [req EXCEPT ![r].jails[k] = "failed"]
          /\ UNCHANGED <<samplers, flushers>>
    /\ UNCHANGED <<backend, todo, rows, next_id, buf, samples, tails, orphans>>

\* A line read from the jail's pipes goes to the shared buffer.
ReadLine(r, k) ==
    LET id == req[r].recs[k] IN
    /\ At(r, "monitor") /\ Monitored(r, k) /\ Alive(r, k)
    /\ id # NoRow /\ buf[id] < MaxLines
    /\ buf' = [buf EXCEPT ![id] = @ + 1]
    /\ UNCHANGED <<backend, todo, rows, next_id, req, tasks, orphans>>

\* handle.wait() returns: the jail is reaped and its cgroup removed.
WaitJail(r, k) ==
    /\ At(r, "monitor") /\ Alive(r, k)
    /\ req' = [req EXCEPT ![r].jails[k] = "gone"]
    /\ UNCHANGED <<backend, todo, rows, next_id, buf, tasks, orphans>>

\* abort() ends the task, not the call it may have under way: a sampler
\* spawns each write, and a flush task may be past its last await.
AbortSampler(id) ==
    /\ samplers' = samplers \ {id}
    /\ samples' \in {samples, samples \cup (samplers \cap {id})}
AbortFlusherNot(id) == UNCHANGED <<flushers, tails>>
AbortFlusher(id) ==
    /\ flushers' = flushers \ {id}
    /\ tails' \in {tails} \cup
          {tails \cup {<<id, n>>} : n \in {m \in 0..MaxLines :
                                         id \in flushers /\ m <= buf[id]}}

StopTasks(r, k) ==
    /\ At(r, "monitor") /\ Monitored(r, k) /\ req[r].jails[k] = "gone"
    /\ AbortSampler(req[r].recs[k]) /\ AbortFlusher(req[r].recs[k])
    /\ req' = [req EXCEPT ![r].jails[k] = "swept"]
    /\ UNCHANGED <<backend, todo, rows, next_id, buf, orphans>>

\* The last buffer goes to the row.
FinalTail(r, k) ==
    LET id == req[r].recs[k] IN
    /\ At(r, "monitor") /\ req[r].jails[k] = "swept"
    /\ IF id = NoRow THEN rows' = rows ELSE tail(id, buf[id])
    /\ req' = [req EXCEPT ![r].jails[k] = "done"]
    /\ UNCHANGED <<backend, todo, next_id, buf, tasks, orphans>>

HasReturnedOk(r, k) ==
    req[r].jails[k] \in IF Monitored(r, k) THEN {"done"} ELSE {"gone"}
HasReturned(r, k) ==
    req[r].jails[k] \in IF Monitored(r, k) THEN {"done", "failed"} ELSE {"gone"}

\* Every jail has returned; a fork then aborts its parent's sampler.
Joined(r) ==
    /\ At(r, "monitor")
    /\ \A k \in DOMAIN req[r].jails : HasReturned(r, k)
    /\ IF req[r].kind = "fork" THEN AbortSampler(req[r].recs[1])
                               ELSE UNCHANGED <<samplers, samples>>
    /\ To(r, "record")
    /\ UNCHANGED <<backend, todo, rows, next_id, buf, flushers, tails, orphans>>
-----------------------------------------------------------------------------
(* The event stream: drained, samplers aborted, then the jail is awaited.  *)

DrainStream(r) ==
    /\ At(r, "stream")
    /\ AbortSampler(req[r].recs[1])
    /\ To(r, "reap")
    /\ UNCHANGED <<backend, todo, rows, next_id, buf, flushers, tails, orphans>>

ReapStream(r) ==
    /\ At(r, "reap")
    /\ req' = [req EXCEPT ![r].at = "record", ![r].jails = <<"done">>]
    /\ UNCHANGED <<backend, todo, rows, next_id, buf, tasks, orphans>>
-----------------------------------------------------------------------------
(* Ending the rows. *)

RecordRow(r) ==
    /\ At(r, "record") /\ req[r].kind # "fork"
    /\ IF req[r].jails[1] = "failed" THEN error(req[r].recs[1])
                                     ELSE finish(req[r].recs[1])
    /\ Return(r)
    /\ UNCHANGED <<backend, todo, next_id, buf, tasks>>

\* The row is marked as finalized, and run returns.
error_rowForgets(r, k) ==
    /\ error(req[r].recs[k])
    /\ req' = [req EXCEPT ![r].at = "stragglers", ![r].jails = <<>>, ![r].ended = 0]
error_row(r, k) ==
    /\ error(req[r].recs[k])
    /\ req' = [req EXCEPT ![r].at = "stragglers", ![r].jails = <<>>, ![r].ended = k]

\* A fork ends its rows in order; the first error ends the run, and the rows
\* it has not ended, those of children that succeeded included, are stragglers.
RecordFork(r) ==
    LET q == req[r]
        k == q.ended + 1
    IN  /\ At(r, "record") /\ q.kind = "fork"
        /\ \/ q.jails[k] = "failed" /\ error_row(r, k)
           \/ /\ q.jails[k] # "failed"
              /\ finish(q.recs[k])
              /\ IF k = Len(q.recs) THEN Return(r)
                                    ELSE req' = [req EXCEPT ![r].ended = k]
        /\ UNCHANGED <<backend, todo, next_id, buf, tasks>>

fail_stragglersChildren(r) ==
    {k \in DOMAIN req[r].recs : k > req[r].ended /\ k > 1}
fail_stragglers(r) == {k \in DOMAIN req[r].recs : k > req[r].ended}

\* One straggler after the other, the parent's row first.
FailStraggler(r) ==
    LET left == fail_stragglers(r)
        k    == CHOOSE i \in left : \A j \in left : i <= j
    IN  /\ At(r, "stragglers")
        /\ IF left = {} THEN Return(r) /\ UNCHANGED <<rows, orphans>>
           ELSE /\ error(req[r].recs[k])
                /\ req' = [req EXCEPT ![r].ended = k]
        /\ UNCHANGED <<backend, todo, next_id, buf, tasks>>
-----------------------------------------------------------------------------
(* The detached tasks write while they run, and once more at most when     *)
(* aborted.  (A call that ends before the abort is one step: nobody else   *)
(* writes those columns in between.  A sample of a removed cgroup reads    *)
(* zeros, which the model does not tell from other samples.)               *)

WriteSample(id) ==
    /\ id \in samplers \cup samples
    /\ sample_stats(id)
    /\ samples' = samples \ {id}
    /\ UNCHANGED <<backend, todo, next_id, req, buf, samplers, flushers, tails, orphans>>

Flush(id) ==
    /\ id \in flushers
    /\ tail(id, buf[id])
    /\ UNCHANGED <<backend, todo, next_id, req, buf, tasks, orphans>>

FlushLate ==
    /\ \E w \in tails : tail(w[1], w[2]) /\ tails' = tails \ {w}
    /\ UNCHANGED <<backend, todo, next_id, req, buf, samplers, flushers, samples, orphans>>
-----------------------------------------------------------------------------
(* Faults. *)

\* Places where the handler's future can be waiting when the client goes.
Awaiting(r) ==
    \/ req[r].at \in {"prepare", "settle", "monitor", "stream", "reap"}
    \/ Pg /\ req[r].at \in {"start", "children", "record", "stragglers"}

Hangup(r) ==
    /\ Awaiting(r)
    /\ Return(r)
    /\ orphans' = orphans \cup {id \in Ids : Owns(r, id)}
    /\ UNCHANGED <<backend, todo, rows, next_id, buf, tasks>>

\* The process dies and starts again: tasks and handlers are gone, and with
\* the ring the ledger as well.  Nothing revisits the table's open rows.
Restart ==
    /\ req' = [r \in Requests |-> Idle]
    /\ samplers' = {} /\ flushers' = {} /\ samples' = {} /\ tails' = {}
    /\ IF Pg
       THEN /\ orphans' = orphans \cup {id \in Ids : \E r \in Requests : Owns(r, id)}
            /\ UNCHANGED <<rows, next_id, buf>>
       ELSE /\ rows' = [id \in Ids |-> Absent] /\ next_id' = 1
            /\ buf' = [id \in Ids |-> 0] /\ orphans' = {}
    /\ UNCHANGED <<backend, todo>>
-----------------------------------------------------------------------------
Init ==
    /\ backend \in Backends
    /\ rows = [id \in Ids |-> Absent]
    /\ next_id = 1
    /\ todo \in Workloads
    /\ req = <<>>
    /\ buf = [id \in Ids |-> 0]
    /\ orphans = {}
    /\ samplers = {} /\ flushers = {} /\ samples = {} /\ tails = {}

\* One step of a handler towards its return.
Handle(r) ==
    \/ PrepareExec(r) \/ CloneRepo(r) \/ PrepareRun(r) \/ PrepareStream(r)
    \/ StartRow(r) \/ StartStream(r)
    \/ StartParent(r) \/ SpawnParent(r) \/ Freeze(r) \/ cow_clone(r) \/ LiveFork(r)
    \/ StartChild(r)
    \/ Joined(r) \/ DrainStream(r) \/ ReapStream(r)
    \/ RecordRow(r) \/ RecordFork(r) \/ FailStraggler(r)
    \/ \E k \in DOMAIN req[r].jails :
          SpawnJail(r, k) \/ WaitJail(r, k) \/ StopTasks(r, k) \/ FinalTail(r, k)

Next ==
    \/ Begin
    \/ \E r \in Requests :
          \/ Handle(r) \/ ParentRuns(r) \/ Hangup(r)
          \/ \E k \in DOMAIN req[r].jails : ReadLine(r, k)
    \/ \E id \in Ids : WriteSample(id) \/ Flush(id)
    \/ FlushLate
    \/ Restart

Spec == Init /\ [][Next]_vars

\* A handler's future is polled when it is ready, statements return, and a
\* jail's command ends or is killed at its timeout.
Fairness == \A r \in 1..MaxRows : WF_vars(InProgress(r) /\ Handle(r))
FairSpec == Spec /\ Fairness
-----------------------------------------------------------------------------
Handlers ==
    [at : {"idle", "prepare", "start", "spawn", "settle", "fork", "clone", "children",
           "monitor", "stream", "reap", "record", "stragglers"},
     kind : Kinds, repos : Nat, kids : 0..MaxRows, recs : Seq(Ids \cup {NoRow}),
     jails : Seq({"off", "up", "gone", "swept", "done", "failed"}),
     ended : 0..MaxRows,
     fork : [clones : 0..MaxRows, read : Seq(0..MaxLines), writes : 0..MaxLines,
             freezer : {"off", "asked", "on"}, was_frozen : BOOLEAN]]

\* A workload is a sequence of requests; a fork has a child, and its rows are
\* within the bound.
ASSUME WorkloadAssumption ==
    /\ Workloads \subseteq Seq(Handlers)
    /\ \A w \in Workloads : \A i \in DOMAIN w :
          /\ w[i] = Request(w[i].kind, w[i].repos, w[i].kids)
          /\ w[i].kind = "fork" => w[i].kids > 0 /\ w[i].kids < MaxRows

\* Shapes of the state, and of the ring: with InMemoryJailStore the rows
\* present are the last ones started, at most Capacity of them.
TypeOK ==
    /\ backend \in Backends
    /\ rows \in [Ids -> JailRecord \cup {Absent}]
    /\ next_id \in 1..(MaxRows + 1)
    /\ req \in Seq(Handlers)
    /\ buf \in [Ids -> 0..MaxLines]
    /\ samplers \subseteq Ids /\ flushers \subseteq Ids
    /\ samples \subseteq Ids
    /\ tails \subseteq Ids \X (0..MaxLines)
    /\ orphans \subseteq Ids
    /\ ~Pg => \A id \in Ids :
                Present(id) <=> id < next_id /\ id + Capacity >= next_id

\* No row is left "running" by a handler that came to its end: whatever fails
\* on the way, a row that says running has a handler that will still end it,
\* unless that handler was dropped or died, or the statement ending it failed.
\* (fork.rs: "siblings + parent don't stay 'running'".)
RunningRowsOwned ==
    \A id \in Ids : Present(id) /\ rows[id].status = "running" =>
        id \in orphans \/ \E r \in Requests : Owns(r, id)

\* An ended row stays ended the same way: no straggler pass, late task or
\* second recording turns completed into error, or either back into running.
EndedStays ==
    [][\A id \in Ids : Present(id) /\ rows[id].status # "running" =>
          rows'[id] = Absent \/ rows'[id].status = rows[id].status]_vars

\* A row is ended only when its jail is gone: while a jail runs, the row that
\* stands for it (if it has one) says running.
EndedMeansDead ==
    \A r \in Requests : \A k \in DOMAIN req[r].recs :
        Alive(r, k) /\ Present(req[r].recs[k]) =>
            rows[req[r].recs[k]].status = "running"

\* With the Postgres ledger a completed row keeps the final statistics and the
\* whole captured output: samples and flushes that were under way when the
\* tasks were aborted cannot overwrite them.
FinalFiguresKept ==
    Pg => \A id \in Ids : Present(id) /\ rows[id].status = "completed" =>
              rows[id].stats = "final" /\ rows[id].out = buf[id]

\* A completed row has no task left behind: both were aborted before the row
\* was ended.  (Rows that were cut or errored may still have one.)
CompletedHasNoTasks ==
    \A id \in samplers \cup flushers :
        Present(id) => rows[id].status # "completed"

\* "The running jail is frozen for the duration of the clone so the copy is
\* consistent" (agentjail/src/fork.rs): a clone reported as was_frozen holds one
\* version of the parent's output, also after an earlier child's freeze missed its
\* deadline and came into effect late, or a thaw failed.
FrozenClonesConsistent ==
    \A r \in Requests : At(r, "clone") /\ req[r].fork.was_frozen =>
        \A i, j \in DOMAIN req[r].fork.read : req[r].fork.read[i] = req[r].fork.read[j]

\* Every handler returns, and gives back its permit.
RequestsEnd == \A r \in 1..MaxRows : InProgress(r) ~> ~InProgress(r)
=============================================================================
