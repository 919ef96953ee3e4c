----------------------------- MODULE Workspace -----------------------------
(***************************************************************************)
(* Persistent workspaces of the control plane: the exec route, the per-    *)
(* workspace mutexes, the tracker of running cgroups, the snapshot, fork,  *)
(* from-snapshot and delete routes, the idle reaper, and a server restart. *)
(*                                                                         *)
(* A request is a one-shot task: "new" until it arrives, "done" when its   *)
(* handler has returned or was dropped.  A directory is the set of updates *)
(* it holds, or NoDir when it does not exist; every jail write adds one     *)
(* update, so work that goes missing shows up as a missing element.        *)
(***************************************************************************)
EXTENDS Naturals, FiniteSets

CONSTANTS
    Workspaces,     \* workspace ids
    InitLive,       \* workspaces that exist when the server starts
    Idling,         \* workspaces with idle_timeout_secs > 0 (the default is 0)
    Execs,          \* exec requests
    Calls,          \* the other requests
    Ops,            \* what the other requests may be
    SnapIds,        \* snapshot ids (bound on captures)
    Permits,        \* exec_semaphore size
    MaxUpdates,     \* bound on jail writes
    MaxForks,       \* bound on fork.count (16 in the code)
    MaxCrashes,     \* bound on server restarts
    FreezeTimeouts, \* whether a freeze may miss its 50 ms deadline
    None,
    NoDir           \* in place of a directory that does not exist

AllOps == {"snapshot", "fork", "restore", "create", "delete", "drop"}

ASSUME ConstantsAssumption ==
    /\ InitLive \subseteq Workspaces
    /\ Idling \subseteq Workspaces
    /\ Ops \subseteq AllOps
    /\ Permits \in Nat /\ MaxUpdates \in Nat /\ MaxForks \in Nat /\ MaxCrashes \in Nat
    /\ FreezeTimeouts \in BOOLEAN
    /\ None \notin Workspaces \cup Execs \cup SnapIds
    /\ \A d \in SUBSET (1..MaxUpdates) : d # NoDir

VARIABLES
    status,   \* row: "absent", "live" or "deleted" (deleted_at set)
    paused,   \* row: paused_at is set
    auto,     \* row: auto_snapshot
    idle,     \* row: last_exec_at is older than idle_timeout_secs
    source,   \* source_dir on disk
    output,   \* workspaces whose output_dir is on disk
    work,     \* history: every update the workspace was given
    updates,  \* number of jail writes so far
    slot,     \* WorkspaceLocks has an entry for the id
    gen,      \* number of mutexes created for the id; the entry is the newest
    held,     \* <<workspace, generation>> of the locked mutexes
    permits,  \* free permits of exec_semaphore
    ex,       \* exec handlers
    jail,     \* per exec: "none" (no cgroup), "running", "exited" (not reaped)
    frozen,   \* per exec: cgroup.freeze of its cgroup
    cgroups,  \* ActiveCgroups: workspace -> exec whose cgroup is published
    call,     \* handlers of the other requests
    snapRow,  \* SnapshotStore: id -> workspace it was taken of
    snapDir,  \* snapshot directory on disk
    minted,   \* snapshot ids generated so far
    reaper,   \* the idle reaper's pass
    crashes

rowVars  == <<status, paused, auto, idle>>
diskVars == <<source, output, work, updates>>
lockVars == <<slot, gen, held>>
execVars == <<permits, ex>>
jailVars == <<jail, frozen, cgroups>>
snapVars == <<snapRow, snapDir, minted>>
vars == <<rowVars, diskVars, lockVars, execVars, jailVars, call, snapVars, reaper, crashes>>

Updates == 1..MaxUpdates
Dirs    == (SUBSET Updates) \cup {NoDir}

LockedAt     == {"locked", "resuming", "restored", "ready", "admitted", "touched", "spawned",
                 "monitored", "waited", "unregistered"}
PermitAt     == {"admitted", "touched", "spawned", "monitored", "waited", "unregistered"}
RegisteredAt == {"monitored", "waited"}
ExecAt       == {"new", "got", "arc", "done"} \cup LockedAt
CallAt       == {"new", "got", "chosen", "open", "copying", "copied", "failed", "thawed",
                 "owned", "building", "built", "marked", "removed", "rowless", "done"}

ExecState ==
    [at : ExecAt, ws : Workspaces \cup {None}, mutex : Nat,
     paused : BOOLEAN, auto : SnapIds \cup {None}]
CallState ==
    [at : CallAt, op : AllOps \cup {"none"}, ws : Workspaces \cup {None},
     snap : SnapIds \cup {None}, active : Execs \cup {None}, iced : BOOLEAN,
     copy : Dirs, child : Workspaces \cup {None}, left : Nat]
ReaperState ==
    [at : {"idle", "scan", "copying", "copied", "inserted", "wiped"},
     queue : SUBSET Workspaces, ws : Workspaces \cup {None},
     snap : SnapIds \cup {None}, copy : Dirs]

NewExec   == [at |-> "new", ws |-> None, mutex |-> 0, paused |-> FALSE, auto |-> None]
NewCall   == [at |-> "new", op |-> "none", ws |-> None, snap |-> None, active |-> None,
              iced |-> FALSE, copy |-> NoDir, child |-> None, left |-> 0]
EndedExec == [NewExec EXCEPT !.at = "done"]
EndedCall == [NewCall EXCEPT !.at = "done"]
NewReaper == [at |-> "idle", queue |-> {}, ws |-> None, snap |-> None, copy |-> NoDir]

Init ==
    /\ status = [w \in Workspaces |-> IF w \in InitLive THEN "live" ELSE "absent"]
    /\ paused = [w \in Workspaces |-> FALSE]
    /\ auto = [w \in Workspaces |-> None]
    /\ idle = [w \in Workspaces |-> FALSE]
    /\ source = [w \in Workspaces |-> IF w \in InitLive THEN {} ELSE NoDir]
    /\ output = InitLive
    /\ work = [w \in Workspaces |-> {}]
    /\ updates = 0
    /\ slot = [w \in Workspaces |-> FALSE]
    /\ gen = [w \in Workspaces |-> 0]
    /\ held = {}
    /\ permits = Permits
    /\ ex = [t \in Execs |-> NewExec]
    /\ jail = [t \in Execs |-> "none"]
    /\ frozen = [t \in Execs |-> FALSE]
    /\ cgroups = [w \in Workspaces |-> None]
    /\ call = [c \in Calls |-> NewCall]
    /\ snapRow = [s \in SnapIds |-> None]
    /\ snapDir = [s \in SnapIds |-> NoDir]
    /\ minted = {}
    /\ reaper = NewReaper
    /\ crashes = 0

----------------------------------------------------------------------------
(* POST /v1/workspaces/:id/exec *)

Mutex(t)    == <<ex[t].ws, ex[t].mutex>>
ExecMoves(t, from, to) == ex[t].at = from /\ ex' = [ex EXCEPT ![t].at = to]

\* Variant: the permit is given back by the last statement, not by a guard's drop.
ReleaseAtEnd(t) ==
    /\ ex' = [ex EXCEPT ![t] = EndedExec]
    /\ held' = held \ {Mutex(t)}
    /\ permits' = IF ex[t].at = "unregistered" THEN permits + 1 ELSE permits
    /\ UNCHANGED <<slot, gen>>

\* The handler returns: permit and mutex guard are dropped.
Release(t) ==
    /\ ex' = [ex EXCEPT ![t] = EndedExec]
    /\ held' = held \ {Mutex(t)}
    /\ permits' = IF ex[t].at \in PermitAt THEN permits + 1 ELSE permits
    /\ UNCHANGED <<slot, gen>>

\* The row is read before the mutex is asked for; its copy is used to the end.
ExecGet(t, w) ==
    /\ ex[t].at = "new"
    /\ status[w] = "live"
    /\ ex' = [ex EXCEPT ![t] = [at |-> "got", ws |-> w, mutex |-> 0,
                                paused |-> paused[w], auto |-> auto[w]]]
    /\ UNCHANGED <<rowVars, diskVars, lockVars, permits, jailVars, call, snapVars, reaper, crashes>>

\* Variant: insert in place of entry().or_insert_with().
ExecLockForInsert(t) ==
    LET w == ex[t].ws
    IN  /\ ex[t].at = "got"
        /\ slot' = [slot EXCEPT ![w] = TRUE]
        /\ gen' = [gen EXCEPT ![w] = @ + 1]
        /\ ex' = [ex EXCEPT ![t].at = "arc", ![t].mutex = gen[w] + 1]
        /\ UNCHANGED <<rowVars, diskVars, held, permits, jailVars, call, snapVars, reaper, crashes>>

\* WorkspaceLocks::lock_for
ExecLockFor(t) ==
    LET w == ex[t].ws
        g == IF slot[w] THEN gen[w] ELSE gen[w] + 1
    IN  /\ ex[t].at = "got"
        /\ slot' = [slot EXCEPT ![w] = TRUE]
        /\ gen' = [gen EXCEPT ![w] = g]
        /\ ex' = [ex EXCEPT ![t].at = "arc", ![t].mutex = g]
        /\ UNCHANGED <<rowVars, diskVars, held, permits, jailVars, call, snapVars, reaper, crashes>>

ExecTryLock(t) ==
    /\ ExecMoves(t, "arc", "locked")
    /\ Mutex(t) \notin held
    /\ held' = held \cup {Mutex(t)}
    /\ UNCHANGED <<rowVars, diskVars, slot, gen, permits, jailVars, call, snapVars, reaper, crashes>>

ExecConflict(t) ==
    /\ ex[t].at = "arc"
    /\ Mutex(t) \in held
    /\ ex' = [ex EXCEPT ![t] = EndedExec]
    /\ UNCHANGED <<rowVars, diskVars, lockVars, permits, jailVars, call, snapVars, reaper, crashes>>

\* Auto-resume is decided on the row copied by ExecGet and the snapshot row of now.
Resumes(t) == ex[t].paused /\ ex[t].auto # None /\ snapRow[ex[t].auto] # None

ExecResume(t) ==
    /\ ExecMoves(t, "locked", "resuming")
    /\ Resumes(t)
    /\ UNCHANGED <<rowVars, diskVars, lockVars, permits, jailVars, call, snapVars, reaper, crashes>>

\* restore_snapshot clears the target, re-creating it if it is gone, and copies.
ExecRestore(t) ==
    /\ ExecMoves(t, "resuming", "restored")
    /\ snapDir[ex[t].auto] # NoDir
    /\ source' = [source EXCEPT ![ex[t].ws] = snapDir[ex[t].auto]]
    /\ UNCHANGED <<rowVars, output, work, updates, lockVars, permits, jailVars, call, snapVars, reaper, crashes>>

ExecRestoreFails(t) ==
    /\ ex[t].at = "resuming"
    /\ snapDir[ex[t].auto] = NoDir
    /\ Release(t)
    /\ UNCHANGED <<rowVars, diskVars, jailVars, call, snapVars, reaper, crashes>>

\* mark_resumed; a no-op on a deleted row
ExecMarkResumed(t) ==
    LET live == status[ex[t].ws] = "live"
    IN  /\ ExecMoves(t, "restored", "ready")
        /\ paused' = IF live THEN [paused EXCEPT ![ex[t].ws] = FALSE] ELSE paused
        /\ auto' = IF live THEN [auto EXCEPT ![ex[t].ws] = None] ELSE auto
        /\ UNCHANGED <<status, idle, diskVars, lockVars, permits, jailVars, call, snapVars, reaper, crashes>>

ExecNoResume(t) ==
    /\ ExecMoves(t, "locked", "ready")
    /\ ~Resumes(t)
    /\ UNCHANGED <<rowVars, diskVars, lockVars, permits, jailVars, call, snapVars, reaper, crashes>>

\* Variant: the result of try_acquire is ignored.
ExecAdmitUngated(t) ==
    /\ ExecMoves(t, "ready", "admitted")
    /\ source[ex[t].ws] # NoDir /\ ex[t].ws \in output
    /\ permits' = permits - 1
    /\ UNCHANGED <<rowVars, diskVars, lockVars, jailVars, call, snapVars, reaper, crashes>>

\* A permit is taken; flavors resolve; Jail::new finds both directories.
ExecAdmit(t) ==
    /\ ExecMoves(t, "ready", "admitted")
    /\ permits > 0
    /\ source[ex[t].ws] # NoDir /\ ex[t].ws \in output
    /\ permits' = permits - 1
    /\ UNCHANGED <<rowVars, diskVars, lockVars, jailVars, call, snapVars, reaper, crashes>>

\* No permit, a flavor that is gone, or a directory that is gone.
ExecReject(t) ==
    /\ ex[t].at = "ready"
    /\ Release(t)
    /\ UNCHANGED <<rowVars, diskVars, jailVars, call, snapVars, reaper, crashes>>

\* touch: last_exec_at = now, once, before the jail is spawned
ExecTouch(t) ==
    /\ ExecMoves(t, "admitted", "touched")
    /\ idle' = IF status[ex[t].ws] = "live" THEN [idle EXCEPT ![ex[t].ws] = FALSE] ELSE idle
    /\ UNCHANGED <<status, paused, auto, diskVars, lockVars, permits, jailVars, call, snapVars, reaper, crashes>>

ExecSpawn(t) ==
    /\ ExecMoves(t, "touched", "spawned")
    /\ jail' = [jail EXCEPT ![t] = "running"]
    /\ UNCHANGED <<rowVars, diskVars, lockVars, permits, frozen, cgroups, call, snapVars, reaper, crashes>>

ExecSpawnFails(t) ==
    /\ ex[t].at = "touched"
    /\ Release(t)
    /\ UNCHANGED <<rowVars, diskVars, jailVars, call, snapVars, reaper, crashes>>

\* ExecRegistration::set_cgroup
ExecPublish(t) ==
    /\ ExecMoves(t, "spawned", "monitored")
    /\ cgroups' = [cgroups EXCEPT ![ex[t].ws] = t]
    /\ UNCHANGED <<rowVars, diskVars, lockVars, permits, jail, frozen, call, snapVars, reaper, crashes>>

\* Both pipes reached EOF, wait() reaped the process and the handle removed the cgroup.
ExecWait(t) ==
    /\ ExecMoves(t, "monitored", "waited")
    /\ jail[t] = "exited"
    /\ jail' = [jail EXCEPT ![t] = "none"]
    /\ frozen' = [frozen EXCEPT ![t] = FALSE]
    /\ UNCHANGED <<rowVars, diskVars, lockVars, permits, cgroups, call, snapVars, reaper, crashes>>

\* ExecRegistration::drop removes whatever entry the workspace has.
ExecUnregister(t) ==
    /\ ExecMoves(t, "waited", "unregistered")
    /\ cgroups' = [cgroups EXCEPT ![ex[t].ws] = None]
    /\ UNCHANGED <<rowVars, diskVars, lockVars, permits, jail, frozen, call, snapVars, reaper, crashes>>

ExecFinish(t) ==
    /\ ex[t].at = "unregistered"
    /\ Release(t)
    /\ UNCHANGED <<rowVars, diskVars, jailVars, call, snapVars, reaper, crashes>>

\* Variant: ExecRegistration without a Drop.
ExecCancelRegistered(t) ==
    /\ ex[t].at \in LockedAt \ {"resuming", "ready", "spawned"}
    /\ Release(t)
    /\ jail' = [jail EXCEPT ![t] = "none"]
    /\ frozen' = [frozen EXCEPT ![t] = FALSE]
    /\ UNCHANGED <<rowVars, diskVars, cgroups, call, snapVars, reaper, crashes>>

\* The client hangs up and the handler is dropped at an await: the jail handle
\* kills the tree, then the registration, the permit and the guard go.
ExecCancel(t) ==
    /\ ex[t].at \in LockedAt \ {"resuming", "ready", "spawned"}
    /\ Release(t)
    /\ jail' = [jail EXCEPT ![t] = "none"]
    /\ frozen' = [frozen EXCEPT ![t] = FALSE]
    /\ cgroups' = IF ex[t].at \in RegisteredAt
                  THEN [cgroups EXCEPT ![ex[t].ws] = None] ELSE cgroups
    /\ UNCHANGED <<rowVars, diskVars, call, snapVars, reaper, crashes>>

----------------------------------------------------------------------------
(* The jailed command; a frozen one makes no step. *)

\* Writes of a jail whose source_dir was unlinked under it reach no directory.
JailWrite(t) ==
    LET w == ex[t].ws
    IN  /\ jail[t] = "running" /\ ~frozen[t]
        /\ source[w] # NoDir
        /\ updates < MaxUpdates
        /\ updates' = updates + 1
        /\ source' = [source EXCEPT ![w] = @ \cup {updates + 1}]
        /\ work' = [work EXCEPT ![w] = @ \cup {updates + 1}]
        /\ UNCHANGED <<rowVars, output, lockVars, execVars, jailVars, call, snapVars, reaper, crashes>>

JailExit(t) ==
    /\ jail[t] = "running" /\ ~frozen[t]
    /\ jail' = [jail EXCEPT ![t] = "exited"]
    /\ UNCHANGED <<rowVars, diskVars, lockVars, execVars, frozen, cgroups, call, snapVars, reaper, crashes>>

----------------------------------------------------------------------------
(* The other requests: snapshot, fork, from-snapshot, create, delete,      *)
(* delete-snapshot.                                                        *)

CallMoves(c, from, to) == call[c].at = from /\ call' = [call EXCEPT ![c].at = to]
CallEnds(c, from) == call[c].at = from /\ call' = [call EXCEPT ![c] = EndedCall]
Captures(c) == call[c].op \in {"snapshot", "fork"}

\* A copy reads each file at some moment between its beginning and its end; one that
\* fails has read some of them.
CopiesOf(before, now, ok) ==
    LET after == IF now = NoDir THEN {} ELSE now
    IN  {x \in SUBSET (before \cup after) : ok => before \cap after \subseteq x}

\* workspaces.get
CallGet(c, o, w, n) ==
    /\ call[c].at = "new"
    /\ o \in Ops \cap {"snapshot", "fork", "delete"}
    /\ o # "fork" => n = 1
    /\ status[w] = "live"
    /\ call' = [call EXCEPT ![c] = [NewCall EXCEPT !.at = "got", !.op = o, !.ws = w, !.left = n]]
    /\ UNCHANGED <<rowVars, diskVars, lockVars, execVars, jailVars, snapVars, reaper, crashes>>

\* active_cgroups.get
CallActive(c) ==
    /\ call[c].at = "got" /\ Captures(c)
    /\ call' = [call EXCEPT ![c].at = "chosen", ![c].active = cgroups[call[c].ws]]
    /\ UNCHANGED <<rowVars, diskVars, lockVars, execVars, jailVars, snapVars, reaper, crashes>>

\* freeze_cgroup succeeds: the cgroup is still there.
CallFreeze(c) ==
    LET e == call[c].active
    IN  /\ call[c].at = "chosen"
        /\ e # None /\ jail[e] # "none"
        /\ frozen' = [frozen EXCEPT ![e] = TRUE]
        /\ call' = [call EXCEPT ![c].at = "open", ![c].iced = TRUE]
        /\ UNCHANGED <<rowVars, diskVars, lockVars, execVars, jail, cgroups, snapVars, reaper, crashes>>

\* No exec was published, or its cgroup is gone and the write fails.
CallNoFreeze(c) ==
    LET e == call[c].active
    IN  /\ CallMoves(c, "chosen", "open")
        /\ e # None => jail[e] = "none"
        /\ UNCHANGED <<rowVars, diskVars, lockVars, execVars, jailVars, snapVars, reaper, crashes>>

\* "1" was written but the kernel did not report "frozen 1" in time: freeze_cgroup
\* returns an error, the request stays written, and the copy proceeds.
CallFreezeTimeout(c) ==
    LET e == call[c].active
    IN  /\ FreezeTimeouts
        /\ CallMoves(c, "chosen", "open")
        /\ e # None /\ jail[e] = "running"
        /\ frozen' = [frozen EXCEPT ![e] = TRUE]
        /\ UNCHANGED <<rowVars, diskVars, lockVars, execVars, jail, cgroups, snapVars, reaper, crashes>>

\* Variant: thaw before the copy.
CallCopyBeginThawed(c, s) ==
    /\ call[c].at = "open"
    /\ source[call[c].ws] # NoDir
    /\ s \notin minted
    /\ minted' = minted \cup {s}
    /\ snapDir' = [snapDir EXCEPT ![s] = {}]
    /\ frozen' = IF call[c].iced THEN [frozen EXCEPT ![call[c].active] = FALSE] ELSE frozen
    /\ call' = [call EXCEPT ![c].at = "copying", ![c].snap = s, ![c].copy = source[call[c].ws]]
    /\ UNCHANGED <<rowVars, diskVars, lockVars, execVars, jail, cgroups, snapRow, reaper, crashes>>

CallCopyBegin(c, s) ==
    /\ call[c].at = "open"
    /\ source[call[c].ws] # NoDir
    /\ s \notin minted
    /\ minted' = minted \cup {s}
    /\ snapDir' = [snapDir EXCEPT ![s] = {}]
    /\ call' = [call EXCEPT ![c].at = "copying", ![c].snap = s, ![c].copy = source[call[c].ws]]
    /\ UNCHANGED <<rowVars, diskVars, lockVars, execVars, jailVars, snapRow, reaper, crashes>>

CallCopyMissing(c) ==
    /\ CallMoves(c, "open", "failed")
    /\ source[call[c].ws] = NoDir
    /\ UNCHANGED <<rowVars, diskVars, lockVars, execVars, jailVars, snapVars, reaper, crashes>>

\* A file fails to copy, or source_dir was unlinked under the copy: an error, and a
\* partial directory is left.
CallCopyEnd(c, x, ok) ==
    LET now == source[call[c].ws]
    IN  /\ call[c].at = "copying"
        /\ ok => now # NoDir
        /\ x \in CopiesOf(call[c].copy, now, ok)
        /\ snapDir' = [snapDir EXCEPT ![call[c].snap] = x]
        /\ call' = [call EXCEPT ![c].at = IF ok THEN "copied" ELSE "failed"]
        /\ UNCHANGED <<rowVars, diskVars, lockVars, execVars, jailVars, snapRow, minted, reaper, crashes>>

\* Variant: `?` on the copy before the thaw.
CallThawOnSuccess(c) ==
    /\ call[c].at \in {"copied", "failed"}
    /\ frozen' = IF call[c].iced /\ call[c].at = "copied"
                 THEN [frozen EXCEPT ![call[c].active] = FALSE] ELSE frozen
    /\ call' = [call EXCEPT ![c] = IF @.at = "copied"
                                   THEN [@ EXCEPT !.at = "thawed", !.iced = FALSE]
                                   ELSE EndedCall]
    /\ UNCHANGED <<rowVars, diskVars, lockVars, execVars, jail, cgroups, snapVars, reaper, crashes>>

\* Thawed exactly when this capture's own freeze succeeded, on error too.
CallThaw(c) ==
    /\ call[c].at \in {"copied", "failed"}
    /\ frozen' = IF call[c].iced THEN [frozen EXCEPT ![call[c].active] = FALSE] ELSE frozen
    /\ call' = [call EXCEPT ![c] = IF @.at = "copied"
                                   THEN [@ EXCEPT !.at = "thawed", !.iced = FALSE]
                                   ELSE EndedCall]
    /\ UNCHANGED <<rowVars, diskVars, lockVars, execVars, jail, cgroups, snapVars, reaper, crashes>>

\* snapshots.insert; a fork goes on to build its children.
CallInsertSnap(c) ==
    /\ call[c].at = "thawed"
    /\ snapRow' = [snapRow EXCEPT ![call[c].snap] = call[c].ws]
    /\ call' = [call EXCEPT ![c] = IF @.op = "fork" THEN [@ EXCEPT !.at = "building"] ELSE EndedCall]
    /\ UNCHANGED <<rowVars, diskVars, lockVars, execVars, jailVars, snapDir, minted, reaper, crashes>>

CallInsertSnapFails(c) ==
    /\ CallEnds(c, "thawed")
    /\ snapDir' = [snapDir EXCEPT ![call[c].snap] = NoDir]
    /\ UNCHANGED <<rowVars, diskVars, lockVars, execVars, jailVars, snapRow, minted, reaper, crashes>>

\* snapshots.get of from-snapshot and delete-snapshot
CallGetSnap(c, o, s) ==
    /\ call[c].at = "new"
    /\ o \in Ops \cap {"restore", "drop"}
    /\ snapRow[s] # None
    /\ call' = [call EXCEPT ![c] = [NewCall EXCEPT !.at = IF o = "drop" THEN "got" ELSE "owned",
                                    !.op = o, !.ws = snapRow[s], !.snap = s, !.left = 1]]
    /\ UNCHANGED <<rowVars, diskVars, lockVars, execVars, jailVars, snapVars, reaper, crashes>>

\* The ownership gate of from-snapshot: the parent must still be there.
CallParent(c) ==
    /\ call[c].at = "owned"
    /\ call' = [call EXCEPT ![c] = IF status[@.ws] = "live" THEN [@ EXCEPT !.at = "building"]
                                                            ELSE EndedCall]
    /\ UNCHANGED <<rowVars, diskVars, lockVars, execVars, jailVars, snapVars, reaper, crashes>>

\* A new id; its config, hence its idle timeout, is the parent's.
FreshFor(c, w) ==
    /\ status[w] = "absent" /\ source[w] = NoDir /\ w \notin output
    /\ call[c].ws # None => (w \in Idling <=> call[c].ws \in Idling)

\* mkdir and restore_snapshot of one child
CallBuild(c, w) ==
    LET dir == snapDir[call[c].snap]
    IN  /\ call[c].at = "building"
        /\ dir # NoDir
        /\ FreshFor(c, w)
        /\ source' = [source EXCEPT ![w] = dir]
        /\ work' = [work EXCEPT ![w] = dir]
        /\ output' = output \cup {w}
        /\ call' = [call EXCEPT ![c].at = "built", ![c].child = w]
        /\ UNCHANGED <<rowVars, updates, lockVars, execVars, jailVars, snapVars, reaper, crashes>>

\* The snapshot directory is gone: the child's directories are removed again.
CallBuildFails(c) ==
    /\ CallEnds(c, "building")
    /\ snapDir[call[c].snap] = NoDir
    /\ UNCHANGED <<rowVars, diskVars, lockVars, execVars, jailVars, snapVars, reaper, crashes>>

\* create_workspace: mkdir, and a clone that leaves the initial tree
CallCreate(c, w) ==
    /\ call[c].at = "new" /\ "create" \in Ops
    /\ FreshFor(c, w)
    /\ source' = [source EXCEPT ![w] = {}]
    /\ work' = [work EXCEPT ![w] = {}]
    /\ output' = output \cup {w}
    /\ call' = [call EXCEPT ![c] = [NewCall EXCEPT !.at = "built", !.op = "create",
                                    !.child = w, !.left = 1]]
    /\ UNCHANGED <<rowVars, updates, lockVars, execVars, jailVars, snapVars, reaper, crashes>>

\* workspaces.insert, and the loop over fork.count
CallInsert(c) ==
    LET w == call[c].child
    IN  /\ call[c].at = "built"
        /\ status' = [status EXCEPT ![w] = "live"]
        /\ call' = [call EXCEPT ![c] =
                       IF @.left > 1
                       THEN [@ EXCEPT !.at = "building", !.child = None, !.left = call[c].left - 1]
                       ELSE EndedCall]
        /\ UNCHANGED <<paused, auto, idle, diskVars, lockVars, execVars, jailVars, snapVars, reaper, crashes>>

CallInsertFails(c) ==
    /\ CallEnds(c, "built")
    /\ source' = [source EXCEPT ![call[c].child] = NoDir]
    /\ output' = output \ {call[c].child}
    /\ UNCHANGED <<rowVars, work, updates, lockVars, execVars, jailVars, snapVars, reaper, crashes>>

\* Variant: the directories go first, the row is marked by nobody if that is cut short.
CallMarkDeletedLast(c) ==
    LET live == status[call[c].ws] = "live"
    IN  /\ call[c].at = "got" /\ call[c].op = "delete"
        /\ IF live THEN CallMoves(c, "got", "marked") ELSE CallEnds(c, "got")
        /\ source' = IF live THEN [source EXCEPT ![call[c].ws] = NoDir] ELSE source
        /\ UNCHANGED <<rowVars, output, work, updates, lockVars, execVars, jailVars, snapVars, reaper, crashes>>

\* mark_deleted, the authoritative step of delete_workspace
CallMarkDeleted(c) ==
    LET live == status[call[c].ws] = "live"
    IN  /\ call[c].at = "got" /\ call[c].op = "delete"
        /\ IF live THEN CallMoves(c, "got", "marked") ELSE CallEnds(c, "got")
        /\ status' = IF live THEN [status EXCEPT ![call[c].ws] = "deleted"] ELSE status
        /\ UNCHANGED <<paused, auto, idle, diskVars, lockVars, execVars, jailVars, snapVars, reaper, crashes>>

CallRemoveDirs(c) ==
    /\ CallMoves(c, "marked", "removed")
    /\ source' = [source EXCEPT ![call[c].ws] = NoDir]
    /\ output' = output \ {call[c].ws}
    /\ UNCHANGED <<rowVars, work, updates, lockVars, execVars, jailVars, snapVars, reaper, crashes>>

\* remove_dir_all fails: a warning, nothing else
CallRemoveDirsFails(c) ==
    /\ CallMoves(c, "marked", "removed")
    /\ UNCHANGED <<rowVars, diskVars, lockVars, execVars, jailVars, snapVars, reaper, crashes>>

\* WorkspaceLocks::forget
CallForget(c) ==
    /\ CallEnds(c, "removed")
    /\ slot' = [slot EXCEPT ![call[c].ws] = FALSE]
    /\ UNCHANGED <<rowVars, diskVars, gen, held, execVars, jailVars, snapVars, reaper, crashes>>

\* Variant: the directory first.
CallDropDirFirst(c) ==
    /\ CallMoves(c, "got", "rowless")
    /\ call[c].op = "drop"
    /\ snapDir' = [snapDir EXCEPT ![call[c].snap] = NoDir]
    /\ UNCHANGED <<rowVars, diskVars, lockVars, execVars, jailVars, snapRow, minted, reaper, crashes>>

\* delete_snapshot: the row first
CallDropRow(c) ==
    LET there == snapRow[call[c].snap] # None
    IN  /\ call[c].at = "got" /\ call[c].op = "drop"
        /\ IF there THEN CallMoves(c, "got", "rowless") ELSE CallEnds(c, "got")
        /\ snapRow' = [snapRow EXCEPT ![call[c].snap] = None]
        /\ UNCHANGED <<rowVars, diskVars, lockVars, execVars, jailVars, snapDir, minted, reaper, crashes>>

\* then the directory; a failure is only logged
CallDropDir(c) ==
    /\ CallEnds(c, "rowless")
    /\ \E gone \in BOOLEAN :
          snapDir' = IF gone THEN [snapDir EXCEPT ![call[c].snap] = NoDir] ELSE snapDir
    /\ UNCHANGED <<rowVars, diskVars, lockVars, execVars, jailVars, snapRow, minted, reaper, crashes>>

\* The client hangs up while the store is writing: the row is written or not, and
\* nothing of the handler runs after it.
CallCancel(c) ==
    /\ call[c].at \in {"thawed", "building", "built", "marked", "rowless"}
    /\ call' = [call EXCEPT ![c] = EndedCall]
    /\ UNCHANGED <<rowVars, diskVars, lockVars, execVars, jailVars, snapVars, reaper, crashes>>

----------------------------------------------------------------------------
(* The idle reaper: one background task, one pass at a time, no mutex. *)

IdleElapses(w) ==
    /\ w \in Idling /\ status[w] = "live" /\ ~idle[w]
    /\ idle' = [idle EXCEPT ![w] = TRUE]
    /\ UNCHANGED <<status, paused, auto, diskVars, lockVars, execVars, jailVars, call, snapVars, reaper, crashes>>

ReaperWith(queue) ==
    [NewReaper EXCEPT !.at = IF queue = {} THEN "idle" ELSE "scan", !.queue = queue]

\* run_once reads every row once; the pass then works from that list.
ReaperList ==
    /\ reaper.at = "idle"
    /\ reaper' = ReaperWith({w \in Workspaces : status[w] = "live" /\ ~paused[w]
                                                /\ w \in Idling /\ idle[w]})
    /\ UNCHANGED <<rowVars, diskVars, lockVars, execVars, jailVars, call, snapVars, crashes>>

\* pause_one: Snapshot::create, without a freeze
ReaperCopyBegin(w, s) ==
    /\ reaper.at = "scan" /\ w \in reaper.queue
    /\ source[w] # NoDir
    /\ s \notin minted
    /\ minted' = minted \cup {s}
    /\ snapDir' = [snapDir EXCEPT ![s] = {}]
    /\ reaper' = [at |-> "copying", queue |-> reaper.queue \ {w}, ws |-> w, snap |-> s,
                  copy |-> source[w]]
    /\ UNCHANGED <<rowVars, diskVars, lockVars, execVars, jailVars, call, snapRow, crashes>>

ReaperCopyMissing(w) ==
    /\ reaper.at = "scan" /\ w \in reaper.queue
    /\ source[w] = NoDir
    /\ reaper' = ReaperWith(reaper.queue \ {w})
    /\ UNCHANGED <<rowVars, diskVars, lockVars, execVars, jailVars, call, snapVars, crashes>>

ReaperCopyEnd(x, ok) ==
    LET now == source[reaper.ws]
    IN  /\ reaper.at = "copying"
        /\ ok => now # NoDir
        /\ x \in CopiesOf(reaper.copy, now, ok)
        /\ snapDir' = [snapDir EXCEPT ![reaper.snap] = x]
        /\ reaper' = IF ok THEN [reaper EXCEPT !.at = "copied"] ELSE ReaperWith(reaper.queue)
        /\ UNCHANGED <<rowVars, diskVars, lockVars, execVars, jailVars, call, snapRow, minted, crashes>>

ReaperInsert ==
    /\ reaper.at = "copied"
    /\ snapRow' = [snapRow EXCEPT ![reaper.snap] = reaper.ws]
    /\ reaper' = [reaper EXCEPT !.at = "inserted"]
    /\ UNCHANGED <<rowVars, diskVars, lockVars, execVars, jailVars, call, snapDir, minted, crashes>>

\* Variant: a failed insert is only logged.
ReaperInsertIgnored ==
    /\ reaper.at = "copied"
    /\ snapDir' = [snapDir EXCEPT ![reaper.snap] = NoDir]
    /\ reaper' = [reaper EXCEPT !.at = "inserted"]
    /\ UNCHANGED <<rowVars, diskVars, lockVars, execVars, jailVars, call, snapRow, minted, crashes>>

ReaperInsertFails ==
    /\ reaper.at = "copied"
    /\ snapDir' = [snapDir EXCEPT ![reaper.snap] = NoDir]
    /\ reaper' = ReaperWith(reaper.queue)
    /\ UNCHANGED <<rowVars, diskVars, lockVars, execVars, jailVars, call, snapRow, minted, crashes>>

\* wipe_dir_contents; an error part-way is ignored
ReaperWipe(rest) ==
    LET w == reaper.ws
    IN  /\ reaper.at = "inserted"
        /\ IF source[w] = NoDir THEN rest = {} ELSE rest \subseteq source[w]
        /\ source' = IF source[w] = NoDir THEN source ELSE [source EXCEPT ![w] = rest]
        /\ reaper' = [reaper EXCEPT !.at = "wiped"]
        /\ UNCHANGED <<rowVars, output, work, updates, lockVars, execVars, jailVars, call, snapVars, crashes>>

\* mark_paused
ReaperMarkPaused ==
    LET live == status[reaper.ws] = "live"
    IN  /\ reaper.at = "wiped"
        /\ paused' = IF live THEN [paused EXCEPT ![reaper.ws] = TRUE] ELSE paused
        /\ auto' = IF live THEN [auto EXCEPT ![reaper.ws] = reaper.snap] ELSE auto
        /\ reaper' = ReaperWith(reaper.queue)
        /\ UNCHANGED <<status, idle, diskVars, lockVars, execVars, jailVars, call, snapVars, crashes>>

----------------------------------------------------------------------------
(* The server dies, its jails with it, and starts again on the durable     *)
(* rows and directories; reconcile_on_startup runs before it serves.       *)
Crash ==
    /\ crashes < MaxCrashes
    /\ crashes' = crashes + 1
    /\ slot' = [w \in Workspaces |-> FALSE]
    /\ held' = {}
    /\ permits' = Permits
    /\ ex' = [t \in Execs |-> IF ex[t].at = "new" THEN ex[t] ELSE EndedExec]
    /\ jail' = [t \in Execs |-> "none"]
    /\ frozen' = [t \in Execs |-> FALSE]
    /\ cgroups' = [w \in Workspaces |-> None]
    /\ call' = [c \in Calls |-> IF call[c].at = "new" THEN call[c] ELSE EndedCall]
    /\ reaper' = NewReaper
    /\ status' = [w \in Workspaces |->
                    IF status[w] = "live" /\ source[w] = NoDir /\ w \notin output
                    THEN "deleted" ELSE status[w]]
    /\ UNCHANGED <<paused, auto, idle, diskVars, gen, snapVars>>

----------------------------------------------------------------------------
ExecStep(t) ==
    \/ ExecLockFor(t) \/ ExecTryLock(t) \/ ExecConflict(t)
    \/ ExecResume(t) \/ ExecRestore(t) \/ ExecRestoreFails(t) \/ ExecMarkResumed(t)
    \/ ExecNoResume(t)
    \/ ExecAdmit(t) \/ ExecReject(t) \/ ExecTouch(t) \/ ExecSpawn(t) \/ ExecSpawnFails(t)
    \/ ExecPublish(t) \/ ExecWait(t) \/ ExecUnregister(t) \/ ExecFinish(t)

CallStep(c) ==
    \/ CallActive(c) \/ CallFreeze(c) \/ CallNoFreeze(c) \/ CallFreezeTimeout(c)
    \/ \E s \in SnapIds : CallCopyBegin(c, s)
    \/ CallCopyMissing(c)
    \/ \E x \in SUBSET Updates, ok \in BOOLEAN : CallCopyEnd(c, x, ok)
    \/ CallThaw(c) \/ CallInsertSnap(c) \/ CallInsertSnapFails(c)
    \/ CallParent(c) \/ CallBuildFails(c)
    \/ \E w \in Workspaces : CallBuild(c, w)
    \/ CallInsert(c) \/ CallInsertFails(c)
    \/ CallMarkDeleted(c) \/ CallRemoveDirs(c) \/ CallRemoveDirsFails(c) \/ CallForget(c)
    \/ CallDropRow(c) \/ CallDropDir(c)

\* Requests arrive and clients hang up when they please.
Client ==
    \/ \E t \in Execs : (\E w \in Workspaces : ExecGet(t, w)) \/ ExecCancel(t)
    \/ \E c \in Calls :
          \/ \E o \in Ops, w \in Workspaces, n \in 1..MaxForks : CallGet(c, o, w, n)
          \/ \E o \in Ops, s \in SnapIds : CallGetSnap(c, o, s)
          \/ \E w \in Workspaces : CallCreate(c, w)
          \/ CallCancel(c)

ReaperStep ==
    \/ ReaperList
    \/ \E w \in Workspaces : (\E s \in SnapIds : ReaperCopyBegin(w, s)) \/ ReaperCopyMissing(w)
    \/ \E x \in SUBSET Updates : (\E ok \in BOOLEAN : ReaperCopyEnd(x, ok)) \/ ReaperWipe(x)
    \/ ReaperInsert \/ ReaperInsertFails \/ ReaperMarkPaused

Next ==
    \/ Client
    \/ \E t \in Execs : ExecStep(t) \/ JailWrite(t) \/ JailExit(t)
    \/ \E c \in Calls : CallStep(c)
    \/ ReaperStep
    \/ \E w \in Workspaces : IdleElapses(w)
    \/ Crash

Spec == Init /\ [][Next]_vars

\* The runtime keeps polling handlers, and the jailed command closes its pipes and
\* exits if it is allowed to run.  Nothing is assumed of clients, of the reaper's
\* clock or of the jail's writes.
Fairness ==
    /\ \A t \in Execs : WF_vars(ExecStep(t)) /\ WF_vars(JailExit(t))
    /\ \A c \in Calls : WF_vars(CallStep(c))

FairSpec == Spec /\ Fairness

----------------------------------------------------------------------------
(* Properties *)

TypeOK ==
    /\ status \in [Workspaces -> {"absent", "live", "deleted"}]
    /\ paused \in [Workspaces -> BOOLEAN]
    /\ auto \in [Workspaces -> SnapIds \cup {None}]
    /\ idle \in [Workspaces -> BOOLEAN]
    /\ source \in [Workspaces -> Dirs]
    /\ output \in SUBSET Workspaces
    /\ work \in [Workspaces -> SUBSET Updates]
    /\ updates \in 0..MaxUpdates
    /\ slot \in [Workspaces -> BOOLEAN]
    /\ gen \in [Workspaces -> Nat]
    /\ held \in SUBSET (Workspaces \X Nat)
    /\ permits \in Nat
    /\ ex \in [Execs -> ExecState]
    /\ jail \in [Execs -> {"none", "running", "exited"}]
    /\ frozen \in [Execs -> BOOLEAN]
    /\ cgroups \in [Workspaces -> Execs \cup {None}]
    /\ call \in [Calls -> CallState]
    /\ snapRow \in [SnapIds -> Workspaces \cup {None}]
    /\ snapDir \in [SnapIds -> Dirs]
    /\ minted \in SUBSET SnapIds
    /\ reaper \in ReaperState
    /\ crashes \in 0..MaxCrashes

Live(w) == status[w] = "live"

\* "Only one exec runs at a time against a given workspace" (routes/workspaces.rs):
\* two jails never run on one workspace that is not deleted, whatever deletes,
\* forgotten mutexes, hang-ups and restarts come between.
ExclusiveExec ==
    \A t, u \in Execs :
        /\ t # u /\ ex[t].ws = ex[u].ws
        /\ jail[t] = "running" /\ jail[u] = "running"
        => ~Live(ex[t].ws)

\* The cgroup published for a live workspace is that of its one monitored exec, and a
\* monitored exec is published: ExecRegistration's drop, which removes whatever entry
\* the workspace has, never removes that of another exec.
RegistrationExact ==
    \A w \in Workspaces : Live(w) =>
        \A t \in Execs : cgroups[w] = t <=> ex[t].at \in RegisteredAt /\ ex[t].ws = w

\* A live workspace with the default idle_timeout_secs of 0 holds exactly the updates
\* its jails wrote (or it was created with): no snapshot, fork, restore, stale row
\* copy, failed delete or restart removes or replaces them.
DefaultKeepsWork ==
    \A w \in Workspaces \ Idling : Live(w) => source[w] = work[w]

\* While the exec a capture froze is still alive, the live default workspace does not
\* change under the copy, so the snapshot is a point-in-time image.  (Holds for one
\* capture at a time.)
FrozenCopyConsistent ==
    \A c \in Calls :
        /\ call[c].at = "copying" /\ call[c].iced
        /\ jail[call[c].active] = "running"
        /\ Live(call[c].ws) /\ call[c].ws \notin Idling
        => source[call[c].ws] = call[c].copy

\* "the cgroup is frozen before the copy and thawed afterwards - even if the copy
\* errors" (snapshot.rs): a cgroup is frozen only while some capture is going to thaw it.
NoLeftoverFreeze ==
    \A t \in Execs : frozen[t] => \E c \in Calls : call[c].iced /\ call[c].active = t

\* When no exec handler is in flight nothing is left of any: no jail, no published
\* cgroup, no locked mutex, every permit back - on each error path and hang-up.
QuiescentClean ==
    (\A t \in Execs : ex[t].at \in {"new", "done"}) =>
        /\ held = {} /\ permits = Permits
        /\ \A w \in Workspaces : cgroups[w] = None
        /\ \A t \in Execs : jail[t] = "none" /\ ~frozen[t]

\* A snapshot row names a directory that is there and is not still being copied: rows
\* are inserted after the copy and removed before the directory, so from-snapshot, fork
\* and auto-resume never start from half a snapshot, wherever a hang-up, a failed
\* insert or a restart cuts a capture or a delete short.
RowsHaveWholeDirs ==
    \A s \in SnapIds : snapRow[s] # None =>
        /\ snapDir[s] # NoDir
        /\ \A c \in Calls : ~(call[c].at = "copying" /\ call[c].snap = s)
        /\ ~(reaper.at = "copying" /\ reaper.snap = s)

\* "Wipe source_dir to reclaim disk now that the snapshot is safe" (workspaces/idle.rs):
\* when the reaper goes on to the wipe, whatever it found when it began to copy is in
\* the stored snapshot, whether the copy raced jail writes, the insert failed or the
\* directory was deleted meanwhile.  (Holds for one exec request; with two, an exec that
\* read the paused row before another one resumed it can restore the auto-snapshot under
\* the reaper's copy.)
PauseSaves ==
    [][ reaper.at = "copied" /\ reaper'.at \in {"inserted", "wiped"} =>
          /\ snapRow'[reaper.snap] = reaper.ws
          /\ snapDir'[reaper.snap] # NoDir /\ reaper.copy \subseteq snapDir'[reaper.snap] ]_vars

\* "Bump last_exec_at before spawning so the idle reaper treats this workspace as
\* active even while the exec is running" (routes/workspaces_exec.rs): the reaper
\* never wipes source_dir under a running jail.
ReaperSparesRunning ==
    [][ reaper.at = "inserted" /\ reaper'.at = "wiped"
        => \A t \in Execs : jail[t] = "running" => ex[t].ws # reaper.ws ]_vars

\* An exec request that has arrived ends, provided its command exits when it may run:
\* a capture that froze it always lets it go on.
ExecEnds == \A t \in Execs : ex[t].at # "new" ~> ex[t].at = "done"
============================================================================
