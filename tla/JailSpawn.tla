----------------------------- MODULE JailSpawn -----------------------------
(***************************************************************************)
(* The life of one jail: Jail::spawn, the child it forks, the command, and *)
(* the handle with its three ways of waiting.  Parent, child and command   *)
(* are processes of their own; they meet in pipes, sockets and signals.    *)
(***************************************************************************)
EXTENDS FiniteSets

CONSTANTS
    UserNs,      \* values of config.user_namespace
    EarlyDeaths  \* whether the child may die while the parent waits for its netns byte

ASSUME SpawnAssumption == UserNs \subseteq BOOLEAN /\ EarlyDeaths \in BOOLEAN

VARIABLES
    cfg,      \* JailConfig, and how the caller waits
    at,       \* the parent: spawn, then the handle
    sent,     \* bytes written on the barrier pipe and the two socketpairs
    child,    \* the forked process
    command,  \* the command: the child itself, or its child in a pid namespace
    shut,     \* the command has closed its stdout and stderr
    stray,    \* a descendant of the command that left its process group is alive
    cgroup,   \* the cgroup exists
    inside,   \* the child was added to it
    veth,     \* "none", "host" (both ends on the host) or "split" (one in the child's netns),
              \* until the parent deletes it, if the end of the netns has not already
    proxy,    \* the allowlist proxy runs
    late,     \* timeout_secs have elapsed
    misfire   \* history: kill_tree was called on a pid that was already reaped

vars == <<cfg, at, sent, child, command, shut, stray, cgroup, inside, veth, proxy, late, misfire>>

Bytes     == {"go", "ready", "ack", "netns", "veth"}
Setup     == {"barrier", "userns", "unshare", "veth", "mounts"}
Alive     == Setup \cup {"waits", "command"}
HandleAt  == {"handle", "reading", "waiting", "events", "killed", "reaped"}
SpawnAt   == {"forked", "mapped", "grouped", "netns", "linked", "ready"}

\* "wait" is JailHandle::wait, "events" wait_with_events, "monitor" run_monitored_with and
\* the streaming route, which read both pipes to their end before they call wait.
Config == [userns : UserNs, allow : BOOLEAN, pidns : BOOLEAN, limits : BOOLEAN,
           mode : {"wait", "events", "monitor"}]

Init ==
    /\ cfg \in Config
    /\ at = "new" /\ sent = {}
    /\ child = "none" /\ command = "none" /\ shut = FALSE /\ stray = FALSE
    /\ cgroup = FALSE /\ inside = FALSE /\ veth = "none" /\ proxy = FALSE
    /\ late = FALSE /\ misfire = FALSE

jailVars == <<child, command, shut, stray>>
netVars  == <<veth, proxy>>
cgVars   == <<cgroup, inside>>

----------------------------------------------------------------------------
(* Signals and teardown *)

Dead(c) == IF c \in Alive THEN "zombie" ELSE c

\* What outlives a kill of the child's process group: the end of a pid namespace kills
\* all of it, without one a stray is spared.
Spared == stray /\ ~cfg.pidns

Ended(c) == IF c = "running" THEN "over" ELSE c

\* kill_tree
KillTree ==
    /\ child' = Dead(child)
    /\ command' = Ended(command)
    /\ stray' = Spared
    /\ misfire' = (misfire \/ child = "reaped")

\* Drop of Cgroup: what cgroup.procs lists is killed, which may miss a process forked
\* meanwhile, and the directory is removed if it is empty.
DropCgroup ==
    /\ stray' \in {Spared, Spared /\ ~inside}
    /\ cgroup' = (inside /\ stray')

\* kill_tree and a blocking waitpid, then Drop of Cgroup and of the proxy's sender
KillReapAndDrop ==
    /\ child' = IF child = "none" THEN "none" ELSE "reaped"
    /\ command' = Ended(command)
    /\ proxy' = FALSE
    /\ DropCgroup
    /\ misfire' = (misfire \/ child = "reaped")

\* Some process still has the write end of a pipe.  In a pid namespace the child keeps
\* its own while it waits for the command.
PipesOpen ==
    \/ child \in Alive \ {"command"}
    \/ command = "running" /\ ~shut
    \/ stray

----------------------------------------------------------------------------
(* Jail::spawn *)

Moves(from, to) == at = from /\ at' = to

Fork ==
    /\ Moves("new", "forked")
    /\ child' = "barrier"
    /\ UNCHANGED <<cfg, sent, command, shut, stray, cgVars, netVars, late, misfire>>

\* A pipe, a socketpair or the fork fails.
ForkFails ==
    /\ Moves("new", "failed")
    /\ UNCHANGED <<cfg, sent, jailVars, cgVars, netVars, late, misfire>>

\* Variant: the child is let go before the cgroup is there.
WriteMapsAndOpen ==
    /\ Moves("forked", "mapped")
    /\ cfg.userns => "ready" \in sent
    /\ sent' = sent \cup {"ack", "go"}
    /\ UNCHANGED <<cfg, jailVars, cgVars, netVars, late, misfire>>

\* In user namespace mode the parent first reads the child's byte.  It holds the other
\* end of the socketpair itself, so the read never sees an end of file.
WriteMaps ==
    /\ Moves("forked", "mapped")
    /\ cfg.userns => "ready" \in sent
    /\ sent' = IF cfg.userns THEN sent \cup {"ack"} ELSE sent
    /\ UNCHANGED <<cfg, jailVars, cgVars, netVars, late, misfire>>

CreateCgroup ==
    /\ Moves("mapped", "grouped")
    /\ cgroup' = cfg.limits /\ inside' = cfg.limits
    /\ UNCHANGED <<cfg, sent, jailVars, netVars, late, misfire>>

OpenBarrier ==
    /\ at = "grouped"
    /\ at' = IF cfg.allow THEN "netns" ELSE "ready"
    /\ sent' = sent \cup {"go"}
    /\ UNCHANGED <<cfg, jailVars, cgVars, netVars, late, misfire>>

\* The child's byte, create_veth_pair, move_to_netns, address, link up, and the proxy,
\* which may fail to bind: that is only logged.
Bridge(bound) ==
    /\ Moves("netns", "linked")
    /\ "netns" \in sent
    /\ veth' = "split" /\ proxy' = bound
    /\ UNCHANGED <<cfg, sent, jailVars, cgVars, late, misfire>>

SendVethId ==
    /\ Moves("linked", "ready")
    /\ sent' = sent \cup {"veth"}
    /\ UNCHANGED <<cfg, jailVars, cgVars, netVars, late, misfire>>

\* An early return while the guard is armed: writing the maps, the cgroup, the veth or
\* its id.  A pair that was not moved stays on the host; one that was goes with the netns.
SpawnFails(v) ==
    /\ \/ at = "forked" /\ cfg.userns /\ "ready" \in sent
       \/ at = "mapped" /\ cfg.limits
       \/ at = "netns" /\ "netns" \in sent
       \/ at = "linked"
    /\ v = "host" => at = "netns"
    /\ at' = "failed"
    /\ veth' = v
    /\ KillReapAndDrop
    /\ UNCHANGED <<cfg, sent, shut, inside, late>>

\* The guard is disarmed and the streams are registered.
ReturnHandle ==
    /\ Moves("ready", "handle")
    /\ UNCHANGED <<cfg, sent, jailVars, cgVars, netVars, late, misfire>>

\* from_owned_fd fails after the guard is disarmed: only Drop of Cgroup kills.
StreamsFail ==
    /\ Moves("ready", "failed")
    /\ child' = IF inside THEN Dead(child) ELSE child
    /\ command' = IF inside THEN Ended(command) ELSE command
    /\ stray' \in IF inside THEN {Spared, FALSE} ELSE {stray}
    /\ cgroup' = (inside /\ stray')
    /\ proxy' = FALSE /\ veth' = IF inside THEN "none" ELSE veth
    /\ UNCHANGED <<cfg, sent, shut, inside, late, misfire>>

----------------------------------------------------------------------------
(* The child: setup_child *)

ChildMoves(from, to) == child = from /\ child' = to
ChildFrame == UNCHANGED <<cfg, at, shut, stray, cgVars, netVars, late, misfire>>

\* The barrier opens; in user namespace mode unshare and the ready byte.
ChildStarts ==
    /\ ChildMoves("barrier", "userns")
    /\ "go" \in sent
    /\ sent' = IF cfg.userns THEN sent \cup {"ready"} ELSE sent
    /\ UNCHANGED command /\ ChildFrame

ChildMapped ==
    /\ ChildMoves("userns", "unshare")
    /\ cfg.userns => "ack" \in sent
    /\ UNCHANGED <<sent, command>> /\ ChildFrame

\* Variant: no byte after enter_namespaces.
ChildUnsharesSilent ==
    /\ child = "unshare"
    /\ child' = IF cfg.allow THEN "veth" ELSE "mounts"
    /\ UNCHANGED <<sent, command>> /\ ChildFrame

\* enter_namespaces, and the byte that says so
ChildUnshares ==
    /\ child = "unshare"
    /\ child' = IF cfg.allow THEN "veth" ELSE "mounts"
    /\ sent' = IF cfg.allow THEN sent \cup {"netns"} ELSE sent
    /\ UNCHANGED command /\ ChildFrame

\* Variant: the child does not wait for the veth.
ChildNetworkUnwaited ==
    /\ ChildMoves("veth", "mounts")
    /\ UNCHANGED <<sent, command>> /\ ChildFrame

\* The veth id, then address, link and route
ChildNetwork ==
    /\ ChildMoves("veth", "mounts")
    /\ "veth" \in sent
    /\ UNCHANGED <<sent, command>> /\ ChildFrame

\* Mounts, landlock, pivot and limits, then exec, in a pid namespace after a second fork
ChildExecs ==
    /\ child = "mounts"
    /\ child' = IF cfg.pidns THEN "waits" ELSE "command"
    /\ command' = "running"
    /\ UNCHANGED sent /\ ChildFrame

\* _exit(127)
ChildFails ==
    /\ child \in {"userns", "unshare", "mounts"}
    /\ child # "mounts" /\ cfg.allow => EarlyDeaths
    /\ child' = "zombie"
    /\ UNCHANGED <<sent, command>> /\ ChildFrame

\* The intermediate process passes on the exit code of its child.
ChildFollows ==
    /\ ChildMoves("waits", "zombie")
    /\ command = "over"
    /\ UNCHANGED <<sent, command>> /\ ChildFrame

----------------------------------------------------------------------------
(* The command *)

CommandStrays ==
    /\ command = "running" /\ ~stray
    /\ stray' = TRUE
    /\ UNCHANGED <<cfg, at, sent, child, command, shut, cgVars, netVars, late, misfire>>

CommandShuts ==
    /\ command = "running" /\ ~shut
    /\ shut' = TRUE
    /\ UNCHANGED <<cfg, at, sent, child, command, stray, cgVars, netVars, late, misfire>>

CommandExits ==
    /\ command = "running"
    /\ command' = "over"
    /\ child' = IF cfg.pidns THEN child ELSE "zombie"
    /\ stray' = (stray /\ ~cfg.pidns)
    /\ UNCHANGED <<cfg, at, sent, shut, cgVars, netVars, late, misfire>>

StrayExits ==
    /\ stray
    /\ stray' = FALSE
    /\ UNCHANGED <<cfg, at, sent, child, command, shut, cgVars, netVars, late, misfire>>

----------------------------------------------------------------------------
(* The handle *)

\* timeout_secs > 0, counted from the spawn
TimeElapses ==
    /\ at \in HandleAt /\ ~late
    /\ late' = TRUE
    /\ UNCHANGED <<cfg, at, sent, jailVars, cgVars, netVars, misfire>>

Wait ==
    /\ at = "handle"
    /\ at' = CASE cfg.mode = "wait" -> "waiting" [] cfg.mode = "events" -> "events"
               [] cfg.mode = "monitor" -> "reading"
    /\ UNCHANGED <<cfg, sent, jailVars, cgVars, netVars, late, misfire>>

\* run_monitored_with: both pipes are read to their end, then wait is called.
ReadToEnd ==
    /\ Moves("reading", "waiting")
    /\ ~PipesOpen
    /\ UNCHANGED <<cfg, sent, jailVars, cgVars, netVars, late, misfire>>

\* wait_for_pid
WaitReaps ==
    /\ Moves("waiting", "reaped")
    /\ child = "zombie"
    /\ child' = "reaped"
    /\ UNCHANGED <<cfg, sent, command, shut, stray, cgVars, netVars, late, misfire>>

\* Variant: a timeout that is only noted.
TimesOutUnkilled ==
    /\ at \in {"waiting", "events"}
    /\ late
    /\ at' = "killed"
    /\ UNCHANGED <<cfg, sent, jailVars, cgVars, netVars, late, misfire>>

\* wait and wait_with_events when the timeout fires
TimesOut ==
    /\ at \in {"waiting", "events"}
    /\ late
    /\ at' = "killed"
    /\ KillTree
    /\ UNCHANGED <<cfg, sent, shut, cgVars, netVars, late>>

\* reaped = true, cleanup_veth, and the handle's fields are dropped.
Finish ==
    /\ at' = "done"
    /\ veth' = "none" /\ proxy' = FALSE
    /\ DropCgroup
    /\ UNCHANGED <<cfg, sent, command, shut, inside, late, misfire>>

\* Variant: wait_with_events without its `reaped = true`, so that Drop goes the long way.
EventsReapUnmarked ==
    /\ at = "events" /\ ~PipesOpen /\ child = "zombie"
    /\ at' = "done"
    /\ child' = "reaped"
    /\ veth' = "none" /\ proxy' = FALSE /\ cgroup' = FALSE
    /\ stray' = FALSE /\ misfire' = TRUE
    /\ UNCHANGED <<cfg, sent, command, shut, inside, late>>

\* wait_with_events: both pipes at their end, then waitpid
EventsReap ==
    /\ at = "events" /\ ~PipesOpen /\ child = "zombie"
    /\ child' = "reaped"
    /\ Finish

\* wait_for_pid after the kill; only wait goes on to join the readers.
KilledReaps ==
    /\ at = "killed" /\ child = "zombie"
    /\ child' = "reaped"
    /\ IF cfg.mode = "events" THEN Finish
       ELSE /\ at' = "reaped"
            /\ UNCHANGED <<cfg, sent, command, shut, stray, cgVars, netVars, late, misfire>>

\* The readers' tasks are joined.
Drained ==
    /\ at = "reaped" /\ ~PipesOpen
    /\ UNCHANGED child
    /\ Finish

\* JailHandle::kill, by a caller that still owns the handle
Kill ==
    /\ at \in {"handle", "reading"}
    /\ KillTree
    /\ UNCHANGED <<cfg, at, sent, shut, cgVars, netVars, late>>

\* Variant: Drop without the kill and the waitpid.
DropUnreaped ==
    /\ at \in HandleAt
    /\ at' = "done"
    /\ veth' = "none" /\ cgroup' = FALSE /\ proxy' = FALSE
    /\ UNCHANGED <<cfg, sent, jailVars, inside, late, misfire>>

\* The caller drops the handle, or the future that owns it, at an await.
DropHandle ==
    /\ at \in HandleAt
    /\ at' = "done"
    /\ veth' = "none"
    /\ KillReapAndDrop
    /\ UNCHANGED <<cfg, sent, shut, inside, late>>

----------------------------------------------------------------------------
Parent ==
    \/ Fork \/ ForkFails \/ WriteMaps \/ CreateCgroup \/ OpenBarrier \/ SendVethId
    \/ \E bound \in BOOLEAN : Bridge(bound)
    \/ \E v \in {"none", "host"} : SpawnFails(v)
    \/ ReturnHandle \/ StreamsFail
    \/ Wait \/ ReadToEnd \/ WaitReaps \/ TimesOut \/ EventsReap \/ KilledReaps \/ Drained

Child ==
    \/ ChildStarts \/ ChildMapped \/ ChildUnshares \/ ChildNetwork \/ ChildExecs \/ ChildFails
    \/ ChildFollows

Command == CommandStrays \/ CommandShuts \/ CommandExits \/ StrayExits

Next == Parent \/ Child \/ Command \/ TimeElapses \/ Kill \/ DropHandle

Spec == Init /\ [][Next]_vars

\* Parent and child are scheduled and time passes.  The command may run for ever, and
\* nobody need drop the handle.
FairSpec == Spec /\ WF_vars(Parent) /\ WF_vars(Child) /\ WF_vars(TimeElapses)

----------------------------------------------------------------------------
(* Properties *)

TypeOK ==
    /\ cfg \in Config
    /\ at \in {"new", "failed", "done"} \cup SpawnAt \cup HandleAt
    /\ sent \in SUBSET Bytes
    /\ child \in {"none", "zombie", "reaped"} \cup Alive
    /\ command \in {"none", "running", "over"}
    /\ shut \in BOOLEAN /\ stray \in BOOLEAN
    /\ cgroup \in BOOLEAN /\ inside \in BOOLEAN
    /\ veth \in {"none", "host", "split"} /\ proxy \in BOOLEAN
    /\ late \in BOOLEAN /\ misfire \in BOOLEAN

\* "child blocks until parent has assigned the cgroup" (run.rs): a jail with limits does
\* no set-up and runs no command outside its cgroup, on any order of the two processes.
LimitsFirst ==
    cfg.limits /\ (child \in Alive \ {"barrier"} \/ command = "running") => inside

\* The command of an allowlist jail finds its network: before it runs, and until it is
\* over or the handle is gone, one end of the veth is on the host and one in its netns.
NetworkFirst ==
    cfg.allow /\ command = "running" /\ at \in SpawnAt \cup HandleAt => veth = "split"

\* When wait has returned or the handle was dropped, at any await, nothing of the jail is
\* left: no child, zombie, command, veth or proxy.  A process that left the process group
\* may be, and the cgroup it was in, but never of a jail with a pid namespace.
DoneLeavesNothing ==
    at = "done" =>
        /\ child = "reaped" /\ command # "running"
        /\ veth = "none" /\ ~proxy
        /\ cfg.pidns => ~stray /\ ~cgroup

\* "Mark as reaped so Drop doesn't kill a recycled PID" (run.rs): no signal is sent to a
\* pid after it was reaped.  (Holds for wait_with_events; wait has an await in between.)
KillsOwnChild == cfg.mode = "events" => ~misfire

\* Jail::spawn returns, with a handle or an error.
SpawnReturns == at = "forked" ~> at \in {"failed", "done"} \cup HandleAt

\* "Execution timeout in seconds" (config.rs): wait and wait_with_events on a jail with a
\* pid namespace return even if the command never exits.  (Not so of run_monitored_with,
\* which reads both pipes to their end before it calls wait.)
TimeoutEnds == at = "handle" /\ cfg.pidns /\ cfg.mode # "monitor" ~> at = "done"
============================================================================
