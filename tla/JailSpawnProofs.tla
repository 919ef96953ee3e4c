-------------------------- MODULE JailSpawnProofs --------------------------
(***************************************************************************)
(* Safety of the jail's life cycle, for every configuration, proved.       *)
(***************************************************************************)
EXTENDS JailSpawn, TLAPS

\* What each process may conclude from a byte it has seen.
HandshakeInv ==
    /\ at = "new" => child = "none" /\ sent = {}
    /\ at \in {"forked", "mapped", "grouped", "netns", "linked"} => "veth" \notin sent
    /\ at \in {"forked", "mapped", "grouped"} => "go" \notin sent
    /\ at \in {"grouped", "netns", "linked", "ready"} \cup HandleAt => (cfg.limits => inside)
    /\ "go" \in sent => (cfg.limits => inside)
    /\ child \in Alive \ {"barrier"} => "go" \in sent
    /\ child \in {"mounts", "waits", "command"} /\ cfg.allow => "veth" \in sent
    /\ at = "linked" => veth = "split"
    /\ "veth" \in sent /\ at \in SpawnAt \cup HandleAt => veth = "split"

\* Which processes can be there together, and what the parent knows of the child.
ProcessInv ==
    /\ command = "running" => child \in {"waits", "command"}
    /\ child = "command" => ~cfg.pidns
    /\ stray /\ cfg.pidns => command = "running"
    /\ at \in SpawnAt \cup HandleAt => child # "none"
    /\ at = "reaped" => child = "reaped"
    /\ child = "reaped" => at \in {"reaped", "done", "failed"}
    /\ at \in {"reading", "waiting", "reaped"} => cfg.mode # "events"
    /\ KillsOwnChild
    /\ DoneLeavesNothing

LifeInv == TypeOK /\ HandshakeInv /\ ProcessInv

USE DEF Setup, Alive, HandleAt, SpawnAt, Bytes

\* A jail that is not yet forked has typed state.
LEMMA TypeInit == Init => TypeOK
  BY ZenonT(30) DEF Init, TypeOK

\* Before the fork no byte was sent, no process runs and nothing is to be torn down.
LEMMA LifeInit == Init => LifeInv
  BY TypeInit DEF Init, LifeInv, HandshakeInv, ProcessInv, DoneLeavesNothing, KillsOwnChild

\* Every step of the three processes keeps the types.
LEMMA TypeStep == TypeOK /\ [Next]_vars => TypeOK'
<1> SUFFICES ASSUME TypeOK, [Next]_vars PROVE TypeOK'
  OBVIOUS
<1> USE DEF TypeOK
<1>1. CASE Fork
  BY <1>1 DEF Fork, cgVars, netVars, jailVars, Moves
<1>2. CASE ForkFails
  BY <1>2 DEF ForkFails, cgVars, netVars, jailVars, Moves
<1>3. CASE WriteMaps
  BY <1>3 DEF WriteMaps, cgVars, netVars, jailVars, Moves
<1>4. CASE CreateCgroup
  BY <1>4 DEF CreateCgroup, cgVars, netVars, jailVars, Moves, Config
<1>5. CASE OpenBarrier
  BY <1>5 DEF OpenBarrier, cgVars, netVars, jailVars
<1>6. ASSUME NEW bound \in BOOLEAN, Bridge(bound) PROVE TypeOK'
  BY <1>6 DEF Bridge, cgVars, netVars, jailVars, Moves
<1>7. CASE SendVethId
  BY <1>7 DEF SendVethId, cgVars, netVars, jailVars, Moves
<1>8. ASSUME NEW v \in {"none", "host"}, SpawnFails(v) PROVE TypeOK'
  BY ZenonT(30), <1>8 DEF SpawnFails, cgVars, netVars, jailVars, KillReapAndDrop, DropCgroup, Ended, Spared
<1>9. CASE ReturnHandle
  BY <1>9 DEF ReturnHandle, cgVars, netVars, jailVars, Moves
<1>10. CASE StreamsFail
  BY ZenonT(30), <1>10 DEF StreamsFail, cgVars, netVars, jailVars, Dead, Ended, Spared, Moves
<1>11. CASE Wait
  BY <1>11 DEF Wait, cgVars, netVars, jailVars, Config
<1>12. CASE ReadToEnd
  BY <1>12 DEF ReadToEnd, cgVars, netVars, jailVars, PipesOpen, Moves
<1>13. CASE WaitReaps
  BY <1>13 DEF WaitReaps, cgVars, netVars, jailVars, Moves
<1>14. CASE TimesOut
  BY <1>14 DEF TimesOut, cgVars, netVars, jailVars, KillTree, Dead, Ended, Spared
<1>15. CASE EventsReap
  BY ZenonT(30), <1>15 DEF EventsReap, cgVars, netVars, jailVars, Finish, DropCgroup, Spared, PipesOpen
<1>16. CASE KilledReaps
  <2>1. CASE cfg.mode = "events"
    BY ZenonT(30), <1>16, <2>1 DEF KilledReaps, cgVars, netVars, jailVars, Finish, DropCgroup, Spared
  <2>2. CASE cfg.mode # "events"
    <3>1. at' = "reaped" /\ child' = "reaped"
      BY <1>16, <2>2 DEF KilledReaps
    <3>2. UNCHANGED <<cfg, sent, command, shut, stray, cgroup, inside, veth, proxy, late, misfire>>
      BY <1>16, <2>2 DEF KilledReaps, cgVars, netVars
    <3> QED
      BY <3>1, <3>2
  <2> QED
    BY <2>1, <2>2
<1>17. CASE Drained
  BY ZenonT(30), <1>17 DEF Drained, cgVars, netVars, jailVars, Finish, DropCgroup, Spared, PipesOpen
<1>18. CASE ChildStarts
  BY <1>18 DEF ChildStarts, ChildFrame, cgVars, netVars, ChildMoves
<1>19. CASE ChildMapped
  BY <1>19 DEF ChildMapped, ChildFrame, cgVars, netVars, ChildMoves
<1>20. CASE ChildUnshares
  BY <1>20 DEF ChildUnshares, ChildFrame, cgVars, netVars
<1>21. CASE ChildNetwork
  BY <1>21 DEF ChildNetwork, ChildFrame, cgVars, netVars, ChildMoves
<1>22. CASE ChildExecs
  BY <1>22 DEF ChildExecs, ChildFrame, cgVars, netVars
<1>23. CASE ChildFails
  BY <1>23 DEF ChildFails, ChildFrame, cgVars, netVars
<1>24. CASE ChildFollows
  BY <1>24 DEF ChildFollows, ChildFrame, cgVars, netVars, ChildMoves
<1>25. CASE CommandStrays
  BY <1>25 DEF CommandStrays, cgVars, netVars
<1>26. CASE CommandShuts
  BY <1>26 DEF CommandShuts, cgVars, netVars
<1>27. CASE CommandExits
  BY <1>27 DEF CommandExits, cgVars, netVars
<1>28. CASE StrayExits
  <2>1. stray' \in BOOLEAN /\ UNCHANGED <<cfg, at, sent, child, command, shut,
                                        cgroup, inside, veth, proxy, late, misfire>>
    BY ZenonT(30), <1>28 DEF StrayExits, cgVars, netVars
  <2> QED
    BY <2>1
<1>29. CASE TimeElapses
  BY <1>29 DEF TimeElapses, jailVars, cgVars, netVars
<1>30. CASE Kill
  BY <1>30 DEF Kill, KillTree, Dead, Ended, Spared, cgVars, netVars
<1>31. CASE DropHandle
  BY ZenonT(30), <1>31 DEF DropHandle, KillReapAndDrop, DropCgroup, Ended, Spared
<1>32. CASE UNCHANGED vars
  <2>1. UNCHANGED <<cfg, at, sent, child, command, shut, stray, cgroup, inside, veth, proxy,
                    late, misfire>>
    BY <1>32 DEF vars
  <2> QED
    BY <2>1
<1> QED
  BY ZenonT(30), <1>1, <1>2, <1>3, <1>4, <1>5, <1>6, <1>7, <1>8, <1>9, <1>10, <1>11, <1>12,
     <1>13, <1>14, <1>15, <1>16, <1>17, <1>18, <1>19, <1>20, <1>21, <1>22, <1>23, <1>24,
     <1>25, <1>26, <1>27, <1>28, <1>29, <1>30, <1>31, <1>32 DEF Next, Parent, Child, Command

\* No step of either side makes a byte mean less than its reader takes it to mean.
LEMMA HandshakeStep == TypeOK /\ HandshakeInv /\ ProcessInv /\ [Next]_vars => HandshakeInv'
<1> SUFFICES ASSUME TypeOK, HandshakeInv, ProcessInv, [Next]_vars PROVE HandshakeInv'
  OBVIOUS
<1> USE DEF TypeOK, Config, HandshakeInv, ProcessInv
<1>1. CASE Fork
  BY <1>1 DEF Fork, cgVars, netVars, jailVars, Moves
<1>2. CASE ForkFails
  BY <1>2 DEF ForkFails, cgVars, netVars, jailVars, Moves
<1>3. CASE WriteMaps
  BY <1>3 DEF WriteMaps, cgVars, netVars, jailVars, Moves
<1>4. CASE CreateCgroup
  BY <1>4 DEF CreateCgroup, cgVars, netVars, jailVars, Moves
<1>5. CASE OpenBarrier
  BY <1>5 DEF OpenBarrier, cgVars, netVars, jailVars
<1>6. ASSUME NEW bound \in BOOLEAN, Bridge(bound) PROVE HandshakeInv'
  BY <1>6 DEF Bridge, cgVars, netVars, jailVars, Moves
<1>7. CASE SendVethId
  BY <1>7 DEF SendVethId, cgVars, netVars, jailVars, Moves
<1>8. ASSUME NEW v \in {"none", "host"}, SpawnFails(v) PROVE HandshakeInv'
  BY <1>8 DEF SpawnFails, cgVars, netVars, jailVars, KillReapAndDrop, DropCgroup, Ended, Spared
<1>9. CASE ReturnHandle
  BY <1>9 DEF ReturnHandle, cgVars, netVars, jailVars, Moves
<1>10. CASE StreamsFail
  BY <1>10 DEF StreamsFail, cgVars, netVars, jailVars, Dead, Ended, Spared, Moves
<1>11. CASE Wait
  BY <1>11 DEF Wait, cgVars, netVars, jailVars
<1>12. CASE ReadToEnd
  BY <1>12 DEF ReadToEnd, cgVars, netVars, jailVars, PipesOpen, Moves
<1>13. CASE WaitReaps
  BY <1>13 DEF WaitReaps, cgVars, netVars, jailVars, Moves
<1>14. CASE TimesOut
  BY <1>14 DEF TimesOut, cgVars, netVars, jailVars, KillTree, Dead, Ended, Spared
<1>15. CASE EventsReap
  BY <1>15 DEF EventsReap, cgVars, netVars, jailVars, Finish, DropCgroup, Spared, PipesOpen
<1>16. CASE KilledReaps
  BY <1>16 DEF KilledReaps, cgVars, netVars, jailVars, Finish, DropCgroup, Spared
<1>17. CASE Drained
  BY <1>17 DEF Drained, cgVars, netVars, jailVars, Finish, DropCgroup, Spared, PipesOpen
<1>18. CASE ChildStarts
  BY <1>18 DEF ChildStarts, ChildFrame, cgVars, netVars, ChildMoves
<1>19. CASE ChildMapped
  BY <1>19 DEF ChildMapped, ChildFrame, cgVars, netVars, ChildMoves
<1>20. CASE ChildUnshares
  BY <1>20 DEF ChildUnshares, ChildFrame, cgVars, netVars
<1>21. CASE ChildNetwork
  BY <1>21 DEF ChildNetwork, ChildFrame, cgVars, netVars, ChildMoves
<1>22. CASE ChildExecs
  BY <1>22 DEF ChildExecs, ChildFrame, cgVars, netVars
<1>23. CASE ChildFails
  BY <1>23 DEF ChildFails, ChildFrame, cgVars, netVars
<1>24. CASE ChildFollows
  BY <1>24 DEF ChildFollows, ChildFrame, cgVars, netVars, ChildMoves
<1>25. CASE CommandStrays
  BY <1>25 DEF CommandStrays, cgVars, netVars
<1>26. CASE CommandShuts
  BY <1>26 DEF CommandShuts, cgVars, netVars
<1>27. CASE CommandExits
  BY <1>27 DEF CommandExits, cgVars, netVars
<1>28. CASE StrayExits
  BY <1>28 DEF StrayExits, cgVars, netVars
<1>29. CASE TimeElapses
  BY <1>29 DEF TimeElapses, jailVars, cgVars, netVars
<1>30. CASE Kill
  BY <1>30 DEF Kill, KillTree, Dead, Ended, Spared, cgVars, netVars
<1>31. CASE DropHandle
  BY <1>31 DEF DropHandle, KillReapAndDrop, DropCgroup, Ended, Spared
<1>32. CASE UNCHANGED vars
  BY SMTT(30), <1>32 DEF vars
<1> QED
  BY ZenonT(30), <1>1, <1>2, <1>3, <1>4, <1>5, <1>6, <1>7, <1>8, <1>9, <1>10, <1>11, <1>12,
     <1>13, <1>14, <1>15, <1>16, <1>17, <1>18, <1>19, <1>20, <1>21, <1>22, <1>23, <1>24,
     <1>25, <1>26, <1>27, <1>28, <1>29, <1>30, <1>31, <1>32 DEF Next, Parent, Child, Command

\* Exits, kills, reaps and drops keep what the parent knows of its processes.
LEMMA ProcessStep == TypeOK /\ HandshakeInv /\ ProcessInv /\ [Next]_vars => ProcessInv'
<1> SUFFICES ASSUME TypeOK, HandshakeInv, ProcessInv, [Next]_vars PROVE ProcessInv'
  OBVIOUS
<1> USE DEF TypeOK, Config, HandshakeInv, ProcessInv, DoneLeavesNothing, KillsOwnChild
<1>1. CASE Fork
  BY <1>1 DEF Fork, cgVars, netVars, jailVars, Moves
<1>2. CASE ForkFails
  BY <1>2 DEF ForkFails, cgVars, netVars, jailVars, Moves
<1>3. CASE WriteMaps
  BY <1>3 DEF WriteMaps, cgVars, netVars, jailVars, Moves
<1>4. CASE CreateCgroup
  BY <1>4 DEF CreateCgroup, cgVars, netVars, jailVars, Moves
<1>5. CASE OpenBarrier
  BY <1>5 DEF OpenBarrier, cgVars, netVars, jailVars
<1>6. ASSUME NEW bound \in BOOLEAN, Bridge(bound) PROVE ProcessInv'
  BY <1>6 DEF Bridge, cgVars, netVars, jailVars, Moves
<1>7. CASE SendVethId
  BY <1>7 DEF SendVethId, cgVars, netVars, jailVars, Moves
<1>8. ASSUME NEW v \in {"none", "host"}, SpawnFails(v) PROVE ProcessInv'
  BY <1>8 DEF SpawnFails, cgVars, netVars, jailVars, KillReapAndDrop, DropCgroup, Ended, Spared
<1>9. CASE ReturnHandle
  BY <1>9 DEF ReturnHandle, cgVars, netVars, jailVars, Moves
<1>10. CASE StreamsFail
  BY ZenonT(30), <1>10 DEF StreamsFail, cgVars, netVars, jailVars, Dead, Ended, Spared, Moves
<1>11. CASE Wait
  BY <1>11 DEF Wait, cgVars, netVars, jailVars
<1>12. CASE ReadToEnd
  BY <1>12 DEF ReadToEnd, cgVars, netVars, jailVars, PipesOpen, Moves
<1>13. CASE WaitReaps
  BY <1>13 DEF WaitReaps, cgVars, netVars, jailVars, Moves
<1>14. CASE TimesOut
  BY ZenonT(30), <1>14 DEF TimesOut, cgVars, netVars, jailVars, KillTree, Dead, Ended, Spared
<1>15. CASE EventsReap
  BY <1>15 DEF EventsReap, cgVars, netVars, jailVars, Finish, DropCgroup, Spared, PipesOpen
<1>16. CASE KilledReaps
  BY <1>16 DEF KilledReaps, cgVars, netVars, jailVars, Finish, DropCgroup, Spared
<1>17. CASE Drained
  BY <1>17 DEF Drained, cgVars, netVars, jailVars, Finish, DropCgroup, Spared, PipesOpen
<1>18. CASE ChildStarts
  BY <1>18 DEF ChildStarts, ChildFrame, cgVars, netVars, ChildMoves
<1>19. CASE ChildMapped
  BY <1>19 DEF ChildMapped, ChildFrame, cgVars, netVars, ChildMoves
<1>20. CASE ChildUnshares
  BY <1>20 DEF ChildUnshares, ChildFrame, cgVars, netVars
<1>21. CASE ChildNetwork
  BY <1>21 DEF ChildNetwork, ChildFrame, cgVars, netVars, ChildMoves
<1>22. CASE ChildExecs
  BY <1>22 DEF ChildExecs, ChildFrame, cgVars, netVars
<1>23. CASE ChildFails
  BY <1>23 DEF ChildFails, ChildFrame, cgVars, netVars
<1>24. CASE ChildFollows
  BY <1>24 DEF ChildFollows, ChildFrame, cgVars, netVars, ChildMoves
<1>25. CASE CommandStrays
  BY <1>25 DEF CommandStrays, cgVars, netVars
<1>26. CASE CommandShuts
  BY <1>26 DEF CommandShuts, cgVars, netVars
<1>27. CASE CommandExits
  BY ZenonT(30), <1>27 DEF CommandExits, cgVars, netVars
<1>28. CASE StrayExits
  BY <1>28 DEF StrayExits, cgVars, netVars
<1>29. CASE TimeElapses
  BY <1>29 DEF TimeElapses, jailVars, cgVars, netVars
<1>30. CASE Kill
  BY ZenonT(30), <1>30 DEF Kill, KillTree, Dead, Ended, Spared, cgVars, netVars
<1>31. CASE DropHandle
  BY ZenonT(30), <1>31 DEF DropHandle, KillReapAndDrop, DropCgroup, Ended, Spared
<1>32. CASE UNCHANGED vars
  BY <1>32 DEF vars
<1> QED
  BY ZenonT(30), <1>1, <1>2, <1>3, <1>4, <1>5, <1>6, <1>7, <1>8, <1>9, <1>10, <1>11, <1>12,
     <1>13, <1>14, <1>15, <1>16, <1>17, <1>18, <1>19, <1>20, <1>21, <1>22, <1>23, <1>24,
     <1>25, <1>26, <1>27, <1>28, <1>29, <1>30, <1>31, <1>32 DEF Next, Parent, Child, Command

\* The three parts together are inductive.
LEMMA LifeInvAlways == Spec => []LifeInv
<1>1. LifeInv /\ [Next]_vars => LifeInv'
  BY TypeStep, HandshakeStep, ProcessStep DEF LifeInv
<1> QED
  BY LifeInit, <1>1, PTL DEF Spec

\* Every variable keeps its type.
THEOREM LifeTyped == Spec => []TypeOK
<1>1. LifeInv => TypeOK
  BY DEF LifeInv
<1> QED
  BY LifeInvAlways, <1>1, PTL

\* "child blocks until parent has assigned the cgroup" (run.rs), for every configuration.
THEOREM LimitsComeFirst == Spec => []LimitsFirst
<1>1. LifeInv => LimitsFirst
  BY DEF LifeInv, HandshakeInv, ProcessInv, LimitsFirst
<1> QED
  BY LifeInvAlways, <1>1, PTL

\* The command of an allowlist jail never runs before its veth is there.
THEOREM NetworkComesFirst == Spec => []NetworkFirst
<1>1. LifeInv => NetworkFirst
  BY DEF LifeInv, HandshakeInv, ProcessInv, NetworkFirst
<1> QED
  BY LifeInvAlways, <1>1, PTL

\* A handle that was waited on, or dropped at any await, leaves nothing of its jail but
\* processes that left the group of a jail without a pid namespace.
THEOREM HandleLeavesNothing == Spec => []DoneLeavesNothing
<1>1. LifeInv => DoneLeavesNothing
  BY DEF LifeInv, ProcessInv
<1> QED
  BY LifeInvAlways, <1>1, PTL

\* wait_with_events and the Drop after it never signal a pid they have reaped.
THEOREM EventsKillOwnChild == Spec => []KillsOwnChild
<1>1. LifeInv => KillsOwnChild
  BY DEF LifeInv, ProcessInv
<1> QED
  BY LifeInvAlways, <1>1, PTL
============================================================================
