-------------------------- MODULE WorkspaceProofs --------------------------
(***************************************************************************)
(* Type correctness and safety of Workspace, for every set of workspaces,  *)
(* requests and snapshot ids, every bound and every number of permits: the *)
(* types first, then the inductive invariant behind the safety properties, *)
(* its preservation by every step, and what follows from it.  Then come,   *)
(* each with an invariant of its own: snapshot rows and their directories, *)
(* what exec handlers hold, freezes, captures of frozen jails, and pauses. *)
(***************************************************************************)
EXTENDS Workspace, TLAPS

\* A leaf is for Zenon unless it names another prover.
USE Zenon

(* The type invariant by groups of variables.  A handler past its first    *)
(* read refers to a workspace and, where it uses one, to a snapshot: the   *)
(* strengthening that makes the type invariant inductive.                  *)

RowT ==
    /\ status \in [Workspaces -> {"absent", "live", "deleted"}]
    /\ paused \in [Workspaces -> BOOLEAN]
    /\ auto \in [Workspaces -> SnapIds \cup {None}]
    /\ idle \in [Workspaces -> BOOLEAN]
DiskT ==
    /\ source \in [Workspaces -> Dirs]
    /\ output \in SUBSET Workspaces
    /\ work \in [Workspaces -> SUBSET Updates]
    /\ updates \in 0..MaxUpdates
LockT ==
    /\ slot \in [Workspaces -> BOOLEAN]
    /\ gen \in [Workspaces -> Nat]
    /\ held \in SUBSET (Workspaces \X Nat)
PermitT == permits \in Nat
ExecT ==
    /\ ex \in [Execs -> ExecState]
    /\ \A t \in Execs : ex[t].at \notin {"new", "done"} => ex[t].ws \in Workspaces
    /\ \A t \in Execs : ex[t].at = "resuming" => ex[t].paused /\ ex[t].auto \in SnapIds
JailT ==
    /\ jail \in [Execs -> {"none", "running", "exited"}]
    /\ frozen \in [Execs -> BOOLEAN]
    /\ cgroups \in [Workspaces -> Execs \cup {None}]

NamesWorkspaceAt == CallAt \ {"new", "done", "built"}
NamesSnapAt == {"copying", "copied", "thawed", "owned", "building", "rowless"}
CallRefs(r) ==
    /\ r.at \in NamesWorkspaceAt => r.ws \in Workspaces
    /\ r.at \in NamesSnapAt => r.snap \in SnapIds
    /\ r.at = "got" /\ r.op = "drop" => r.snap \in SnapIds
    /\ r.at = "built" => r.child \in Workspaces
    /\ r.at = "built" /\ r.left > 1 => r.ws \in Workspaces /\ r.snap \in SnapIds
CallT ==
    /\ call \in [Calls -> CallState]
    /\ \A c \in Calls : CallRefs(call[c])

SnapT ==
    /\ snapRow \in [SnapIds -> Workspaces \cup {None}]
    /\ snapDir \in [SnapIds -> Dirs]
    /\ minted \in SUBSET SnapIds
ReapT ==
    /\ reaper \in ReaperState
    /\ reaper.at \notin {"idle", "scan"} => reaper.ws \in Workspaces /\ reaper.snap \in SnapIds
CrashT == crashes \in 0..MaxCrashes

TypeInv ==
    /\ RowT /\ DiskT /\ LockT /\ PermitT /\ ExecT
    /\ JailT /\ CallT /\ SnapT /\ ReapT /\ CrashT

----------------------------------------------------------------------------
(* Facts about the records. *)

\* A dropped or finished exec handler is a well-formed record.
LEMMA EndedExecFacts == EndedExec \in ExecState /\ EndedExec.at = "done"
  BY DEF EndedExec, NewExec, ExecState, ExecAt

\* An exec handler that moves on keeps all but its place, and the others stay.
LEMMA ExecMovesFacts ==
    ASSUME ex \in [Execs -> ExecState], NEW t \in Execs, NEW from, NEW to \in ExecAt,
           ExecMoves(t, from, to)
    PROVE  /\ ex' \in [Execs -> ExecState]
           /\ ex[t].at = from /\ ex'[t].at = to
           /\ ex'[t].ws = ex[t].ws /\ ex'[t].mutex = ex[t].mutex
           /\ ex'[t].paused = ex[t].paused /\ ex'[t].auto = ex[t].auto
           /\ \A u \in Execs \ {t} : ex'[u] = ex[u]
  BY DEF ExecMoves, ExecState

\* Moving on keeps the types, since the workspace was known before.
LEMMA ExecMovesType ==
    ASSUME ExecT, NEW t \in Execs, NEW from \in ExecAt \ {"new", "done"},
           NEW to \in ExecAt \ {"resuming"}, ExecMoves(t, from, to)
    PROVE  ExecT'
<1>1. /\ ex' \in [Execs -> ExecState]
      /\ ex[t].at = from /\ ex'[t].at = to /\ ex'[t].ws = ex[t].ws
      /\ \A u \in Execs \ {t} : ex'[u] = ex[u]
  BY ExecMovesFacts DEF ExecT
<1> QED
  BY <1>1 DEF ExecT

\* A request not yet made is a well-formed record.
LEMMA NewCallType == NewCall \in CallState
  BY DEF NewCall, CallState, CallAt, Dirs

\* An answered request is a well-formed record without a freeze.
LEMMA EndedCallFacts == EndedCall \in CallState /\ EndedCall.at = "done" /\ ~EndedCall.iced
<1>2. EndedCall \in CallState /\ EndedCall.at = "done"
  BY NewCallType DEF EndedCall, CallState, CallAt
<1>3. ~EndedCall.iced
  BY DEF EndedCall, NewCall
<1> QED
  BY <1>2, <1>3

\* An answered request refers to nothing.
LEMMA EndedCallRefs == CallRefs(EndedCall)
  BY EndedCallFacts DEF CallRefs, NamesWorkspaceAt, NamesSnapAt

\* Answering a request keeps the types.
LEMMA CallEndsFacts ==
    ASSUME CallT, NEW c \in Calls, NEW from, CallEnds(c, from)
    PROVE  CallT'
  BY EndedCallFacts, EndedCallRefs DEF CallT, CallEnds

\* A request that moves on keeps all but its place, and the others stay.
LEMMA CallMovesFacts ==
    ASSUME CallT, NEW c \in Calls, NEW from, NEW to \in CallAt, CallMoves(c, from, to)
    PROVE  /\ call' \in [Calls -> CallState]
           /\ call[c].at = from /\ call'[c].at = to
           /\ call'[c].op = call[c].op /\ call'[c].ws = call[c].ws /\ call'[c].snap = call[c].snap
           /\ call'[c].active = call[c].active /\ call'[c].iced = call[c].iced
           /\ call'[c].copy = call[c].copy
           /\ call'[c].child = call[c].child /\ call'[c].left = call[c].left
           /\ \A d \in Calls \ {c} : call'[d] = call[d]
  BY DEF CallT, CallMoves, CallState

\* Replacing one request by a well-formed record keeps the types.
LEMMA CallUpdate ==
    ASSUME CallT, NEW c \in Calls, NEW r \in CallState, CallRefs(r),
           call' = [call EXCEPT ![c] = r]
    PROVE  CallT'
  BY DEF CallT

\* A request moves on only to places whose references it already has.
LEMMA CallMovesType ==
    ASSUME CallT, NEW c \in Calls, NEW from \in NamesWorkspaceAt,
           NEW to \in NamesWorkspaceAt \ {"got"},
           to \in NamesSnapAt => from \in NamesSnapAt \/ (from = "got" /\ call[c].op = "drop"),
           CallMoves(c, from, to)
    PROVE  CallT'
<1>1. to \in CallAt
  BY DEF NamesWorkspaceAt
<1>2. call' \in [Calls -> CallState]
  BY <1>1, CallMovesFacts
<1>3. CallRefs(call'[c])
  <2>1. call'[c].at = to /\ call'[c].ws = call[c].ws /\ call'[c].snap = call[c].snap /\ call[c].at = from
    BY ZenonT(30), <1>1, CallMovesFacts
  <2>2. call[c].ws \in Workspaces /\ (to \in NamesSnapAt => call[c].snap \in SnapIds)
    BY <2>1 DEF CallT, CallRefs
  <2> QED
    BY <2>1, <2>2 DEF CallRefs, NamesWorkspaceAt
<1>4. \A d \in Calls \ {c} : CallRefs(call'[d])
  BY <1>1, CallMovesFacts DEF CallT
<1> QED
  BY <1>2, <1>3, <1>4 DEF CallT

----------------------------------------------------------------------------
(* Type correctness. *)

\* Every step keeps the type invariant.
LEMMA TypeInvStep ==
    ASSUME TypeInv, [Next]_vars
    PROVE  TypeInv'
<1> USE DEF TypeInv
<1>1. ASSUME NEW t \in Execs, NEW w \in Workspaces, ExecGet(t, w) PROVE TypeInv'
  <2>1. RowT' /\ DiskT' /\ LockT' /\ PermitT' /\ JailT' /\ CallT' /\ SnapT' /\ ReapT' /\ CrashT'
    BY <1>1 DEF ExecGet, RowT, DiskT, LockT, PermitT, JailT, CallT, SnapT, ReapT, CrashT,
       diskVars, jailVars, lockVars, rowVars, snapVars
  <2>2. ExecT'
    BY <1>1 DEF ExecGet, ExecAt, ExecState, ExecT, LockedAt, RowT
  <2> QED
    BY <2>1, <2>2
<1>2. ASSUME NEW t \in Execs, ExecCancel(t) PROVE TypeInv'
  <2>1. RowT' /\ DiskT' /\ CallT' /\ SnapT' /\ ReapT' /\ CrashT'
    BY <1>2 DEF ExecCancel, RowT, DiskT, CallT, SnapT, ReapT, CrashT, diskVars, rowVars,
       snapVars
  <2>2. LockT'
    BY <1>2 DEF ExecCancel, ExecT, LockT, Release
  <2>3. PermitT'
    BY SMT, <1>2, ConstantsAssumption DEF ExecCancel, ExecT, PermitT, Release
  <2>4. ExecT'
    BY <1>2, EndedExecFacts DEF ExecCancel, ExecAt, ExecT, LockedAt, Release
  <2>5. JailT'
    BY <1>2 DEF ExecCancel, ExecT, JailT, Release
  <2> QED
    BY <2>1, <2>2, <2>3, <2>4, <2>5
<1>3. ASSUME NEW c \in Calls, NEW o \in Ops, NEW w \in Workspaces, NEW n \in 1..MaxForks,
   CallGet(c, o, w, n) PROVE TypeInv'
  <2>1. RowT' /\ DiskT' /\ LockT' /\ PermitT' /\ ExecT' /\ JailT' /\ SnapT' /\ ReapT' /\ CrashT'
    BY <1>3 DEF CallGet, RowT, DiskT, LockT, PermitT, ExecT, JailT, SnapT, ReapT, CrashT,
       diskVars, execVars, jailVars, lockVars, rowVars, snapVars
  <2>2. CallT'
    <3>4. o \in AllOps /\ n \in Nat
      BY SMT, ConstantsAssumption
    <3> DEFINE r == [NewCall EXCEPT !.at = "got", !.op = o, !.ws = w, !.left = n]
    <3>1. r \in CallState
      BY <1>3, <3>4, NewCallType, ZenonT(30) DEF CallGet, CallT, CallState, CallAt
    <3>2. CallRefs(r)
      BY <1>3 DEF CallGet, CallT, CallState, CallRefs, NamesWorkspaceAt, NamesSnapAt, CallAt, NewCall
    <3>3. call' = [call EXCEPT ![c] = r]
      BY <1>3 DEF CallGet, CallT, CallState
    <3> HIDE DEF r
    <3> QED
      BY <3>1, <3>2, <3>3, CallUpdate
  <2> QED
    BY <2>1, <2>2
<1>4. ASSUME NEW c \in Calls, NEW o \in Ops, NEW s \in SnapIds, CallGetSnap(c, o, s) PROVE
   TypeInv'
  <2>1. RowT' /\ DiskT' /\ LockT' /\ PermitT' /\ ExecT' /\ JailT' /\ SnapT' /\ ReapT' /\ CrashT'
    BY <1>4 DEF CallGetSnap, RowT, DiskT, LockT, PermitT, ExecT, JailT, SnapT, ReapT,
       CrashT, diskVars, execVars, jailVars, lockVars, rowVars, snapVars
  <2>2. CallT'
    <3> DEFINE r == [NewCall EXCEPT !.at = IF o = "drop" THEN "got" ELSE "owned",
                                 !.op = o, !.ws = snapRow[s], !.snap = s, !.left = 1]
    <3>1. r \in CallState
      BY ZenonT(30), <1>4, ConstantsAssumption, NewCallType DEF CallGetSnap, CallT, CallState, CallAt, AllOps, SnapT
    <3>2. CallRefs(r)
      BY ZenonT(30), <1>4 DEF CallGetSnap, CallT, CallState, CallRefs, NamesWorkspaceAt, NamesSnapAt, CallAt, NewCall, SnapT
    <3>3. call' = [call EXCEPT ![c] = r]
      BY <1>4 DEF CallGetSnap, CallT, CallState
    <3> HIDE DEF r
    <3> QED
      BY <3>1, <3>2, <3>3, CallUpdate
  <2> QED
    BY <2>1, <2>2
<1>5. ASSUME NEW c \in Calls, NEW w \in Workspaces, CallCreate(c, w) PROVE TypeInv'
  <2>1. RowT' /\ LockT' /\ PermitT' /\ ExecT' /\ JailT' /\ SnapT' /\ ReapT' /\ CrashT'
    BY <1>5 DEF CallCreate, RowT, LockT, PermitT, ExecT, JailT, SnapT, ReapT, CrashT,
       execVars, jailVars, lockVars, rowVars, snapVars
  <2>2. DiskT'
    BY <1>5, ConstantsAssumption DEF CallCreate, CallAt, CallRefs, CallT, Dirs, DiskT,
       NamesSnapAt, NamesWorkspaceAt, SnapT, Updates
  <2>3. CallT'
    <3> DEFINE r == [NewCall EXCEPT !.at = "built", !.op = "create", !.child = w, !.left = 1]
    <3>1. r \in CallState
      BY <1>5, NewCallType, ZenonT(30) DEF CallCreate, CallT, CallState, CallAt, AllOps
    <3>2. CallRefs(r)
      BY SMT, <1>5 DEF CallCreate, CallT, CallState, CallRefs, NamesWorkspaceAt, NamesSnapAt, CallAt, NewCall
    <3>3. call' = [call EXCEPT ![c] = r]
      BY <1>5 DEF CallCreate, CallT, CallState
    <3> HIDE DEF r
    <3> QED
      BY <3>1, <3>2, <3>3, CallUpdate
  <2> QED
    BY <2>1, <2>2, <2>3
<1>6. ASSUME NEW c \in Calls, CallCancel(c) PROVE TypeInv'
  <2>1. RowT' /\ DiskT' /\ LockT' /\ PermitT' /\ ExecT' /\ JailT' /\ SnapT' /\ ReapT' /\ CrashT'
    BY <1>6 DEF CallCancel, RowT, DiskT, LockT, PermitT, ExecT, JailT, SnapT, ReapT, CrashT,
       diskVars, execVars, jailVars, lockVars, rowVars, snapVars
  <2>2. CallT'
    BY <1>6, EndedCallFacts, EndedCallRefs DEF CallCancel, CallAt, CallRefs, CallState,
       CallT, NamesSnapAt, NamesWorkspaceAt
  <2> QED
    BY <2>1, <2>2
<1>7. ASSUME NEW t \in Execs, ExecLockFor(t) PROVE TypeInv'
  <2>1. RowT' /\ DiskT' /\ PermitT' /\ JailT' /\ CallT' /\ SnapT' /\ ReapT' /\ CrashT'
    BY <1>7 DEF ExecLockFor, RowT, DiskT, PermitT, JailT, CallT, SnapT, ReapT, CrashT,
       diskVars, jailVars, rowVars, snapVars
  <2>2. LockT'
    BY SMT, <1>7 DEF ExecLockFor, ExecT, LockT
  <2>3. ExecT'
    <3> DEFINE g == IF slot[ex[t].ws] THEN gen[ex[t].ws] ELSE gen[ex[t].ws] + 1
               r == [ex[t] EXCEPT !.at = "arc", !.mutex = g]
    <3>1. ex[t].ws \in Workspaces
      BY <1>7 DEF ExecLockFor, ExecT
    <3>2. g \in Nat
      BY SMT, <3>1 DEF LockT
    <3>3. ex' = [ex EXCEPT ![t] = r]
      BY <1>7 DEF ExecLockFor, ExecT, ExecState
    <3> HIDE DEF g
    <3>4. r \in ExecState /\ r.ws = ex[t].ws
      BY <3>2 DEF ExecT, ExecState, ExecAt
    <3> QED
      BY SMT, <3>1, <3>3, <3>4 DEF ExecT
  <2> QED
    BY <2>1, <2>2, <2>3
<1>8. ASSUME NEW t \in Execs, ExecTryLock(t) PROVE TypeInv'
  <2>1. RowT' /\ DiskT' /\ PermitT' /\ JailT' /\ CallT' /\ SnapT' /\ ReapT' /\ CrashT'
    BY <1>8 DEF ExecTryLock, RowT, DiskT, PermitT, JailT, CallT, SnapT, ReapT, CrashT,
       diskVars, jailVars, rowVars, snapVars
  <2>2. LockT'
    <3>1. Mutex(t) \in Workspaces \X Nat
      BY <1>8 DEF ExecTryLock, ExecMoves, ExecT, ExecState, Mutex
    <3> QED
      BY <1>8, <3>1 DEF ExecTryLock, LockT
  <2>3. ExecT'
    BY <1>8, ExecMovesType DEF ExecTryLock, ExecAt, LockedAt
  <2> QED
    BY <2>1, <2>2, <2>3
<1>9. ASSUME NEW t \in Execs, ExecConflict(t) PROVE TypeInv'
  <2>1. RowT' /\ DiskT' /\ LockT' /\ PermitT' /\ JailT' /\ CallT' /\ SnapT' /\ ReapT' /\ CrashT'
    BY <1>9 DEF ExecConflict, RowT, DiskT, LockT, PermitT, JailT, CallT, SnapT, ReapT,
       CrashT, diskVars, jailVars, lockVars, rowVars, snapVars
  <2>2. ExecT'
    BY <1>9, EndedExecFacts DEF ExecConflict, ExecAt, ExecT, LockedAt
  <2> QED
    BY <2>1, <2>2
<1>10. ASSUME NEW t \in Execs, ExecResume(t) PROVE TypeInv'
  <2>1. RowT' /\ DiskT' /\ LockT' /\ PermitT' /\ JailT' /\ CallT' /\ SnapT' /\ ReapT' /\ CrashT'
    BY <1>10 DEF ExecResume, RowT, DiskT, LockT, PermitT, JailT, CallT, SnapT, ReapT,
       CrashT, diskVars, jailVars, lockVars, rowVars, snapVars
  <2>2. ExecT'
    <3>1. ex \in [Execs -> ExecState]
      BY DEF ExecT
    <3>2. "resuming" \in ExecAt
      BY DEF ExecAt, LockedAt
    <3>3. /\ ex' \in [Execs -> ExecState]
          /\ ex[t].at = "locked" /\ ex'[t].at = "resuming" /\ ex'[t].ws = ex[t].ws
          /\ ex'[t].paused = ex[t].paused /\ ex'[t].auto = ex[t].auto
          /\ \A u \in Execs \ {t} : ex'[u] = ex[u]
      BY <1>10, <3>1, <3>2, ExecMovesFacts DEF ExecResume
    <3>4. ex[t].paused /\ ex[t].auto \in SnapIds /\ ex[t].ws \in Workspaces
      BY <1>10, <3>1, <3>3 DEF ExecResume, Resumes, ExecState, ExecT
    <3> QED
      BY <3>3, <3>4 DEF ExecT
  <2> QED
    BY <2>1, <2>2
<1>11. ASSUME NEW t \in Execs, ExecRestore(t) PROVE TypeInv'
  <2>1. RowT' /\ LockT' /\ PermitT' /\ JailT' /\ CallT' /\ SnapT' /\ ReapT' /\ CrashT'
    BY <1>11 DEF ExecRestore, RowT, LockT, PermitT, JailT, CallT, SnapT, ReapT, CrashT,
       jailVars, lockVars, rowVars, snapVars
  <2>2. DiskT'
    <3>1. snapDir[ex[t].auto] \in Dirs
      BY <1>11 DEF ExecRestore, ExecMoves, ExecT, SnapT
    <3> QED
      BY <1>11, <3>1 DEF ExecRestore, DiskT
  <2>3. ExecT'
    BY <1>11, ExecMovesType DEF ExecRestore, ExecAt, LockedAt
  <2> QED
    BY <2>1, <2>2, <2>3
<1>12. ASSUME NEW t \in Execs, ExecRestoreFails(t) PROVE TypeInv'
  <2>1. RowT' /\ DiskT' /\ JailT' /\ CallT' /\ SnapT' /\ ReapT' /\ CrashT'
    BY <1>12 DEF ExecRestoreFails, RowT, DiskT, JailT, CallT, SnapT, ReapT, CrashT,
       diskVars, jailVars, rowVars, snapVars
  <2>2. LockT'
    BY <1>12 DEF ExecRestoreFails, ExecT, LockT, Release
  <2>3. PermitT'
    BY SMT, <1>12, ConstantsAssumption DEF ExecRestoreFails, ExecT, PermitT, Release
  <2>4. ExecT'
    BY <1>12, EndedExecFacts DEF ExecRestoreFails, ExecAt, ExecT, LockedAt, Release
  <2> QED
    BY <2>1, <2>2, <2>3, <2>4
<1>13. ASSUME NEW t \in Execs, ExecMarkResumed(t) PROVE TypeInv'
  <2>1. DiskT' /\ LockT' /\ PermitT' /\ JailT' /\ CallT' /\ SnapT' /\ ReapT' /\ CrashT'
    BY <1>13 DEF ExecMarkResumed, DiskT, LockT, PermitT, JailT, CallT, SnapT, ReapT, CrashT,
       diskVars, jailVars, lockVars, snapVars
  <2>2. RowT'
    BY <1>13, ConstantsAssumption DEF ExecMarkResumed, ExecMoves, ExecT, RowT
  <2>3. ExecT'
    BY <1>13, ExecMovesType DEF ExecMarkResumed, ExecAt, LockedAt
  <2> QED
    BY <2>1, <2>2, <2>3
<1>14. ASSUME NEW t \in Execs, ExecNoResume(t) PROVE TypeInv'
  <2>1. RowT' /\ DiskT' /\ LockT' /\ PermitT' /\ JailT' /\ CallT' /\ SnapT' /\ ReapT' /\ CrashT'
    BY <1>14 DEF ExecNoResume, RowT, DiskT, LockT, PermitT, JailT, CallT, SnapT, ReapT,
       CrashT, diskVars, jailVars, lockVars, rowVars, snapVars
  <2>2. ExecT'
    BY <1>14, ExecMovesType DEF ExecNoResume, ExecAt, LockedAt
  <2> QED
    BY <2>1, <2>2
<1>15. ASSUME NEW t \in Execs, ExecAdmit(t) PROVE TypeInv'
  <2>1. RowT' /\ DiskT' /\ LockT' /\ JailT' /\ CallT' /\ SnapT' /\ ReapT' /\ CrashT'
    BY <1>15 DEF ExecAdmit, RowT, DiskT, LockT, JailT, CallT, SnapT, ReapT, CrashT,
       diskVars, jailVars, lockVars, rowVars, snapVars
  <2>2. PermitT'
    BY SMT, <1>15, ConstantsAssumption DEF ExecAdmit, ExecMoves, ExecT, PermitT
  <2>3. ExecT'
    BY <1>15, ExecMovesType DEF ExecAdmit, ExecAt, LockedAt
  <2> QED
    BY <2>1, <2>2, <2>3
<1>16. ASSUME NEW t \in Execs, ExecReject(t) PROVE TypeInv'
  <2>1. RowT' /\ DiskT' /\ JailT' /\ CallT' /\ SnapT' /\ ReapT' /\ CrashT'
    BY <1>16 DEF ExecReject, RowT, DiskT, JailT, CallT, SnapT, ReapT, CrashT, diskVars,
       jailVars, rowVars, snapVars
  <2>2. LockT'
    BY <1>16 DEF ExecReject, ExecT, LockT, Release
  <2>3. PermitT'
    BY SMT, <1>16, ConstantsAssumption DEF ExecReject, ExecT, PermitT, Release
  <2>4. ExecT'
    BY <1>16, EndedExecFacts DEF ExecReject, ExecAt, ExecT, LockedAt, Release
  <2> QED
    BY <2>1, <2>2, <2>3, <2>4
<1>17. ASSUME NEW t \in Execs, ExecTouch(t) PROVE TypeInv'
  <2>1. DiskT' /\ LockT' /\ PermitT' /\ JailT' /\ CallT' /\ SnapT' /\ ReapT' /\ CrashT'
    BY <1>17 DEF ExecTouch, DiskT, LockT, PermitT, JailT, CallT, SnapT, ReapT, CrashT,
       diskVars, jailVars, lockVars, snapVars
  <2>2. RowT'
    BY <1>17, ConstantsAssumption DEF ExecTouch, ExecMoves, ExecT, RowT
  <2>3. ExecT'
    BY <1>17, ExecMovesType DEF ExecTouch, ExecAt, LockedAt
  <2> QED
    BY <2>1, <2>2, <2>3
<1>18. ASSUME NEW t \in Execs, ExecSpawn(t) PROVE TypeInv'
  <2>1. RowT' /\ DiskT' /\ LockT' /\ PermitT' /\ CallT' /\ SnapT' /\ ReapT' /\ CrashT'
    BY <1>18 DEF ExecSpawn, RowT, DiskT, LockT, PermitT, CallT, SnapT, ReapT, CrashT,
       diskVars, lockVars, rowVars, snapVars
  <2>2. ExecT'
    BY <1>18, ExecMovesType DEF ExecSpawn, ExecAt, LockedAt
  <2>3. JailT'
    BY <1>18 DEF ExecSpawn, ExecMoves, ExecT, JailT
  <2> QED
    BY <2>1, <2>2, <2>3
<1>19. ASSUME NEW t \in Execs, ExecSpawnFails(t) PROVE TypeInv'
  <2>1. RowT' /\ DiskT' /\ JailT' /\ CallT' /\ SnapT' /\ ReapT' /\ CrashT'
    BY <1>19 DEF ExecSpawnFails, RowT, DiskT, JailT, CallT, SnapT, ReapT, CrashT, diskVars,
       jailVars, rowVars, snapVars
  <2>2. LockT'
    BY <1>19 DEF ExecSpawnFails, ExecT, LockT, Release
  <2>3. PermitT'
    BY SMT, <1>19, ConstantsAssumption DEF ExecSpawnFails, ExecT, PermitT, Release
  <2>4. ExecT'
    BY <1>19, EndedExecFacts DEF ExecSpawnFails, ExecAt, ExecT, LockedAt, Release
  <2> QED
    BY <2>1, <2>2, <2>3, <2>4
<1>20. ASSUME NEW t \in Execs, ExecPublish(t) PROVE TypeInv'
  <2>1. RowT' /\ DiskT' /\ LockT' /\ PermitT' /\ CallT' /\ SnapT' /\ ReapT' /\ CrashT'
    BY <1>20 DEF ExecPublish, RowT, DiskT, LockT, PermitT, CallT, SnapT, ReapT, CrashT,
       diskVars, lockVars, rowVars, snapVars
  <2>2. ExecT'
    BY <1>20, ExecMovesType DEF ExecPublish, ExecAt, LockedAt
  <2>3. JailT'
    BY <1>20 DEF ExecPublish, ExecMoves, ExecT, JailT
  <2> QED
    BY <2>1, <2>2, <2>3
<1>21. ASSUME NEW t \in Execs, ExecWait(t) PROVE TypeInv'
  <2>1. RowT' /\ DiskT' /\ LockT' /\ PermitT' /\ CallT' /\ SnapT' /\ ReapT' /\ CrashT'
    BY <1>21 DEF ExecWait, RowT, DiskT, LockT, PermitT, CallT, SnapT, ReapT, CrashT,
       diskVars, lockVars, rowVars, snapVars
  <2>2. ExecT'
    BY <1>21, ExecMovesType DEF ExecWait, ExecAt, LockedAt
  <2>3. JailT'
    BY <1>21 DEF ExecWait, ExecMoves, ExecT, JailT
  <2> QED
    BY <2>1, <2>2, <2>3
<1>22. ASSUME NEW t \in Execs, ExecUnregister(t) PROVE TypeInv'
  <2>1. RowT' /\ DiskT' /\ LockT' /\ PermitT' /\ CallT' /\ SnapT' /\ ReapT' /\ CrashT'
    BY <1>22 DEF ExecUnregister, RowT, DiskT, LockT, PermitT, CallT, SnapT, ReapT, CrashT,
       diskVars, lockVars, rowVars, snapVars
  <2>2. ExecT'
    BY <1>22, ExecMovesType DEF ExecUnregister, ExecAt, LockedAt
  <2>3. JailT'
    BY <1>22 DEF ExecUnregister, ExecMoves, ExecT, JailT
  <2> QED
    BY <2>1, <2>2, <2>3
<1>23. ASSUME NEW t \in Execs, ExecFinish(t) PROVE TypeInv'
  <2>1. RowT' /\ DiskT' /\ JailT' /\ CallT' /\ SnapT' /\ ReapT' /\ CrashT'
    BY <1>23 DEF ExecFinish, RowT, DiskT, JailT, CallT, SnapT, ReapT, CrashT, diskVars,
       jailVars, rowVars, snapVars
  <2>2. LockT'
    BY <1>23 DEF ExecFinish, ExecT, LockT, Release
  <2>3. PermitT'
    BY SMT, <1>23, ConstantsAssumption DEF ExecFinish, ExecT, PermitT, Release
  <2>4. ExecT'
    BY <1>23, EndedExecFacts DEF ExecFinish, ExecAt, ExecT, LockedAt, Release
  <2> QED
    BY <2>1, <2>2, <2>3, <2>4
<1>24. ASSUME NEW t \in Execs, JailWrite(t) PROVE TypeInv'
  <2>1. RowT' /\ LockT' /\ PermitT' /\ ExecT' /\ JailT' /\ CallT' /\ SnapT' /\ ReapT' /\ CrashT'
    BY <1>24 DEF JailWrite, RowT, LockT, PermitT, ExecT, JailT, CallT, SnapT, ReapT, CrashT,
       execVars, jailVars, lockVars, rowVars, snapVars
  <2>2. DiskT'
    <3>1. updates + 1 \in Updates
      BY SMT, <1>24, ConstantsAssumption DEF JailWrite, DiskT, Updates
    <3>2. source' \in [Workspaces -> Dirs]
      BY <1>24, <3>1 DEF JailWrite, DiskT, Dirs
    <3>3. work' \in [Workspaces -> SUBSET Updates]
      BY <1>24, <3>1 DEF JailWrite, DiskT
    <3>4. updates' \in 0..MaxUpdates
      BY SMT, <1>24, ConstantsAssumption DEF JailWrite, DiskT
    <3> QED
      BY <1>24, <3>2, <3>3, <3>4 DEF JailWrite, DiskT
  <2> QED
    BY <2>1, <2>2
<1>25. ASSUME NEW t \in Execs, JailExit(t) PROVE TypeInv'
  <2>1. RowT' /\ DiskT' /\ LockT' /\ PermitT' /\ ExecT' /\ CallT' /\ SnapT' /\ ReapT' /\ CrashT'
    BY <1>25 DEF JailExit, RowT, DiskT, LockT, PermitT, ExecT, CallT, SnapT, ReapT, CrashT,
       diskVars, execVars, lockVars, rowVars, snapVars
  <2>2. JailT'
    BY <1>25 DEF JailExit, ExecT, JailT
  <2> QED
    BY <2>1, <2>2
<1>26. ASSUME NEW c \in Calls, CallActive(c) PROVE TypeInv'
  <2>1. RowT' /\ DiskT' /\ LockT' /\ PermitT' /\ ExecT' /\ JailT' /\ SnapT' /\ ReapT' /\ CrashT'
    BY <1>26 DEF CallActive, RowT, DiskT, LockT, PermitT, ExecT, JailT, SnapT, ReapT,
       CrashT, diskVars, execVars, jailVars, lockVars, rowVars, snapVars
  <2>2. CallT'
    <3> DEFINE r == [call[c] EXCEPT !.at = "chosen", !.active = cgroups[call[c].ws]]
    <3>1. r \in CallState
      BY ZenonT(30), <1>26 DEF CallActive, CallT, CallState, CallAt, CallRefs, NamesWorkspaceAt, JailT
    <3>2. CallRefs(r)
      BY <1>26 DEF CallActive, CallT, CallState, CallRefs, NamesWorkspaceAt, NamesSnapAt, CallAt
    <3>3. call' = [call EXCEPT ![c] = r]
      BY <1>26 DEF CallActive, CallT, CallState
    <3> HIDE DEF r
    <3> QED
      BY <3>1, <3>2, <3>3, CallUpdate
  <2> QED
    BY <2>1, <2>2
<1>27. ASSUME NEW c \in Calls, CallFreeze(c) PROVE TypeInv'
  <2>1. RowT' /\ DiskT' /\ LockT' /\ PermitT' /\ ExecT' /\ SnapT' /\ ReapT' /\ CrashT'
    BY <1>27 DEF CallFreeze, RowT, DiskT, LockT, PermitT, ExecT, SnapT, ReapT, CrashT,
       diskVars, execVars, lockVars, rowVars, snapVars
  <2>2. JailT'
    BY <1>27 DEF CallFreeze, CallAt, CallRefs, CallT, JailT, NamesSnapAt, NamesWorkspaceAt
  <2>3. CallT'
    <3> DEFINE r == [call[c] EXCEPT !.at = "open", !.iced = TRUE]
    <3>1. r \in CallState
      BY ZenonT(30), <1>27 DEF CallFreeze, CallT, CallState, CallAt
    <3>2. CallRefs(r)
      BY <1>27 DEF CallFreeze, CallT, CallState, CallRefs, NamesWorkspaceAt, NamesSnapAt, CallAt
    <3>3. call' = [call EXCEPT ![c] = r]
      BY <1>27 DEF CallFreeze, CallT, CallState
    <3> HIDE DEF r
    <3> QED
      BY <3>1, <3>2, <3>3, CallUpdate
  <2> QED
    BY <2>1, <2>2, <2>3
<1>28. ASSUME NEW c \in Calls, CallNoFreeze(c) PROVE TypeInv'
  <2>1. RowT' /\ DiskT' /\ LockT' /\ PermitT' /\ ExecT' /\ JailT' /\ SnapT' /\ ReapT' /\ CrashT'
    BY <1>28 DEF CallNoFreeze, RowT, DiskT, LockT, PermitT, ExecT, JailT, SnapT, ReapT,
       CrashT, diskVars, execVars, jailVars, lockVars, rowVars, snapVars
  <2>2. CallT'
    BY <1>28, CallMovesType DEF CallNoFreeze, CallAt, CallRefs, CallT, NamesSnapAt,
       NamesWorkspaceAt
  <2> QED
    BY <2>1, <2>2
<1>29. ASSUME NEW c \in Calls, CallFreezeTimeout(c) PROVE TypeInv'
  <2>1. RowT' /\ DiskT' /\ LockT' /\ PermitT' /\ ExecT' /\ SnapT' /\ ReapT' /\ CrashT'
    BY <1>29 DEF CallFreezeTimeout, RowT, DiskT, LockT, PermitT, ExecT, SnapT, ReapT,
       CrashT, diskVars, execVars, lockVars, rowVars, snapVars
  <2>2. JailT'
    BY <1>29 DEF CallFreezeTimeout, CallAt, CallMoves, CallRefs, CallT, JailT, NamesSnapAt,
       NamesWorkspaceAt
  <2>3. CallT'
    BY <1>29, CallMovesType DEF CallFreezeTimeout, CallAt, CallRefs, CallT, NamesSnapAt,
       NamesWorkspaceAt
  <2> QED
    BY <2>1, <2>2, <2>3
<1>30. ASSUME NEW c \in Calls, NEW s \in SnapIds, CallCopyBegin(c, s) PROVE TypeInv'
  <2>1. RowT' /\ DiskT' /\ LockT' /\ PermitT' /\ ExecT' /\ JailT' /\ ReapT' /\ CrashT'
    BY <1>30 DEF CallCopyBegin, RowT, DiskT, LockT, PermitT, ExecT, JailT, ReapT, CrashT,
       diskVars, execVars, jailVars, lockVars, rowVars
  <2>2. CallT'
    <3>4. source[call[c].ws] \in Dirs
      BY <1>30 DEF CallCopyBegin, CallT, CallRefs, NamesWorkspaceAt, CallAt, DiskT
    <3> DEFINE r == [call[c] EXCEPT !.at = "copying", !.snap = s, !.copy = source[call[c].ws]]
    <3>1. r \in CallState
      BY ZenonT(30), <1>30, <3>4 DEF CallCopyBegin, CallT, CallState, CallAt
    <3>2. CallRefs(r)
      BY ZenonT(30), <1>30 DEF CallCopyBegin, CallT, CallState, CallRefs, NamesWorkspaceAt, NamesSnapAt, CallAt
    <3>3. call' = [call EXCEPT ![c] = r]
      BY <1>30 DEF CallCopyBegin, CallT, CallState
    <3> HIDE DEF r
    <3> QED
      BY <3>1, <3>2, <3>3, CallUpdate
  <2>3. SnapT'
    BY <1>30 DEF CallCopyBegin, CallAt, CallRefs, CallT, Dirs, NamesSnapAt,
       NamesWorkspaceAt, SnapT
  <2> QED
    BY <2>1, <2>2, <2>3
<1>31. ASSUME NEW c \in Calls, CallCopyMissing(c) PROVE TypeInv'
  <2>1. RowT' /\ DiskT' /\ LockT' /\ PermitT' /\ ExecT' /\ JailT' /\ SnapT' /\ ReapT' /\ CrashT'
    BY <1>31 DEF CallCopyMissing, RowT, DiskT, LockT, PermitT, ExecT, JailT, SnapT, ReapT,
       CrashT, diskVars, execVars, jailVars, lockVars, rowVars, snapVars
  <2>2. CallT'
    BY <1>31, CallMovesType DEF CallCopyMissing, CallAt, CallRefs, CallT, NamesSnapAt,
       NamesWorkspaceAt
  <2> QED
    BY <2>1, <2>2
<1>32. ASSUME NEW c \in Calls, NEW x \in SUBSET Updates, NEW ok \in BOOLEAN, CallCopyEnd(c, x, ok) PROVE TypeInv'
  <2>1. RowT' /\ DiskT' /\ LockT' /\ PermitT' /\ ExecT' /\ JailT' /\ ReapT' /\ CrashT'
    BY <1>32 DEF CallCopyEnd, RowT, DiskT, LockT, PermitT, ExecT, JailT, ReapT, CrashT,
       diskVars, execVars, jailVars, lockVars, rowVars
  <2>2. CallT'
    BY SMT, <1>32 DEF CallCopyEnd, CallAt, CallRefs, CallState, CallT, NamesSnapAt,
       NamesWorkspaceAt
  <2>3. SnapT'
    BY <1>32 DEF CallCopyEnd, CallAt, CallRefs, CallT, CopiesOf, Dirs, NamesSnapAt,
       NamesWorkspaceAt, SnapT
  <2> QED
    BY <2>1, <2>2, <2>3
<1>33. ASSUME NEW c \in Calls, CallThaw(c) PROVE TypeInv'
  <2>1. RowT' /\ DiskT' /\ LockT' /\ PermitT' /\ ExecT' /\ SnapT' /\ ReapT' /\ CrashT'
    BY <1>33 DEF CallThaw, RowT, DiskT, LockT, PermitT, ExecT, SnapT, ReapT, CrashT,
       diskVars, execVars, lockVars, rowVars, snapVars
  <2>2. JailT'
    BY <1>33 DEF CallThaw, CallAt, CallRefs, CallT, JailT, NamesSnapAt, NamesWorkspaceAt
  <2>3. CallT'
    <3> DEFINE r == IF call[c].at = "copied" THEN [call[c] EXCEPT !.at = "thawed", !.iced = FALSE]
                                            ELSE EndedCall
    <3>1. r \in CallState
      BY ZenonT(30), <1>33, EndedCallFacts DEF CallThaw, CallT, CallState, CallAt
    <3>2. CallRefs(r)
      BY SMT, <1>33, EndedCallRefs DEF CallThaw, CallT, CallState, CallRefs, NamesWorkspaceAt, NamesSnapAt, CallAt
    <3>3. call' = [call EXCEPT ![c] = r]
      BY <1>33 DEF CallThaw, CallT, CallState
    <3> HIDE DEF r
    <3> QED
      BY <3>1, <3>2, <3>3, CallUpdate
  <2> QED
    BY <2>1, <2>2, <2>3
<1>34. ASSUME NEW c \in Calls, CallInsertSnap(c) PROVE TypeInv'
  <2>1. RowT' /\ DiskT' /\ LockT' /\ PermitT' /\ ExecT' /\ JailT' /\ ReapT' /\ CrashT'
    BY <1>34 DEF CallInsertSnap, RowT, DiskT, LockT, PermitT, ExecT, JailT, ReapT, CrashT,
       diskVars, execVars, jailVars, lockVars, rowVars
  <2>2. CallT'
    BY SMT, <1>34, EndedCallFacts, EndedCallRefs DEF CallInsertSnap, CallAt, CallRefs, CallState,
       CallT, NamesSnapAt, NamesWorkspaceAt
  <2>3. SnapT'
    BY <1>34 DEF CallInsertSnap, CallAt, CallRefs, CallT, Dirs, NamesSnapAt,
       NamesWorkspaceAt, SnapT
  <2> QED
    BY <2>1, <2>2, <2>3
<1>35. ASSUME NEW c \in Calls, CallInsertSnapFails(c) PROVE TypeInv'
  <2>1. RowT' /\ DiskT' /\ LockT' /\ PermitT' /\ ExecT' /\ JailT' /\ ReapT' /\ CrashT'
    BY <1>35 DEF CallInsertSnapFails, RowT, DiskT, LockT, PermitT, ExecT, JailT, ReapT,
       CrashT, diskVars, execVars, jailVars, lockVars, rowVars
  <2>2. CallT'
    BY <1>35, CallEndsFacts DEF CallInsertSnapFails, CallAt, CallRefs, CallT, NamesSnapAt,
       NamesWorkspaceAt
  <2>3. SnapT'
    BY <1>35 DEF CallInsertSnapFails, CallAt, CallEnds, CallRefs, CallT, Dirs, NamesSnapAt,
       NamesWorkspaceAt, SnapT
  <2> QED
    BY <2>1, <2>2, <2>3
<1>36. ASSUME NEW c \in Calls, CallParent(c) PROVE TypeInv'
  <2>1. RowT' /\ DiskT' /\ LockT' /\ PermitT' /\ ExecT' /\ JailT' /\ SnapT' /\ ReapT' /\ CrashT'
    BY <1>36 DEF CallParent, RowT, DiskT, LockT, PermitT, ExecT, JailT, SnapT, ReapT,
       CrashT, diskVars, execVars, jailVars, lockVars, rowVars, snapVars
  <2>2. CallT'
    BY SMT, <1>36, EndedCallFacts, EndedCallRefs DEF CallParent, CallAt, CallRefs, CallState,
       CallT, NamesSnapAt, NamesWorkspaceAt
  <2> QED
    BY <2>1, <2>2
<1>37. ASSUME NEW c \in Calls, CallBuildFails(c) PROVE TypeInv'
  <2>1. RowT' /\ DiskT' /\ LockT' /\ PermitT' /\ ExecT' /\ JailT' /\ SnapT' /\ ReapT' /\ CrashT'
    BY <1>37 DEF CallBuildFails, RowT, DiskT, LockT, PermitT, ExecT, JailT, SnapT, ReapT,
       CrashT, diskVars, execVars, jailVars, lockVars, rowVars, snapVars
  <2>2. CallT'
    BY <1>37, CallEndsFacts DEF CallBuildFails, CallAt, CallRefs, CallT, NamesSnapAt,
       NamesWorkspaceAt
  <2> QED
    BY <2>1, <2>2
<1>38. ASSUME NEW c \in Calls, NEW w \in Workspaces, CallBuild(c, w) PROVE TypeInv'
  <2>1. RowT' /\ LockT' /\ PermitT' /\ ExecT' /\ JailT' /\ SnapT' /\ ReapT' /\ CrashT'
    BY <1>38 DEF CallBuild, RowT, LockT, PermitT, ExecT, JailT, SnapT, ReapT, CrashT,
       execVars, jailVars, lockVars, rowVars, snapVars
  <2>2. DiskT'
    BY <1>38, ConstantsAssumption DEF CallBuild, CallAt, CallRefs, CallT, Dirs, DiskT,
       NamesSnapAt, NamesWorkspaceAt, SnapT, Updates
  <2>3. CallT'
    <3> DEFINE r == [call[c] EXCEPT !.at = "built", !.child = w]
    <3>1. r \in CallState
      BY ZenonT(30), <1>38 DEF CallBuild, CallT, CallState, CallAt
    <3>2. CallRefs(r)
      BY <1>38 DEF CallBuild, CallT, CallState, CallRefs, NamesWorkspaceAt, NamesSnapAt, CallAt
    <3>3. call' = [call EXCEPT ![c] = r]
      BY <1>38 DEF CallBuild, CallT, CallState
    <3> HIDE DEF r
    <3> QED
      BY <3>1, <3>2, <3>3, CallUpdate
  <2> QED
    BY <2>1, <2>2, <2>3
<1>39. ASSUME NEW c \in Calls, CallInsert(c) PROVE TypeInv'
  <2>1. DiskT' /\ LockT' /\ PermitT' /\ ExecT' /\ JailT' /\ SnapT' /\ ReapT' /\ CrashT'
    BY <1>39 DEF CallInsert, DiskT, LockT, PermitT, ExecT, JailT, SnapT, ReapT, CrashT,
       diskVars, execVars, jailVars, lockVars, snapVars
  <2>2. RowT'
    BY <1>39, ConstantsAssumption DEF CallInsert, CallAt, CallRefs, CallT, NamesSnapAt,
       NamesWorkspaceAt, RowT
  <2>3. CallT'
    <3> DEFINE r == [call[c] EXCEPT !.at = "building", !.child = None, !.left = call[c].left - 1]
    <3>1. CASE call[c].left > 1
      <4>1. call[c].left - 1 \in Nat
        BY SMT, <3>1 DEF CallT, CallState
      <4>2. r \in CallState
        BY ZenonT(30), <4>1 DEF CallT, CallState, CallAt
      <4>3. CallRefs(r)
        BY ZenonT(30), <1>39, <3>1 DEF CallInsert, CallT, CallState, CallRefs, NamesWorkspaceAt, NamesSnapAt, CallAt
      <4>4. call' = [call EXCEPT ![c] = r]
        BY <1>39, <3>1 DEF CallInsert
      <4> HIDE DEF r
      <4> QED
        BY <4>2, <4>3, <4>4, CallUpdate
    <3>2. CASE ~(call[c].left > 1)
      BY <1>39, <3>2, EndedCallFacts, EndedCallRefs DEF CallInsert, CallT
    <3> QED
      BY <3>1, <3>2
  <2> QED
    BY <2>1, <2>2, <2>3
<1>40. ASSUME NEW c \in Calls, CallInsertFails(c) PROVE TypeInv'
  <2>1. RowT' /\ LockT' /\ PermitT' /\ ExecT' /\ JailT' /\ SnapT' /\ ReapT' /\ CrashT'
    BY <1>40 DEF CallInsertFails, RowT, LockT, PermitT, ExecT, JailT, SnapT, ReapT, CrashT,
       execVars, jailVars, lockVars, rowVars, snapVars
  <2>2. DiskT'
    BY <1>40, ConstantsAssumption DEF CallInsertFails, CallAt, CallEnds, CallRefs, CallT,
       Dirs, DiskT, NamesSnapAt, NamesWorkspaceAt, SnapT, Updates
  <2>3. CallT'
    BY <1>40, CallEndsFacts DEF CallInsertFails, CallAt, CallRefs, CallT, NamesSnapAt,
       NamesWorkspaceAt
  <2> QED
    BY <2>1, <2>2, <2>3
<1>41. ASSUME NEW c \in Calls, CallMarkDeleted(c) PROVE TypeInv'
  <2>1. DiskT' /\ LockT' /\ PermitT' /\ ExecT' /\ JailT' /\ SnapT' /\ ReapT' /\ CrashT'
    BY <1>41 DEF CallMarkDeleted, DiskT, LockT, PermitT, ExecT, JailT, SnapT, ReapT, CrashT,
       diskVars, execVars, jailVars, lockVars, snapVars
  <2>2. RowT'
    BY <1>41, ConstantsAssumption DEF CallMarkDeleted, CallAt, CallEnds, CallMoves,
       CallRefs, CallT, NamesSnapAt, NamesWorkspaceAt, RowT
  <2>3. CallT'
    BY <1>41, CallMovesType, CallEndsFacts DEF CallMarkDeleted, CallAt, CallRefs, CallT,
       NamesSnapAt, NamesWorkspaceAt
  <2> QED
    BY <2>1, <2>2, <2>3
<1>42. ASSUME NEW c \in Calls, CallRemoveDirs(c) PROVE TypeInv'
  <2>1. RowT' /\ LockT' /\ PermitT' /\ ExecT' /\ JailT' /\ SnapT' /\ ReapT' /\ CrashT'
    BY <1>42 DEF CallRemoveDirs, RowT, LockT, PermitT, ExecT, JailT, SnapT, ReapT, CrashT,
       execVars, jailVars, lockVars, rowVars, snapVars
  <2>2. DiskT'
    BY <1>42, ConstantsAssumption DEF CallRemoveDirs, CallAt, CallMoves, CallRefs, CallT,
       Dirs, DiskT, NamesSnapAt, NamesWorkspaceAt, SnapT, Updates
  <2>3. CallT'
    BY <1>42, CallMovesType DEF CallRemoveDirs, CallAt, CallRefs, CallT, NamesSnapAt,
       NamesWorkspaceAt
  <2> QED
    BY <2>1, <2>2, <2>3
<1>43. ASSUME NEW c \in Calls, CallRemoveDirsFails(c) PROVE TypeInv'
  <2>1. RowT' /\ DiskT' /\ LockT' /\ PermitT' /\ ExecT' /\ JailT' /\ SnapT' /\ ReapT' /\ CrashT'
    BY <1>43 DEF CallRemoveDirsFails, RowT, DiskT, LockT, PermitT, ExecT, JailT, SnapT,
       ReapT, CrashT, diskVars, execVars, jailVars, lockVars, rowVars, snapVars
  <2>2. CallT'
    BY <1>43, CallMovesType DEF CallRemoveDirsFails, CallAt, CallRefs, CallT, NamesSnapAt,
       NamesWorkspaceAt
  <2> QED
    BY <2>1, <2>2
<1>44. ASSUME NEW c \in Calls, CallForget(c) PROVE TypeInv'
  <2>1. RowT' /\ DiskT' /\ PermitT' /\ ExecT' /\ JailT' /\ SnapT' /\ ReapT' /\ CrashT'
    BY <1>44 DEF CallForget, RowT, DiskT, PermitT, ExecT, JailT, SnapT, ReapT, CrashT,
       diskVars, execVars, jailVars, rowVars, snapVars
  <2>2. LockT'
    BY <1>44 DEF CallForget, CallAt, CallEnds, CallRefs, CallT, LockT, NamesSnapAt,
       NamesWorkspaceAt
  <2>3. CallT'
    BY <1>44, CallEndsFacts DEF CallForget, CallAt, CallRefs, CallT, NamesSnapAt,
       NamesWorkspaceAt
  <2> QED
    BY <2>1, <2>2, <2>3
<1>45. ASSUME NEW c \in Calls, CallDropRow(c) PROVE TypeInv'
  <2>1. RowT' /\ DiskT' /\ LockT' /\ PermitT' /\ ExecT' /\ JailT' /\ ReapT' /\ CrashT'
    BY <1>45 DEF CallDropRow, RowT, DiskT, LockT, PermitT, ExecT, JailT, ReapT, CrashT,
       diskVars, execVars, jailVars, lockVars, rowVars
  <2>2. CallT'
    BY <1>45, CallMovesType, CallEndsFacts DEF CallDropRow, CallAt, CallRefs, CallT,
       NamesSnapAt, NamesWorkspaceAt
  <2>3. SnapT'
    BY <1>45 DEF CallDropRow, CallAt, CallEnds, CallMoves, CallRefs, CallT, Dirs,
       NamesSnapAt, NamesWorkspaceAt, SnapT
  <2> QED
    BY <2>1, <2>2, <2>3
<1>46. ASSUME NEW c \in Calls, CallDropDir(c) PROVE TypeInv'
  <2>1. RowT' /\ DiskT' /\ LockT' /\ PermitT' /\ ExecT' /\ JailT' /\ ReapT' /\ CrashT'
    BY <1>46 DEF CallDropDir, RowT, DiskT, LockT, PermitT, ExecT, JailT, ReapT, CrashT,
       diskVars, execVars, jailVars, lockVars, rowVars
  <2>2. CallT'
    BY <1>46, CallEndsFacts DEF CallDropDir, CallAt, CallRefs, CallT, NamesSnapAt,
       NamesWorkspaceAt
  <2>3. SnapT'
    BY <1>46 DEF CallDropDir, CallAt, CallEnds, CallRefs, CallT, Dirs, NamesSnapAt,
       NamesWorkspaceAt, SnapT
  <2> QED
    BY <2>1, <2>2, <2>3
<1>47. ASSUME ReaperList PROVE TypeInv'
  <2>1. RowT' /\ DiskT' /\ LockT' /\ PermitT' /\ ExecT' /\ JailT' /\ CallT' /\ SnapT' /\ CrashT'
    BY <1>47 DEF ReaperList, RowT, DiskT, LockT, PermitT, ExecT, JailT, CallT, SnapT,
       CrashT, diskVars, execVars, jailVars, lockVars, rowVars, snapVars
  <2>2. ReapT'
    BY <1>47 DEF ReaperList, Dirs, DiskT, NewReaper, ReapT, ReaperState, ReaperWith
  <2> QED
    BY <2>1, <2>2
<1>48. ASSUME NEW w \in Workspaces, NEW s \in SnapIds, ReaperCopyBegin(w, s) PROVE TypeInv'
  <2>1. RowT' /\ DiskT' /\ LockT' /\ PermitT' /\ ExecT' /\ JailT' /\ CallT' /\ CrashT'
    BY <1>48 DEF ReaperCopyBegin, RowT, DiskT, LockT, PermitT, ExecT, JailT, CallT, CrashT,
       diskVars, execVars, jailVars, lockVars, rowVars
  <2>2. SnapT'
    BY <1>48 DEF ReaperCopyBegin, Dirs, ReapT, SnapT
  <2>3. ReapT'
    BY <1>48 DEF ReaperCopyBegin, Dirs, DiskT, NewReaper, ReapT, ReaperState, ReaperWith
  <2> QED
    BY <2>1, <2>2, <2>3
<1>49. ASSUME NEW w \in Workspaces, ReaperCopyMissing(w) PROVE TypeInv'
  <2>1. RowT' /\ DiskT' /\ LockT' /\ PermitT' /\ ExecT' /\ JailT' /\ CallT' /\ SnapT' /\ CrashT'
    BY <1>49 DEF ReaperCopyMissing, RowT, DiskT, LockT, PermitT, ExecT, JailT, CallT, SnapT,
       CrashT, diskVars, execVars, jailVars, lockVars, rowVars, snapVars
  <2>2. ReapT'
    BY <1>49 DEF ReaperCopyMissing, Dirs, DiskT, NewReaper, ReapT, ReaperState, ReaperWith
  <2> QED
    BY <2>1, <2>2
<1>50. ASSUME NEW x \in SUBSET Updates, NEW ok \in BOOLEAN, ReaperCopyEnd(x, ok) PROVE TypeInv'
  <2>1. RowT' /\ DiskT' /\ LockT' /\ PermitT' /\ ExecT' /\ JailT' /\ CallT' /\ CrashT'
    BY <1>50 DEF ReaperCopyEnd, RowT, DiskT, LockT, PermitT, ExecT, JailT, CallT, CrashT,
       diskVars, execVars, jailVars, lockVars, rowVars
  <2>2. SnapT'
    BY <1>50 DEF ReaperCopyEnd, CopiesOf, Dirs, ReapT, SnapT
  <2>3. ReapT'
    BY <1>50 DEF ReaperCopyEnd, Dirs, DiskT, NewReaper, ReapT, ReaperState, ReaperWith
  <2> QED
    BY <2>1, <2>2, <2>3
<1>51. ASSUME NEW x \in SUBSET Updates, ReaperWipe(x) PROVE TypeInv'
  <2>1. RowT' /\ LockT' /\ PermitT' /\ ExecT' /\ JailT' /\ CallT' /\ SnapT' /\ CrashT'
    BY <1>51 DEF ReaperWipe, RowT, LockT, PermitT, ExecT, JailT, CallT, SnapT, CrashT,
       execVars, jailVars, lockVars, rowVars, snapVars
  <2>2. DiskT'
    BY <1>51, ConstantsAssumption DEF ReaperWipe, Dirs, DiskT, ReapT, SnapT, Updates
  <2>3. ReapT'
    BY <1>51 DEF ReaperWipe, Dirs, DiskT, NewReaper, ReapT, ReaperState, ReaperWith
  <2> QED
    BY <2>1, <2>2, <2>3
<1>52. ASSUME ReaperInsert PROVE TypeInv'
  <2>1. RowT' /\ DiskT' /\ LockT' /\ PermitT' /\ ExecT' /\ JailT' /\ CallT' /\ CrashT'
    BY <1>52 DEF ReaperInsert, RowT, DiskT, LockT, PermitT, ExecT, JailT, CallT, CrashT,
       diskVars, execVars, jailVars, lockVars, rowVars
  <2>2. SnapT'
    BY <1>52 DEF ReaperInsert, Dirs, ReapT, SnapT
  <2>3. ReapT'
    BY <1>52 DEF ReaperInsert, Dirs, DiskT, NewReaper, ReapT, ReaperState, ReaperWith
  <2> QED
    BY <2>1, <2>2, <2>3
<1>53. ASSUME ReaperInsertFails PROVE TypeInv'
  <2>1. RowT' /\ DiskT' /\ LockT' /\ PermitT' /\ ExecT' /\ JailT' /\ CallT' /\ CrashT'
    BY <1>53 DEF ReaperInsertFails, RowT, DiskT, LockT, PermitT, ExecT, JailT, CallT,
       CrashT, diskVars, execVars, jailVars, lockVars, rowVars
  <2>2. SnapT'
    BY <1>53 DEF ReaperInsertFails, Dirs, ReapT, SnapT
  <2>3. ReapT'
    BY <1>53 DEF ReaperInsertFails, Dirs, DiskT, NewReaper, ReapT, ReaperState, ReaperWith
  <2> QED
    BY <2>1, <2>2, <2>3
<1>54. ASSUME ReaperMarkPaused PROVE TypeInv'
  <2>1. DiskT' /\ LockT' /\ PermitT' /\ ExecT' /\ JailT' /\ CallT' /\ SnapT' /\ CrashT'
    BY <1>54 DEF ReaperMarkPaused, DiskT, LockT, PermitT, ExecT, JailT, CallT, SnapT,
       CrashT, diskVars, execVars, jailVars, lockVars, snapVars
  <2>2. RowT'
    BY <1>54, ConstantsAssumption DEF ReaperMarkPaused, ReapT, RowT
  <2>3. ReapT'
    BY <1>54 DEF ReaperMarkPaused, Dirs, DiskT, NewReaper, ReapT, ReaperState, ReaperWith
  <2> QED
    BY <2>1, <2>2, <2>3
<1>55. ASSUME NEW w \in Workspaces, IdleElapses(w) PROVE TypeInv'
  <2>1. DiskT' /\ LockT' /\ PermitT' /\ ExecT' /\ JailT' /\ CallT' /\ SnapT' /\ ReapT' /\ CrashT'
    BY <1>55 DEF IdleElapses, DiskT, LockT, PermitT, ExecT, JailT, CallT, SnapT, ReapT,
       CrashT, diskVars, execVars, jailVars, lockVars, snapVars
  <2>2. RowT'
    BY <1>55, ConstantsAssumption DEF IdleElapses, RowT
  <2> QED
    BY <2>1, <2>2
<1>56. ASSUME Crash PROVE TypeInv'
  <2>1. DiskT' /\ SnapT'
    BY <1>56 DEF Crash, DiskT, SnapT, diskVars, snapVars
  <2>2. RowT'
    BY <1>56, ConstantsAssumption DEF Crash, EndedExec, RowT
  <2>3. LockT'
    BY <1>56 DEF Crash, EndedExec, LockT, RowT
  <2>4. PermitT'
    BY <1>56, ConstantsAssumption DEF Crash, EndedExec, PermitT, RowT
  <2>5. ExecT'
    BY <1>56, EndedExecFacts DEF Crash, ExecT
  <2>6. JailT'
    BY <1>56 DEF Crash, EndedExec, JailT, RowT
  <2>7. CallT'
    BY <1>56, EndedCallFacts, EndedCallRefs DEF Crash, CallT
  <2>8. ReapT'
    BY <1>56 DEF Crash, Dirs, DiskT, EndedExec, NewReaper, ReapT, ReaperState, ReaperWith,
       RowT
  <2>9. CrashT'
    BY SMT, <1>56, ConstantsAssumption DEF Crash, CrashT, EndedExec, RowT
  <2> QED
    BY <2>1, <2>2, <2>3, <2>4, <2>5, <2>6, <2>7, <2>8, <2>9
<1>57. CASE UNCHANGED vars
  BY <1>57 DEF vars, RowT, DiskT, LockT, PermitT, ExecT, JailT, CallT, SnapT, ReapT, CrashT,
     rowVars, diskVars, lockVars, execVars, jailVars, snapVars
<1> QED
  BY <1>1, <1>2, <1>3, <1>4, <1>5, <1>6, <1>7, <1>8, <1>9, <1>10, <1>11, <1>12, <1>13,
     <1>14, <1>15, <1>16, <1>17, <1>18, <1>19, <1>20, <1>21, <1>22, <1>23, <1>24, <1>25,
     <1>26, <1>27, <1>28, <1>29, <1>30, <1>31, <1>32, <1>33, <1>34, <1>35, <1>36, <1>37,
     <1>38, <1>39, <1>40, <1>41, <1>42, <1>43, <1>44, <1>45, <1>46, <1>47, <1>48, <1>49,
     <1>50, <1>51, <1>52, <1>53, <1>54, <1>55, <1>56, <1>57 DEF Next, Client, ExecStep,
     CallStep, ReaperStep


\* The server starts well typed.
LEMMA TypeInvInit == Init => TypeInv
<1> SUFFICES ASSUME Init PROVE TypeInv
  OBVIOUS
<1> USE ConstantsAssumption DEF Init
<1>1. RowT /\ LockT /\ PermitT /\ JailT /\ CrashT
  <2>1. RowT
    BY DEF RowT
  <2>2. LockT
    BY DEF LockT
  <2>3. PermitT /\ CrashT
    BY SMT DEF PermitT, CrashT
  <2>4. JailT
    BY DEF JailT
  <2> QED
    BY <2>1, <2>2, <2>3, <2>4
<1>2. DiskT /\ SnapT
  BY SMT DEF DiskT, SnapT, Dirs, Updates
<1>3. ExecT
  BY DEF ExecT, NewExec, ExecState, ExecAt
<1>4. CallT
  <2>1. CallRefs(NewCall)
    BY DEF NewCall, CallRefs, NamesWorkspaceAt, NamesSnapAt
  <2> QED
    BY <2>1, NewCallType DEF CallT
<1>5. ReapT
  BY DEF ReapT, NewReaper, ReaperState, Dirs
<1> QED
  BY <1>1, <1>2, <1>3, <1>4, <1>5 DEF TypeInv

\* The strengthened type invariant implies the one the runs check.
LEMMA TypeInvTypeOK == TypeInv => TypeOK
  BY DEF TypeInv, TypeOK, RowT, DiskT, LockT, PermitT, ExecT, JailT, CallT, SnapT, ReapT, CrashT

\* Every variable of the workspace model keeps its type: rows, directories, mutexes,
\* handlers, trackers, snapshots and the reaper of agentjail-ctl.
THEOREM TypeCorrect == Spec => []TypeOK
<1>1. Spec => []TypeInv
  BY TypeInvInit, TypeInvStep, PTL DEF Spec
<1> QED
  BY <1>1, TypeInvTypeOK, PTL
-----------------------------------------------------------------------------
(* Safety *)

\* A handler past try_lock owns its mutex and no other handler owns it; the mutexes
\* asked for on a live workspace are all the one in the map.
ExecInv ==
    /\ \A t \in Execs : ex[t].at \in LockedAt => Mutex(t) \in held
    /\ \A t, u \in Execs : t # u /\ ex[t].at \in LockedAt /\ ex[u].at \in LockedAt
                           => Mutex(t) # Mutex(u)
    /\ \A t \in Execs : ex[t].at \in LockedAt \cup {"arc"} /\ Live(ex[t].ws)
                        => slot[ex[t].ws] /\ ex[t].mutex = gen[ex[t].ws]
    /\ \A t \in Execs : ex[t].at \notin {"new", "done"} => status[ex[t].ws] # "absent"
    /\ \A t \in Execs : jail[t] # "none" => ex[t].at \in {"spawned", "monitored"}

\* forget comes after mark_deleted; a child under construction has no row and is
\* nobody else's.
CallInv ==
    /\ \A c \in Calls : call[c].at \in {"marked", "removed"} => status[call[c].ws] = "deleted"
    /\ \A c \in Calls : call[c].at = "built" =>
          status[call[c].child] = "absent" /\ source[call[c].child] = work[call[c].child]
    /\ \A c, d \in Calls : c # d /\ call[c].at = "built" /\ call[d].at = "built"
                           => call[c].child # call[d].child

\* Only an exec of a workspace that has had a row publishes a cgroup.
RegInv ==
    /\ \A w \in Workspaces : status[w] = "absent" => cgroups[w] = None
    /\ RegistrationExact

\* Pausing and resuming happen only to workspaces with an idle timeout.
WorkInv ==
    /\ \A w \in Workspaces \ Idling : ~paused[w]
    /\ \A t \in Execs : ex[t].at \notin {"new", "done"} /\ ex[t].ws \notin Idling => ~ex[t].paused
    /\ \A w \in reaper.queue : w \in Idling /\ status[w] # "absent"
    /\ reaper.at \notin {"idle", "scan"} => reaper.ws \in Idling /\ status[reaper.ws] # "absent"
    /\ DefaultKeepsWork

SafeInv == ExecInv /\ CallInv /\ RegInv /\ WorkInv

----------------------------------------------------------------------------

(* What an action leaves alone keeps each part. *)
LEMMA ExecInvFrame == ExecInv /\ UNCHANGED <<status, slot, gen, held, ex, jail>> => ExecInv'
  BY SMT DEF ExecInv, Mutex, Live
LEMMA CallInvFrame == CallInv /\ UNCHANGED <<status, call, source, work>> => CallInv'
  BY SMT DEF CallInv
LEMMA RegInvFrame == RegInv /\ UNCHANGED <<status, cgroups, ex>> => RegInv'
  BY SMT DEF RegInv, RegistrationExact, Live
LEMMA RegInvKeeps ==
    ASSUME RegInv, UNCHANGED <<status, cgroups>>,
           \A t \in Execs : /\ ex'[t].at \in RegisteredAt <=> ex[t].at \in RegisteredAt
                            /\ ex[t].at \in RegisteredAt => ex'[t].ws = ex[t].ws
    PROVE  RegInv'
  BY DEF RegInv, RegistrationExact, Live
LEMMA WorkInvFrame ==
    WorkInv /\ UNCHANGED <<status, paused, source, work, ex, reaper>> => WorkInv'
  BY DEF WorkInv, DefaultKeepsWork, Live
LEMMA WorkInvKeeps ==
    ASSUME WorkInv, UNCHANGED <<status, paused, source, work, reaper>>,
           \A t \in Execs : ex'[t].at \notin {"new", "done"} /\ ex'[t].ws \notin Idling
                            => ~ex'[t].paused
    PROVE  WorkInv'
  BY DEF WorkInv, DefaultKeepsWork, Live

\* Two handlers past try_lock on one workspace: the workspace is deleted.
LEMMA SoleLocked ==
    ASSUME ExecInv, NEW t \in Execs, NEW u \in Execs, t # u,
           ex[t].at \in LockedAt, ex[u].at \in LockedAt, ex[t].ws = ex[u].ws
    PROVE  ~Live(ex[t].ws)
  BY SMT DEF ExecInv, Mutex

(* One handler moves to a state in which it does not own its mutex. *)
LEMMA ExecInvOthers ==
    ASSUME ExecInv, UNCHANGED status, NEW t \in Execs,
           ex'[t].at \notin LockedAt, jail'[t] = "none",
           ex'[t].at \notin {"new", "done"} => status[ex'[t].ws] # "absent",
           ex'[t].at = "arc" /\ status[ex'[t].ws] = "live"
              => slot'[ex'[t].ws] /\ ex'[t].mutex = gen'[ex'[t].ws],
           \A u \in Execs \ {t} :
              /\ ex'[u] = ex[u] /\ jail'[u] = jail[u]
              /\ ex[u].at \in LockedAt => Mutex(u) \in held'
              /\ ex[u].at \in LockedAt \cup {"arc"} /\ status[ex[u].ws] = "live"
                 => slot'[ex[u].ws] /\ ex[u].mutex = gen'[ex[u].ws]
    PROVE  ExecInv'
<1>1. \A u \in Execs \ {t} : Mutex(u)' = Mutex(u)
  BY DEF Mutex
<1>2. \A u \in Execs : ex'[u].at \in LockedAt => u # t
  OBVIOUS
<1>3. \A u \in Execs : ex'[u].at \in LockedAt => Mutex(u)' \in held'
  BY SMT, <1>1, <1>2
<1>4. \A u, v \in Execs : u # v /\ ex'[u].at \in LockedAt /\ ex'[v].at \in LockedAt
                          => Mutex(u)' # Mutex(v)'
  BY SMT, <1>1, <1>2 DEF ExecInv
<1>5. \A u \in Execs : ex'[u].at \in LockedAt \cup {"arc"} /\ status'[ex'[u].ws] = "live"
                       => slot'[ex'[u].ws] /\ ex'[u].mutex = gen'[ex'[u].ws]
  BY SMT
<1>6. \A u \in Execs : ex'[u].at \notin {"new", "done"} => status'[ex'[u].ws] # "absent"
  BY SMT DEF ExecInv
<1>7. \A u \in Execs : jail'[u] # "none" => ex'[u].at \in {"spawned", "monitored"}
  BY DEF ExecInv
<1> QED
  BY <1>3, <1>4, <1>5, <1>6, <1>7 DEF ExecInv, Live

(* An exec handler moves on while it holds its mutex. *)
LEMMA ExecInvMoves ==
    ASSUME ExecT, ExecInv, NEW t \in Execs, NEW from \in LockedAt, NEW to \in LockedAt,
           ExecMoves(t, from, to), UNCHANGED <<status, slot, gen, held>>,
           \A u \in Execs \ {t} : jail'[u] = jail[u],
           jail'[t] # "none" => to \in {"spawned", "monitored"}
    PROVE  ExecInv'
<1>1. to \in ExecAt
  BY DEF ExecAt
<1>2. /\ ex[t].at = from /\ ex'[t].at = to
      /\ ex'[t].ws = ex[t].ws /\ ex'[t].mutex = ex[t].mutex
      /\ \A u \in Execs \ {t} : ex'[u] = ex[u]
  BY <1>1, ExecMovesFacts DEF ExecT
<1>3. \A u \in Execs : /\ ex'[u].at \in LockedAt <=> ex[u].at \in LockedAt
                       /\ ex'[u].at = "arc" => ex[u].at = "arc"
                       /\ ex'[u].at \notin {"new", "done"} => ex[u].at \notin {"new", "done"}
                       /\ ex'[u].ws = ex[u].ws /\ ex'[u].mutex = ex[u].mutex
  BY <1>2 DEF LockedAt
<1>4. \A u \in Execs : Mutex(u)' = Mutex(u)
  BY <1>3 DEF Mutex
<1>5. \A u \in Execs : jail'[u] # "none" => ex'[u].at \in {"spawned", "monitored"}
  BY <1>2 DEF ExecInv
<1> QED
  BY SMT, <1>3, <1>4, <1>5 DEF ExecInv, Live

\* An exec moves between places on the same side of register and unregister.
LEMMA RegInvMoves ==
    ASSUME ExecT, RegInv, NEW t \in Execs, NEW from \in ExecAt, NEW to \in ExecAt,
           from \in RegisteredAt <=> to \in RegisteredAt,
           ExecMoves(t, from, to), UNCHANGED <<status, cgroups>>
    PROVE  RegInv'
<1>1. \A u \in Execs : ex'[u].ws = ex[u].ws /\ (ex'[u].at \in RegisteredAt <=> ex[u].at \in RegisteredAt)
  BY SMT, ExecMovesFacts DEF ExecT
<1> QED
  BY SMT, <1>1 DEF RegInv, RegistrationExact, Live

\* Moving on changes no row copy and starts no handler.
LEMMA ExecMovesKeep ==
    ASSUME ExecT, NEW t \in Execs, NEW from \in ExecAt \ {"new", "done"}, NEW to \in ExecAt,
           ExecMoves(t, from, to)
    PROVE  \A u \in Execs : /\ ex'[u].ws = ex[u].ws /\ ex'[u].paused = ex[u].paused
                            /\ ex'[u].at \notin {"new", "done"} => ex[u].at \notin {"new", "done"}
  BY SMT, ExecMovesFacts DEF ExecT

\* An exec moves on and no directory changes.
LEMMA WorkInvMoves ==
    ASSUME ExecT, WorkInv, NEW t \in Execs, NEW from \in ExecAt \ {"new", "done"}, NEW to \in ExecAt,
           ExecMoves(t, from, to), UNCHANGED <<status, paused, source, work, reaper>>
    PROVE  WorkInv'
<1>1. \A u \in Execs : /\ ex'[u].ws = ex[u].ws /\ ex'[u].paused = ex[u].paused
                       /\ ex'[u].at \notin {"new", "done"} => ex[u].at \notin {"new", "done"}
  BY ExecMovesKeep
<1> QED
  BY <1>1 DEF WorkInv, DefaultKeepsWork, Live

(* An exec handler ends. *)
LEMMA ReleaseFacts ==
    ASSUME ExecT, NEW t \in Execs, Release(t)
    PROVE  /\ ex'[t].at = "done" /\ \A u \in Execs \ {t} : ex'[u] = ex[u]
           /\ held' = held \ {Mutex(t)} /\ UNCHANGED <<slot, gen>>
  BY EndedExecFacts DEF ExecT, Release

\* A handler past try_lock ends, its jail with it, and its mutex is free again.
LEMMA ExecInvRelease ==
    ASSUME ExecT, ExecInv, NEW t \in Execs, ex[t].at \in LockedAt, Release(t), UNCHANGED status,
           jail'[t] = "none", \A u \in Execs \ {t} : jail'[u] = jail[u]
    PROVE  ExecInv'
<1>1. /\ ex'[t].at = "done" /\ \A u \in Execs \ {t} : ex'[u] = ex[u]
      /\ held' = held \ {Mutex(t)} /\ UNCHANGED <<slot, gen>>
  BY ReleaseFacts
<1>2. "done" \notin LockedAt
  BY DEF LockedAt
<1>3. \A u \in Execs \ {t} :
         /\ ex[u].at \in LockedAt => Mutex(u) \in held'
         /\ ex[u].at \in LockedAt \cup {"arc"} /\ status[ex[u].ws] = "live"
            => slot'[ex[u].ws] /\ ex[u].mutex = gen'[ex[u].ws]
  BY <1>1 DEF ExecInv, Live
<1> QED
  BY <1>1, <1>2, <1>3, ExecInvOthers

\* A handler leaves the registered places and takes its registration with it.
LEMMA RegInvLeaves ==
    ASSUME ExecT, JailT, ExecInv, RegInv, NEW t \in Execs, ex[t].at \in LockedAt,
           ex'[t].at \notin RegisteredAt, \A u \in Execs \ {t} : ex'[u] = ex[u],
           UNCHANGED status,
           cgroups' = IF ex[t].at \in RegisteredAt
                      THEN [cgroups EXCEPT ![ex[t].ws] = None] ELSE cgroups
    PROVE  RegInv'
<1>1. ex[t].ws \in Workspaces
  BY DEF ExecT, LockedAt
<1>2. RegisteredAt \subseteq LockedAt
  BY DEF RegisteredAt, LockedAt
<1>3. ASSUME NEW w \in Workspaces, Live(w)', NEW u \in Execs
      PROVE  cgroups'[w] = u <=> ex'[u].at \in RegisteredAt /\ ex'[u].ws = w
  <2>1. cgroups[w] = u <=> ex[u].at \in RegisteredAt /\ ex[u].ws = w
    BY <1>3 DEF RegInv, RegistrationExact, Live
  <2>2. CASE u = t
    BY <2>1, <2>2, <1>1, ConstantsAssumption DEF JailT
  <2>3. CASE u # t /\ ex[t].at \in RegisteredAt /\ ex[t].ws = w
    BY <2>1, <2>3, <1>1, <1>2, <1>3, SoleLocked, ConstantsAssumption DEF JailT, Live
  <2>4. CASE u # t /\ ~(ex[t].at \in RegisteredAt /\ ex[t].ws = w)
    BY <2>1, <2>4, <1>1 DEF JailT
  <2> QED
    BY <2>2, <2>3, <2>4
<1>4. \A w \in Workspaces : status'[w] = "absent" => cgroups'[w] = None
  BY <1>1 DEF RegInv, JailT
<1> QED
  BY <1>3, <1>4 DEF RegInv, RegistrationExact

\* A handler ends and no directory changes.
LEMMA WorkInvRelease ==
    ASSUME ExecT, WorkInv, NEW t \in Execs, Release(t),
           UNCHANGED <<status, paused, source, work, reaper>>
    PROVE  WorkInv'
<1>1. \A u \in Execs : ex'[u].at \notin {"new", "done"} => ex'[u] = ex[u]
  BY ReleaseFacts
<1> QED
  BY <1>1 DEF WorkInv, DefaultKeepsWork, Live

(* A request moves on without building, deleting or publishing anything. *)
LEMMA CallInvQuiet ==
    ASSUME CallInv, NEW c \in Calls, \A d \in Calls \ {c} : call'[d] = call[d],
           call'[c].at \notin {"marked", "removed", "built"}, UNCHANGED <<status, source, work>>
    PROVE  CallInv'
  BY SMT DEF CallInv

(* A request moves on, and the others keep what they rely on. *)
LEMMA CallInvOthers ==
    ASSUME CallInv, NEW c \in Calls, \A d \in Calls \ {c} : call'[d] = call[d],
           call'[c].at # "built",
           call'[c].at \in {"marked", "removed"} => status'[call'[c].ws] = "deleted",
           \A d \in Calls \ {c} : call[d].at \in {"marked", "removed"} => status'[call[d].ws] = "deleted",
           \A d \in Calls \ {c} : call[d].at = "built" =>
              status'[call[d].child] = "absent" /\ source'[call[d].child] = work'[call[d].child]
    PROVE  CallInv'
  BY SMT DEF CallInv

----------------------------------------------------------------------------
(* One step per action of an exec request or of its jail. *)

\* Each action of an exec request or of its jail keeps the safety invariant.
LEMMA ExecSafe ==
    ASSUME TypeInv, SafeInv, NEW t \in Execs,
           \/ \E w \in Workspaces : ExecGet(t, w)
           \/ ExecStep(t) \/ ExecCancel(t) \/ JailWrite(t) \/ JailExit(t)
    PROVE  SafeInv'
<1> USE DEF TypeInv, SafeInv
\* exec requests
<1>1. ASSUME NEW w \in Workspaces, ExecGet(t, w) PROVE SafeInv'
  <2>1. /\ ex[t].at = "new" /\ ex'[t].at = "got" /\ ex'[t].ws = w /\ ex'[t].paused = paused[w]
        /\ \A u \in Execs \ {t} : ex'[u] = ex[u]
    BY <1>1 DEF ExecGet, ExecT
  <2>2. ExecInv'
    <3>1. "got" \notin LockedAt
      BY DEF LockedAt
    <3>2. status[w] # "absent" /\ UNCHANGED <<status, slot, gen, held, jail>>
      BY <1>1 DEF ExecGet, rowVars, lockVars, jailVars
    <3>3. jail[t] = "none"
      BY <2>1 DEF ExecInv
    <3>4. \A u \in Execs \ {t} :
             /\ ex[u].at \in LockedAt => Mutex(u) \in held'
             /\ ex[u].at \in LockedAt \cup {"arc"} /\ status[ex[u].ws] = "live"
                => slot'[ex[u].ws] /\ ex[u].mutex = gen'[ex[u].ws]
      BY <3>2 DEF ExecInv, Live
    <3> QED
      BY <2>1, <3>1, <3>2, <3>3, <3>4, ExecInvOthers
  <2>3. RegInv'
    <3>1. UNCHANGED <<status, cgroups>>
      BY <1>1 DEF ExecGet, rowVars, jailVars
    <3> QED
      BY <2>1, <3>1, RegInvKeeps DEF RegisteredAt
  <2>4. WorkInv'
    <3>1. UNCHANGED <<status, paused, source, work, reaper>>
      BY <1>1 DEF ExecGet, rowVars, diskVars
    <3>2. w \notin Idling => ~paused[w]
      BY DEF WorkInv
    <3>3. \A u \in Execs : ex'[u].at \notin {"new", "done"} /\ ex'[u].ws \notin Idling => ~ex'[u].paused
      BY <2>1, <3>2 DEF WorkInv
    <3> QED
      BY <3>1, <3>3, WorkInvKeeps
  <2> QED
    BY <1>1, <2>2, <2>3, <2>4, CallInvFrame DEF ExecGet, rowVars, diskVars
<1>2. ASSUME ExecLockFor(t) PROVE SafeInv'
  <2> DEFINE w == ex[t].ws
  <2>1. w \in Workspaces
    BY <1>2 DEF ExecLockFor, ExecT
  <2>2. /\ ex[t].at = "got" /\ ex'[t].at = "arc" /\ ex'[t].ws = w /\ ex'[t].mutex = gen'[w]
        /\ ex'[t].paused = ex[t].paused /\ \A u \in Execs \ {t} : ex'[u] = ex[u]
    BY ZenonT(30), <1>2, <2>1 DEF ExecLockFor, ExecT, ExecState, LockT
  <2>3. slot'[w] /\ (slot[w] => gen'[w] = gen[w])
    BY <1>2, <2>1 DEF ExecLockFor, LockT
  <2>4. \A v \in Workspaces \ {w} : slot'[v] = slot[v] /\ gen'[v] = gen[v]
    BY <1>2, <2>1 DEF ExecLockFor, LockT
  <2>5. ExecInv'
    <3>1. "arc" \notin LockedAt
      BY DEF LockedAt
    <3>2. UNCHANGED <<status, held, jail>>
      BY <1>2 DEF ExecLockFor, rowVars, jailVars
    <3>3. jail[t] = "none" /\ status[w] # "absent"
      BY <2>2 DEF ExecInv
    <3>4. ASSUME NEW u \in Execs \ {t}, ex[u].at \in LockedAt \cup {"arc"}, status[ex[u].ws] = "live"
          PROVE  slot'[ex[u].ws] /\ ex[u].mutex = gen'[ex[u].ws]
      <4>1. slot[ex[u].ws] /\ ex[u].mutex = gen[ex[u].ws]
        BY <3>4 DEF ExecInv, Live
      <4>2. ex[u].ws \in Workspaces
        BY <3>4 DEF ExecT, LockedAt
      <4> QED
        BY <4>1, <4>2, <2>3, <2>4
    <3>5. \A u \in Execs \ {t} : ex[u].at \in LockedAt => Mutex(u) \in held'
      BY <3>2 DEF ExecInv
    <3>6. \A u \in Execs \ {t} :
             /\ ex'[u] = ex[u] /\ jail'[u] = jail[u]
             /\ ex[u].at \in LockedAt => Mutex(u) \in held'
             /\ ex[u].at \in LockedAt \cup {"arc"} /\ status[ex[u].ws] = "live"
                => slot'[ex[u].ws] /\ ex[u].mutex = gen'[ex[u].ws]
      BY <2>2, <3>2, <3>4, <3>5
    <3>7. /\ ex'[t].at \notin LockedAt /\ jail'[t] = "none"
          /\ status[ex'[t].ws] # "absent"
          /\ slot'[ex'[t].ws] /\ ex'[t].mutex = gen'[ex'[t].ws]
      BY <2>2, <2>3, <3>1, <3>2, <3>3
    <3> HIDE DEF w
    <3> QED
      BY <3>2, <3>6, <3>7, ExecInvOthers
  <2>6. RegInv'
    <3>1. UNCHANGED <<status, cgroups>>
      BY <1>2 DEF ExecLockFor, rowVars, jailVars
    <3> QED
      BY <2>2, <3>1, RegInvKeeps DEF RegisteredAt
  <2>7. WorkInv'
    <3>1. UNCHANGED <<status, paused, source, work, reaper>>
      BY <1>2 DEF ExecLockFor, rowVars, diskVars
    <3>2. \A u \in Execs : ex'[u].at \notin {"new", "done"} /\ ex'[u].ws \notin Idling => ~ex'[u].paused
      BY <2>2 DEF WorkInv
    <3> QED
      BY <3>1, <3>2, WorkInvKeeps
  <2> QED
    BY <1>2, <2>5, <2>6, <2>7, CallInvFrame DEF ExecLockFor, rowVars, diskVars
<1>3. ASSUME ExecTryLock(t) PROVE SafeInv'
  <2>1. /\ ex[t].at = "arc" /\ ex'[t].at = "locked"
        /\ ex'[t].ws = ex[t].ws /\ ex'[t].mutex = ex[t].mutex
        /\ \A u \in Execs \ {t} : ex'[u] = ex[u]
    BY ZenonT(30), <1>3, ExecMovesFacts DEF ExecTryLock, ExecT, ExecAt, LockedAt
  <2>2. ExecInv'
    <3>1. \A u \in Execs : Mutex(u)' = Mutex(u)
      BY <2>1 DEF Mutex
    <3>2. Mutex(t) \notin held /\ held' = held \cup {Mutex(t)} /\ UNCHANGED <<status, slot, gen, jail>>
      BY <1>3 DEF ExecTryLock, rowVars, jailVars
    <3>3. \A u \in Execs \ {t} : ex[u].at \in LockedAt => Mutex(u) \in held /\ Mutex(u) # Mutex(t)
      BY <3>2 DEF ExecInv
    <3>4. \A u \in Execs : ex'[u].at \in LockedAt => Mutex(u)' \in held'
      BY <2>1, <3>1, <3>2, <3>3
    <3>5. \A u, v \in Execs : u # v /\ ex'[u].at \in LockedAt /\ ex'[v].at \in LockedAt
                              => Mutex(u)' # Mutex(v)'
      <4> SUFFICES ASSUME NEW u \in Execs, NEW v \in Execs, u # v,
                          ex'[u].at \in LockedAt, ex'[v].at \in LockedAt
                   PROVE  Mutex(u) # Mutex(v)
        BY <3>1
      <4>1. CASE u = t
        BY <2>1, <3>3, <4>1
      <4>2. CASE v = t
        BY <2>1, <3>3, <4>2
      <4>3. CASE u # t /\ v # t
        BY <2>1, <4>3 DEF ExecInv
      <4> QED
        BY <4>1, <4>2, <4>3
    <3>6. \A u \in Execs : ex'[u].at \in LockedAt \cup {"arc"} /\ status'[ex'[u].ws] = "live"
                           => slot'[ex'[u].ws] /\ ex'[u].mutex = gen'[ex'[u].ws]
      <4> SUFFICES ASSUME NEW u \in Execs, ex'[u].at \in LockedAt \cup {"arc"},
                          status[ex'[u].ws] = "live"
                   PROVE  slot[ex'[u].ws] /\ ex'[u].mutex = gen[ex'[u].ws]
        BY <3>2
      <4>1. /\ ex[u].at \in LockedAt \cup {"arc"}
            /\ ex'[u].ws = ex[u].ws /\ ex'[u].mutex = ex[u].mutex
        BY <2>1
      <4> QED
        BY <4>1 DEF ExecInv, Live
    <3>7. \A u \in Execs : ex'[u].at \notin {"new", "done"} => status'[ex'[u].ws] # "absent"
      <4> SUFFICES ASSUME NEW u \in Execs, ex'[u].at \notin {"new", "done"}
                   PROVE  status[ex'[u].ws] # "absent"
        BY <3>2
      <4>1. ex[u].at \notin {"new", "done"} /\ ex'[u].ws = ex[u].ws
        BY <2>1
      <4> QED
        BY <4>1 DEF ExecInv
    <3>8. \A u \in Execs : jail'[u] # "none" => ex'[u].at \in {"spawned", "monitored"}
      BY <2>1, <3>2 DEF ExecInv
    <3> QED
      BY <3>4, <3>5, <3>6, <3>7, <3>8 DEF ExecInv, Live
  <2>3. RegInv' /\ WorkInv'
    BY <1>3, RegInvMoves, WorkInvMoves
       DEF ExecTryLock, ExecAt, LockedAt, RegisteredAt, rowVars, diskVars, jailVars
  <2> QED
    BY <1>3, <2>2, <2>3, CallInvFrame DEF ExecTryLock, rowVars, diskVars
<1>4. ASSUME ExecConflict(t) PROVE SafeInv'
  <2>1. /\ ex[t].at = "arc" /\ ex'[t].at = "done" /\ \A u \in Execs \ {t} : ex'[u] = ex[u]
    BY <1>4, EndedExecFacts DEF ExecConflict, ExecT
  <2>2. ExecInv'
    <3>1. "done" \notin LockedAt
      BY DEF LockedAt
    <3>2. UNCHANGED <<status, slot, gen, held, jail>>
      BY <1>4 DEF ExecConflict, rowVars, lockVars, jailVars
    <3>3. jail[t] = "none"
      BY <2>1 DEF ExecInv
    <3>4. \A u \in Execs \ {t} :
             /\ ex[u].at \in LockedAt => Mutex(u) \in held'
             /\ ex[u].at \in LockedAt \cup {"arc"} /\ status[ex[u].ws] = "live"
                => slot'[ex[u].ws] /\ ex[u].mutex = gen'[ex[u].ws]
      BY <3>2 DEF ExecInv, Live
    <3> QED
      BY <2>1, <3>1, <3>2, <3>3, <3>4, ExecInvOthers
  <2>3. UNCHANGED <<status, cgroups, paused, source, work, reaper>>
    BY <1>4 DEF ExecConflict, rowVars, diskVars, jailVars
  <2>4. RegInv'
    BY <2>1, <2>3, RegInvKeeps DEF RegisteredAt
  <2>5. WorkInv'
    BY <2>1, <2>3 DEF WorkInv, DefaultKeepsWork, Live
  <2> QED
    BY <1>4, <2>2, <2>4, <2>5, CallInvFrame DEF ExecConflict, rowVars, diskVars
<1>5. ASSUME ExecRestore(t) PROVE SafeInv'
  <2>1. ExecInv' /\ RegInv'
    <3>1. "resuming" \in LockedAt /\ "restored" \in LockedAt /\ LockedAt \subseteq ExecAt
      BY DEF LockedAt, ExecAt
    <3>2. "resuming" \notin RegisteredAt /\ "restored" \notin RegisteredAt
      BY DEF RegisteredAt
    <3>3. /\ ExecMoves(t, "resuming", "restored")
          /\ UNCHANGED <<status, slot, gen, held, jail, cgroups>>
      BY <1>5 DEF ExecRestore, rowVars, lockVars, jailVars
    <3>4. jail[t] = "none"
      BY <3>3 DEF ExecMoves, ExecInv
    <3>5. ExecInv'
      BY <3>1, <3>3, <3>4, ExecInvMoves
    <3> QED
      BY <3>1, <3>2, <3>3, <3>5, RegInvMoves
  <2>2. /\ ex[t].at = "resuming" /\ ex[t].ws \in Workspaces \cap Idling /\ status[ex[t].ws] # "absent"
    BY <1>5 DEF ExecRestore, ExecMoves, WorkInv, ExecInv, ExecT
  <2>3. \A v \in Workspaces \ {ex[t].ws} : source'[v] = source[v]
    BY <1>5, <2>2 DEF ExecRestore, DiskT
  <2>4. CallInv'
    BY SMT, <1>5, <2>2, <2>3 DEF ExecRestore, CallInv, CallT, CallRefs, rowVars
  <2>5. WorkInv'
    <3>1. \A u \in Execs : /\ ex'[u].ws = ex[u].ws /\ ex'[u].paused = ex[u].paused
                           /\ ex'[u].at \notin {"new", "done"} => ex[u].at \notin {"new", "done"}
      BY <1>5, ExecMovesKeep DEF ExecRestore, ExecAt, LockedAt
    <3> QED
      BY <1>5, <2>2, <2>3, <3>1 DEF ExecRestore, WorkInv, DefaultKeepsWork, Live, rowVars
  <2> QED
    BY <2>1, <2>4, <2>5
<1>6. ASSUME ExecMarkResumed(t) PROVE SafeInv'
  <2>1. ExecInv' /\ RegInv' /\ CallInv'
    <3>1. "restored" \in LockedAt /\ "ready" \in LockedAt /\ LockedAt \subseteq ExecAt
      BY DEF LockedAt, ExecAt
    <3>2. "restored" \notin RegisteredAt /\ "ready" \notin RegisteredAt
      BY DEF RegisteredAt
    <3>3. /\ ExecMoves(t, "restored", "ready")
          /\ UNCHANGED <<status, source, work, slot, gen, held, jail, cgroups, call>>
      BY <1>6 DEF ExecMarkResumed, diskVars, lockVars, jailVars
    <3>4. jail[t] = "none"
      BY <3>3 DEF ExecMoves, ExecInv
    <3>5. ExecInv'
      BY <3>1, <3>3, <3>4, ExecInvMoves
    <3> QED
      BY <3>1, <3>2, <3>3, <3>5, RegInvMoves, CallInvFrame
  <2>2. \A u \in Execs : /\ ex'[u].ws = ex[u].ws /\ ex'[u].paused = ex[u].paused
                         /\ ex'[u].at \notin {"new", "done"} => ex[u].at \notin {"new", "done"}
    BY <1>6, ExecMovesKeep DEF ExecMarkResumed, ExecAt, LockedAt
  <2>3. \A w \in Workspaces : ~paused[w] => ~paused'[w]
    BY <1>6 DEF ExecMarkResumed, RowT
  <2> QED
    BY <1>6, <2>1, <2>2, <2>3 DEF ExecMarkResumed, WorkInv, DefaultKeepsWork, Live, diskVars
<1>7. ASSUME ExecResume(t) \/ ExecNoResume(t) \/ ExecAdmit(t) \/ ExecTouch(t) \/ ExecSpawn(t)
      PROVE  SafeInv'
  <2>1. PICK from, to \in {"locked", "resuming", "ready", "admitted", "touched", "spawned"} :
           ExecMoves(t, from, to) /\ (jail'[t] # "none" => jail[t] # "none" \/ to = "spawned")
    BY <1>7 DEF ExecResume, ExecNoResume, ExecAdmit, ExecTouch, ExecSpawn, jailVars
  <2>2. /\ UNCHANGED <<status, paused, source, work, slot, gen, held, cgroups, call, reaper>>
        /\ \A u \in Execs \ {t} : jail'[u] = jail[u]
    BY <1>7 DEF ExecResume, ExecNoResume, ExecAdmit, ExecTouch, ExecSpawn, rowVars, diskVars,
       lockVars, jailVars, JailT
  <2>3. from \in LockedAt /\ to \in LockedAt /\ from \notin RegisteredAt /\ to \notin RegisteredAt
    BY <2>1 DEF LockedAt, RegisteredAt
  <2>4. LockedAt \subseteq ExecAt \ {"new", "done"}
    BY DEF LockedAt, ExecAt
  <2>5. jail[t] # "none" => FALSE
    BY <1>7 DEF ExecResume, ExecNoResume, ExecAdmit, ExecTouch, ExecSpawn, ExecMoves, ExecInv
  <2>6. ExecInv'
    BY <2>1, <2>2, <2>3, <2>5, ExecInvMoves
  <2>7. RegInv' /\ WorkInv'
    BY <2>1, <2>2, <2>3, <2>4, RegInvMoves, WorkInvMoves
  <2> QED
    BY <2>2, <2>6, <2>7, CallInvFrame
<1>8. ASSUME ExecRestoreFails(t) \/ ExecReject(t) \/ ExecSpawnFails(t) \/ ExecFinish(t)
      PROVE  SafeInv'
  <2>1. /\ ex[t].at \in LockedAt \ ({"spawned", "monitored"} \cup RegisteredAt)
        /\ Release(t)
        /\ UNCHANGED <<status, paused, source, work, jail, cgroups, call, reaper>>
    BY <1>8 DEF ExecRestoreFails, ExecReject, ExecSpawnFails, ExecFinish, LockedAt, RegisteredAt,
       rowVars, diskVars, jailVars
  <2>2. jail'[t] = "none"
    BY <2>1 DEF ExecInv
  <2>3. ExecInv'
    BY <2>1, <2>2, ExecInvRelease
  <2>4. RegInv'
    BY <2>1, ReleaseFacts, RegInvLeaves DEF RegisteredAt
  <2> QED
    BY <2>1, <2>3, <2>4, WorkInvRelease, CallInvFrame
<1>9. ASSUME ExecCancel(t) PROVE SafeInv'
  <2>1. ex[t].at \in LockedAt /\ Release(t) /\ UNCHANGED <<status, paused, source, work, call, reaper>>
    BY <1>9 DEF ExecCancel, rowVars, diskVars
  <2>2. jail'[t] = "none" /\ \A u \in Execs \ {t} : jail'[u] = jail[u]
    BY <1>9 DEF ExecCancel, JailT
  <2>3. ExecInv'
    BY <2>1, <2>2, ExecInvRelease
  <2>4. RegInv'
    BY <1>9, <2>1, ReleaseFacts, RegInvLeaves DEF ExecCancel, RegisteredAt
  <2> QED
    BY <2>1, <2>3, <2>4, WorkInvRelease, CallInvFrame
<1>10. ASSUME ExecPublish(t) PROVE SafeInv'
  <2>1. ExecInv' /\ WorkInv' /\ CallInv'
    <3>1. "spawned" \in LockedAt /\ "monitored" \in LockedAt /\ LockedAt \subseteq ExecAt \ {"new", "done"}
      BY DEF LockedAt, ExecAt
    <3>2. ExecMoves(t, "spawned", "monitored")
          /\ UNCHANGED <<status, paused, source, work, slot, gen, held, jail, call, reaper>>
      BY <1>10 DEF ExecPublish, rowVars, diskVars, lockVars
    <3> QED
      BY <3>1, <3>2, ExecInvMoves, WorkInvMoves, CallInvFrame
  <2>2. /\ ex[t].at = "spawned" /\ ex'[t].at = "monitored" /\ ex'[t].ws = ex[t].ws
        /\ \A u \in Execs \ {t} : ex'[u] = ex[u]
    BY SMT, <1>10, ExecMovesFacts DEF ExecPublish, ExecT, ExecAt, LockedAt
  <2>3. ex[t].ws \in Workspaces /\ status[ex[t].ws] # "absent"
    BY <2>2 DEF ExecT, ExecInv
  <2>4. ASSUME NEW w \in Workspaces, Live(w)', NEW u \in Execs
        PROVE  cgroups'[w] = u <=> ex'[u].at \in RegisteredAt /\ ex'[u].ws = w
    <3>1. cgroups[w] = u <=> ex[u].at \in RegisteredAt /\ ex[u].ws = w
      BY <1>10, <2>4 DEF ExecPublish, rowVars, RegInv, RegistrationExact, Live
    <3>2. cgroups'[w] = IF w = ex[t].ws THEN t ELSE cgroups[w]
      BY <1>10 DEF ExecPublish, JailT
    <3>3. CASE u = t
      BY <2>2, <3>1, <3>2, <3>3 DEF RegisteredAt
    <3>4. CASE u # t
      <4>1. w = ex[t].ws => ~(ex[u].at \in RegisteredAt /\ ex[u].ws = w)
        BY <1>10, <2>2, <2>4, <3>4, SoleLocked DEF ExecPublish, rowVars, RegisteredAt, LockedAt, Live
      <4> QED
        <5>1. ex'[u] = ex[u]
          BY <2>2, <3>4
        <5>2. CASE w = ex[t].ws
          BY <3>2, <3>4, <4>1, <5>1, <5>2
        <5>3. CASE w # ex[t].ws
          BY <3>1, <3>2, <5>1, <5>3
        <5> QED
          BY <5>2, <5>3
    <3> QED
      BY <3>3, <3>4
  <2>5. \A w \in Workspaces : status'[w] = "absent" => cgroups'[w] = None
    BY <1>10, <2>3 DEF ExecPublish, RegInv, JailT, rowVars
  <2> QED
    BY <2>1, <2>4, <2>5 DEF RegInv, RegistrationExact
<1>11. ASSUME ExecWait(t) PROVE SafeInv'
  <2>1. "monitored" \in LockedAt /\ "waited" \in LockedAt /\ LockedAt \subseteq ExecAt \ {"new", "done"}
    BY DEF LockedAt, ExecAt
  <2>2. "monitored" \in RegisteredAt /\ "waited" \in RegisteredAt
    BY DEF RegisteredAt
  <2>3. /\ ExecMoves(t, "monitored", "waited")
        /\ UNCHANGED <<status, paused, source, work, slot, gen, held, cgroups, call, reaper>>
        /\ jail'[t] = "none" /\ \A u \in Execs \ {t} : jail'[u] = jail[u]
    BY <1>11 DEF ExecWait, rowVars, diskVars, lockVars, JailT
  <2>4. ExecInv'
    BY <2>1, <2>3, ExecInvMoves
  <2> QED
    BY <2>1, <2>2, <2>3, <2>4, RegInvMoves, WorkInvMoves, CallInvFrame
<1>12. ASSUME ExecUnregister(t) PROVE SafeInv'
  <2>1. "waited" \in LockedAt /\ "unregistered" \in LockedAt /\ LockedAt \subseteq ExecAt \ {"new", "done"}
    BY DEF LockedAt, ExecAt
  <2>2. /\ ExecMoves(t, "waited", "unregistered")
        /\ UNCHANGED <<status, paused, source, work, slot, gen, held, jail, call, reaper>>
    BY <1>12 DEF ExecUnregister, rowVars, diskVars, lockVars
  <2>3. /\ ex[t].at = "waited" /\ ex'[t].at = "unregistered"
        /\ \A u \in Execs \ {t} : ex'[u] = ex[u]
    BY <2>1, <2>2, ExecMovesFacts DEF ExecT
  <2>4. jail[t] = "none"
    BY <2>3 DEF ExecInv
  <2>5. ExecInv'
    BY <2>1, <2>2, <2>4, ExecInvMoves
  <2>6. RegInv'
    BY <1>12, <2>1, <2>2, <2>3, RegInvLeaves DEF ExecUnregister, RegisteredAt
  <2> QED
    BY <2>1, <2>2, <2>5, <2>6, WorkInvMoves, CallInvFrame
<1>13. ASSUME JailWrite(t) PROVE SafeInv'
  <2> DEFINE w == ex[t].ws
  <2>1. w \in Workspaces /\ status[w] # "absent"
    BY <1>13 DEF JailWrite, ExecInv, ExecT
  <2>2. /\ \A v \in Workspaces \ {w} : source'[v] = source[v] /\ work'[v] = work[v]
        /\ source[w] = work[w] => source'[w] = work'[w]
    BY <1>13, <2>1 DEF JailWrite, DiskT
  <2>3. UNCHANGED <<status, paused, slot, gen, held, ex, jail, cgroups, call, reaper>>
    BY <1>13 DEF JailWrite, rowVars, lockVars, execVars, jailVars
  <2>4. CallInv'
    <3>1. \A c \in Calls : call[c].at = "built" => call[c].child \in Workspaces \ {w}
      BY <2>1 DEF CallInv, CallT, CallRefs
    <3>2. \A c \in Calls : call[c].at = "built" =>
             status[call[c].child] = "absent" /\ source'[call[c].child] = work'[call[c].child]
      BY <2>2, <3>1 DEF CallInv
    <3> QED
      BY <2>3, <3>2 DEF CallInv
  <2>5. WorkInv'
    BY <2>2, <2>3 DEF WorkInv, DefaultKeepsWork, Live
  <2> QED
    BY <2>3, <2>4, <2>5, ExecInvFrame, RegInvFrame
<1>14. ASSUME JailExit(t) PROVE SafeInv'
  <2>1. \A u \in Execs : jail'[u] # "none" => jail[u] # "none"
    BY <1>14 DEF JailExit, JailT
  <2>2. UNCHANGED <<status, paused, source, work, slot, gen, held, ex, cgroups, call, reaper>>
    BY <1>14 DEF JailExit, rowVars, diskVars, lockVars, execVars
  <2>3. ExecInv'
    BY <2>1, <2>2 DEF ExecInv, Mutex, Live
  <2> QED
    BY <2>2, <2>3, CallInvFrame, RegInvFrame, WorkInvFrame
<1>15. CASE ExecStep(t)
  BY <1>15, <1>2, <1>3, <1>4, <1>5, <1>6, <1>7, <1>8, <1>10, <1>11, <1>12 DEF ExecStep
<1> QED
  BY <1>1, <1>9, <1>13, <1>14, <1>15
-----------------------------------------------------------------------------
(* Preservation by the other steps, and the theorems *)

\* Every step keeps the safety invariant.
LEMMA SafeInvStep ==
    ASSUME TypeInv, SafeInv, [Next]_vars
    PROVE  SafeInv'
<1> USE DEF TypeInv, SafeInv
\* the other requests
<1>1. ASSUME NEW c \in Calls,
              \/ \E o \in Ops, w \in Workspaces, n \in 1..MaxForks : CallGet(c, o, w, n)
              \/ \E o \in Ops, s \in SnapIds : CallGetSnap(c, o, s)
              \/ CallActive(c) \/ CallFreeze(c) \/ CallNoFreeze(c) \/ CallFreezeTimeout(c)
              \/ \E s \in SnapIds : CallCopyBegin(c, s)
              \/ CallCopyMissing(c)
              \/ \E x \in SUBSET Updates, ok \in BOOLEAN : CallCopyEnd(c, x, ok)
              \/ CallThaw(c) \/ CallInsertSnap(c) \/ CallInsertSnapFails(c)
              \/ CallParent(c) \/ CallBuildFails(c) \/ CallDropRow(c) \/ CallDropDir(c)
              \/ CallCancel(c)
       PROVE  SafeInv'
  <2> DEFINE Quiet == /\ UNCHANGED <<status, paused, source, work, slot, gen, held, ex, jail, cgroups, reaper>>
                      /\ \A d \in Calls \ {c} : call'[d] = call[d]
                      /\ call'[c].at \notin {"marked", "removed", "built"}
  <2> USE EndedCallFacts DEF CallT, CallState, CallMoves, CallEnds, rowVars, diskVars, lockVars,
          execVars, jailVars
  <2>1. ASSUME NEW o \in Ops, NEW w \in Workspaces, NEW n \in 1..MaxForks, CallGet(c, o, w, n) PROVE Quiet
    BY <2>1 DEF CallGet, NewCall
  <2>2. ASSUME NEW o \in Ops, NEW s \in SnapIds, CallGetSnap(c, o, s) PROVE Quiet
    BY ZenonT(30), <2>2 DEF CallGetSnap, NewCall
  <2>3. ASSUME CallActive(c) PROVE Quiet
    BY <2>3 DEF CallActive
  <2>4. ASSUME CallFreeze(c) PROVE Quiet
    BY <2>4 DEF CallFreeze
  <2>5. ASSUME CallNoFreeze(c) \/ CallCopyMissing(c) PROVE Quiet
    BY SMT, <2>5 DEF CallNoFreeze, CallCopyMissing
  <2>6. ASSUME CallFreezeTimeout(c) PROVE Quiet
    BY <2>6 DEF CallFreezeTimeout
  <2>7. ASSUME NEW s \in SnapIds, CallCopyBegin(c, s) PROVE Quiet
    BY <2>7 DEF CallCopyBegin
  <2>8. ASSUME NEW x \in SUBSET Updates, NEW ok \in BOOLEAN, CallCopyEnd(c, x, ok) PROVE Quiet
    BY <2>8 DEF CallCopyEnd
  <2>9. ASSUME CallThaw(c) PROVE Quiet
    BY <2>9 DEF CallThaw
  <2>10. ASSUME CallInsertSnap(c) PROVE Quiet
    BY <2>10 DEF CallInsertSnap
  <2>11. ASSUME CallInsertSnapFails(c) \/ CallBuildFails(c) PROVE Quiet
    BY <2>11 DEF CallInsertSnapFails, CallBuildFails
  <2>12. ASSUME CallParent(c) PROVE Quiet
    BY <2>12 DEF CallParent
  <2>13. ASSUME CallDropRow(c) \/ CallDropDir(c) \/ CallCancel(c) PROVE Quiet
    BY SMT, <2>13 DEF CallDropRow, CallDropDir, CallCancel
  <2>14. Quiet
    BY <1>1, <2>1, <2>2, <2>3, <2>4, <2>5, <2>6, <2>7, <2>8, <2>9, <2>10, <2>11, <2>12, <2>13
  <2>15. CallInv'
    BY <2>14, CallInvQuiet
  <2> QED
    BY <2>14, <2>15, ExecInvFrame, RegInvFrame, WorkInvFrame
<1>2. ASSUME NEW c \in Calls, NEW w \in Workspaces, CallCreate(c, w) \/ CallBuild(c, w) PROVE SafeInv'
  <2>1. /\ call'[c].at = "built" /\ call'[c].child = w /\ call[c].at # "built"
        /\ \A d \in Calls \ {c} : call'[d] = call[d]
    <3>1. CASE CallCreate(c, w)
      BY <3>1 DEF CallCreate, NewCall, CallT
    <3>2. CASE CallBuild(c, w)
      BY <3>2 DEF CallBuild, CallT, CallState
    <3> QED
      BY <1>2, <3>1, <3>2
  <2>2. /\ status[w] = "absent" /\ source[w] = NoDir
        /\ source'[w] = work'[w]
        /\ \A v \in Workspaces \ {w} : source'[v] = source[v] /\ work'[v] = work[v]
    BY SMTT(30), <1>2 DEF CallCreate, CallBuild, FreshFor, DiskT
  <2>3. UNCHANGED <<status, paused, slot, gen, held, ex, jail, cgroups, reaper>>
    BY <1>2 DEF CallCreate, CallBuild, rowVars, lockVars, execVars, jailVars
  <2>4. work[w] # NoDir
    BY ConstantsAssumption DEF DiskT, Updates
  <2>5. \A d \in Calls \ {c} : call[d].at = "built" => call[d].child # w
    BY SMT, <2>2, <2>4 DEF CallInv
  <2>6. CallInv'
    BY SMT, <2>1, <2>2, <2>3, <2>5 DEF CallInv, CallT, CallRefs
  <2>7. WorkInv'
    BY <2>2, <2>3 DEF WorkInv, DefaultKeepsWork, Live
  <2> QED
    BY <2>3, <2>6, <2>7, ExecInvFrame, RegInvFrame
<1>3. ASSUME NEW c \in Calls, CallInsert(c) PROVE SafeInv'
  <2> DEFINE w == call[c].child
  <2>1. w \in Workspaces /\ status[w] = "absent" /\ source[w] = work[w] /\ call[c].at = "built"
    BY <1>3 DEF CallInsert, CallT, CallRefs, CallInv
  <2>2. /\ call'[c].at \notin {"marked", "removed", "built"}
        /\ \A d \in Calls \ {c} : call'[d] = call[d]
    BY <1>3, EndedCallFacts DEF CallInsert, CallT, CallState
  <2>3. /\ status'[w] = "live" /\ \A v \in Workspaces \ {w} : status'[v] = status[v]
        /\ UNCHANGED <<paused, source, work, slot, gen, held, ex, jail, cgroups, reaper>>
    BY <1>3, <2>1 DEF CallInsert, RowT, diskVars, lockVars, execVars, jailVars
  <2>4. \A t \in Execs : ex[t].at \notin {"new", "done"} => ex[t].ws \in Workspaces \ {w}
    BY <2>1 DEF ExecInv, ExecT
  <2>5. ExecInv'
    <3>1. \A t \in Execs : ex[t].at \in LockedAt \cup {"arc"} => ex[t].ws \in Workspaces \ {w}
      BY <2>4 DEF LockedAt
    <3> QED
      BY <2>3, <2>4, <3>1 DEF ExecInv, Mutex, Live
  <2>6. CallInv'
    <3>1. \A d \in Calls \ {c} : call[d].at \in {"marked", "removed"} => call[d].ws \in Workspaces \ {w}
      BY <2>1 DEF CallInv, CallT, CallRefs, NamesWorkspaceAt, CallAt
    <3>2. \A d \in Calls \ {c} : call[d].at = "built" => call[d].child \in Workspaces \ {w}
      BY <2>1 DEF CallInv, CallT, CallRefs
    <3> QED
      BY SMT, <2>2, <2>3, <3>1, <3>2 DEF CallInv
  <2>7. RegInv'
    <3>1. cgroups[w] = None /\ None \notin Execs
      BY <2>1, ConstantsAssumption DEF RegInv
    <3>2. \A t \in Execs : ex[t].at \in RegisteredAt => ex[t].ws # w
      BY <2>4 DEF RegisteredAt
    <3> QED
      BY <2>1, <2>3, <3>1, <3>2 DEF RegInv, RegistrationExact, Live
  <2>8. WorkInv'
    BY <2>1, <2>3 DEF WorkInv, DefaultKeepsWork, Live, ReapT, ReaperState
  <2> QED
    BY <2>5, <2>6, <2>7, <2>8
<1>4. ASSUME NEW c \in Calls, CallInsertFails(c) PROVE SafeInv'
  <2> DEFINE w == call[c].child
  <2>1. w \in Workspaces /\ status[w] = "absent" /\ call[c].at = "built"
    BY <1>4 DEF CallInsertFails, CallEnds, CallT, CallRefs, CallInv
  <2>2. call'[c].at = "done" /\ \A d \in Calls \ {c} : call'[d] = call[d]
    BY <1>4, EndedCallFacts DEF CallInsertFails, CallEnds, CallT
  <2>3. /\ \A v \in Workspaces \ {w} : source'[v] = source[v]
        /\ UNCHANGED <<status, paused, work, slot, gen, held, ex, jail, cgroups, reaper>>
    BY <1>4, <2>1 DEF CallInsertFails, DiskT, rowVars, lockVars, execVars, jailVars
  <2>4. \A d \in Calls \ {c} : call[d].at = "built" => call[d].child \in Workspaces \ {w}
    BY <2>1 DEF CallInv, CallT, CallRefs
  <2>5. CallInv'
    <3>1. \A d \in Calls \ {c} : call[d].at \in {"marked", "removed"} => status'[call[d].ws] = "deleted"
      BY <2>3 DEF CallInv
    <3>2. \A d \in Calls \ {c} : call[d].at = "built" =>
             status'[call[d].child] = "absent" /\ source'[call[d].child] = work'[call[d].child]
      BY <2>3, <2>4 DEF CallInv
    <3> QED
      BY <2>2, <3>1, <3>2, CallInvOthers
  <2>6. WorkInv'
    BY <2>1, <2>3 DEF WorkInv, DefaultKeepsWork, Live
  <2> QED
    BY <2>3, <2>5, <2>6, ExecInvFrame, RegInvFrame
<1>5. ASSUME NEW c \in Calls, CallMarkDeleted(c) PROVE SafeInv'
  <2> DEFINE w == call[c].ws
  <2>1. w \in Workspaces /\ call[c].at = "got"
    BY <1>5 DEF CallMarkDeleted, CallT, CallRefs, NamesWorkspaceAt, CallAt
  <2>2. UNCHANGED <<paused, source, work, slot, gen, held, ex, jail, cgroups, reaper>>
    BY <1>5 DEF CallMarkDeleted, diskVars, lockVars, execVars, jailVars
  <2>3. CASE status[w] # "live"
    <3>1. call'[c].at = "done" /\ (\A d \in Calls \ {c} : call'[d] = call[d]) /\ UNCHANGED status
      BY <1>5, <2>3, EndedCallFacts DEF CallMarkDeleted, CallEnds, CallT
    <3> QED
      BY <2>2, <3>1, CallInvQuiet, ExecInvFrame, RegInvFrame, WorkInvFrame
  <2>4. CASE status[w] = "live"
    <3>1. /\ status'[w] = "deleted" /\ \A v \in Workspaces \ {w} : status'[v] = status[v]
      BY <1>5, <2>1, <2>4 DEF CallMarkDeleted, RowT
    <3>2. /\ call'[c].at = "marked" /\ call'[c].ws = w /\ \A d \in Calls \ {c} : call'[d] = call[d]
      BY <1>5, <2>4 DEF CallMarkDeleted, CallMoves, CallT, CallState
    <3>3. \A t \in Execs : ex[t].at \notin {"new", "done"} => ex[t].ws \in Workspaces
      BY DEF ExecT
    <3>4. ExecInv'
      <4>1. \A t \in Execs : ex[t].at \in LockedAt \cup {"arc"} => ex[t].ws \in Workspaces
        BY <3>3 DEF LockedAt
      <4> QED
        BY <2>2, <3>1, <3>3, <4>1 DEF ExecInv, Mutex, Live
    <3>5. CallInv'
      <4>1. \A d \in Calls : call[d].at \in {"marked", "removed"} => call[d].ws \in Workspaces
        BY DEF CallT, CallRefs, NamesWorkspaceAt, CallAt
      <4>2. \A d \in Calls : call[d].at = "built" => call[d].child \in Workspaces \ {w}
        BY <2>4 DEF CallT, CallRefs, CallInv
      <4>3. \A d \in Calls \ {c} : call[d].at \in {"marked", "removed"} => status'[call[d].ws] = "deleted"
        BY <3>1, <4>1 DEF CallInv
      <4>4. \A d \in Calls \ {c} : call[d].at = "built" =>
               status'[call[d].child] = "absent" /\ source'[call[d].child] = work'[call[d].child]
        BY <2>2, <3>1, <4>2 DEF CallInv
      <4> QED
        BY <3>1, <3>2, <4>3, <4>4, CallInvOthers
    <3>6. RegInv'
      BY <2>2, <3>1 DEF RegInv, RegistrationExact, Live
    <3>7. WorkInv'
      BY <2>2, <3>1 DEF WorkInv, DefaultKeepsWork, Live, ReapT, ReaperState
    <3> QED
      BY <3>4, <3>5, <3>6, <3>7
  <2> QED
    BY <2>3, <2>4
<1>6. ASSUME NEW c \in Calls, CallRemoveDirs(c) \/ CallRemoveDirsFails(c) PROVE SafeInv'
  <2> DEFINE w == call[c].ws
  <2>1. w \in Workspaces /\ status[w] = "deleted"
    BY <1>6 DEF CallRemoveDirs, CallRemoveDirsFails, CallMoves, CallT, CallRefs, NamesWorkspaceAt,
       CallAt, CallInv
  <2>2. /\ call'[c].at = "removed" /\ call'[c].ws = w /\ \A d \in Calls \ {c} : call'[d] = call[d]
    BY <1>6 DEF CallRemoveDirs, CallRemoveDirsFails, CallMoves, CallT, CallState
  <2>3. /\ \A v \in Workspaces \ {w} : source'[v] = source[v]
        /\ UNCHANGED <<status, paused, work, slot, gen, held, ex, jail, cgroups, reaper>>
    BY <1>6 DEF CallRemoveDirs, CallRemoveDirsFails, DiskT, rowVars, diskVars, lockVars, execVars,
       jailVars
  <2>4. CallInv'
    <3>1. \A d \in Calls : call[d].at = "built" => call[d].child \in Workspaces \ {w}
      BY <2>1 DEF CallT, CallRefs, CallInv
    <3>2. \A d \in Calls \ {c} : call[d].at \in {"marked", "removed"} => status'[call[d].ws] = "deleted"
      BY <2>3 DEF CallInv
    <3>3. \A d \in Calls \ {c} : call[d].at = "built" =>
             status'[call[d].child] = "absent" /\ source'[call[d].child] = work'[call[d].child]
      BY <2>3, <3>1 DEF CallInv
    <3> QED
      BY SMT, <2>1, <2>2, <2>3, <3>2, <3>3, CallInvOthers
  <2>5. WorkInv'
    BY <2>1, <2>3 DEF WorkInv, DefaultKeepsWork, Live
  <2> QED
    BY <2>3, <2>4, <2>5, ExecInvFrame, RegInvFrame
<1>7. ASSUME NEW c \in Calls, CallForget(c) PROVE SafeInv'
  <2>1. call[c].ws \in Workspaces /\ status[call[c].ws] = "deleted"
    BY <1>7 DEF CallForget, CallEnds, CallT, CallRefs, NamesWorkspaceAt, CallAt, CallInv
  <2>2. call'[c].at = "done" /\ \A d \in Calls \ {c} : call'[d] = call[d]
    BY <1>7, EndedCallFacts DEF CallForget, CallEnds, CallT
  <2>3. /\ \A v \in Workspaces : status[v] = "live" => slot'[v] = slot[v]
        /\ UNCHANGED <<status, paused, source, work, gen, held, ex, jail, cgroups, reaper>>
    BY <1>7, <2>1 DEF CallForget, LockT, rowVars, diskVars, execVars, jailVars
  <2>4. \A t \in Execs : ex[t].at \in LockedAt \cup {"arc"} => ex[t].ws \in Workspaces
    BY DEF ExecT, LockedAt
  <2>5. ExecInv'
    BY <2>3, <2>4 DEF ExecInv, Mutex, Live
  <2> QED
    BY <2>2, <2>3, <2>5, CallInvQuiet, RegInvFrame, WorkInvFrame
\* the reaper, the clock and a restart
<1>8. ASSUME ReaperStep PROVE SafeInv'
  <2>1. UNCHANGED <<status, work, slot, gen, held, ex, jail, cgroups, call>>
    <3> USE DEF rowVars, diskVars, lockVars, execVars, jailVars
    <3>1. CASE ReaperList \/ ReaperInsert \/ ReaperInsertFails \/ ReaperMarkPaused
      BY <3>1 DEF ReaperList, ReaperInsert, ReaperInsertFails, ReaperMarkPaused
    <3>2. ASSUME NEW w \in Workspaces, NEW s \in SnapIds, ReaperCopyBegin(w, s)
          PROVE  UNCHANGED <<status, work, slot, gen, held, ex, jail, cgroups, call>>
      BY <3>2 DEF ReaperCopyBegin
    <3>3. ASSUME NEW w \in Workspaces, ReaperCopyMissing(w)
          PROVE  UNCHANGED <<status, work, slot, gen, held, ex, jail, cgroups, call>>
      BY <3>3 DEF ReaperCopyMissing
    <3>4. ASSUME NEW x \in SUBSET Updates,
                 (\E ok \in BOOLEAN : ReaperCopyEnd(x, ok)) \/ ReaperWipe(x)
          PROVE  UNCHANGED <<status, work, slot, gen, held, ex, jail, cgroups, call>>
      BY <3>4 DEF ReaperCopyEnd, ReaperWipe
    <3> QED
      BY <1>8, <3>1, <3>2, <3>3, <3>4 DEF ReaperStep
  <2> DEFINE Queued(q) == \A w \in q : w \in Idling /\ status[w] # "absent"
             Pausing(r) == r.at \notin {"idle", "scan"} => r.ws \in Idling /\ status[r.ws] # "absent"
             Keeps == /\ Queued(reaper'.queue) /\ Pausing(reaper')
                      /\ \A w \in Workspaces \ Idling : source'[w] = source[w] /\ paused'[w] = paused[w]
                      /\ \A w \in Workspaces : status[w] = "absent" => source'[w] = source[w]
  <2>2. /\ Queued(reaper.queue) /\ Pausing(reaper) /\ reaper.queue \in SUBSET Workspaces
        /\ reaper.at \notin {"idle", "scan"} => reaper.ws \in Workspaces
    BY DEF WorkInv, ReapT, ReaperState
  <2>3. ASSUME NEW q \in SUBSET Workspaces, Queued(q), reaper' = ReaperWith(q)
        PROVE  Queued(reaper'.queue) /\ Pausing(reaper')
    BY <2>3 DEF ReaperWith, NewReaper
  <2>4. ASSUME ReaperList PROVE Keeps
    <3> DEFINE q == {w \in Workspaces : status[w] = "live" /\ ~paused[w] /\ w \in Idling /\ idle[w]}
    <3>1. q \in SUBSET Workspaces /\ Queued(q)
      OBVIOUS
    <3> QED
      BY <2>3, <2>4, <3>1 DEF ReaperList, rowVars, diskVars
  <2>5. ASSUME NEW w \in Workspaces, NEW s \in SnapIds, ReaperCopyBegin(w, s) PROVE Keeps
    BY <2>2, <2>5 DEF ReaperCopyBegin, rowVars, diskVars
  <2>6. ASSUME NEW w \in Workspaces, ReaperCopyMissing(w) PROVE Keeps
    <3>1. reaper.queue \ {w} \in SUBSET Workspaces /\ Queued(reaper.queue \ {w})
      BY <2>2
    <3> QED
      BY <2>3, <2>6, <3>1 DEF ReaperCopyMissing, rowVars, diskVars
  <2>7. ASSUME NEW x \in SUBSET Updates, NEW ok \in BOOLEAN, ReaperCopyEnd(x, ok) PROVE Keeps
    <3>1. CASE ~ok
      BY <2>2, <2>3, <2>7, <3>1 DEF ReaperCopyEnd, rowVars, diskVars
    <3>2. CASE ok
      BY <2>2, <2>7, <3>2 DEF ReaperCopyEnd, rowVars, diskVars, ReapT, ReaperState
    <3> QED
      BY <3>1, <3>2
  <2>8. ASSUME ReaperInsert PROVE Keeps
    BY <2>2, <2>8 DEF ReaperInsert, rowVars, diskVars, ReapT, ReaperState
  <2>9. ASSUME ReaperInsertFails PROVE Keeps
    BY <2>2, <2>3, <2>9 DEF ReaperInsertFails, rowVars, diskVars
  <2>10. ASSUME NEW x \in SUBSET Updates, ReaperWipe(x) PROVE Keeps
    <3>1. reaper.ws \in Workspaces /\ reaper.ws \in Idling /\ status[reaper.ws] # "absent"
      BY <2>2, <2>10 DEF ReaperWipe
    <3>2. \A v \in Workspaces \ {reaper.ws} : source'[v] = source[v]
      BY <2>10, <3>1 DEF ReaperWipe, DiskT
    <3>3. Queued(reaper'.queue) /\ Pausing(reaper')
      BY <2>2, <2>10 DEF ReaperWipe, ReapT, ReaperState
    <3> QED
      BY <2>10, <3>1, <3>2, <3>3 DEF ReaperWipe, rowVars
  <2>11. ASSUME ReaperMarkPaused PROVE Keeps
    <3>1. reaper.ws \in Workspaces /\ reaper.ws \in Idling
      BY <2>2, <2>11 DEF ReaperMarkPaused
    <3>2. \A v \in Workspaces \ {reaper.ws} : paused'[v] = paused[v]
      BY <2>11, <3>1 DEF ReaperMarkPaused, RowT
    <3>3. Queued(reaper'.queue) /\ Pausing(reaper')
      BY <2>2, <2>3, <2>11 DEF ReaperMarkPaused
    <3> QED
      BY <2>11, <3>1, <3>2, <3>3 DEF ReaperMarkPaused, diskVars
  <2>12. Keeps
    BY <1>8, <2>4, <2>5, <2>6, <2>7, <2>8, <2>9, <2>10, <2>11 DEF ReaperStep
  <2>13. WorkInv'
    BY <2>1, <2>12 DEF WorkInv, DefaultKeepsWork, Live
  <2>14. CallInv'
    BY <2>1, <2>12 DEF CallInv, CallT, CallRefs
  <2> QED
    BY <2>1, <2>13, <2>14, ExecInvFrame, RegInvFrame
<1>9. ASSUME NEW w \in Workspaces, IdleElapses(w) PROVE SafeInv'
  BY <1>9, ExecInvFrame, CallInvFrame, RegInvFrame, WorkInvFrame
     DEF IdleElapses, diskVars, lockVars, execVars, jailVars
<1>10. ASSUME Crash PROVE SafeInv'
  <2>1. /\ \A t \in Execs : ex'[t].at \in {"new", "done"} /\ jail'[t] = "none"
        /\ \A c \in Calls : call'[c].at \in {"new", "done"}
        /\ \A w \in Workspaces : cgroups'[w] = None
        /\ reaper'.at = "idle" /\ reaper'.queue = {}
    BY <1>10, EndedExecFacts, EndedCallFacts DEF Crash, NewReaper
  <2>2. /\ \A w \in Workspaces : status'[w] = "absent" => status[w] = "absent"
        /\ \A w \in Workspaces : status'[w] = "live" => status[w] = "live"
        /\ UNCHANGED <<paused, source, work>>
    BY <1>10 DEF Crash, diskVars
  <2>3. ExecInv'
    BY <2>1 DEF ExecInv, LockedAt
  <2>4. CallInv'
    BY <2>1 DEF CallInv
  <2>5. RegInv'
    <3>1. \A w \in Workspaces, t \in Execs : cgroups'[w] # t /\ ex'[t].at \notin RegisteredAt
      BY <2>1, ConstantsAssumption DEF RegisteredAt
    <3>2. RegistrationExact'
      BY <3>1 DEF RegistrationExact
    <3>3. \A w \in Workspaces : status'[w] = "absent" => cgroups'[w] = None
      BY <2>1
    <3> QED
      BY <3>2, <3>3 DEF RegInv
  <2>6. WorkInv'
    BY <2>1, <2>2 DEF WorkInv, DefaultKeepsWork, Live
  <2> QED
    BY <2>3, <2>4, <2>5, <2>6
<1>11. CASE UNCHANGED vars
  BY <1>11, ExecInvFrame, CallInvFrame, RegInvFrame, WorkInvFrame
     DEF vars, rowVars, diskVars, lockVars, execVars, jailVars
<1>12. ASSUME NEW c \in Calls, CallStep(c) PROVE SafeInv'
  BY <1>12, <1>1, <1>2, <1>3, <1>4, <1>5, <1>6, <1>7 DEF CallStep
<1>13. CASE Client
  BY <1>13, <1>1, <1>2, ExecSafe DEF Client
<1> QED
  BY <1>8, <1>9, <1>10, <1>11, <1>12, <1>13, ExecSafe DEF Next

\* The safety invariant holds at the start.
LEMMA SafeInvInit == Init => SafeInv
<1> SUFFICES ASSUME Init PROVE SafeInv
  OBVIOUS
<1>1. /\ \A t \in Execs : ex[t].at = "new" /\ jail[t] = "none"
      /\ \A c \in Calls : call[c].at = "new"
      /\ \A w \in Workspaces : cgroups[w] = None /\ ~paused[w]
      /\ reaper.at = "idle" /\ reaper.queue = {}
  BY DEF Init, NewExec, NewCall, NewReaper
<1>2. \A w \in Workspaces : status[w] = "live" => source[w] = work[w]
  BY DEF Init
<1>3. ExecInv
  BY <1>1 DEF ExecInv, LockedAt
<1>4. CallInv
  BY <1>1 DEF CallInv
<1>5. RegInv
  BY <1>1, ConstantsAssumption DEF RegInv, RegistrationExact, RegisteredAt
<1>6. WorkInv
  BY <1>1, <1>2 DEF WorkInv, DefaultKeepsWork, Live
<1> QED
  BY <1>3, <1>4, <1>5, <1>6 DEF SafeInv

\* Types and the safety invariant always hold.
LEMMA SafeInvAlways == Spec => [](TypeInv /\ SafeInv)
<1>1. TypeInv /\ SafeInv /\ [Next]_vars => (TypeInv /\ SafeInv)'
  BY TypeInvStep, SafeInvStep
<1> QED
  BY <1>1, TypeInvInit, SafeInvInit, PTL DEF Spec

\* No two jails run on one workspace that is not deleted: the mutex that
\* exec_in_workspace takes with try_lock is the same one for every handler of a live
\* workspace, through any number of deletes, hang-ups and restarts.
THEOREM ExecIsExclusive == Spec => []ExclusiveExec
<1>1. ASSUME ExecInv PROVE ExclusiveExec
  <2> SUFFICES ASSUME NEW t \in Execs, NEW u \in Execs, t # u, ex[t].ws = ex[u].ws,
                      jail[t] = "running", jail[u] = "running"
               PROVE  ~Live(ex[t].ws)
    BY DEF ExclusiveExec
  <2>1. ex[t].at \in LockedAt /\ ex[u].at \in LockedAt
    BY <1>1 DEF ExecInv, LockedAt
  <2> QED
    BY <1>1, <2>1, SoleLocked
<1> QED
  BY <1>1, SafeInvAlways, PTL DEF SafeInv

\* ActiveCgroups names, for a live workspace, its one monitored exec and nothing else,
\* although ExecRegistration's drop removes whatever entry it finds.
THEOREM RegistrationIsExact == Spec => []RegistrationExact
<1>1. RegInv => RegistrationExact
  BY DEF RegInv
<1> QED
  BY <1>1, SafeInvAlways, PTL DEF SafeInv

\* A live workspace without an idle timeout holds exactly the updates it was given,
\* whatever snapshots, forks, restores, deletes and restarts do.
THEOREM DefaultWorkIsKept == Spec => []DefaultKeepsWork
<1>1. WorkInv => DefaultKeepsWork
  BY DEF WorkInv
<1> QED
  BY <1>1, SafeInvAlways, PTL DEF SafeInv

----------------------------------------------------------------------------
(* Snapshots *)

\* A capture between the mint of its id and its insert owns a directory; a capture or
\* a delete_snapshot that has removed the row may still remove the directory.
TakingAt == {"copying", "copied", "thawed"}
HoldingAt == TakingAt \cup {"rowless"}
ReapingAt == {"copying", "copied"}

\* A row is of a minted id with a directory.  What a request or the reaper is about to
\* fill or remove has no row, and what is being filled is nobody else's.
SnapInv ==
    /\ \A s \in SnapIds : snapRow[s] # None => s \in minted /\ snapDir[s] # NoDir
    /\ \A c \in Calls : call[c].at \in HoldingAt =>
          call[c].snap \in minted /\ snapRow[call[c].snap] = None
    /\ \A c \in Calls : call[c].at \in TakingAt => snapDir[call[c].snap] # NoDir
    /\ \A c, d \in Calls : c # d /\ call[c].at \in TakingAt /\ call[d].at \in HoldingAt
                           => call[c].snap # call[d].snap
    /\ reaper.at \in ReapingAt =>
          /\ reaper.snap \in minted /\ snapRow[reaper.snap] = None /\ snapDir[reaper.snap] # NoDir
          /\ \A d \in Calls : call[d].at \in HoldingAt => call[d].snap # reaper.snap

(* Nobody takes hold of a snapshot. *)
LEMMA SnapInvQuiet ==
    ASSUME SnapInv, UNCHANGED <<snapRow, snapDir, minted>>,
           \A c \in Calls : call'[c].at \in HoldingAt => call'[c] = call[c],
           reaper'.at \in ReapingAt => reaper' = reaper
    PROVE  SnapInv'
<1>1. TakingAt \subseteq HoldingAt
  BY SMT DEF HoldingAt
<1> QED
  BY SMT, <1>1 DEF SnapInv

(* A capture writes its directory under an id nobody else has. *)
LEMMA SnapInvCopies ==
    ASSUME SnapT, CallT, SnapInv, NEW c \in Calls, NEW k \in SnapIds,
           \A d \in Calls \ {c} : call'[d] = call[d],
           call'[c].snap = k, k \in minted', snapRow[k] = None,
           minted \subseteq minted', snapRow' = snapRow, reaper' = reaper,
           snapDir'[k] # NoDir, \A s \in SnapIds \ {k} : snapDir'[s] = snapDir[s],
           \A d \in Calls \ {c} : call[d].at \in HoldingAt => call[d].snap # k,
           reaper.at \in ReapingAt => reaper.snap # k /\ reaper.snap \in SnapIds
    PROVE  SnapInv'
<1>1. TakingAt \subseteq HoldingAt /\ HoldingAt \subseteq NamesSnapAt
  BY SMT DEF HoldingAt, TakingAt, NamesSnapAt
<1>2. \A d \in Calls : call[d].at \in HoldingAt => call[d].snap \in SnapIds
  BY SMT, <1>1 DEF CallT, CallRefs
<1>3. \A s \in SnapIds : snapRow'[s] # None => s \in minted' /\ snapDir'[s] # NoDir
  BY SMT DEF SnapInv
<1>4. \A d \in Calls : call'[d].at \in HoldingAt => call'[d].snap \in minted' /\ snapRow'[call'[d].snap] = None
  BY SMT DEF SnapInv
<1>5. \A d \in Calls : call'[d].at \in TakingAt => snapDir'[call'[d].snap] # NoDir
  BY SMT, <1>1, <1>2 DEF SnapInv
<1>6. \A d, e \in Calls : d # e /\ call'[d].at \in TakingAt /\ call'[e].at \in HoldingAt
                          => call'[d].snap # call'[e].snap
  BY SMT, <1>1 DEF SnapInv
<1>7. reaper'.at \in ReapingAt =>
         /\ reaper'.snap \in minted' /\ snapRow'[reaper'.snap] = None /\ snapDir'[reaper'.snap] # NoDir
         /\ \A d \in Calls : call'[d].at \in HoldingAt => call'[d].snap # reaper'.snap
  BY SMT DEF SnapInv
<1> QED
  BY SMT, <1>3, <1>4, <1>5, <1>6, <1>7 DEF SnapInv

(* A request ends its hold on k, with the row and the directory of k as they must be. *)
LEMMA SnapInvEnds ==
    ASSUME SnapT, CallT, SnapInv, NEW c \in Calls, NEW k \in SnapIds,
           \A d \in Calls \ {c} : call'[d] = call[d],
           call'[c].at \notin HoldingAt, minted' = minted, k \in minted, reaper' = reaper,
           snapRow'[k] # None => snapDir'[k] # NoDir,
           \A s \in SnapIds \ {k} : snapDir'[s] = snapDir[s] /\ snapRow'[s] = snapRow[s],
           \A d \in Calls \ {c} : call[d].at \in HoldingAt =>
              call[d].snap # k \/ (snapRow'[k] = None /\ call[d].at \notin TakingAt),
           reaper.at \in ReapingAt => reaper.snap # k /\ reaper.snap \in SnapIds
    PROVE  SnapInv'
<1>1. TakingAt \subseteq HoldingAt /\ HoldingAt \subseteq NamesSnapAt
  BY SMT DEF HoldingAt, TakingAt, NamesSnapAt
<1>2. \A d \in Calls : call[d].at \in HoldingAt => call[d].snap \in SnapIds
  BY SMT, <1>1 DEF CallT, CallRefs
<1>3. \A s \in SnapIds : snapRow'[s] # None => s \in minted' /\ snapDir'[s] # NoDir
  BY SMT DEF SnapInv
<1>4. \A d \in Calls : call'[d].at \in HoldingAt => call'[d].snap \in minted' /\ snapRow'[call'[d].snap] = None
  BY SMT, <1>2 DEF SnapInv
<1>5. \A d \in Calls : call'[d].at \in TakingAt => snapDir'[call'[d].snap] # NoDir
  BY SMT, <1>1, <1>2 DEF SnapInv
<1>6. \A d, e \in Calls : d # e /\ call'[d].at \in TakingAt /\ call'[e].at \in HoldingAt
                          => call'[d].snap # call'[e].snap
  BY SMT, <1>1 DEF SnapInv
<1>7. reaper'.at \in ReapingAt =>
         /\ reaper'.snap \in minted' /\ snapRow'[reaper'.snap] = None /\ snapDir'[reaper'.snap] # NoDir
         /\ \A d \in Calls : call'[d].at \in HoldingAt => call'[d].snap # reaper'.snap
  BY SMT DEF SnapInv
<1> QED
  BY SMT, <1>3, <1>4, <1>5, <1>6, <1>7 DEF SnapInv

(* What every exec request, jail and clock step leaves alone. *)
LEMMA ExecLeavesSnaps ==
    ASSUME NEW t \in Execs,
           \/ \E w \in Workspaces : ExecGet(t, w)
           \/ ExecStep(t) \/ ExecCancel(t) \/ JailWrite(t) \/ JailExit(t)
    PROVE  UNCHANGED <<call, snapRow, snapDir, minted, reaper>>
  BY DEF ExecStep, ExecGet, ExecLockFor, ExecTryLock, ExecConflict, ExecResume, ExecRestore,
     ExecRestoreFails, ExecMarkResumed, ExecNoResume, ExecAdmit, ExecReject, ExecTouch, ExecSpawn,
     ExecSpawnFails, ExecPublish, ExecWait, ExecUnregister, ExecFinish, ExecCancel, JailWrite,
     JailExit, snapVars

\* Every step keeps the invariant of snapshot rows and directories.
LEMMA SnapInvStep ==
    ASSUME TypeInv, SnapInv, [Next]_vars
    PROVE  SnapInv'
<1> USE DEF TypeInv
<1>a. /\ TakingAt \subseteq HoldingAt /\ HoldingAt \subseteq NamesSnapAt
      /\ "building" \notin HoldingAt /\ "done" \notin HoldingAt /\ "failed" \notin HoldingAt
  BY DEF HoldingAt, TakingAt, NamesSnapAt
<1>b. \A c \in Calls : call[c].at \in HoldingAt => call[c].snap \in SnapIds
  BY <1>a DEF CallT, CallRefs
<1>c. reaper.at \in ReapingAt => reaper.snap \in SnapIds /\ reaper.ws \in Workspaces
  BY DEF ReapT, ReapingAt
<1>d. {} # NoDir /\ \A x \in SUBSET Updates : x # NoDir
  BY ConstantsAssumption DEF Updates
\* requests that take hold of no snapshot
<1>1. ASSUME NEW c \in Calls,
              \/ \E o \in Ops, w \in Workspaces, n \in 1..MaxForks : CallGet(c, o, w, n)
              \/ \E o \in Ops, s \in SnapIds : CallGetSnap(c, o, s)
              \/ \E w \in Workspaces : CallCreate(c, w) \/ CallBuild(c, w)
              \/ CallActive(c) \/ CallFreeze(c) \/ CallNoFreeze(c) \/ CallFreezeTimeout(c)
              \/ CallCopyMissing(c)
              \/ CallParent(c) \/ CallBuildFails(c) \/ CallInsert(c) \/ CallInsertFails(c)
              \/ CallMarkDeleted(c) \/ CallRemoveDirs(c) \/ CallRemoveDirsFails(c)
              \/ CallForget(c) \/ CallCancel(c)
       PROVE  SnapInv'
  <2> DEFINE Quiet == /\ UNCHANGED <<snapRow, snapDir, minted, reaper>>
                      /\ \A d \in Calls \ {c} : call'[d] = call[d]
                      /\ call'[c].at \notin HoldingAt
  <2> USE EndedCallFacts DEF CallT, CallState, CallMoves, CallEnds, HoldingAt, TakingAt, snapVars
  <2>1. ASSUME NEW o \in Ops, NEW w \in Workspaces, NEW n \in 1..MaxForks, CallGet(c, o, w, n) PROVE Quiet
    BY <2>1 DEF CallGet, NewCall
  <2>2. ASSUME NEW o \in Ops, NEW s \in SnapIds, CallGetSnap(c, o, s) PROVE Quiet
    BY <2>2 DEF CallGetSnap, NewCall
  <2>3. ASSUME NEW w \in Workspaces, CallCreate(c, w) PROVE Quiet
    BY <2>3 DEF CallCreate, NewCall
  <2>4. ASSUME NEW w \in Workspaces, CallBuild(c, w) PROVE Quiet
    BY <2>4 DEF CallBuild
  <2>5. ASSUME CallActive(c) \/ CallFreeze(c) PROVE Quiet
    <3>1. CASE CallActive(c)
      BY <3>1 DEF CallActive
    <3>2. CASE CallFreeze(c)
      BY <3>2 DEF CallFreeze
    <3> QED
      BY <2>5, <3>1, <3>2
  <2>6. ASSUME CallNoFreeze(c) \/ CallCopyMissing(c) \/ CallFreezeTimeout(c) PROVE Quiet
    <3>1. CASE CallNoFreeze(c)
      BY <3>1 DEF CallNoFreeze
    <3>2. CASE CallCopyMissing(c)
      BY <3>2 DEF CallCopyMissing
    <3>3. CASE CallFreezeTimeout(c)
      BY <3>3 DEF CallFreezeTimeout
    <3> QED
      BY <2>6, <3>1, <3>2, <3>3
  <2>7. ASSUME CallParent(c) PROVE Quiet
    BY <2>7 DEF CallParent
  <2>8. ASSUME CallInsert(c) PROVE Quiet
    BY <2>8 DEF CallInsert
  <2>9. ASSUME CallBuildFails(c) \/ CallInsertFails(c) \/ CallForget(c) \/ CallCancel(c) PROVE Quiet
    BY <2>9 DEF CallBuildFails, CallInsertFails, CallForget, CallCancel
  <2>10. ASSUME CallMarkDeleted(c) PROVE Quiet
    BY SMT, <2>10 DEF CallMarkDeleted
  <2>11. ASSUME CallRemoveDirs(c) \/ CallRemoveDirsFails(c) PROVE Quiet
    BY ZenonT(30), <2>11 DEF CallRemoveDirs, CallRemoveDirsFails
  <2>12. Quiet
    BY <1>1, <2>1, <2>2, <2>3, <2>4, <2>5, <2>6, <2>7, <2>8, <2>9, <2>10, <2>11
  <2>13. \A d \in Calls : call'[d].at \in HoldingAt => call'[d] = call[d]
    BY <2>12
  <2> QED
    BY <2>12, <2>13, SnapInvQuiet
\* a capture
<1>2. ASSUME NEW c \in Calls, NEW s \in SnapIds, CallCopyBegin(c, s) PROVE SnapInv'
  <2>1. /\ call'[c].snap = s /\ \A d \in Calls \ {c} : call'[d] = call[d]
    BY <1>2 DEF CallCopyBegin, CallT, CallState
  <2>2. /\ s \notin minted /\ minted' = minted \cup {s} /\ snapRow' = snapRow /\ reaper' = reaper
        /\ snapDir'[s] = {} /\ \A k \in SnapIds \ {s} : snapDir'[k] = snapDir[k]
    BY <1>2 DEF CallCopyBegin, SnapT
  <2>3. /\ snapRow[s] = None
        /\ \A d \in Calls \ {c} : call[d].at \in HoldingAt => call[d].snap # s
        /\ reaper.at \in ReapingAt => reaper.snap # s
    BY <2>2 DEF SnapInv
  <2>4. s \in minted' /\ minted \subseteq minted' /\ snapDir'[s] # NoDir
    BY <2>2, <1>d
  <2> QED
    BY SMT, <2>1, <2>2, <2>3, <2>4, <1>c, SnapInvCopies
<1>3. ASSUME NEW c \in Calls, NEW x \in SUBSET Updates, NEW ok \in BOOLEAN, CallCopyEnd(c, x, ok)
      PROVE  SnapInv'
  <2> DEFINE k == call[c].snap
  <2>0. call[c].at \in TakingAt /\ k \in SnapIds
    BY <1>3, <1>a, <1>b DEF CallCopyEnd, TakingAt
  <2>1. /\ call'[c].snap = k /\ \A d \in Calls \ {c} : call'[d] = call[d]
    BY <1>3 DEF CallCopyEnd, CallT, CallState
  <2>2. /\ minted' = minted /\ snapRow' = snapRow /\ reaper' = reaper
        /\ snapDir'[k] = x /\ \A s \in SnapIds \ {k} : snapDir'[s] = snapDir[s]
    BY <1>3, <2>0 DEF CallCopyEnd, SnapT
  <2>3. /\ snapRow[k] = None /\ k \in minted
        /\ \A d \in Calls \ {c} : call[d].at \in HoldingAt => call[d].snap # k
        /\ reaper.at \in ReapingAt => reaper.snap # k
    BY <2>0, <1>a DEF SnapInv
  <2>4. snapDir'[k] # NoDir /\ k \in minted' /\ minted \subseteq minted'
    BY <2>2, <2>3, <1>d
  <2> HIDE DEF k
  <2> QED
    BY SMT, <2>0, <2>1, <2>2, <2>3, <2>4, <1>c, SnapInvCopies
<1>4. ASSUME NEW c \in Calls, CallThaw(c) PROVE SnapInv'
  <2>1. UNCHANGED <<snapRow, snapDir, minted, reaper>>
    BY <1>4 DEF CallThaw, snapVars
  <2>2. CASE call[c].at = "copied"
    <3> DEFINE k == call[c].snap
    <3>0. call[c].at \in TakingAt /\ k \in SnapIds
      BY <2>2, <1>a, <1>b DEF TakingAt
    <3>1. /\ call'[c].snap = k /\ \A d \in Calls \ {c} : call'[d] = call[d]
      BY <1>4, <2>2 DEF CallThaw, CallT, CallState
    <3>2. /\ snapRow[k] = None /\ k \in minted /\ snapDir[k] # NoDir
          /\ \A d \in Calls \ {c} : call[d].at \in HoldingAt => call[d].snap # k
          /\ reaper.at \in ReapingAt => reaper.snap # k
      BY <3>0, <1>a DEF SnapInv
    <3> HIDE DEF k
    <3> QED
      BY SMT, <2>1, <3>0, <3>1, <3>2, <1>c, SnapInvCopies
  <2>3. CASE call[c].at # "copied"
    <3>1. call'[c].at = "done" /\ \A d \in Calls \ {c} : call'[d] = call[d]
      BY <1>4, <2>3, EndedCallFacts DEF CallThaw, CallT
    <3>2. \A d \in Calls : call'[d].at \in HoldingAt => call'[d] = call[d]
      BY <3>1, <1>a
    <3> QED
      BY <2>1, <3>2, SnapInvQuiet
  <2> QED
    BY <2>2, <2>3
<1>5. ASSUME NEW c \in Calls, CallInsertSnap(c) \/ CallInsertSnapFails(c) PROVE SnapInv'
  <2> DEFINE k == call[c].snap
  <2>0. call[c].at \in TakingAt /\ k \in SnapIds
    BY <1>5, <1>a, <1>b DEF CallInsertSnap, CallInsertSnapFails, CallEnds, TakingAt
  <2>1. call'[c].at \notin HoldingAt /\ \A d \in Calls \ {c} : call'[d] = call[d]
    <3>1. CASE CallInsertSnap(c)
      BY <3>1, <1>a, EndedCallFacts DEF CallInsertSnap, CallT, CallState
    <3>2. CASE CallInsertSnapFails(c)
      BY <3>2, <1>a, EndedCallFacts DEF CallInsertSnapFails, CallEnds, CallT
    <3> QED
      BY <1>5, <3>1, <3>2
  <2>2. /\ snapRow[k] = None /\ k \in minted /\ snapDir[k] # NoDir
        /\ \A d \in Calls \ {c} : call[d].at \in HoldingAt => call[d].snap # k
        /\ reaper.at \in ReapingAt => reaper.snap # k
    BY <2>0, <1>a DEF SnapInv
  <2>3. /\ minted' = minted /\ reaper' = reaper
        /\ \A s \in SnapIds \ {k} : snapDir'[s] = snapDir[s] /\ snapRow'[s] = snapRow[s]
        /\ snapRow'[k] # None => snapDir'[k] # NoDir
    <3>1. CASE CallInsertSnap(c)
      BY <3>1, <2>0, <2>2 DEF CallInsertSnap, SnapT
    <3>2. CASE CallInsertSnapFails(c)
      BY <3>2, <2>0, <2>2 DEF CallInsertSnapFails, SnapT
    <3> QED
      BY <1>5, <3>1, <3>2
  <2> HIDE DEF k
  <2> QED
    BY SMT, <2>0, <2>1, <2>2, <2>3, <1>c, SnapInvEnds
\* delete_snapshot
<1>6. ASSUME NEW c \in Calls, CallDropRow(c) PROVE SnapInv'
  <2> DEFINE k == call[c].snap
  <2>0. k \in SnapIds
    BY <1>6 DEF CallDropRow, CallT, CallRefs
  <2>1. /\ minted' = minted /\ snapDir' = snapDir /\ reaper' = reaper
        /\ snapRow'[k] = None /\ \A s \in SnapIds \ {k} : snapRow'[s] = snapRow[s]
    BY <1>6, <2>0 DEF CallDropRow, SnapT
  <2>2. CASE snapRow[k] = None
    <3>1. call'[c].at = "done" /\ \A d \in Calls \ {c} : call'[d] = call[d]
      BY <1>6, <2>2, EndedCallFacts DEF CallDropRow, CallEnds, CallT
    <3>2. \A d \in Calls : call'[d].at \in HoldingAt => call'[d] = call[d]
      BY <3>1, <1>a
    <3>3. snapRow' = snapRow
      BY <1>6, <2>2, <2>0 DEF CallDropRow, SnapT
    <3> QED
      BY <2>1, <3>2, <3>3, SnapInvQuiet
  <2>3. CASE snapRow[k] # None
    <3>1. /\ call'[c].at = "rowless" /\ call'[c].snap = k
          /\ \A d \in Calls \ {c} : call'[d] = call[d]
      BY <1>6, <2>3 DEF CallDropRow, CallMoves, CallT, CallState
    <3>2. /\ \A d \in Calls \ {c} : call[d].at \in HoldingAt => call[d].snap # k
          /\ reaper.at \in ReapingAt => reaper.snap # k
          /\ k \in minted
      BY <2>3, <2>0 DEF SnapInv
    <3>3. "rowless" \notin TakingAt
      BY DEF TakingAt
    <3>4. \A s \in SnapIds : snapRow'[s] # None => snapRow[s] # None
      BY <2>1
    <3>5. \A d \in Calls : call'[d].at \in HoldingAt => call'[d].snap \in minted' /\ snapRow'[call'[d].snap] = None
      BY SMT, <2>1, <3>1, <3>2, <3>4, <1>b DEF SnapInv
    <3>6. \A d \in Calls : call'[d].at \in TakingAt => snapDir'[call'[d].snap] # NoDir
      BY SMT, <2>1, <3>1, <3>3 DEF SnapInv
    <3>7. \A d, e \in Calls : d # e /\ call'[d].at \in TakingAt /\ call'[e].at \in HoldingAt
                              => call'[d].snap # call'[e].snap
      BY SMT, <3>1, <3>2, <3>3, <1>a DEF SnapInv
    <3>8. reaper'.at \in ReapingAt =>
             /\ reaper'.snap \in minted' /\ snapRow'[reaper'.snap] = None /\ snapDir'[reaper'.snap] # NoDir
             /\ \A d \in Calls : call'[d].at \in HoldingAt => call'[d].snap # reaper'.snap
      BY <2>1, <3>1, <3>2, <1>c DEF SnapInv
    <3>9. \A s \in SnapIds : snapRow'[s] # None => s \in minted' /\ snapDir'[s] # NoDir
      BY <2>1, <3>4 DEF SnapInv
    <3> QED
      BY <3>5, <3>6, <3>7, <3>8, <3>9 DEF SnapInv
  <2> QED
    BY <2>2, <2>3
<1>7. ASSUME NEW c \in Calls, CallDropDir(c) PROVE SnapInv'
  <2> DEFINE k == call[c].snap
  <2>0. call[c].at \in HoldingAt /\ k \in SnapIds
    BY <1>7, <1>b DEF CallDropDir, CallEnds, HoldingAt
  <2>1. call'[c].at \notin HoldingAt /\ \A d \in Calls \ {c} : call'[d] = call[d]
    BY <1>7, <1>a, EndedCallFacts DEF CallDropDir, CallEnds, CallT
  <2>2. /\ snapRow[k] = None /\ k \in minted
        /\ \A d \in Calls \ {c} : call[d].at \in TakingAt => call[d].snap # k
        /\ reaper.at \in ReapingAt => reaper.snap # k
    BY <2>0 DEF SnapInv
  <2>3. /\ minted' = minted /\ reaper' = reaper /\ snapRow' = snapRow
        /\ \A s \in SnapIds \ {k} : snapDir'[s] = snapDir[s]
    BY <1>7, <2>0 DEF CallDropDir, SnapT
  <2> HIDE DEF k
  <2> QED
    BY SMT, <2>0, <2>1, <2>2, <2>3, <1>c, SnapInvEnds
\* the reaper
<1>8. ASSUME ReaperStep PROVE SnapInv'
  <2>0. UNCHANGED call
    <3>1. CASE ReaperList \/ ReaperInsert \/ ReaperInsertFails \/ ReaperMarkPaused
      BY <3>1 DEF ReaperList, ReaperInsert, ReaperInsertFails, ReaperMarkPaused
    <3>2. ASSUME NEW w \in Workspaces, NEW s \in SnapIds, ReaperCopyBegin(w, s) PROVE UNCHANGED call
      BY <3>2 DEF ReaperCopyBegin
    <3>3. ASSUME NEW w \in Workspaces, ReaperCopyMissing(w) PROVE UNCHANGED call
      BY <3>3 DEF ReaperCopyMissing
    <3>4. ASSUME NEW x \in SUBSET Updates,
                 (\E ok \in BOOLEAN : ReaperCopyEnd(x, ok)) \/ ReaperWipe(x) PROVE UNCHANGED call
      BY <3>4 DEF ReaperCopyEnd, ReaperWipe
    <3> QED
      BY <1>8, <3>1, <3>2, <3>3, <3>4 DEF ReaperStep
  <2>1. ASSUME NEW q, reaper' = ReaperWith(q) PROVE reaper'.at \notin ReapingAt
    BY <2>1 DEF ReaperWith, NewReaper, ReapingAt
  <2>2. ASSUME UNCHANGED <<snapRow, snapDir, minted>>, reaper'.at \notin ReapingAt PROVE SnapInv'
    BY <2>0, <2>2, SnapInvQuiet
  <2>3. ASSUME ReaperList PROVE SnapInv'
    BY <2>1, <2>2, <2>3 DEF ReaperList, snapVars
  <2>4. ASSUME NEW w \in Workspaces, ReaperCopyMissing(w) PROVE SnapInv'
    BY <2>1, <2>2, <2>4 DEF ReaperCopyMissing, snapVars
  <2>5. ASSUME NEW x \in SUBSET Updates, ReaperWipe(x) PROVE SnapInv'
    <3>1. reaper'.at \notin ReapingAt /\ UNCHANGED <<snapRow, snapDir, minted>>
      BY <2>5 DEF ReaperWipe, snapVars, ReapT, ReaperState, ReapingAt
    <3> QED
      BY <2>2, <3>1
  <2>6. ASSUME ReaperMarkPaused PROVE SnapInv'
    BY <2>1, <2>2, <2>6 DEF ReaperMarkPaused, snapVars
  <2>7. ASSUME NEW w \in Workspaces, NEW s \in SnapIds, ReaperCopyBegin(w, s) PROVE SnapInv'
    <3>1. /\ s \notin minted /\ minted' = minted \cup {s} /\ snapRow' = snapRow
          /\ snapDir'[s] = {} /\ \A k \in SnapIds \ {s} : snapDir'[k] = snapDir[k]
          /\ reaper'.snap = s
      BY <2>7 DEF ReaperCopyBegin, SnapT
    <3>2. /\ snapRow[s] = None
          /\ \A d \in Calls : call[d].at \in HoldingAt => call[d].snap # s
      BY <3>1 DEF SnapInv
    <3>3. \A d \in Calls : call[d].at \in TakingAt => snapDir'[call[d].snap] # NoDir
      BY <3>1, <3>2, <1>a, <1>b DEF SnapInv
    <3>4. \A k \in SnapIds : snapRow'[k] # None => k \in minted' /\ snapDir'[k] # NoDir
      BY <3>1, <3>2 DEF SnapInv
    <3>5. \A d \in Calls : call[d].at \in HoldingAt => call[d].snap \in minted' /\ snapRow'[call[d].snap] = None
      BY <3>1 DEF SnapInv
    <3>6. s \in minted' /\ snapRow'[s] = None /\ snapDir'[s] # NoDir
      BY <3>1, <3>2, <1>d
    <3> QED
      BY <2>0, <3>1, <3>2, <3>3, <3>4, <3>5, <3>6 DEF SnapInv
  <2>8. ASSUME NEW x \in SUBSET Updates, NEW ok \in BOOLEAN, ReaperCopyEnd(x, ok) PROVE SnapInv'
    <3> DEFINE k == reaper.snap
    <3>1. reaper.at \in ReapingAt /\ k \in SnapIds
      BY <2>8, <1>c DEF ReaperCopyEnd, ReapingAt
    <3>2. /\ minted' = minted /\ snapRow' = snapRow
          /\ snapDir'[k] = x /\ \A s \in SnapIds \ {k} : snapDir'[s] = snapDir[s]
      BY <2>8, <3>1 DEF ReaperCopyEnd, SnapT
    <3>3. reaper'.at \in ReapingAt => reaper'.snap = k
      <4>1. CASE ok
        BY <2>8, <4>1 DEF ReaperCopyEnd, ReapT, ReaperState
      <4>2. CASE ~ok
        BY <2>8, <4>2, <2>1 DEF ReaperCopyEnd
      <4> QED
        BY <4>1, <4>2
    <3>4. \A s \in SnapIds : snapDir[s] # NoDir => snapDir'[s] # NoDir
      BY <3>2, <1>d
    <3>5. snapDir'[k] # NoDir
      BY <3>2, <1>d
    <3>6. k \in minted /\ snapRow[k] = None /\ \A d \in Calls : call[d].at \in HoldingAt => call[d].snap # k
      BY <3>1 DEF SnapInv
    <3> HIDE DEF k
    <3>7. \A d \in Calls : call[d].at \in TakingAt => snapDir'[call[d].snap] # NoDir
      BY <3>4, <1>a, <1>b DEF SnapInv
    <3> QED
      BY <2>0, <3>2, <3>3, <3>4, <3>5, <3>6, <3>7 DEF SnapInv
  <2>9. ASSUME ReaperInsert \/ ReaperInsertFails PROVE SnapInv'
    <3> DEFINE k == reaper.snap
    <3>1. reaper.at \in ReapingAt /\ k \in SnapIds
      BY <2>9, <1>c DEF ReaperInsert, ReaperInsertFails, ReapingAt
    <3>2. /\ k \in minted /\ snapRow[k] = None /\ snapDir[k] # NoDir
          /\ \A d \in Calls : call[d].at \in HoldingAt => call[d].snap # k
      BY <3>1 DEF SnapInv
    <3>3. /\ minted' = minted
          /\ \A s \in SnapIds \ {k} : snapDir'[s] = snapDir[s] /\ snapRow'[s] = snapRow[s]
          /\ snapRow'[k] # None => snapDir'[k] # NoDir
      <4>1. CASE ReaperInsert
        BY <4>1, <3>1, <3>2 DEF ReaperInsert, SnapT
      <4>2. CASE ReaperInsertFails
        BY <4>2, <3>1, <3>2 DEF ReaperInsertFails, SnapT
      <4> QED
        BY <2>9, <4>1, <4>2
    <3>4. reaper'.at \notin ReapingAt
      <4>1. CASE ReaperInsert
        BY <4>1 DEF ReaperInsert, ReapT, ReaperState, ReapingAt
      <4>2. CASE ReaperInsertFails
        BY <4>2, <2>1 DEF ReaperInsertFails
      <4> QED
        BY <2>9, <4>1, <4>2
    <3> HIDE DEF k
    <3>5. \A s \in SnapIds : snapRow'[s] # None => s \in minted' /\ snapDir'[s] # NoDir
      BY <3>2, <3>3 DEF SnapInv
    <3>6. \A d \in Calls : call[d].at \in HoldingAt => call[d].snap \in minted' /\ snapRow'[call[d].snap] = None
      BY <3>2, <3>3, <1>b DEF SnapInv
    <3>7. \A d \in Calls : call[d].at \in TakingAt => snapDir'[call[d].snap] # NoDir
      BY <3>2, <3>3, <1>a, <1>b DEF SnapInv
    <3> QED
      BY <2>0, <3>4, <3>5, <3>6, <3>7 DEF SnapInv
  <2> QED
    BY <1>8, <2>3, <2>4, <2>5, <2>6, <2>7, <2>8, <2>9 DEF ReaperStep
<1>9. ASSUME UNCHANGED <<call, snapRow, snapDir, minted, reaper>> PROVE SnapInv'
  BY <1>9, SnapInvQuiet
<1>10. ASSUME NEW w \in Workspaces, IdleElapses(w) PROVE SnapInv'
  BY <1>9, <1>10 DEF IdleElapses, snapVars
<1>11. ASSUME Crash PROVE SnapInv'
  <2>1. /\ \A c \in Calls : call'[c].at \notin HoldingAt
        /\ reaper'.at \notin ReapingAt /\ UNCHANGED <<snapRow, snapDir, minted>>
    BY <1>11, EndedCallFacts DEF Crash, NewReaper, snapVars, HoldingAt, TakingAt, ReapingAt
  <2> QED
    BY <2>1, SnapInvQuiet
<1>12. CASE UNCHANGED vars
  BY <1>9, <1>12 DEF vars, snapVars
<1>13. ASSUME NEW c \in Calls, CallStep(c) PROVE SnapInv'
  BY <1>13, <1>1, <1>2, <1>3, <1>4, <1>5, <1>6, <1>7 DEF CallStep
<1>14. CASE Client
  BY <1>14, <1>1, <1>9, ExecLeavesSnaps DEF Client
<1> QED
  BY <1>8, <1>9, <1>10, <1>11, <1>12, <1>13, <1>14, ExecLeavesSnaps DEF Next

\* There is no snapshot at the start.
LEMMA SnapInvInit == Init => SnapInv
  BY SMT DEF Init, SnapInv, NewCall, NewReaper, TakingAt, HoldingAt, ReapingAt

\* Types and the invariant of snapshots always hold.
LEMMA SnapInvAlways == Spec => [](TypeInv /\ SnapInv)
<1>1. TypeInv /\ SnapInv /\ [Next]_vars => (TypeInv /\ SnapInv)'
  BY TypeInvStep, SnapInvStep
<1> QED
  BY <1>1, TypeInvInit, SnapInvInit, PTL DEF Spec

\* Rows are inserted after the copy and removed before the directory, so a snapshot row
\* always names a whole directory, for any number of captures, forks, deletes, reaper
\* passes, hang-ups and restarts.
THEOREM SnapshotsAreWhole == Spec => []RowsHaveWholeDirs
<1>1. SnapInv => RowsHaveWholeDirs
  <2> SUFFICES ASSUME SnapInv, NEW s \in SnapIds, snapRow[s] # None
               PROVE  /\ snapDir[s] # NoDir
                      /\ \A c \in Calls : ~(call[c].at = "copying" /\ call[c].snap = s)
                      /\ ~(reaper.at = "copying" /\ reaper.snap = s)
    BY DEF RowsHaveWholeDirs
  <2> QED
    BY DEF SnapInv, TakingAt, HoldingAt, ReapingAt
<1> QED
  BY <1>1, SnapInvAlways, PTL

----------------------------------------------------------------------------
(* What exec handlers leave behind *)

\* A has n elements: they can be numbered.
Numbered(n, A) ==
    \E f \in [1..n -> A] : /\ \A i, j \in 1..n : f[i] = f[j] => i = j
                           /\ \A a \in A : \E i \in 1..n : f[i] = a

\* Nothing has no elements.
LEMMA NumberedNone == ASSUME NEW n \in Nat PROVE Numbered(n, {}) <=> n = 0
<1>1. ASSUME Numbered(n, {}), n # 0 PROVE FALSE
  <2>1. PICK f : f \in [1..n -> {}]
    BY <1>1 DEF Numbered
  <2>2. 1 \in 1..n
    BY SMT, <1>1
  <2> QED
    BY <2>1, <2>2
<1>2. ASSUME n = 0 PROVE Numbered(n, {})
  <2> DEFINE f == [i \in 1..0 |-> i]
  <2>1. 1..n = {} /\ 1..0 = {}
    BY SMT, <1>2
  <2>2. f \in [1..n -> {}]
    BY <2>1
  <2> QED
    BY <2>1, <2>2 DEF Numbered
<1> QED
  BY <1>1, <1>2

\* A new element gets the next number.
LEMMA NumberedMore ==
    ASSUME NEW n \in Nat, NEW A, NEW t, t \notin A, Numbered(n, A)
    PROVE  Numbered(n + 1, A \cup {t})
<1>1. PICK f \in [1..n -> A] : /\ \A i, j \in 1..n : f[i] = f[j] => i = j
                               /\ \A a \in A : \E i \in 1..n : f[i] = a
  BY DEF Numbered
<1> DEFINE g == [i \in 1..(n + 1) |-> IF i = n + 1 THEN t ELSE f[i]]
<1>2. n + 1 \in 1..(n + 1) /\ \A i \in 1..(n + 1) : i # n + 1 => i \in 1..n
  BY SMT
<1>3. 1..n \subseteq 1..(n + 1) /\ n + 1 \notin 1..n
  BY SMT
<1>4. g \in [1..(n + 1) -> A \cup {t}]
  BY <1>2
<1>5. ASSUME NEW i \in 1..(n + 1), NEW j \in 1..(n + 1), g[i] = g[j] PROVE i = j
  <2>1. (IF i = n + 1 THEN t ELSE f[i]) = (IF j = n + 1 THEN t ELSE f[j])
    BY <1>5
  <2>2. /\ i # n + 1 => i \in 1..n /\ f[i] \in A
        /\ j # n + 1 => j \in 1..n /\ f[j] \in A
    BY <1>2
  <2> QED
    BY <1>1, <2>1, <2>2
<1>6. \A a \in A \cup {t} : \E i \in 1..(n + 1) : g[i] = a
  BY <1>1, <1>2, <1>3
<1> HIDE DEF g
<1> QED
  BY <1>4, <1>5, <1>6 DEF Numbered

\* An element leaves and the last one takes over its number.
LEMMA NumberedLess ==
    ASSUME NEW n \in Nat, NEW A, NEW t \in A, Numbered(n, A)
    PROVE  n > 0 /\ Numbered(n - 1, A \ {t})
<1>1. PICK f \in [1..n -> A] : /\ \A i, j \in 1..n : f[i] = f[j] => i = j
                               /\ \A a \in A : \E i \in 1..n : f[i] = a
  BY DEF Numbered
<1>2. PICK k \in 1..n : f[k] = t
  BY <1>1
<1> DEFINE g == [i \in 1..(n - 1) |-> IF i = k THEN f[n] ELSE f[i]]
<1>3. n > 0 /\ n \in 1..n /\ n \notin 1..(n - 1) /\ 1..(n - 1) \subseteq 1..n
  BY SMT, <1>2
<1>4. \A i \in 1..n : i # n => i \in 1..(n - 1)
  BY SMT
<1>5. g \in [1..(n - 1) -> A \ {t}]
  <2> SUFFICES ASSUME NEW i \in 1..(n - 1) PROVE (IF i = k THEN f[n] ELSE f[i]) \in A \ {t}
    OBVIOUS
  <2>1. CASE i = k
    BY <1>1, <1>2, <1>3, <2>1
  <2>2. CASE i # k
    BY <1>1, <1>2, <1>3, <2>2
  <2> QED
    BY <2>1, <2>2
<1>6. ASSUME NEW i \in 1..(n - 1), NEW j \in 1..(n - 1), g[i] = g[j] PROVE i = j
  <2>1. /\ i \in 1..n /\ j \in 1..n /\ i # n /\ j # n
        /\ (IF i = k THEN f[n] ELSE f[i]) = (IF j = k THEN f[n] ELSE f[j])
    BY <1>3, <1>6
  <2> QED
    BY <1>1, <1>3, <2>1
<1>7. ASSUME NEW a \in A \ {t} PROVE \E i \in 1..(n - 1) : g[i] = a
  <2>1. PICK i \in 1..n : f[i] = a
    BY <1>1
  <2>2. i # k
    BY <1>2, <2>1
  <2>3. CASE i = n
    <3>1. k \in 1..(n - 1) /\ g[k] = a
      BY <1>4, <2>1, <2>2, <2>3
    <3> QED
      BY <3>1
  <2>4. CASE i # n
    <3>1. i \in 1..(n - 1) /\ g[i] = a
      BY <1>4, <2>1, <2>2, <2>4
    <3> QED
      BY <3>1
  <2> QED
    BY <2>3, <2>4
<1> HIDE DEF g
<1> QED
  BY <1>3, <1>5, <1>6, <1>7 DEF Numbered
Admitted == {t \in Execs : ex[t].at \in PermitAt}

\* A locked mutex is that of a handler past try_lock, a published cgroup that of a
\* monitored handler, and a frozen cgroup exists.  The permits out are those of the
\* handlers past try_acquire, one each.
HeldInv == \A m \in held : \E t \in Execs : ex[t].at \in LockedAt /\ Mutex(t) = m
PublishInv ==
    \A w \in Workspaces, t \in Execs : cgroups[w] = t => ex[t].at \in RegisteredAt /\ ex[t].ws = w
FrozenInv == \A t \in Execs : frozen[t] => jail[t] # "none"
PermitInv == Permits - permits \in Nat /\ Numbered(Permits - permits, Admitted)

CleanInv == HeldInv /\ PublishInv /\ FrozenInv /\ PermitInv

(* One handler changes; the others keep what they hold. *)
LEMMA HeldInvMoves ==
    ASSUME HeldInv, NEW t \in Execs, \A u \in Execs \ {t} : ex'[u] = ex[u],
           \/ ex[t].at \notin LockedAt /\ held' = held
           \/ held' = held \ {Mutex(t)}
           \/ ex'[t].at \in LockedAt /\ Mutex(t)' = Mutex(t) /\ held' \subseteq held \cup {Mutex(t)}
    PROVE  HeldInv'
<1> SUFFICES ASSUME NEW m \in held' PROVE \E u \in Execs : ex'[u].at \in LockedAt /\ Mutex(u)' = m
  BY DEF HeldInv
<1>1. \A u \in Execs \ {t} : Mutex(u)' = Mutex(u)
  BY DEF Mutex
<1>2. CASE m \in held
  <2>1. PICK u \in Execs : ex[u].at \in LockedAt /\ Mutex(u) = m
    BY <1>2 DEF HeldInv
  <2>2. CASE u = t
    BY <2>1, <2>2
  <2>3. CASE u # t
    BY <1>1, <2>1, <2>3
  <2> QED
    BY <2>2, <2>3
<1>3. CASE m \notin held
  BY <1>3
<1> QED
  BY <1>2, <1>3

\* One exec moves, and what it newly publishes is its own cgroup.
LEMMA PublishInvMoves ==
    ASSUME PublishInv, NEW t \in Execs, \A u \in Execs \ {t} : ex'[u] = ex[u],
           \A w \in Workspaces : cgroups'[w] = cgroups[w] \/ cgroups'[w] = None \/ cgroups'[w] = t,
           \A w \in Workspaces : cgroups'[w] = t => ex'[t].at \in RegisteredAt /\ ex'[t].ws = w
    PROVE  PublishInv'
  BY SMT, ConstantsAssumption DEF PublishInv

\* Nobody enters or leaves the places that hold a permit.
LEMMA PermitInvFrame ==
    ASSUME PermitInv, permits' = permits,
           \A u \in Execs : ex'[u].at \in PermitAt <=> ex[u].at \in PermitAt
    PROVE  PermitInv'
<1>1. Admitted' = Admitted
  BY DEF Admitted
<1> QED
  BY <1>1 DEF PermitInv

\* An exec is admitted and takes one permit.
LEMMA PermitInvTakes ==
    ASSUME PermitInv, PermitT, NEW t \in Execs, \A u \in Execs \ {t} : ex'[u] = ex[u],
           ex[t].at \notin PermitAt, ex'[t].at \in PermitAt, permits > 0, permits' = permits - 1
    PROVE  PermitInv'
<1>1. Admitted' = Admitted \cup {t} /\ t \notin Admitted
  BY SMT DEF Admitted
<1>2. Numbered((Permits - permits) + 1, Admitted')
  BY <1>1, NumberedMore DEF PermitInv
<1>3. Permits - permits' = (Permits - permits) + 1 /\ Permits - permits' \in Nat
  BY SMT, ConstantsAssumption DEF PermitInv, PermitT
<1> QED
  BY <1>2, <1>3 DEF PermitInv

\* An exec ends and gives back the permit it had, if any.
LEMMA PermitInvGives ==
    ASSUME PermitInv, PermitT, NEW t \in Execs, \A u \in Execs \ {t} : ex'[u] = ex[u],
           ex'[t].at \notin PermitAt,
           permits' = IF ex[t].at \in PermitAt THEN permits + 1 ELSE permits
    PROVE  PermitInv'
<1>1. Admitted' = Admitted \ {t}
  BY SMT DEF Admitted
<1>3. CASE ex[t].at \in PermitAt
  <2>1. t \in Admitted
    BY <1>3 DEF Admitted
  <2>2. Permits - permits > 0 /\ Numbered((Permits - permits) - 1, Admitted')
    BY <1>1, <2>1, NumberedLess DEF PermitInv
  <2>3. Permits - permits' = (Permits - permits) - 1 /\ Permits - permits' \in Nat
    BY SMT, <1>3, <2>2, ConstantsAssumption DEF PermitInv, PermitT
  <2> QED
    BY <2>2, <2>3 DEF PermitInv
<1>4. CASE ex[t].at \notin PermitAt
  <2>1. Admitted' = Admitted
    BY <1>1, <1>4 DEF Admitted
  <2> QED
    BY <2>1, <1>4 DEF PermitInv
<1> QED
  BY <1>3, <1>4

(* A handler moves on with the mutex, the registration and the permit it has. *)
LEMMA CleanMoves ==
    ASSUME ExecT, HeldInv, NEW t \in Execs, NEW from \in LockedAt, NEW to \in LockedAt,
           ExecMoves(t, from, to), held' = held
    PROVE  HeldInv'
<1>1. to \in ExecAt
  BY DEF ExecAt
<1>2. /\ ex'[t].at = to /\ ex'[t].ws = ex[t].ws /\ ex'[t].mutex = ex[t].mutex
      /\ \A u \in Execs \ {t} : ex'[u] = ex[u]
  BY <1>1, ExecMovesFacts DEF ExecT
<1>3. Mutex(t)' = Mutex(t)
  BY <1>2 DEF Mutex
<1> QED
  BY <1>2, <1>3, HeldInvMoves

\* An exec moves on with its permit, or without one.
LEMMA PermitMoves ==
    ASSUME ExecT, PermitInv, NEW t \in Execs, NEW from \in ExecAt, NEW to \in ExecAt,
           from \in PermitAt <=> to \in PermitAt, ExecMoves(t, from, to), permits' = permits
    PROVE  PermitInv'
<1>1. \A u \in Execs : ex'[u].at \in PermitAt <=> ex[u].at \in PermitAt
  BY SMT, ExecMovesFacts DEF ExecT
<1> QED
  BY <1>1, PermitInvFrame

\* An exec moves on and stays published if it was.
LEMMA PublishMoves ==
    ASSUME ExecT, PublishInv, NEW t \in Execs, NEW from \in ExecAt, NEW to \in ExecAt,
           from \in RegisteredAt => to \in RegisteredAt, ExecMoves(t, from, to), cgroups' = cgroups
    PROVE  PublishInv'
<1>1. \A u \in Execs : ex'[u].ws = ex[u].ws /\ (ex[u].at \in RegisteredAt => ex'[u].at \in RegisteredAt)
  BY SMT, ExecMovesFacts DEF ExecT
<1> QED
  BY <1>1 DEF PublishInv

(* A handler ends: Release gives back the mutex and the permit. *)
LEMMA CleanRelease ==
    ASSUME ExecT, PermitT, CleanInv, NEW t \in Execs, Release(t),
           ex[t].at \in RegisteredAt => cgroups' = [cgroups EXCEPT ![ex[t].ws] = None],
           ex[t].at \notin RegisteredAt => cgroups' = cgroups, JailT,
           ex[t].at \in LockedAt, FrozenInv'
    PROVE  CleanInv'
<1>1. /\ ex'[t].at = "done" /\ \A u \in Execs \ {t} : ex'[u] = ex[u]
      /\ held' = held \ {Mutex(t)}
  BY ReleaseFacts
<1>2. HeldInv'
  BY <1>1, HeldInvMoves DEF CleanInv
<1>3. PermitInv'
  BY <1>1, PermitInvGives DEF CleanInv, Release, PermitAt
<1>4. PublishInv'
  <2>1. ex[t].ws \in Workspaces
    BY DEF ExecT, LockedAt
  <2>2. \A w \in Workspaces : cgroups'[w] = cgroups[w] \/ cgroups'[w] = None
    BY <2>1 DEF JailT
  <2>3. \A w \in Workspaces : cgroups'[w] # t
    <3> SUFFICES ASSUME NEW w \in Workspaces, cgroups'[w] = t PROVE FALSE
      OBVIOUS
    <3>1. cgroups[w] = t /\ None # t
      BY <2>2, ConstantsAssumption
    <3>2. ex[t].at \in RegisteredAt /\ ex[t].ws = w
      BY <3>1 DEF CleanInv, PublishInv
    <3> QED
      BY <3>1, <3>2 DEF JailT
  <2> QED
    BY <1>1, <2>2, <2>3, PublishInvMoves DEF CleanInv
<1> QED
  BY <1>2, <1>3, <1>4 DEF CleanInv

\* Jails and their freezes stay as they are.
LEMMA FrozenInvFrame == FrozenInv /\ UNCHANGED <<jail, frozen>> => FrozenInv'
  BY DEF FrozenInv

\* What no exec takes or gives back stays accounted for.
LEMMA CleanFrame ==
    ASSUME CleanInv, UNCHANGED <<held, permits, ex, cgroups>>, FrozenInv'
    PROVE  CleanInv'
<1>1. HeldInv' /\ PublishInv'
  BY DEF CleanInv, HeldInv, PublishInv, Mutex
<1>2. PermitInv'
  BY PermitInvFrame DEF CleanInv
<1> QED
  BY <1>1, <1>2 DEF CleanInv

\* Each action of an exec request or of its jail keeps the account of what execs hold.
LEMMA ExecClean ==
    ASSUME TypeInv, CleanInv, NEW t \in Execs,
           \/ \E w \in Workspaces : ExecGet(t, w)
           \/ ExecStep(t) \/ ExecCancel(t) \/ JailWrite(t) \/ JailExit(t)
    PROVE  CleanInv'
<1> USE DEF TypeInv
<1>a. /\ LockedAt \subseteq ExecAt /\ PermitAt \subseteq LockedAt /\ RegisteredAt \subseteq PermitAt
      /\ {"new", "got", "arc", "done"} \subseteq ExecAt \ LockedAt
  BY DEF ExecAt, LockedAt, PermitAt, RegisteredAt
\* before the mutex
<1>1. ASSUME (\E w \in Workspaces : ExecGet(t, w)) \/ ExecLockFor(t) \/ ExecConflict(t) PROVE CleanInv'
  <2> DEFINE Early == /\ ex[t].at \in {"new", "got", "arc"} /\ ex'[t].at \in {"got", "arc", "done"}
                      /\ \A u \in Execs \ {t} : ex'[u] = ex[u]
  <2>1. Early
    <3>1. ASSUME NEW w \in Workspaces, ExecGet(t, w) PROVE Early
      BY <3>1 DEF ExecGet, ExecT
    <3>2. ASSUME ExecLockFor(t) PROVE Early
      BY <3>2 DEF ExecLockFor, ExecT, ExecState
    <3>3. ASSUME ExecConflict(t) PROVE Early
      BY <3>3, EndedExecFacts DEF ExecConflict, ExecT
    <3> QED
      BY <1>1, <3>1, <3>2, <3>3
  <2>2. UNCHANGED <<held, permits, cgroups, jail, frozen>>
    BY <1>1 DEF ExecGet, ExecLockFor, ExecConflict, lockVars, jailVars
  <2>3. HeldInv'
    BY <2>1, <2>2, <1>a, HeldInvMoves DEF CleanInv
  <2>4. PublishInv'
    <3>1. \A w \in Workspaces : cgroups[w] # t
      BY ZenonT(30), <2>1, <1>a DEF CleanInv, PublishInv
    <3> QED
      BY <2>1, <2>2, <3>1, PublishInvMoves DEF CleanInv
  <2>5. PermitInv'
    <3>1. \A u \in Execs : ex'[u].at \in PermitAt <=> ex[u].at \in PermitAt
      BY <2>1, <1>a
    <3> QED
      BY <2>2, <3>1, PermitInvFrame DEF CleanInv
  <2> QED
    BY <2>2, <2>3, <2>4, <2>5, FrozenInvFrame DEF CleanInv
<1>2. ASSUME ExecTryLock(t) PROVE CleanInv'
  <2>1. /\ ex[t].at = "arc" /\ ex'[t].at = "locked" /\ ex'[t].ws = ex[t].ws /\ ex'[t].mutex = ex[t].mutex
        /\ \A u \in Execs \ {t} : ex'[u] = ex[u]
    <3>1. "locked" \in ExecAt
      BY DEF ExecAt, LockedAt
    <3> QED
      BY <1>2, <3>1, ExecMovesFacts DEF ExecTryLock, ExecT
  <2>2. Mutex(t)' = Mutex(t) /\ "locked" \in LockedAt /\ "locked" \in ExecAt
    BY <2>1, <1>a DEF Mutex, LockedAt
  <2>3. HeldInv'
    BY <1>2, <2>1, <2>2, HeldInvMoves DEF ExecTryLock, CleanInv
  <2>4. PublishInv'
    BY <1>2, <1>a, <2>2, PublishMoves DEF ExecTryLock, jailVars, RegisteredAt, CleanInv
  <2>5. PermitInv'
    BY <1>2, <1>a, <2>2, PermitMoves DEF ExecTryLock, PermitAt, CleanInv
  <2> QED
    BY <1>2, <2>3, <2>4, <2>5, FrozenInvFrame DEF ExecTryLock, jailVars, CleanInv
\* with the mutex
<1>3. ASSUME ExecResume(t) \/ ExecRestore(t) \/ ExecMarkResumed(t) \/ ExecNoResume(t) \/ ExecTouch(t)
      PROVE CleanInv'
  <2>1. PICK from \in LockedAt, to \in LockedAt :
           /\ ExecMoves(t, from, to) /\ (from \in PermitAt <=> to \in PermitAt)
           /\ from \in RegisteredAt => to \in RegisteredAt
    <3> USE DEF LockedAt, PermitAt, RegisteredAt
    <3>1. CASE ExecResume(t)
      BY <3>1 DEF ExecResume
    <3>2. CASE ExecRestore(t)
      BY <3>2 DEF ExecRestore
    <3>3. CASE ExecMarkResumed(t)
      BY <3>3 DEF ExecMarkResumed
    <3>4. CASE ExecNoResume(t)
      BY <3>4 DEF ExecNoResume
    <3>5. CASE ExecTouch(t)
      BY <3>5 DEF ExecTouch
    <3> QED
      BY <1>3, <3>1, <3>2, <3>3, <3>4, <3>5
  <2>2. UNCHANGED <<held, permits, cgroups, jail, frozen>>
    BY <1>3 DEF ExecResume, ExecRestore, ExecMarkResumed, ExecNoResume, ExecTouch, lockVars, jailVars
  <2>3. HeldInv' /\ PublishInv' /\ PermitInv'
    BY <2>1, <2>2, <1>a, CleanMoves, PublishMoves, PermitMoves DEF CleanInv
  <2> QED
    BY <2>2, <2>3, FrozenInvFrame DEF CleanInv
<1>4. ASSUME ExecAdmit(t) PROVE CleanInv'
  <2>0. /\ "ready" \in LockedAt \ PermitAt /\ "admitted" \in PermitAt \cap LockedAt
        /\ "ready" \in ExecAt /\ "admitted" \in ExecAt /\ "ready" \notin RegisteredAt
    BY DEF LockedAt, PermitAt, ExecAt, RegisteredAt
  <2>1. ex[t].at = "ready" /\ ex'[t].at = "admitted" /\ \A u \in Execs \ {t} : ex'[u] = ex[u]
    BY ZenonT(30), <1>4, <2>0, ExecMovesFacts DEF ExecAdmit, ExecT
  <2>2. PermitInv'
    BY <1>4, <2>0, <2>1, PermitInvTakes DEF ExecAdmit, CleanInv
  <2>3. HeldInv' /\ PublishInv'
    BY <1>4, <2>0, CleanMoves, PublishMoves DEF ExecAdmit, lockVars, jailVars, CleanInv
  <2> QED
    BY <1>4, <2>2, <2>3, FrozenInvFrame DEF ExecAdmit, jailVars, CleanInv
<1>5. ASSUME ExecSpawn(t) PROVE CleanInv'
  <2>0. /\ "touched" \in LockedAt /\ "spawned" \in LockedAt /\ "touched" \in PermitAt
        /\ "spawned" \in PermitAt /\ "touched" \notin RegisteredAt
    BY DEF LockedAt, PermitAt, RegisteredAt
  <2>1. HeldInv' /\ PublishInv' /\ PermitInv'
    BY <1>5, <2>0, <1>a, CleanMoves, PublishMoves, PermitMoves DEF ExecSpawn, lockVars, CleanInv
  <2>2. FrozenInv'
    BY <1>5 DEF ExecSpawn, CleanInv, FrozenInv, JailT
  <2> QED
    BY <2>1, <2>2 DEF CleanInv
<1>6. ASSUME ExecPublish(t) PROVE CleanInv'
  <2>0. /\ "spawned" \in LockedAt /\ "monitored" \in LockedAt /\ "spawned" \in PermitAt
        /\ "monitored" \in PermitAt /\ "monitored" \in RegisteredAt
    BY DEF LockedAt, PermitAt, RegisteredAt
  <2>1. /\ ex'[t].at = "monitored" /\ ex'[t].ws = ex[t].ws /\ ex[t].at = "spawned"
        /\ \A u \in Execs \ {t} : ex'[u] = ex[u]
    BY ZenonT(30), <1>6, <2>0, <1>a, ExecMovesFacts DEF ExecPublish, ExecT
  <2>2. HeldInv' /\ PermitInv'
    BY <1>6, <2>0, <1>a, CleanMoves, PermitMoves DEF ExecPublish, lockVars, CleanInv
  <2>3. PublishInv'
    <3>1. \A w \in Workspaces : cgroups'[w] = cgroups[w] \/ cgroups'[w] = t
      BY <1>6 DEF ExecPublish, JailT
    <3>2. \A w \in Workspaces : cgroups[w] # t
      BY <2>1 DEF CleanInv, PublishInv, RegisteredAt
    <3>3. \A w \in Workspaces \ {ex[t].ws} : cgroups'[w] = cgroups[w]
      BY <1>6 DEF ExecPublish, JailT
    <3> QED
      BY SMT, <2>0, <2>1, <3>1, <3>2, <3>3, PublishInvMoves DEF CleanInv
  <2> QED
    BY <1>6, <2>2, <2>3, FrozenInvFrame DEF ExecPublish, CleanInv
<1>7. ASSUME ExecWait(t) PROVE CleanInv'
  <2>0. /\ "monitored" \in LockedAt /\ "waited" \in LockedAt /\ "monitored" \in PermitAt
        /\ "waited" \in PermitAt /\ "waited" \in RegisteredAt
    BY DEF LockedAt, PermitAt, RegisteredAt
  <2>1. HeldInv' /\ PublishInv' /\ PermitInv'
    BY <1>7, <2>0, <1>a, CleanMoves, PublishMoves, PermitMoves DEF ExecWait, lockVars, CleanInv
  <2>2. FrozenInv'
    BY <1>7 DEF ExecWait, CleanInv, FrozenInv, JailT
  <2> QED
    BY <2>1, <2>2 DEF CleanInv
<1>8. ASSUME ExecUnregister(t) PROVE CleanInv'
  <2>0. /\ "waited" \in LockedAt /\ "unregistered" \in LockedAt /\ "waited" \in PermitAt
        /\ "unregistered" \in PermitAt
    BY DEF LockedAt, PermitAt
  <2>1. /\ ex[t].at = "waited" /\ ex'[t].at = "unregistered" /\ \A u \in Execs \ {t} : ex'[u] = ex[u]
    BY <1>8, <2>0, <1>a, ExecMovesFacts DEF ExecUnregister, ExecT
  <2>2. HeldInv' /\ PermitInv'
    BY <1>8, <2>0, <1>a, CleanMoves, PermitMoves DEF ExecUnregister, lockVars, CleanInv
  <2>3. PublishInv'
    <3>1. \A w \in Workspaces : cgroups'[w] = cgroups[w] \/ cgroups'[w] = None
      BY <1>8 DEF ExecUnregister, JailT
    <3>2. \A w \in Workspaces : cgroups[w] = t => ex[t].ws = w
      BY DEF CleanInv, PublishInv
    <3>3. \A w \in Workspaces : cgroups'[w] # t
      BY <1>8, <3>1, <3>2, ConstantsAssumption DEF ExecUnregister, JailT
    <3> QED
      BY <2>1, <3>1, <3>3, PublishInvMoves DEF CleanInv
  <2> QED
    BY <1>8, <2>2, <2>3, FrozenInvFrame DEF ExecUnregister, CleanInv
\* the handler ends
<1>9. ASSUME ExecRestoreFails(t) \/ ExecReject(t) \/ ExecSpawnFails(t) \/ ExecFinish(t) PROVE CleanInv'
  <2>1. /\ ex[t].at \in LockedAt \ RegisteredAt /\ Release(t) /\ UNCHANGED <<cgroups, jail, frozen>>
    BY <1>9 DEF ExecRestoreFails, ExecReject, ExecSpawnFails, ExecFinish, jailVars, LockedAt, RegisteredAt
  <2>2. FrozenInv'
    BY <2>1, FrozenInvFrame DEF CleanInv
  <2> QED
    BY <2>1, <2>2, CleanRelease
<1>10. ASSUME ExecCancel(t) PROVE CleanInv'
  <2>1. FrozenInv'
    BY <1>10 DEF ExecCancel, CleanInv, FrozenInv, JailT
  <2> QED
    BY <1>10, <2>1, CleanRelease DEF ExecCancel
\* its jail
<1>11. ASSUME JailWrite(t) PROVE CleanInv'
  BY <1>11, CleanFrame, FrozenInvFrame DEF JailWrite, lockVars, execVars, jailVars, CleanInv
<1>12. ASSUME JailExit(t) PROVE CleanInv'
  <2>1. FrozenInv'
    BY <1>12 DEF JailExit, CleanInv, FrozenInv, JailT
  <2> QED
    BY <1>12, <2>1, CleanFrame DEF JailExit, lockVars, execVars
<1>13. CASE ExecStep(t)
  BY <1>13, <1>1, <1>2, <1>3, <1>4, <1>5, <1>6, <1>7, <1>8, <1>9 DEF ExecStep
<1> QED
  BY <1>1, <1>10, <1>11, <1>12, <1>13

(* The other requests and the reaper freeze and thaw existing cgroups, and leave the
   rest alone. *)
LEMMA CallLeavesExecs ==
    ASSUME NEW c \in Calls,
           \/ CallStep(c) \/ CallCancel(c)
           \/ \E o \in Ops, w \in Workspaces, n \in 1..MaxForks : CallGet(c, o, w, n)
           \/ \E o \in Ops, s \in SnapIds : CallGetSnap(c, o, s)
           \/ \E w \in Workspaces : CallCreate(c, w)
    PROVE  /\ UNCHANGED <<held, permits, ex, cgroups, jail>>
           /\ frozen' = frozen \/ CallFreeze(c) \/ CallFreezeTimeout(c) \/ CallThaw(c)
<1> USE DEF lockVars, execVars, jailVars
<1> DEFINE Leaves == /\ UNCHANGED <<held, permits, ex, cgroups, jail>>
                     /\ frozen' = frozen \/ CallFreeze(c) \/ CallFreezeTimeout(c) \/ CallThaw(c)
<1>1. ASSUME CallActive(c) \/ CallFreeze(c) \/ CallNoFreeze(c) \/ CallFreezeTimeout(c) \/ CallThaw(c)
      PROVE  Leaves
  BY <1>1 DEF CallActive, CallFreeze, CallNoFreeze, CallFreezeTimeout, CallThaw
<1>2. ASSUME NEW s \in SnapIds, CallCopyBegin(c, s) PROVE Leaves
  BY <1>2 DEF CallCopyBegin
<1>3. ASSUME NEW x \in SUBSET Updates, NEW ok \in BOOLEAN, CallCopyEnd(c, x, ok) PROVE Leaves
  BY <1>3 DEF CallCopyEnd
<1>4. ASSUME NEW w \in Workspaces, CallBuild(c, w) \/ CallCreate(c, w) PROVE Leaves
  BY <1>4 DEF CallBuild, CallCreate
<1>5. ASSUME \/ CallCopyMissing(c) \/ CallInsertSnap(c) \/ CallInsertSnapFails(c) \/ CallParent(c)
             \/ CallBuildFails(c) \/ CallInsert(c) \/ CallInsertFails(c) \/ CallMarkDeleted(c)
      PROVE  Leaves
  BY <1>5 DEF CallCopyMissing, CallInsertSnap, CallInsertSnapFails, CallParent, CallBuildFails,
     CallInsert, CallInsertFails, CallMarkDeleted
<1>6. ASSUME \/ CallRemoveDirs(c) \/ CallRemoveDirsFails(c) \/ CallForget(c) \/ CallDropRow(c)
             \/ CallDropDir(c) \/ CallCancel(c)
      PROVE  Leaves
  BY <1>6 DEF CallRemoveDirs, CallRemoveDirsFails, CallForget, CallDropRow, CallDropDir, CallCancel
<1>7. ASSUME NEW o \in Ops, NEW w \in Workspaces, NEW n \in 1..MaxForks, CallGet(c, o, w, n) PROVE Leaves
  BY <1>7 DEF CallGet
<1>8. ASSUME NEW o \in Ops, NEW s \in SnapIds, CallGetSnap(c, o, s) PROVE Leaves
  BY <1>8 DEF CallGetSnap
<1> QED
  BY <1>1, <1>2, <1>3, <1>4, <1>5, <1>6, <1>7, <1>8 DEF CallStep

\* The reaper touches no mutex, permit, exec, jail or request.
LEMMA ReaperLeavesExecs ==
    ASSUME ReaperStep PROVE UNCHANGED <<held, permits, ex, cgroups, jail, frozen, call>>
  BY DEF ReaperStep, ReaperList, ReaperCopyBegin, ReaperCopyMissing, ReaperCopyEnd, ReaperWipe,
     ReaperInsert, ReaperInsertFails, ReaperMarkPaused, lockVars, execVars, jailVars

\* Every step keeps the account of what execs hold.
LEMMA CleanInvStep ==
    ASSUME TypeInv, CleanInv, [Next]_vars
    PROVE  CleanInv'
<1> USE DEF TypeInv
<1>1. ASSUME UNCHANGED <<held, permits, ex, cgroups, jail, frozen>> PROVE CleanInv'
  BY <1>1, CleanFrame, FrozenInvFrame DEF CleanInv
<1>2. ASSUME NEW c \in Calls,
             \/ CallStep(c) \/ CallCancel(c)
             \/ \E o \in Ops, w \in Workspaces, n \in 1..MaxForks : CallGet(c, o, w, n)
             \/ \E o \in Ops, s \in SnapIds : CallGetSnap(c, o, s)
             \/ \E w \in Workspaces : CallCreate(c, w)
      PROVE  CleanInv'
  <2>1. /\ UNCHANGED <<held, permits, ex, cgroups, jail>>
        /\ frozen' = frozen \/ CallFreeze(c) \/ CallFreezeTimeout(c) \/ CallThaw(c)
    BY <1>2, CallLeavesExecs
  <2>2. FrozenInv'
    <3>1. \A t \in Execs : frozen'[t] => frozen[t] \/ jail[t] # "none"
      <4>1. CASE CallFreeze(c)
        BY <4>1 DEF CallFreeze, JailT
      <4>2. CASE CallFreezeTimeout(c)
        BY <4>2 DEF CallFreezeTimeout, JailT
      <4>3. CASE CallThaw(c)
        BY <4>3 DEF CallThaw, JailT
      <4> QED
        BY <2>1, <4>1, <4>2, <4>3
    <3> QED
      BY <2>1, <3>1 DEF FrozenInv, CleanInv
  <2> QED
    BY <2>1, <2>2, CleanFrame
<1>3. ASSUME ReaperStep PROVE CleanInv'
  BY <1>1, <1>3, ReaperLeavesExecs
<1>4. ASSUME NEW w \in Workspaces, IdleElapses(w) PROVE CleanInv'
  BY <1>1, <1>4 DEF IdleElapses, lockVars, execVars, jailVars
<1>5. ASSUME Crash PROVE CleanInv'
  <2>1. \A t \in Execs : ex'[t].at \in {"new", "done"}
    BY <1>5, EndedExecFacts DEF Crash
  <2>2. Admitted' = {}
    BY <2>1 DEF Admitted, PermitAt
  <2>3. PermitInv'
    <3>1. permits' = Permits /\ Permits \in Nat
      BY <1>5, ConstantsAssumption DEF Crash
    <3>2. Permits - permits' = 0
      BY SMT, <3>1
    <3>3. 0 \in Nat /\ Numbered(0, {})
      BY SMT, NumberedNone
    <3> QED
      BY <2>2, <3>2, <3>3 DEF PermitInv
  <2>4. HeldInv' /\ FrozenInv'
    BY <1>5 DEF Crash, HeldInv, FrozenInv
  <2>5. PublishInv'
    BY <1>5, ConstantsAssumption DEF Crash, PublishInv
  <2> QED
    BY <2>3, <2>4, <2>5 DEF CleanInv
<1>6. CASE UNCHANGED vars
  BY <1>1, <1>6 DEF vars, lockVars, execVars, jailVars
<1> QED
  BY <1>2, <1>3, <1>4, <1>5, <1>6, ExecClean DEF Next, Client

\* At the start nothing is taken.
LEMMA CleanInvInit == Init => CleanInv
<1> SUFFICES ASSUME Init PROVE CleanInv
  OBVIOUS
<1>1. HeldInv /\ FrozenInv
  BY DEF Init, HeldInv, FrozenInv
<1>2. PublishInv
  BY ConstantsAssumption DEF Init, PublishInv
<1>3. Admitted = {}
  BY DEF Init, Admitted, PermitAt, NewExec
<1>4. permits = Permits /\ Permits \in Nat
  BY ConstantsAssumption DEF Init
<1>5. PermitInv
  <2>1. Permits - permits = 0
    BY SMT, <1>4
  <2>2. 0 \in Nat /\ Numbered(0, {})
    BY SMT, NumberedNone
  <2> QED
    BY <1>3, <2>1, <2>2 DEF PermitInv
<1> QED
  BY <1>1, <1>2, <1>5 DEF CleanInv

\* On every error path, hang-up and restart an exec handler gives back all it took:
\* when none is in flight no jail, published cgroup or locked mutex is left and every
\* permit of exec_semaphore is back.
THEOREM NothingIsLeftBehind == Spec => []QuiescentClean
<1>1. TypeInv /\ CleanInv /\ [Next]_vars => (TypeInv /\ CleanInv)'
  BY TypeInvStep, CleanInvStep
<1>2. TypeInv /\ ExecInv /\ CleanInv => QuiescentClean
  <2> SUFFICES ASSUME TypeInv, ExecInv, CleanInv, \A t \in Execs : ex[t].at \in {"new", "done"}
               PROVE  /\ held = {} /\ permits = Permits
                      /\ \A w \in Workspaces : cgroups[w] = None
                      /\ \A t \in Execs : jail[t] = "none" /\ ~frozen[t]
    BY DEF QuiescentClean
  <2>1. held = {}
    BY DEF CleanInv, HeldInv, LockedAt
  <2>2. permits = Permits
    <3>1. Admitted = {}
      BY DEF Admitted, PermitAt
    <3>2. Permits - permits = 0
      BY <3>1, NumberedNone DEF CleanInv, PermitInv
    <3>3. permits \in Nat /\ Permits \in Nat
      BY ConstantsAssumption DEF TypeInv, PermitT
    <3> QED
      BY SMT, <3>2, <3>3
  <2>3. \A w \in Workspaces : cgroups[w] = None
    BY ZenonT(30) DEF CleanInv, PublishInv, RegisteredAt, TypeInv, JailT
  <2>4. \A t \in Execs : jail[t] = "none" /\ ~frozen[t]
    BY DEF CleanInv, FrozenInv, ExecInv
  <2> QED
    BY <2>1, <2>2, <2>3, <2>4
<1> QED
  BY <1>1, <1>2, TypeInvInit, CleanInvInit, SafeInvAlways, PTL DEF Spec, SafeInv

----------------------------------------------------------------------------
(* Freezes *)

IcedAt == {"open", "copying", "copied", "failed"}

\* A capture whose own freeze succeeded remembers it until it thaws; unless a freeze can
\* be written and still report a timeout, nothing else is frozen.
IceInv ==
    /\ \A c \in Calls : call[c].iced => call[c].at \in IcedAt
    /\ ~FreezeTimeouts => NoLeftoverFreeze

\* Steps of execs freeze nothing.
LEMMA IceExec ==
    ASSUME IceInv, call' = call, \A t \in Execs : frozen'[t] => frozen[t]
    PROVE  IceInv'
  BY DEF IceInv, NoLeftoverFreeze

(* A request moves on and keeps its freeze, if it has one. *)
LEMMA IceKeeps ==
    ASSUME IceInv, NEW c \in Calls, \A d \in Calls \ {c} : call'[d] = call[d], frozen' = frozen,
           call[c].iced => call'[c].iced /\ call'[c].active = call[c].active,
           call'[c].iced => call'[c].at \in IcedAt
    PROVE  IceInv'
<1>1. \A d \in Calls : call[d].iced => call'[d].iced /\ call'[d].active = call[d].active
  OBVIOUS
<1>2. NoLeftoverFreeze => NoLeftoverFreeze'
  BY SMT, <1>1 DEF NoLeftoverFreeze
<1>3. \A d \in Calls : call'[d].iced => call'[d].at \in IcedAt
  BY SMT DEF IceInv
<1> QED
  BY <1>2, <1>3 DEF IceInv

\* Every step keeps the account of freezes.
LEMMA IceInvStep ==
    ASSUME TypeInv, IceInv, [Next]_vars
    PROVE  IceInv'
<1> USE DEF TypeInv
<1>1. ASSUME NEW t \in Execs,
             \/ \E w \in Workspaces : ExecGet(t, w)
             \/ ExecStep(t) \/ ExecCancel(t) \/ JailWrite(t) \/ JailExit(t)
      PROVE  IceInv'
  <2>1. call' = call
    BY <1>1, ExecLeavesSnaps
  <2>2. \A u \in Execs : frozen'[u] => frozen[u]
    <3>1. CASE ExecCancel(t) \/ ExecWait(t)
      BY <3>1 DEF ExecCancel, ExecWait, JailT
    <3>2. CASE ~(ExecCancel(t) \/ ExecWait(t))
      BY <1>1, <3>2 DEF ExecStep, ExecGet, ExecLockFor, ExecTryLock, ExecConflict, ExecResume,
         ExecRestore, ExecRestoreFails, ExecMarkResumed, ExecNoResume, ExecAdmit, ExecReject, ExecTouch,
         ExecSpawn, ExecSpawnFails, ExecPublish, ExecUnregister, ExecFinish, JailWrite, JailExit, jailVars
    <3> QED
      BY <3>1, <3>2
  <2> QED
    BY <2>1, <2>2, IceExec
\* requests that neither freeze nor thaw
<1>2. ASSUME NEW c \in Calls,
             \/ \E o \in Ops, w \in Workspaces, n \in 1..MaxForks : CallGet(c, o, w, n)
             \/ \E o \in Ops, s \in SnapIds : CallGetSnap(c, o, s)
             \/ \E w \in Workspaces : CallCreate(c, w)
             \/ CallCancel(c) \/ (CallStep(c) /\ ~CallFreeze(c) /\ ~CallThaw(c))
      PROVE  IceInv'
  <2> DEFINE Keeps == /\ \A d \in Calls \ {c} : call'[d] = call[d]
                      /\ call[c].iced => call'[c].iced /\ call'[c].active = call[c].active
                      /\ call'[c].iced => call'[c].at \in IcedAt
  <2>a. call[c].iced => call[c].at \in IcedAt
    BY DEF IceInv
  <2> USE EndedCallFacts DEF CallT, CallState, CallMoves, CallEnds, IcedAt
  <2>1. ASSUME NEW o \in Ops, NEW w \in Workspaces, NEW n \in 1..MaxForks, CallGet(c, o, w, n) PROVE Keeps
    BY <2>a, <2>1 DEF CallGet, NewCall
  <2>2. ASSUME NEW o \in Ops, NEW s \in SnapIds, CallGetSnap(c, o, s) PROVE Keeps
    BY <2>a, <2>2 DEF CallGetSnap, NewCall
  <2>3. ASSUME NEW w \in Workspaces, CallCreate(c, w) PROVE Keeps
    BY <2>a, <2>3 DEF CallCreate, NewCall
  <2>4. ASSUME NEW w \in Workspaces, CallBuild(c, w) PROVE Keeps
    BY <2>a, <2>4 DEF CallBuild
  <2>5. ASSUME CallActive(c) PROVE Keeps
    BY <2>a, <2>5 DEF CallActive
  <2>6. ASSUME CallNoFreeze(c) PROVE Keeps
    BY <2>a, <2>6 DEF CallNoFreeze
  <2>7. ASSUME CallFreezeTimeout(c) PROVE Keeps
    BY <2>a, <2>7 DEF CallFreezeTimeout
  <2>8. ASSUME NEW s \in SnapIds, CallCopyBegin(c, s) PROVE Keeps
    BY <2>a, <2>8 DEF CallCopyBegin
  <2>9. ASSUME CallCopyMissing(c) PROVE Keeps
    BY <2>a, <2>9 DEF CallCopyMissing
  <2>10. ASSUME NEW x \in SUBSET Updates, NEW ok \in BOOLEAN, CallCopyEnd(c, x, ok) PROVE Keeps
    BY <2>a, <2>10 DEF CallCopyEnd
  <2>11. ASSUME CallInsertSnap(c) PROVE Keeps
    BY <2>a, <2>11 DEF CallInsertSnap
  <2>12. ASSUME CallParent(c) PROVE Keeps
    BY <2>a, <2>12 DEF CallParent
  <2>13. ASSUME CallInsert(c) PROVE Keeps
    BY <2>a, <2>13 DEF CallInsert
  <2>14. ASSUME \/ CallInsertSnapFails(c) \/ CallBuildFails(c) \/ CallInsertFails(c) \/ CallForget(c)
                \/ CallDropDir(c) \/ CallCancel(c) PROVE Keeps
    BY <2>a, <2>14 DEF CallInsertSnapFails, CallBuildFails, CallInsertFails, CallForget,
       CallDropDir, CallCancel
  <2>15. ASSUME CallMarkDeleted(c) PROVE Keeps
    BY ZenonT(30), <2>a, <2>15 DEF CallMarkDeleted
  <2>16. ASSUME CallRemoveDirs(c) \/ CallRemoveDirsFails(c) PROVE Keeps
    BY ZenonT(30), <2>a, <2>16 DEF CallRemoveDirs, CallRemoveDirsFails
  <2>17. ASSUME CallDropRow(c) PROVE Keeps
    BY ZenonT(30), <2>a, <2>17 DEF CallDropRow
  <2>18. Keeps
    BY <1>2, <2>1, <2>2, <2>3, <2>4, <2>5, <2>6, <2>7, <2>8, <2>9, <2>10, <2>11, <2>12, <2>13,
       <2>14, <2>15, <2>16, <2>17 DEF CallStep
  <2>19. CASE ~CallFreezeTimeout(c)
    <3>1. frozen' = frozen
      <4>1. ~CallFreeze(c) /\ ~CallThaw(c)
        <5>1. call[c].at \in {"new", "thawed", "building", "built", "marked", "rowless"}
              => ~CallFreeze(c) /\ ~CallThaw(c)
          BY DEF CallFreeze, CallThaw
        <5> QED
          BY <1>2, <5>1 DEF CallGet, CallGetSnap, CallCreate, CallCancel
      <4> QED
        BY <1>2, <2>19, <4>1, CallLeavesExecs
    <3> QED
      BY <2>18, <3>1, IceKeeps
  <2>20. CASE CallFreezeTimeout(c)
    <3>1. \A d \in Calls : call'[d].iced => call'[d].at \in IcedAt
      BY <2>18 DEF IceInv
    <3> QED
      BY <2>20, <3>1 DEF IceInv, CallFreezeTimeout
  <2> QED
    BY <2>19, <2>20
<1>3. ASSUME NEW c \in Calls, CallFreeze(c) PROVE IceInv'
  <2>1. /\ call'[c].at = "open" /\ call'[c].iced /\ call'[c].active = call[c].active
        /\ \A d \in Calls \ {c} : call'[d] = call[d]
    BY <1>3 DEF CallFreeze, CallT, CallState
  <2>2. ~call[c].iced
    BY <1>3 DEF CallFreeze, IceInv, IcedAt
  <2>3. \A t \in Execs : frozen'[t] => frozen[t] \/ t = call[c].active
    BY <1>3 DEF CallFreeze, JailT
  <2>4. \A d \in Calls : call'[d].iced => call'[d].at \in IcedAt
    BY <2>1 DEF IceInv, IcedAt
  <2>5. NoLeftoverFreeze => NoLeftoverFreeze'
    BY SMT, <2>1, <2>2, <2>3 DEF NoLeftoverFreeze
  <2> QED
    BY <2>4, <2>5 DEF IceInv
<1>4. ASSUME NEW c \in Calls, CallThaw(c) PROVE IceInv'
  <2>1. ~call'[c].iced /\ \A d \in Calls \ {c} : call'[d] = call[d]
    BY <1>4, EndedCallFacts DEF CallThaw, CallT, CallState
  <2>2. \A t \in Execs : frozen'[t] => frozen[t] /\ ~(call[c].iced /\ call[c].active = t)
    BY <1>4 DEF CallThaw, JailT
  <2>3. NoLeftoverFreeze => NoLeftoverFreeze'
    BY <2>1, <2>2 DEF NoLeftoverFreeze
  <2>4. \A d \in Calls : call'[d].iced => call'[d].at \in IcedAt
    BY <2>1 DEF IceInv
  <2> QED
    BY <2>3, <2>4 DEF IceInv
<1>5. ASSUME ReaperStep PROVE IceInv'
  BY <1>5, IceExec, ReaperLeavesExecs
<1>6. ASSUME NEW w \in Workspaces, IdleElapses(w) PROVE IceInv'
  BY <1>6, IceExec DEF IdleElapses, jailVars
<1>7. ASSUME Crash PROVE IceInv'
  <2>1. (\A t \in Execs : ~frozen'[t]) /\ \A c \in Calls : call'[c].iced => call'[c] = call[c]
    BY <1>7, EndedCallFacts DEF Crash
  <2> QED
    BY <2>1 DEF IceInv, NoLeftoverFreeze
<1>8. CASE UNCHANGED vars
  BY <1>8, IceExec DEF vars, jailVars
<1>9. ASSUME NEW c \in Calls, CallStep(c) PROVE IceInv'
  BY <1>9, <1>2, <1>3, <1>4
<1>10. CASE Client
  BY <1>10, <1>1, <1>2 DEF Client
<1> QED
  BY <1>1, <1>5, <1>6, <1>7, <1>8, <1>9, <1>10 DEF Next

\* "the cgroup is frozen before the copy and thawed afterwards - even if the copy errors":
\* as long as every freeze meets its deadline, a cgroup is frozen only while a capture
\* that is going to thaw it is under way, for any number of captures of one workspace.
THEOREM FreezesAreThawed ==
    ASSUME ~FreezeTimeouts PROVE Spec => []NoLeftoverFreeze
<1>1. Init => IceInv
  BY SMT DEF Init, IceInv, NoLeftoverFreeze, NewCall
<1>2. TypeInv /\ IceInv /\ [Next]_vars => (TypeInv /\ IceInv)'
  BY TypeInvStep, IceInvStep
<1>3. IceInv => NoLeftoverFreeze
  BY DEF IceInv
<1> QED
  BY <1>1, <1>2, <1>3, TypeInvInit, PTL DEF Spec

----------------------------------------------------------------------------
(* Captures of a frozen exec *)

CaptureAt == {"chosen", "open", "copying", "copied", "failed"}
PastAt == {"monitored", "waited", "unregistered", "done"}

\* What a capture knows: its workspace has a row, the exec it found published is still
\* that workspace's or has ended (a request never runs twice), and as long as an exec
\* that it froze is alive, that exec is frozen and source_dir is what the copy began with.
CapOf(c) ==
    LET w == call[c].ws
        a == call[c].active
    IN  /\ call[c].at = "got" /\ Captures(c) => status[w] # "absent"
        /\ call[c].at \in CaptureAt =>
              /\ status[w] # "absent"
              /\ a # None => ex[a].at \in PastAt /\ (ex[a].at # "done" => ex[a].ws = w)
        /\ call[c].iced =>
              /\ call[c].at \in CaptureAt \ {"chosen"} /\ a # None
              /\ jail[a] = "running" => frozen[a]
              /\ call[c].at = "copying" /\ jail[a] = "running" /\ Live(w) /\ w \notin Idling
                 => source[w] = call[c].copy

CapInv == \A c \in Calls : CapOf(c)

\* No two captures hold a freeze of one exec at the same time.
SoleFreezer ==
    \A c, d \in Calls : c # d /\ call[c].iced /\ call[d].iced => call[c].active # call[d].active

(* A capture that does not move keeps what it knows if rows do not go away, an exec
   that was published only ends, its freeze stays and the directory stays under it. *)
CapStays(c) ==
    LET w == call[c].ws
        a == call[c].active
    IN  /\ call'[c] = call[c]
        /\ \A v \in Workspaces : status[v] # "absent" => status'[v] # "absent"
        /\ \A t \in Execs : ex[t].at \in PastAt =>
              /\ ex'[t].at \in PastAt
              /\ ex'[t].at # "done" => ex[t].at # "done" /\ ex'[t].ws = ex[t].ws
              /\ jail'[t] = "running" => jail[t] = "running"
        /\ call[c].iced /\ frozen[a] /\ jail'[a] = "running" => frozen'[a]
        /\ /\ call[c].iced /\ call[c].at = "copying" /\ jail[a] = "running" /\ frozen[a]
           /\ status[w] # "absent" /\ status'[w] = "live" /\ w \notin Idling
           => status[w] = "live" /\ source'[w] = source[w]

\* Under those conditions it indeed keeps what it knows.
LEMMA CapKeeps ==
    ASSUME TypeInv, NEW c \in Calls, CapOf(c), CapStays(c)
    PROVE  CapOf(c)'
<1> DEFINE w == call[c].ws
           a == call[c].active
<1>1. call[c] \in CallState /\ CallRefs(call[c])
  BY DEF TypeInv, CallT
<1>2. a # None => a \in Execs
  BY <1>1 DEF CallState
<1>3. call[c].at \in CaptureAt \cup {"got"} => w \in Workspaces
  BY <1>1 DEF CallRefs, NamesWorkspaceAt, CaptureAt, CallAt
<1>4. (call[c].at = "got" /\ Captures(c) => status[w] # "absent")
      /\ (call[c].at \in CaptureAt => status[w] # "absent"
            /\ (a # None => ex[a].at \in PastAt /\ (ex[a].at # "done" => ex[a].ws = w)))
      /\ (call[c].iced => call[c].at \in CaptureAt \ {"chosen"} /\ a # None
            /\ (jail[a] = "running" => frozen[a])
            /\ (call[c].at = "copying" /\ jail[a] = "running" /\ Live(w) /\ w \notin Idling
                => source[w] = call[c].copy))
  BY DEF CapOf
<1>e. /\ call'[c] = call[c]
      /\ \A v \in Workspaces : status[v] # "absent" => status'[v] # "absent"
      /\ \A t \in Execs : ex[t].at \in PastAt =>
            /\ ex'[t].at \in PastAt
            /\ ex'[t].at # "done" => ex[t].at # "done" /\ ex'[t].ws = ex[t].ws
            /\ jail'[t] = "running" => jail[t] = "running"
      /\ call[c].iced /\ frozen[a] /\ jail'[a] = "running" => frozen'[a]
      /\ /\ call[c].iced /\ call[c].at = "copying" /\ jail[a] = "running" /\ frozen[a]
         /\ status[w] # "absent" /\ status'[w] = "live" /\ w \notin Idling
         => status[w] = "live" /\ source'[w] = source[w]
  BY DEF CapStays
<1>5. call[c].at = "got" /\ Captures(c) => status'[w] # "absent"
  BY <1>3, <1>4, <1>e
<1>6. call[c].at \in CaptureAt => status'[w] # "absent"
        /\ (a # None => ex'[a].at \in PastAt /\ (ex'[a].at # "done" => ex'[a].ws = w))
  BY <1>2, <1>3, <1>4, <1>e
<1>7. call[c].iced => call[c].at \in CaptureAt \ {"chosen"} /\ a # None
        /\ (jail'[a] = "running" => frozen'[a])
  BY <1>2, <1>4, <1>e
<1>8. call[c].iced /\ call[c].at = "copying" /\ jail'[a] = "running" /\ status'[w] = "live" /\ w \notin Idling
      => source'[w] = call[c].copy
  BY <1>2, <1>4, <1>e DEF Live
<1> HIDE DEF w, a
<1> QED
  BY <1>5, <1>6, <1>7, <1>8, <1>e DEF CapOf, Captures, Live, w, a

(* An exec that was published is a monitored one that goes on to its end, and its jail
   does not come back. *)
LEMMA ExecGoesOn ==
    ASSUME TypeInv, NEW t \in Execs,
           \/ \E w \in Workspaces : ExecGet(t, w)
           \/ ExecStep(t) \/ ExecCancel(t) \/ JailWrite(t) \/ JailExit(t)
    PROVE  \A u \in Execs : ex[u].at \in PastAt =>
              /\ ex'[u].at \in PastAt
              /\ ex'[u].at # "done" => ex[u].at # "done" /\ ex'[u].ws = ex[u].ws
              /\ jail'[u] = "running" => jail[u] = "running" /\ frozen'[u] = frozen[u]
<1> USE DEF TypeInv, PastAt
<1> DEFINE Past(u) == ex[u].at \in PastAt =>
              /\ ex'[u].at \in PastAt
              /\ ex'[u].at # "done" => ex[u].at # "done" /\ ex'[u].ws = ex[u].ws
              /\ jail'[u] = "running" => jail[u] = "running" /\ frozen'[u] = frozen[u]
<1>1. ASSUME ExecWait(t) PROVE \A u \in Execs : Past(u)
  BY <1>1 DEF ExecWait, ExecMoves, ExecT, ExecState, JailT
<1>2. ASSUME ExecUnregister(t) PROVE \A u \in Execs : Past(u)
  BY <1>2 DEF ExecUnregister, ExecMoves, ExecT, ExecState
<1>3. ASSUME ExecFinish(t) PROVE \A u \in Execs : Past(u)
  BY <1>3, ReleaseFacts DEF ExecFinish, jailVars
<1>4. ASSUME ExecCancel(t) PROVE \A u \in Execs : Past(u)
  BY <1>4, ReleaseFacts DEF ExecCancel, JailT
<1>5. ASSUME JailWrite(t) \/ JailExit(t) PROVE \A u \in Execs : Past(u)
  BY <1>5 DEF JailWrite, JailExit, execVars, jailVars, JailT
\* the others start from a handler that is not that far
<1>6. ASSUME ex[t].at \notin PastAt, \A u \in Execs \ {t} : ex'[u] = ex[u] /\ jail'[u] = jail[u],
             frozen' = frozen
      PROVE  \A u \in Execs : Past(u)
  BY <1>6
<1>7. ASSUME ExecSpawn(t) PROVE \A u \in Execs : Past(u)
  <2>1. ex[t].at \notin PastAt /\ (\A u \in Execs \ {t} : ex'[u] = ex[u] /\ jail'[u] = jail[u]) /\ frozen' = frozen
    BY <1>7 DEF ExecSpawn, ExecMoves, ExecT, JailT
  <2> QED
    BY <2>1, <1>6
<1>8. ASSUME ExecRestoreFails(t) \/ ExecReject(t) \/ ExecSpawnFails(t) PROVE \A u \in Execs : Past(u)
  <2>1. ex[t].at \notin PastAt /\ (\A u \in Execs \ {t} : ex'[u] = ex[u] /\ jail'[u] = jail[u]) /\ frozen' = frozen
    BY <1>8, ReleaseFacts DEF ExecRestoreFails, ExecReject, ExecSpawnFails, jailVars
  <2> QED
    BY <2>1, <1>6
<1>9. ASSUME \/ \E w \in Workspaces : ExecGet(t, w)
             \/ ExecLockFor(t) \/ ExecTryLock(t) \/ ExecConflict(t)
      PROVE \A u \in Execs : Past(u)
  <2>1. ex[t].at \notin PastAt /\ (\A u \in Execs \ {t} : ex'[u] = ex[u] /\ jail'[u] = jail[u]) /\ frozen' = frozen
    BY <1>9 DEF ExecGet, ExecLockFor, ExecTryLock, ExecConflict, ExecMoves, ExecT, jailVars
  <2> QED
    BY <2>1, <1>6
<1>10. ASSUME \/ ExecResume(t) \/ ExecRestore(t) \/ ExecMarkResumed(t) \/ ExecNoResume(t)
              \/ ExecAdmit(t) \/ ExecTouch(t) \/ ExecPublish(t)
       PROVE \A u \in Execs : Past(u)
  <2>1. ex[t].at \notin PastAt /\ (\A u \in Execs \ {t} : ex'[u] = ex[u] /\ jail'[u] = jail[u]) /\ frozen' = frozen
    BY <1>10 DEF ExecResume, ExecRestore, ExecMarkResumed, ExecNoResume, ExecAdmit, ExecTouch,
       ExecPublish, ExecMoves, ExecT, jailVars
  <2> QED
    BY <2>1, <1>6
<1> QED
  BY <1>1, <1>2, <1>3, <1>4, <1>5, <1>7, <1>8, <1>9, <1>10 DEF ExecStep

(* Execs change the rows of no workspace, and the directory of a live one without an idle
   timeout only by a jail's write. *)
LEMMA ExecSources ==
    ASSUME TypeInv, SafeInv, NEW t \in Execs,
           \/ \E w \in Workspaces : ExecGet(t, w)
           \/ ExecStep(t) \/ ExecCancel(t) \/ JailWrite(t) \/ JailExit(t)
    PROVE  /\ status' = status
           /\ \A w \in Workspaces \ Idling :
                 \/ source'[w] = source[w]
                 \/ jail[t] = "running" /\ ~frozen[t] /\ ex[t].ws = w
<1> USE DEF TypeInv
<1> DEFINE Src == \A w \in Workspaces \ Idling :
                 \/ source'[w] = source[w]
                 \/ jail[t] = "running" /\ ~frozen[t] /\ ex[t].ws = w
<1>1. ASSUME ExecRestore(t) PROVE status' = status /\ Src
  <2>1. ex[t].ws \in Idling
    BY <1>1 DEF ExecRestore, ExecMoves, ExecT, SafeInv, WorkInv
  <2> QED
    BY <1>1, <2>1 DEF ExecRestore, DiskT, rowVars
<1>2. ASSUME JailWrite(t) PROVE status' = status /\ Src
  BY <1>2 DEF JailWrite, DiskT, rowVars
<1>3. ASSUME ExecCancel(t) \/ JailExit(t) \/ ExecMarkResumed(t) \/ ExecTouch(t) PROVE status' = status /\ Src
  BY <1>3 DEF ExecCancel, JailExit, ExecMarkResumed, ExecTouch, rowVars, diskVars
<1>4. ASSUME \/ \E w \in Workspaces : ExecGet(t, w)
             \/ ExecLockFor(t) \/ ExecTryLock(t) \/ ExecConflict(t) \/ ExecResume(t) \/ ExecRestoreFails(t)
             \/ ExecNoResume(t) \/ ExecAdmit(t) \/ ExecReject(t)
      PROVE  status' = status /\ Src
  BY <1>4 DEF ExecGet, ExecLockFor, ExecTryLock, ExecConflict, ExecResume, ExecRestoreFails,
     ExecNoResume, ExecAdmit, ExecReject, rowVars, diskVars
<1>5. ASSUME \/ ExecSpawn(t) \/ ExecSpawnFails(t) \/ ExecPublish(t) \/ ExecWait(t)
             \/ ExecUnregister(t) \/ ExecFinish(t)
      PROVE  status' = status /\ Src
  BY <1>5 DEF ExecSpawn, ExecSpawnFails, ExecPublish, ExecWait, ExecUnregister, ExecFinish,
     rowVars, diskVars
<1> QED
  BY <1>1, <1>2, <1>3, <1>4, <1>5 DEF ExecStep

(* Exec handlers and jails: of the workspace under a frozen exec no other jail runs, so
   nobody writes. *)
LEMMA CapExec ==
    ASSUME TypeInv, SafeInv, CapInv, NEW t \in Execs,
           \/ \E w \in Workspaces : ExecGet(t, w)
           \/ ExecStep(t) \/ ExecCancel(t) \/ JailWrite(t) \/ JailExit(t)
    PROVE  CapInv'
<1> SUFFICES ASSUME NEW c \in Calls PROVE CapOf(c)'
  BY DEF CapInv
<1> DEFINE w == call[c].ws
           a == call[c].active
<1>1. call' = call /\ CapOf(c)
  BY ExecLeavesSnaps DEF CapInv
<1>2. \A u \in Execs : ex[u].at \in PastAt =>
              /\ ex'[u].at \in PastAt
              /\ ex'[u].at # "done" => ex[u].at # "done" /\ ex'[u].ws = ex[u].ws
              /\ jail'[u] = "running" => jail[u] = "running" /\ frozen'[u] = frozen[u]
  BY ExecGoesOn
<1>3. /\ status' = status
      /\ \A v \in Workspaces \ Idling :
            \/ source'[v] = source[v]
            \/ jail[t] = "running" /\ ~frozen[t] /\ ex[t].ws = v
  BY ExecSources
<1>4. call[c].iced => /\ a \in Execs /\ w \in Workspaces
                      /\ ex[a].at \in PastAt /\ (ex[a].at # "done" => ex[a].ws = w)
  <2>1. call[c] \in CallState /\ CallRefs(call[c])
    BY DEF TypeInv, CallT
  <2>2. call[c].iced => call[c].at \in CaptureAt /\ a # None
    BY <1>1 DEF CapOf
  <2>3. call[c].iced => w \in Workspaces
    BY <2>1, <2>2 DEF CallRefs, NamesWorkspaceAt, CaptureAt, CallAt
  <2>4. call[c].iced => a \in Execs
    BY <2>1, <2>2 DEF CallState
  <2> QED
    BY <1>1, <2>2, <2>3, <2>4 DEF CapOf
<1>5. ASSUME call[c].iced, jail[a] = "running", frozen[a], status[w] = "live", w \notin Idling
      PROVE  source'[w] = source[w]
  <2>1. SUFFICES ASSUME jail[t] = "running", ~frozen[t], ex[t].ws = w PROVE FALSE
    BY <1>3, <1>4, <1>5
  <2>2. ex[a].at \in {"spawned", "monitored"} /\ ex[t].at \in {"spawned", "monitored"}
    BY <1>4, <1>5, <2>1 DEF SafeInv, ExecInv
  <2>3. ex[a].ws = w /\ ex[a].at \in LockedAt /\ ex[t].at \in LockedAt
    BY <1>4, <1>5, <2>2 DEF LockedAt
  <2>4. a # t
    BY <1>5, <2>1
  <2> HIDE DEF a, w
  <2>5. ~Live(w)
    BY <1>4, <1>5, <2>1, <2>3, <2>4, SoleLocked DEF SafeInv
  <2> QED
    BY <1>5, <2>5 DEF Live
<1>6. call[c].iced /\ frozen[a] /\ jail'[a] = "running" => frozen'[a]
  BY <1>2, <1>4
<1>7. /\ call[c].iced /\ call[c].at = "copying" /\ jail[a] = "running" /\ frozen[a]
      /\ status[w] # "absent" /\ status'[w] = "live" /\ w \notin Idling
      => status[w] = "live" /\ source'[w] = source[w]
  BY <1>3, <1>5
<1>8. \A u \in Execs : ex[u].at \in PastAt =>
              /\ ex'[u].at \in PastAt
              /\ ex'[u].at # "done" => ex[u].at # "done" /\ ex'[u].ws = ex[u].ws
              /\ jail'[u] = "running" => jail[u] = "running"
  BY <1>2
<1>9. call'[c] = call[c] /\ \A v \in Workspaces : status[v] # "absent" => status'[v] # "absent"
  BY <1>1, <1>3
<1>10. CapStays(c)
  BY <1>6, <1>7, <1>8, <1>9 DEF CapStays
<1> QED
  BY <1>1, <1>10, CapKeeps

(* The other requests change the rows and directories of new and of deleted workspaces. *)
LEMMA CallLeavesLive ==
    ASSUME TypeInv, SafeInv, NEW c \in Calls,
           \/ CallStep(c) \/ CallCancel(c)
           \/ \E o \in Ops, w \in Workspaces, n \in 1..MaxForks : CallGet(c, o, w, n)
           \/ \E o \in Ops, s \in SnapIds : CallGetSnap(c, o, s)
           \/ \E w \in Workspaces : CallCreate(c, w)
    PROVE  \A w \in Workspaces : status[w] # "absent" =>
              /\ status'[w] # "absent"
              /\ status'[w] = "live" => status[w] = "live" /\ source'[w] = source[w]
<1> USE DEF TypeInv
<1> DEFINE Safe == \A w \in Workspaces : status[w] # "absent" =>
              /\ status'[w] # "absent"
              /\ status'[w] = "live" => status[w] = "live" /\ source'[w] = source[w]
<1>1. ASSUME UNCHANGED <<status, source>> PROVE Safe
  BY <1>1
<1>2. ASSUME NEW w \in Workspaces, CallBuild(c, w) \/ CallCreate(c, w) PROVE Safe
  BY <1>2 DEF CallBuild, CallCreate, FreshFor, DiskT, rowVars
<1>3. ASSUME CallInsert(c) PROVE Safe
  BY <1>3 DEF CallInsert, SafeInv, CallInv, RowT, diskVars
<1>4. ASSUME CallInsertFails(c) PROVE Safe
  BY <1>4 DEF CallInsertFails, CallEnds, SafeInv, CallInv, DiskT, rowVars
<1>5. ASSUME CallMarkDeleted(c) PROVE Safe
  BY <1>5 DEF CallMarkDeleted, RowT, diskVars
<1>6. ASSUME CallRemoveDirs(c) PROVE Safe
  BY <1>6 DEF CallRemoveDirs, CallMoves, SafeInv, CallInv, DiskT, rowVars
<1>7. ASSUME \/ CallActive(c) \/ CallFreeze(c) \/ CallNoFreeze(c) \/ CallFreezeTimeout(c)
             \/ \E s \in SnapIds : CallCopyBegin(c, s)
             \/ CallCopyMissing(c)
             \/ \E x \in SUBSET Updates, ok \in BOOLEAN : CallCopyEnd(c, x, ok)
             \/ CallThaw(c)
      PROVE  Safe
  BY <1>1, <1>7 DEF CallActive, CallFreeze, CallNoFreeze, CallFreezeTimeout, CallCopyBegin,
     CallCopyMissing, CallCopyEnd, CallThaw, rowVars, diskVars
<1>8. ASSUME \/ CallInsertSnap(c) \/ CallInsertSnapFails(c)
             \/ CallParent(c) \/ CallBuildFails(c) \/ CallRemoveDirsFails(c) \/ CallForget(c)
             \/ CallDropRow(c) \/ CallDropDir(c) \/ CallCancel(c)
             \/ \E o \in Ops, w \in Workspaces, n \in 1..MaxForks : CallGet(c, o, w, n)
             \/ \E o \in Ops, s \in SnapIds : CallGetSnap(c, o, s)
      PROVE  Safe
  BY <1>1, <1>8 DEF CallInsertSnap, CallInsertSnapFails, CallParent, CallBuildFails,
     CallRemoveDirsFails, CallForget, CallDropRow, CallDropDir, CallCancel, CallGet, CallGetSnap,
     rowVars, diskVars
<1> QED
  BY <1>2, <1>3, <1>4, <1>5, <1>6, <1>7, <1>8 DEF CallStep

(* The other requests: only a capture of the same exec thaws it. *)
LEMMA CapCallOthers ==
    ASSUME TypeInv, SafeInv, CapInv, SoleFreezer, NEW c \in Calls,
           \/ CallStep(c) \/ CallCancel(c)
           \/ \E o \in Ops, w \in Workspaces, n \in 1..MaxForks : CallGet(c, o, w, n)
           \/ \E o \in Ops, s \in SnapIds : CallGetSnap(c, o, s)
           \/ \E w \in Workspaces : CallCreate(c, w),
           NEW d \in Calls, d # c, call'[d] = call[d]
    PROVE  CapOf(d)'
<1> DEFINE w == call[d].ws
           a == call[d].active
<1>1. CapOf(d)
  BY DEF CapInv
<1>2. /\ ex' = ex /\ jail' = jail
      /\ frozen' = frozen \/ CallFreeze(c) \/ CallFreezeTimeout(c) \/ CallThaw(c)
  BY CallLeavesExecs
<1>3. \A v \in Workspaces : status[v] # "absent" =>
         /\ status'[v] # "absent"
         /\ status'[v] = "live" => status[v] = "live" /\ source'[v] = source[v]
  BY CallLeavesLive
<1>4. call[d].iced => a \in Execs /\ w \in Workspaces
  <2>1. call[d] \in CallState /\ CallRefs(call[d])
    BY DEF TypeInv, CallT
  <2>2. call[d].iced => call[d].at \in CaptureAt /\ a # None
    BY <1>1 DEF CapOf
  <2> QED
    BY <2>1, <2>2 DEF CallState, CallRefs, NamesWorkspaceAt, CaptureAt, CallAt
<1>5. call[d].iced /\ frozen[a] => frozen'[a]
  <2>1. CASE CallFreeze(c) \/ CallFreezeTimeout(c)
    BY <1>4, <2>1 DEF CallFreeze, CallFreezeTimeout, TypeInv, JailT
  <2>2. CASE CallThaw(c)
    BY <1>4, <2>2 DEF CallThaw, SoleFreezer, TypeInv, JailT
  <2> QED
    BY <1>2, <2>1, <2>2
<1>6. \A t \in Execs : ex[t].at \in PastAt =>
         /\ ex'[t].at \in PastAt
         /\ ex'[t].at # "done" => ex[t].at # "done" /\ ex'[t].ws = ex[t].ws
         /\ jail'[t] = "running" => jail[t] = "running"
  BY <1>2
<1>7. /\ call[d].iced /\ call[d].at = "copying" /\ jail[a] = "running" /\ frozen[a]
      /\ status[w] # "absent" /\ status'[w] = "live" /\ w \notin Idling
      => status[w] = "live" /\ source'[w] = source[w]
  BY <1>3, <1>4
<1>8. \A v \in Workspaces : status[v] # "absent" => status'[v] # "absent"
  BY <1>3
<1>9. CapStays(d)
  BY <1>5, <1>6, <1>7, <1>8 DEF CapStays
<1> QED
  BY <1>1, <1>9, CapKeeps

(* A request that is no capture any more, or not yet one, knows nothing. *)
LEMMA CapNone ==
    ASSUME NEW c \in Calls, call'[c].at \notin CaptureAt, ~call'[c].iced,
           call'[c].at = "got" => status'[call'[c].ws] # "absent" \/ ~Captures(c)'
    PROVE  CapOf(c)'
  BY DEF CapOf

(* A capture's own steps. *)
LEMMA CapCall ==
    ASSUME TypeInv, SafeInv, CleanInv, CapInv, SoleFreezer, NEW c \in Calls,
           \/ CallStep(c) \/ CallCancel(c)
           \/ \E o \in Ops, w \in Workspaces, n \in 1..MaxForks : CallGet(c, o, w, n)
           \/ \E o \in Ops, s \in SnapIds : CallGetSnap(c, o, s)
           \/ \E w \in Workspaces : CallCreate(c, w)
    PROVE  CapInv'
<1> USE DEF TypeInv
<1> DEFINE w == call[c].ws
           a == call[c].active
           Rest == \A d \in Calls \ {c} : call'[d] = call[d]
           Quiet == /\ call'[c].at \notin CaptureAt \cup {"got"} /\ ~call'[c].iced /\ Rest
<1>1. call[c] \in CallState /\ CallRefs(call[c]) /\ CapOf(c)
  BY DEF CallT, CapInv
<1>2. /\ call[c].at \notin CaptureAt \ {"chosen"} => ~call[c].iced
      /\ call[c].at \in CaptureAt => status[w] # "absent"
      /\ call[c].at \in CaptureAt /\ a # None => ex[a].at \in PastAt /\ (ex[a].at # "done" => ex[a].ws = w)
  BY <1>1 DEF CapOf
<1>3. call[c].at \in CaptureAt \cup {"got"} => w \in Workspaces
  BY <1>1 DEF CallRefs, NamesWorkspaceAt, CaptureAt, CallAt
<1>4. a # None => a \in Execs
  BY <1>1 DEF CallState
<1>5. ex' = ex /\ jail' = jail
  BY CallLeavesExecs
<1>6. ASSUME Rest, CapOf(c)' PROVE CapInv'
  BY <1>6, CapCallOthers DEF CapInv
<1>7. ASSUME Quiet PROVE CapInv'
  BY <1>6, <1>7, CapNone
\* the steps of a capture
<1>8. ASSUME CallActive(c) PROVE CapInv'
  <2>1. /\ call[c].at = "got" /\ Captures(c) /\ call'[c].at = "chosen" /\ call'[c].ws = w
        /\ call'[c].active = cgroups[w] /\ call'[c].iced = call[c].iced /\ Rest
    BY <1>8 DEF CallActive, CallT, CallState
  <2>2. status' = status /\ ~call'[c].iced /\ status[w] # "absent"
    BY <1>1, <1>2, <1>8, <2>1 DEF CallActive, rowVars, CaptureAt, CapOf
  <2>3. cgroups[w] # None =>
           ex[cgroups[w]].at \in PastAt /\ (ex[cgroups[w]].at # "done" => ex[cgroups[w]].ws = w)
    <3>1. w \in Workspaces /\ cgroups[w] \in Execs \cup {None}
      BY <1>3, <2>1 DEF JailT
    <3>2. RegisteredAt \subseteq PastAt
      BY DEF RegisteredAt, PastAt
    <3> QED
      BY <3>1, <3>2 DEF CleanInv, PublishInv
  <2>4. CapOf(c)'
    <3> HIDE DEF w
    <3> QED
      BY <1>5, <2>1, <2>2, <2>3 DEF CapOf
  <2> QED
    BY <1>6, <2>1, <2>4
<1>9. ASSUME CallFreeze(c) PROVE CapInv'
  <2>1. /\ call[c].at = "chosen" /\ a # None /\ call'[c].at = "open" /\ call'[c].ws = w
        /\ call'[c].active = a /\ Rest
    BY <1>9 DEF CallFreeze, CallT, CallState
  <2>2. status' = status /\ frozen'[a]
    BY <1>4, <1>9 DEF CallFreeze, rowVars, JailT
  <2>3. /\ status[w] # "absent" /\ ex[a].at \in PastAt /\ (ex[a].at # "done" => ex[a].ws = w)
    BY <1>2, <2>1 DEF CaptureAt
  <2>4. CapOf(c)'
    <3> HIDE DEF w, a
    <3> QED
      BY <1>5, <2>1, <2>2, <2>3 DEF CapOf, CaptureAt
  <2> QED
    BY <1>6, <2>1, <2>4
<1>10. ASSUME CallNoFreeze(c) \/ CallFreezeTimeout(c) PROVE CapInv'
  <2>1. /\ call[c].at = "chosen" /\ call'[c].at = "open" /\ call'[c].ws = w
        /\ call'[c].active = a /\ call'[c].iced = call[c].iced /\ Rest
    BY ZenonT(30), <1>10 DEF CallNoFreeze, CallFreezeTimeout, CallMoves, CallT, CallState
  <2>2. status' = status /\ ~call'[c].iced
    BY <1>2, <1>10, <2>1 DEF CallNoFreeze, CallFreezeTimeout, rowVars
  <2>3. status[w] # "absent" /\ (a # None => ex[a].at \in PastAt /\ (ex[a].at # "done" => ex[a].ws = w))
    BY <1>2, <2>1 DEF CaptureAt
  <2>4. CapOf(c)'
    <3> HIDE DEF w, a
    <3> QED
      BY <1>5, <2>1, <2>2, <2>3 DEF CapOf
  <2> QED
    BY <1>6, <2>1, <2>4
<1>11. ASSUME \/ \E s \in SnapIds : CallCopyBegin(c, s)
              \/ CallCopyMissing(c)
              \/ \E x \in SUBSET Updates, ok \in BOOLEAN : CallCopyEnd(c, x, ok)
       PROVE  CapInv'
  <2> DEFINE Copies == /\ call[c].at \in {"open", "copying"} /\ call'[c].at \in {"copying", "copied", "failed"}
                       /\ call'[c].ws = w /\ call'[c].active = a /\ call'[c].iced = call[c].iced /\ Rest
                       /\ call'[c].at = "copying" => call'[c].copy = source[w]
                       /\ UNCHANGED <<status, frozen, source>>
  <2>1. ASSUME NEW s \in SnapIds, CallCopyBegin(c, s) PROVE Copies
    BY ZenonT(30), <2>1 DEF CallCopyBegin, CallT, CallState, rowVars, diskVars, jailVars
  <2>2. ASSUME CallCopyMissing(c) PROVE Copies
    BY <2>2 DEF CallCopyMissing, CallMoves, CallT, CallState, rowVars, diskVars, jailVars
  <2>3. ASSUME NEW x \in SUBSET Updates, NEW ok \in BOOLEAN, CallCopyEnd(c, x, ok) PROVE Copies
    BY <2>3 DEF CallCopyEnd, CallT, CallState, rowVars, diskVars, jailVars
  <2>4. Copies
    BY <1>11, <2>1, <2>2, <2>3
  <2>5. /\ status[w] # "absent"
        /\ a # None => ex[a].at \in PastAt /\ (ex[a].at # "done" => ex[a].ws = w)
        /\ call[c].iced => a # None /\ (jail[a] = "running" => frozen[a])
    BY <1>1, <2>4 DEF CapOf, CaptureAt
  <2>6. CapOf(c)'
    <3> HIDE DEF w, a
    <3> QED
      BY <1>5, <2>4, <2>5 DEF CapOf, CaptureAt, Live
  <2> QED
    BY <1>6, <2>4, <2>6
<1>12. ASSUME CallThaw(c) PROVE CapInv'
  <2>1. Quiet
    BY <1>12, EndedCallFacts DEF CallThaw, CallT, CallState, CaptureAt
  <2> QED
    BY <1>7, <2>1
\* the first read
<1>13. ASSUME NEW o \in Ops, NEW v \in Workspaces, NEW n \in 1..MaxForks, CallGet(c, o, v, n) PROVE CapInv'
  <2>1. /\ call'[c].at = "got" /\ call'[c].ws = v /\ ~call'[c].iced /\ Rest
        /\ status' = status /\ status[v] = "live"
    BY <1>13 DEF CallGet, NewCall, CallT, rowVars
  <2>2. CapOf(c)'
    BY <2>1, CapNone DEF CaptureAt
  <2> QED
    BY <1>6, <2>1, <2>2
<1>14. ASSUME NEW o \in Ops, NEW s \in SnapIds, CallGetSnap(c, o, s) PROVE CapInv'
  <2>1. /\ call'[c].at \in {"got", "owned"} /\ call'[c].op = o /\ ~call'[c].iced /\ Rest
        /\ o \in {"restore", "drop"}
    BY <1>14 DEF CallGetSnap, NewCall, CallT
  <2>2. ~Captures(c)'
    BY <2>1 DEF Captures
  <2>3. CapOf(c)'
    BY <2>1, <2>2, CapNone DEF CaptureAt
  <2> QED
    BY <1>6, <2>1, <2>3
\* what is not of a capture
<1>15. ASSUME NEW v \in Workspaces, CallCreate(c, v) \/ CallBuild(c, v) PROVE CapInv'
  <2>1. CASE CallCreate(c, v)
    BY <1>7, <2>1 DEF CallCreate, NewCall, CallT, CaptureAt
  <2>2. CASE CallBuild(c, v)
    <3>1. call'[c].at = "built" /\ call'[c].iced = call[c].iced /\ call[c].at = "building" /\ Rest
      BY <2>2 DEF CallBuild, CallT, CallState
    <3> QED
      BY <1>2, <1>7, <3>1 DEF CaptureAt
  <2> QED
    BY <1>15, <2>1, <2>2
<1>16. ASSUME CallInsertSnap(c) \/ CallParent(c) \/ CallInsert(c) PROVE CapInv'
  <2>1. /\ call[c].at \in {"thawed", "owned", "built"} /\ Rest
        /\ \/ call'[c] = EndedCall
           \/ call'[c].at = "building" /\ call'[c].iced = call[c].iced
    <3>1. CASE CallInsertSnap(c)
      BY <3>1 DEF CallInsertSnap, CallT, CallState
    <3>2. CASE CallParent(c)
      BY <3>2 DEF CallParent, CallT, CallState
    <3>3. CASE CallInsert(c)
      BY <3>3 DEF CallInsert, CallT, CallState
    <3> QED
      BY <1>16, <3>1, <3>2, <3>3
  <2> QED
    BY <1>2, <1>7, <2>1, EndedCallFacts DEF CaptureAt
<1>17. ASSUME \/ CallInsertSnapFails(c) \/ CallBuildFails(c) \/ CallInsertFails(c) \/ CallForget(c)
              \/ CallDropDir(c) \/ CallCancel(c) PROVE CapInv'
  <2>1. Quiet
    BY <1>17, EndedCallFacts DEF CallInsertSnapFails, CallBuildFails, CallInsertFails, CallForget,
       CallDropDir, CallCancel, CallEnds, CallT, CaptureAt
  <2> QED
    BY <1>7, <2>1
<1>18. ASSUME CallMarkDeleted(c) \/ CallRemoveDirs(c) \/ CallRemoveDirsFails(c) \/ CallDropRow(c) PROVE CapInv'
  <2>1. Quiet
    BY SMT, <1>2, <1>18, EndedCallFacts DEF CallMarkDeleted, CallRemoveDirs, CallRemoveDirsFails, CallDropRow,
       CallEnds, CallMoves, CallT, CallState, CaptureAt
  <2> QED
    BY <1>7, <2>1
<1> QED
  BY <1>8, <1>9, <1>10, <1>11, <1>12, <1>13, <1>14, <1>15, <1>16, <1>17, <1>18 DEF CallStep

(* Every step of the server, as long as no two captures freeze one exec at once. *)
LEMMA CapInvStep ==
    ASSUME TypeInv, SafeInv, CleanInv, CapInv, SoleFreezer, [Next]_vars
    PROVE  CapInv'
<1> USE DEF TypeInv
<1>1. ASSUME UNCHANGED <<status, ex, jail, frozen, call>>,
             \A w \in Workspaces \ Idling : source'[w] = source[w]
      PROVE  CapInv'
  <2> SUFFICES ASSUME NEW c \in Calls PROVE CapOf(c)'
    BY DEF CapInv
  <2>1. CapOf(c) /\ call[c] \in CallState /\ CallRefs(call[c])
    BY DEF CapInv, CallT
  <2>2. call[c].iced => call[c].ws \in Workspaces
    BY <2>1 DEF CapOf, CallRefs, NamesWorkspaceAt, CaptureAt, CallAt
  <2>3. CapStays(c)
    BY <1>1, <2>2 DEF CapStays
  <2> QED
    BY <2>1, <2>3, CapKeeps
<1>2. CASE ReaperStep
  <2>1. UNCHANGED <<ex, jail, frozen, call>>
    BY <1>2, ReaperLeavesExecs
  <2>2. status' = status
    BY <1>2 DEF ReaperStep, ReaperList, ReaperCopyBegin, ReaperCopyMissing, ReaperCopyEnd, ReaperWipe,
       ReaperInsert, ReaperInsertFails, ReaperMarkPaused, rowVars
  <2>3. \A w \in Workspaces \ Idling : source'[w] = source[w]
    <3>1. ASSUME NEW x \in SUBSET Updates, ReaperWipe(x) PROVE \A w \in Workspaces \ Idling : source'[w] = source[w]
      <4>1. reaper.ws \in Idling
        BY <3>1 DEF ReaperWipe, SafeInv, WorkInv
      <4> QED
        BY <3>1, <4>1 DEF ReaperWipe, DiskT
    <3>2. ASSUME \/ ReaperList
                 \/ \E w \in Workspaces : (\E s \in SnapIds : ReaperCopyBegin(w, s)) \/ ReaperCopyMissing(w)
                 \/ \E x \in SUBSET Updates, ok \in BOOLEAN : ReaperCopyEnd(x, ok)
                 \/ ReaperInsert \/ ReaperInsertFails \/ ReaperMarkPaused
          PROVE  source' = source
      BY <3>2 DEF ReaperList, ReaperCopyBegin, ReaperCopyMissing, ReaperCopyEnd,
         ReaperInsert, ReaperInsertFails, ReaperMarkPaused, diskVars
    <3> QED
      BY <1>2, <3>1, <3>2 DEF ReaperStep
  <2> QED
    BY <1>1, <2>1, <2>2, <2>3
<1>3. ASSUME NEW w \in Workspaces, IdleElapses(w) PROVE CapInv'
  BY <1>1, <1>3 DEF IdleElapses, diskVars, execVars, jailVars
<1>4. CASE Crash
  <2>1. \A c \in Calls : ~call'[c].iced /\ call'[c].at \notin CaptureAt \cup {"got"}
    <3>1. \A c \in Calls : call[c].at = "new" => ~call[c].iced
      BY DEF CapInv, CapOf, CaptureAt
    <3>2. \A c \in Calls : call'[c] = EndedCall \/ (call[c].at = "new" /\ call'[c] = call[c])
      BY <1>4 DEF Crash
    <3> QED
      BY <3>1, <3>2, EndedCallFacts DEF CaptureAt
  <2> QED
    BY <2>1, CapNone DEF CapInv
<1>5. CASE UNCHANGED vars
  BY <1>1, <1>5 DEF vars, rowVars, diskVars, execVars, jailVars
<1>6. CASE Client
  BY <1>6, CapExec, CapCall DEF Client
<1> QED
  BY <1>2, <1>3, <1>4, <1>5, <1>6, CapExec, CapCall DEF Next

\* While the exec a capture froze is alive, the live default workspace does not change
\* under the copy - for any number of execs, requests, crashes and missed freeze
\* deadlines, as long as no two captures hold a freeze of one exec at the same time:
\* CallThaw writes 0 to cgroup.freeze whoever else had written 1.
THEOREM FrozenCopiesAreImages == Spec /\ []SoleFreezer => []FrozenCopyConsistent
<1>1. Init => CapInv
  BY SMT DEF Init, CapInv, CapOf, NewCall, CaptureAt
<1>2. /\ TypeInv /\ SafeInv /\ CleanInv /\ CapInv /\ SoleFreezer /\ [Next]_vars
      => CapInv'
  BY CapInvStep
<1>3. TypeInv /\ CleanInv /\ [Next]_vars => CleanInv'
  BY CleanInvStep
<1>4. CapInv => FrozenCopyConsistent
  BY DEF CapInv, CapOf, FrozenCopyConsistent
<1> QED
  BY <1>1, <1>2, <1>3, <1>4, SafeInvAlways, CleanInvInit, PTL DEF Spec

\* One capture at a time is alone with its freeze, so its copy is a point-in-time image of
\* the running jail's directory whatever execs, deletes and restarts do meanwhile.
THEOREM FrozenCopyOfOneCapture ==
    ASSUME \A c, d \in Calls : c = d PROVE Spec => []FrozenCopyConsistent
<1>1. SoleFreezer
  BY SMT DEF SoleFreezer
<1> QED
  BY <1>1, FrozenCopiesAreImages, PTL

----------------------------------------------------------------------------
(* What the reaper saves before it wipes *)

(* Only execs and the reaper pause and resume. *)
LEMMA CallLeavesPaused ==
    ASSUME NEW c \in Calls,
           \/ CallStep(c) \/ CallCancel(c)
           \/ \E o \in Ops, w \in Workspaces, n \in 1..MaxForks : CallGet(c, o, w, n)
           \/ \E o \in Ops, s \in SnapIds : CallGetSnap(c, o, s)
           \/ \E w \in Workspaces : CallCreate(c, w)
    PROVE  paused' = paused /\ reaper' = reaper
<1> USE DEF rowVars
<1>1. CASE \/ CallActive(c) \/ CallFreeze(c) \/ CallNoFreeze(c) \/ CallFreezeTimeout(c)
           \/ (\E s \in SnapIds : CallCopyBegin(c, s)) \/ CallCopyMissing(c)
           \/ (\E x \in SUBSET Updates, ok \in BOOLEAN : CallCopyEnd(c, x, ok)) \/ CallThaw(c)
  BY <1>1 DEF CallActive, CallFreeze, CallNoFreeze, CallFreezeTimeout, CallCopyBegin,
     CallCopyMissing, CallCopyEnd, CallThaw
<1>2. CASE \/ CallInsertSnap(c) \/ CallInsertSnapFails(c) \/ CallParent(c) \/ CallBuildFails(c)
           \/ (\E w \in Workspaces : CallBuild(c, w)) \/ CallInsert(c) \/ CallInsertFails(c)
  BY <1>2 DEF CallInsertSnap, CallInsertSnapFails, CallParent, CallBuildFails, CallBuild,
     CallInsert, CallInsertFails
<1>3. CASE \/ CallMarkDeleted(c) \/ CallRemoveDirs(c) \/ CallRemoveDirsFails(c) \/ CallForget(c)
           \/ CallDropRow(c) \/ CallDropDir(c) \/ CallCancel(c)
  BY <1>3 DEF CallMarkDeleted, CallRemoveDirs, CallRemoveDirsFails, CallForget,
     CallDropRow, CallDropDir, CallCancel
<1>4. CASE \/ \E o \in Ops, w \in Workspaces, n \in 1..MaxForks : CallGet(c, o, w, n)
           \/ \E o \in Ops, s \in SnapIds : CallGetSnap(c, o, s)
           \/ \E w \in Workspaces : CallCreate(c, w)
  BY <1>4 DEF CallGet, CallGetSnap, CallCreate
<1> QED
  BY <1>1, <1>2, <1>3, <1>4 DEF CallStep

\* An exec that is about to restore decided so on a row that is still paused.
FreshRow == \A t \in Execs : ex[t].at = "resuming" => paused[ex[t].ws]

\* What the reaper has in hand is not paused, each workspace once.  What it is copying
\* has lost nothing since the copy began, unless the directory is gone; what it has
\* copied is in the snapshot.
PauseInv ==
    /\ \A w \in reaper.queue : ~paused[w]
    /\ reaper.at \notin {"idle", "scan"} => ~paused[reaper.ws] /\ reaper.ws \notin reaper.queue
    /\ reaper.at = "copying" =>
          /\ reaper.copy # NoDir
          /\ source[reaper.ws] = NoDir \/ reaper.copy \subseteq source[reaper.ws]
    /\ reaper.at = "copied" => reaper.copy # NoDir /\ reaper.copy \subseteq snapDir[reaper.snap]

(* A step of somebody else: nothing becomes paused, the directory under the copy grows
   or goes, and the snapshot stays. *)
LEMMA PauseKeeps ==
    ASSUME TypeInv, PauseInv, reaper' = reaper,
           \A w \in Workspaces : paused'[w] => paused[w],
           reaper.at = "copying" =>
              \/ source'[reaper.ws] = NoDir
              \/ source[reaper.ws] # NoDir /\ source[reaper.ws] \subseteq source'[reaper.ws],
           reaper.at = "copied" => snapDir'[reaper.snap] = snapDir[reaper.snap]
    PROVE  PauseInv'
<1>1. reaper.queue \in SUBSET Workspaces /\ (reaper.at \notin {"idle", "scan"} => reaper.ws \in Workspaces)
  BY DEF TypeInv, ReapT, ReaperState
<1>2. \A w \in reaper.queue : ~paused'[w]
  BY <1>1 DEF PauseInv
<1>3. reaper.at \notin {"idle", "scan"} => ~paused'[reaper.ws] /\ reaper.ws \notin reaper.queue
  BY <1>1 DEF PauseInv
<1>4. reaper.at = "copying" =>
         reaper.copy # NoDir /\ (source'[reaper.ws] = NoDir \/ reaper.copy \subseteq source'[reaper.ws])
  BY DEF PauseInv
<1>5. reaper.at = "copied" => reaper.copy # NoDir /\ reaper.copy \subseteq snapDir'[reaper.snap]
  BY DEF PauseInv
<1> QED
  BY <1>2, <1>3, <1>4, <1>5 DEF PauseInv

(* A handler resumes only a paused workspace, which the reaper does not have in hand;
   a jail only adds to its directory. *)
LEMMA PauseExec ==
    ASSUME TypeInv, PauseInv, FreshRow, NEW t \in Execs,
           \/ \E w \in Workspaces : ExecGet(t, w)
           \/ ExecStep(t) \/ ExecCancel(t) \/ JailWrite(t) \/ JailExit(t)
    PROVE  PauseInv'
<1> USE DEF TypeInv
<1>1. reaper' = reaper /\ snapDir' = snapDir
  BY ExecLeavesSnaps
<1>2. reaper.at = "copying" => reaper.ws \in Workspaces /\ ~paused[reaper.ws]
  BY DEF ReapT, PauseInv
<1>3. ASSUME ExecRestore(t) PROVE PauseInv'
  <2>1. ex[t].ws \in Workspaces /\ paused[ex[t].ws]
    BY <1>3 DEF ExecRestore, ExecMoves, ExecT, FreshRow
  <2>2. paused' = paused /\ (reaper.at = "copying" => source'[reaper.ws] = source[reaper.ws])
    BY <1>2, <1>3, <2>1 DEF ExecRestore, DiskT, rowVars
  <2> QED
    BY <1>1, <2>2, PauseKeeps
<1>4. ASSUME JailWrite(t) PROVE PauseInv'
  <2>1. paused' = paused
    BY <1>4 DEF JailWrite, rowVars
  <2>2. reaper.at = "copying" => \/ source'[reaper.ws] = source[reaper.ws]
                                 \/ source[reaper.ws] # NoDir /\ source[reaper.ws] \subseteq source'[reaper.ws]
    BY <1>2, <1>4 DEF JailWrite, DiskT
  <2> QED
    BY <1>1, <2>1, <2>2, PauseKeeps
<1>5. ASSUME ExecMarkResumed(t) PROVE PauseInv'
  <2>1. source' = source /\ \A w \in Workspaces : paused'[w] => paused[w]
    BY <1>5 DEF ExecMarkResumed, RowT, diskVars
  <2> QED
    BY <1>1, <2>1, PauseKeeps
<1>6. ASSUME UNCHANGED <<paused, source>> PROVE PauseInv'
  BY <1>1, <1>6, PauseKeeps
<1>7. ASSUME ExecTouch(t) \/ ExecCancel(t) \/ JailExit(t) PROVE PauseInv'
  BY <1>6, <1>7 DEF ExecTouch, ExecCancel, JailExit, rowVars, diskVars
<1>8. ASSUME \/ \E w \in Workspaces : ExecGet(t, w)
             \/ ExecLockFor(t) \/ ExecTryLock(t) \/ ExecConflict(t) \/ ExecResume(t) \/ ExecRestoreFails(t)
             \/ ExecNoResume(t) \/ ExecAdmit(t) \/ ExecReject(t)
      PROVE  PauseInv'
  BY <1>6, <1>8 DEF ExecGet, ExecLockFor, ExecTryLock, ExecConflict, ExecResume, ExecRestoreFails,
     ExecNoResume, ExecAdmit, ExecReject, rowVars, diskVars
<1>9. ASSUME \/ ExecSpawn(t) \/ ExecSpawnFails(t) \/ ExecPublish(t) \/ ExecWait(t)
             \/ ExecUnregister(t) \/ ExecFinish(t)
      PROVE  PauseInv'
  BY <1>6, <1>9 DEF ExecSpawn, ExecSpawnFails, ExecPublish, ExecWait, ExecUnregister, ExecFinish,
     rowVars, diskVars
<1> QED
  BY <1>3, <1>4, <1>5, <1>7, <1>8, <1>9 DEF ExecStep

(* The other requests remove a directory under the copy or leave it alone, and write
   snapshot directories of their own. *)
LEMMA PauseCall ==
    ASSUME TypeInv, SafeInv, SnapInv, PauseInv, NEW c \in Calls,
           \/ CallStep(c) \/ CallCancel(c)
           \/ \E o \in Ops, w \in Workspaces, n \in 1..MaxForks : CallGet(c, o, w, n)
           \/ \E o \in Ops, s \in SnapIds : CallGetSnap(c, o, s)
           \/ \E w \in Workspaces : CallCreate(c, w)
    PROVE  PauseInv'
<1> USE DEF TypeInv
<1> DEFINE Own == reaper' = reaper /\ paused' = paused
           Src == reaper.at = "copying" => source'[reaper.ws] \in {NoDir, source[reaper.ws]}
           Dir == reaper.at = "copied" => snapDir'[reaper.snap] = snapDir[reaper.snap]
<1>1. /\ reaper.at = "copying" => reaper.ws \in Workspaces /\ status[reaper.ws] # "absent"
      /\ reaper.at = "copied" => reaper.snap \in SnapIds /\ reaper.snap \in minted
      /\ reaper.at = "copied" /\ call[c].at \in HoldingAt => call[c].snap # reaper.snap
  BY DEF ReapT, SafeInv, WorkInv, SnapInv, ReapingAt
<1>2. ASSUME Own, Src, Dir PROVE PauseInv'
  BY <1>2, PauseKeeps
<1>3. ASSUME NEW w \in Workspaces, CallBuild(c, w) \/ CallCreate(c, w) PROVE PauseInv'
  <2>1. Own /\ Src /\ Dir
    <3>1. CASE CallBuild(c, w)
      BY <1>1, <3>1 DEF CallBuild, FreshFor, DiskT, rowVars, snapVars
    <3>2. CASE CallCreate(c, w)
      BY <1>1, <3>2 DEF CallCreate, FreshFor, DiskT, rowVars, snapVars
    <3> QED
      BY <1>3, <3>1, <3>2
  <2> QED
    BY <1>2, <2>1
<1>4. ASSUME CallInsertFails(c) PROVE PauseInv'
  <2>1. Own /\ Src /\ Dir
    BY <1>1, <1>4 DEF CallInsertFails, CallEnds, SafeInv, CallInv, DiskT, rowVars, snapVars
  <2> QED
    BY <1>2, <2>1
<1>5. ASSUME CallRemoveDirs(c) PROVE PauseInv'
  <2>1. Own /\ Src /\ Dir
    BY <1>1, <1>5 DEF CallRemoveDirs, DiskT, rowVars, snapVars
  <2> QED
    BY <1>2, <2>1
<1>6. ASSUME NEW s \in SnapIds, CallCopyBegin(c, s) PROVE PauseInv'
  <2>1. Own /\ Src /\ Dir
    BY <1>1, <1>6 DEF CallCopyBegin, SnapT, rowVars, diskVars
  <2> QED
    BY <1>2, <2>1
<1>7. ASSUME NEW x \in SUBSET Updates, NEW ok \in BOOLEAN, CallCopyEnd(c, x, ok) PROVE PauseInv'
  <2>1. Own /\ Src /\ Dir
    BY <1>1, <1>7 DEF CallCopyEnd, HoldingAt, TakingAt, SnapT, rowVars, diskVars
  <2> QED
    BY <1>2, <2>1
<1>8. ASSUME CallInsertSnapFails(c) \/ CallDropDir(c) PROVE PauseInv'
  <2>1. Own /\ Src /\ Dir
    BY <1>1, <1>8 DEF CallInsertSnapFails, CallDropDir, CallEnds, HoldingAt, TakingAt, SnapT, rowVars, diskVars
  <2> QED
    BY <1>2, <2>1
<1>9. ASSUME UNCHANGED <<reaper, paused, source, snapDir>> PROVE PauseInv'
  BY <1>2, <1>9
<1>10. ASSUME \/ CallActive(c) \/ CallFreeze(c) \/ CallNoFreeze(c) \/ CallFreezeTimeout(c)
              \/ CallCopyMissing(c) \/ CallThaw(c) \/ CallInsertSnap(c) \/ CallParent(c) \/ CallBuildFails(c)
       PROVE  PauseInv'
  BY <1>9, <1>10 DEF CallActive, CallFreeze, CallNoFreeze, CallFreezeTimeout, CallCopyMissing,
     CallThaw, CallInsertSnap, CallParent, CallBuildFails, rowVars, diskVars, snapVars
<1>11. ASSUME \/ CallInsert(c) \/ CallMarkDeleted(c) \/ CallRemoveDirsFails(c) \/ CallForget(c)
              \/ CallDropRow(c) \/ CallCancel(c)
              \/ \E o \in Ops, w \in Workspaces, n \in 1..MaxForks : CallGet(c, o, w, n)
              \/ \E o \in Ops, s \in SnapIds : CallGetSnap(c, o, s)
       PROVE  PauseInv'
  BY <1>9, <1>11 DEF CallInsert, CallMarkDeleted, CallRemoveDirsFails, CallForget, CallDropRow,
     CallCancel, CallGet, CallGetSnap, rowVars, diskVars, snapVars
<1> QED
  BY <1>3, <1>4, <1>5, <1>6, <1>7, <1>8, <1>10, <1>11 DEF CallStep

(* The reaper's own pass: it lists only what is not paused and pauses only what it then
   lets go. *)
LEMMA PauseReaper ==
    ASSUME TypeInv, PauseInv, ReaperStep
    PROVE  PauseInv'
<1> USE DEF TypeInv
<1>1. /\ reaper \in ReaperState /\ reaper.queue \in SUBSET Workspaces
      /\ reaper.at \notin {"idle", "scan"} => reaper.ws \in Workspaces /\ reaper.snap \in SnapIds
  BY DEF ReapT, ReaperState
<1>2. ASSUME NEW q, reaper' = ReaperWith(q), \A w \in q : ~paused'[w] PROVE PauseInv'
  <2>1. reaper'.queue = q /\ reaper'.at \in {"idle", "scan"}
    BY <1>2 DEF ReaperWith, NewReaper
  <2> QED
    BY <1>2, <2>1 DEF PauseInv
<1>3. CASE ReaperList
  <2> DEFINE q == {w \in Workspaces : status[w] = "live" /\ ~paused[w] /\ w \in Idling /\ idle[w]}
  <2>1. reaper' = ReaperWith(q) /\ \A w \in q : ~paused'[w]
    BY <1>3 DEF ReaperList, rowVars
  <2> HIDE DEF q
  <2> QED
    BY <1>2, <2>1
<1>4. ASSUME NEW w \in Workspaces, NEW s \in SnapIds, ReaperCopyBegin(w, s) PROVE PauseInv'
  <2>1. /\ reaper'.at = "copying" /\ reaper'.queue = reaper.queue \ {w} /\ reaper'.ws = w
        /\ reaper'.copy = source[w] /\ source[w] # NoDir /\ w \in reaper.queue
        /\ source' = source /\ paused' = paused
    BY <1>4 DEF ReaperCopyBegin, rowVars, diskVars
  <2> QED
    BY <2>1 DEF PauseInv
<1>5. ASSUME NEW w \in Workspaces, ReaperCopyMissing(w) PROVE PauseInv'
  <2>1. reaper' = ReaperWith(reaper.queue \ {w}) /\ \A v \in reaper.queue \ {w} : ~paused'[v]
    BY <1>5 DEF ReaperCopyMissing, rowVars, PauseInv
  <2> QED
    BY <1>2, <2>1
<1>6. ASSUME NEW x \in SUBSET Updates, NEW ok \in BOOLEAN, ReaperCopyEnd(x, ok) PROVE PauseInv'
  <2>1. paused' = paused /\ reaper.at = "copying" /\ \A v \in reaper.queue : ~paused'[v]
    BY <1>6 DEF ReaperCopyEnd, rowVars, PauseInv
  <2>2. CASE ~ok
    BY <1>2, <1>6, <2>1, <2>2 DEF ReaperCopyEnd
  <2>3. CASE ok
    <3>1. /\ reaper'.at = "copied" /\ reaper'.queue = reaper.queue /\ reaper'.ws = reaper.ws
          /\ reaper'.snap = reaper.snap /\ reaper'.copy = reaper.copy
      BY <1>1, <1>6, <2>3 DEF ReaperCopyEnd, ReaperState
    <3>2. snapDir'[reaper.snap] = x
      BY <1>1, <1>6, <2>1 DEF ReaperCopyEnd, SnapT
    <3>3. source[reaper.ws] # NoDir /\ reaper.copy \cap source[reaper.ws] \subseteq x
      BY <1>6, <2>3 DEF ReaperCopyEnd, CopiesOf
    <3>4. reaper.copy # NoDir /\ reaper.copy \subseteq x
      BY <2>1, <3>3 DEF PauseInv
    <3>5. ~paused[reaper.ws] /\ reaper.ws \notin reaper.queue
      BY <2>1 DEF PauseInv
    <3> QED
      BY <2>1, <3>1, <3>2, <3>4, <3>5 DEF PauseInv
  <2> QED
    BY <2>2, <2>3
<1>7. ASSUME ReaperInsert \/ \E x \in SUBSET Updates : ReaperWipe(x) PROVE PauseInv'
  <2>1. /\ reaper'.at \in {"inserted", "wiped"} /\ reaper'.queue = reaper.queue /\ reaper'.ws = reaper.ws
        /\ reaper.at \notin {"idle", "scan"} /\ paused' = paused
    BY <1>1, <1>7 DEF ReaperInsert, ReaperWipe, ReaperState, rowVars
  <2> QED
    BY <2>1 DEF PauseInv
<1>8. CASE ReaperInsertFails
  <2>1. reaper' = ReaperWith(reaper.queue) /\ \A v \in reaper.queue : ~paused'[v]
    BY <1>8 DEF ReaperInsertFails, rowVars, PauseInv
  <2> QED
    BY <1>2, <2>1
<1>9. CASE ReaperMarkPaused
  <2>1. reaper.ws \notin reaper.queue /\ reaper' = ReaperWith(reaper.queue)
    BY <1>9 DEF ReaperMarkPaused, PauseInv
  <2>2. \A v \in reaper.queue : paused'[v] = paused[v]
    BY <1>1, <1>9, <2>1 DEF ReaperMarkPaused, RowT
  <2>3. \A v \in reaper.queue : ~paused'[v]
    BY <2>2 DEF PauseInv
  <2> QED
    BY <1>2, <2>1, <2>3
<1> QED
  BY <1>3, <1>4, <1>5, <1>6, <1>7, <1>8, <1>9 DEF ReaperStep

(* Every step of the server, as long as no exec acts on a stale copy of a paused row. *)
LEMMA PauseInvStep ==
    ASSUME TypeInv, SafeInv, SnapInv, PauseInv, FreshRow, [Next]_vars
    PROVE  PauseInv'
<1>1. ASSUME UNCHANGED <<reaper, paused, source, snapDir>> PROVE PauseInv'
  BY <1>1, PauseKeeps
<1>2. ASSUME NEW w \in Workspaces, IdleElapses(w) PROVE PauseInv'
  BY <1>1, <1>2 DEF IdleElapses, diskVars, snapVars
<1>3. CASE Crash
  <2>1. reaper'.queue = {} /\ reaper'.at = "idle"
    BY <1>3 DEF Crash, NewReaper
  <2> QED
    BY <2>1 DEF PauseInv
<1>4. CASE UNCHANGED vars
  BY <1>1, <1>4 DEF vars, rowVars, diskVars, snapVars
<1>5. CASE Client
  BY <1>5, PauseExec, PauseCall DEF Client
<1> QED
  BY <1>2, <1>3, <1>4, <1>5, PauseExec, PauseCall, PauseReaper DEF Next

(* Only the insert of a snapshot row takes the reaper from the copy to the wipe. *)
LEMMA ReaperGoesOn ==
    ASSUME TypeInv, [Next]_vars, reaper.at = "copied", reaper'.at \in {"inserted", "wiped"}
    PROVE  ReaperInsert
<1>1. reaper' # reaper
  OBVIOUS
<1>2. ASSUME NEW q PROVE reaper' # ReaperWith(q)
  BY DEF ReaperWith, NewReaper
<1>3. ~Crash
  <2>1. NewReaper.at = "idle"
    BY DEF NewReaper
  <2> QED
    BY <2>1 DEF Crash
<1>4. \A t \in Execs, w \in Workspaces : ~ExecGet(t, w) /\ ~ExecStep(t) /\ ~ExecCancel(t)
                                         /\ ~JailWrite(t) /\ ~JailExit(t)
  BY <1>1, ExecLeavesSnaps
<1>5. \A t \in Execs : ~ExecStep(t) /\ ~ExecCancel(t) /\ ~JailWrite(t) /\ ~JailExit(t)
  BY <1>1, ExecLeavesSnaps
<1>6. \A c \in Calls : ~CallStep(c)
  BY <1>1, CallLeavesPaused
<1>7. ~Client
  BY <1>1, <1>4, <1>5 DEF Client, CallGet, CallGetSnap, CallCreate, CallCancel
<1>8. \A w \in Workspaces : ~IdleElapses(w)
  BY <1>1 DEF IdleElapses
<1>9. ~UNCHANGED vars
  BY <1>1 DEF vars
<1>10. ReaperStep
  BY <1>3, <1>5, <1>6, <1>7, <1>8, <1>9 DEF Next
<1> QED
  BY <1>2, <1>10 DEF ReaperStep, ReaperList, ReaperCopyBegin, ReaperCopyMissing, ReaperCopyEnd,
     ReaperWipe, ReaperInsertFails, ReaperMarkPaused

\* "Wipe source_dir to reclaim disk now that the snapshot is safe": what the reaper found
\* when it began to copy is in the stored snapshot when it goes on to the wipe, for any
\* number of execs, deletes, captures and restarts, as long as no exec restores on a copy
\* of the row that went stale while it waited for the mutex.
THEOREM PausesSaveWhenRowsAreFresh == Spec /\ []FreshRow => PauseSaves
<1> DEFINE Saved == reaper.at = "copied" /\ reaper'.at \in {"inserted", "wiped"} =>
          /\ snapRow'[reaper.snap] = reaper.ws
          /\ snapDir'[reaper.snap] # NoDir /\ reaper.copy \subseteq snapDir'[reaper.snap]
<1>1. Init => PauseInv
  BY SMT DEF Init, PauseInv, NewReaper
<1>2. TypeInv /\ SafeInv /\ SnapInv /\ PauseInv /\ FreshRow /\ [Next]_vars => PauseInv'
  BY PauseInvStep
<1>3. TypeInv /\ SnapInv /\ PauseInv /\ [Next]_vars => Saved
  <2> SUFFICES ASSUME TypeInv, SnapInv, PauseInv, [Next]_vars,
                      reaper.at = "copied", reaper'.at \in {"inserted", "wiped"}
               PROVE  /\ snapRow'[reaper.snap] = reaper.ws
                      /\ snapDir'[reaper.snap] # NoDir /\ reaper.copy \subseteq snapDir'[reaper.snap]
    OBVIOUS
  <2>1. ReaperInsert
    BY ReaperGoesOn
  <2>2. reaper.snap \in SnapIds /\ snapDir[reaper.snap] # NoDir /\ reaper.copy \subseteq snapDir[reaper.snap]
    BY DEF TypeInv, ReapT, SnapInv, ReapingAt, PauseInv
  <2> QED
    BY <2>1, <2>2 DEF ReaperInsert, TypeInv, SnapT
<1>4. TypeInv /\ SnapInv /\ PauseInv /\ [Next]_vars => [Saved]_vars
  BY <1>3
<1> QED
  BY <1>1, <1>2, <1>4, SafeInvAlways, SnapInvAlways, PTL DEF Spec, PauseSaves

(* With one exec request the row it read stays paused until it has restored: nobody else
   resumes. *)
RowSeen ==
    \A t \in Execs : ex[t].at \in {"got", "arc", "locked", "resuming"} /\ ex[t].paused => paused[ex[t].ws]

\* Every step keeps row copies true when there is one exec.
LEMMA RowSeenStep ==
    ASSUME \A t, u \in Execs : t = u, TypeInv, RowSeen, [Next]_vars
    PROVE  RowSeen'
<1> USE DEF TypeInv
<1>1. ASSUME ex' = ex, \A w \in Workspaces : paused[w] => paused'[w] PROVE RowSeen'
  BY <1>1 DEF RowSeen, ExecT
<1>2. ASSUME NEW t \in Execs,
             \/ \E w \in Workspaces : ExecGet(t, w)
             \/ ExecStep(t) \/ ExecCancel(t) \/ JailWrite(t) \/ JailExit(t)
      PROVE  RowSeen'
  <2> DEFINE Early == {"got", "arc", "locked", "resuming"}
             Stays == /\ ex[t].at \in Early /\ ex'[t].ws = ex[t].ws /\ ex'[t].paused = ex[t].paused
                      /\ paused' = paused
             Ok == ex'[t].at \in Early /\ ex'[t].paused => Stays \/ paused'[ex'[t].ws]
  <2>1. ASSUME Ok PROVE RowSeen'
    BY <1>2, <2>1 DEF RowSeen
  <2>2. ASSUME NEW w \in Workspaces, ExecGet(t, w) PROVE Ok
    BY <2>2 DEF ExecGet, ExecT, rowVars
  <2>3. ASSUME ExecLockFor(t) PROVE Ok
    <3>1. ex[t].at = "got" /\ ex'[t].ws = ex[t].ws /\ ex'[t].paused = ex[t].paused /\ paused' = paused
      BY <2>3 DEF ExecLockFor, ExecT, ExecState, rowVars
    <3> QED
      BY <3>1
  <2>4. ASSUME ExecTryLock(t) \/ ExecResume(t) PROVE Ok
    <3>1. "locked" \in ExecAt /\ "resuming" \in ExecAt
      BY DEF ExecAt, LockedAt
    <3>2. /\ ex[t].at \in {"arc", "locked"} /\ paused' = paused
          /\ ex'[t].ws = ex[t].ws /\ ex'[t].paused = ex[t].paused
      BY <2>4, <3>1, ExecMovesFacts DEF ExecTryLock, ExecResume, ExecT, rowVars
    <3> QED
      BY <3>2
  <2>5. ASSUME ExecConflict(t) PROVE Ok
    BY <2>5, EndedExecFacts DEF ExecConflict, ExecT
  <2>6. ASSUME \/ ExecRestore(t) \/ ExecMarkResumed(t) \/ ExecNoResume(t) \/ ExecAdmit(t) \/ ExecTouch(t)
               \/ ExecSpawn(t) \/ ExecPublish(t) \/ ExecWait(t) \/ ExecUnregister(t) PROVE Ok
    <3>1. ASSUME NEW from, NEW to \in ExecAt \ Early, ExecMoves(t, from, to) PROVE Ok
      <4>1. to \in ExecAt /\ to \notin Early
        OBVIOUS
      <4>2. ex'[t].at = to
        BY ZenonT(30), <3>1, <4>1, ExecMovesFacts DEF ExecT
      <4> QED
        BY <4>1, <4>2
    <3>2. {"restored", "ready", "admitted", "touched", "spawned", "monitored", "waited", "unregistered"}
             \subseteq ExecAt \ Early
      BY DEF ExecAt, LockedAt
    <3> HIDE DEF Ok, Early
    <3> QED
      BY <2>6, <3>1, <3>2 DEF ExecRestore, ExecMarkResumed, ExecNoResume, ExecAdmit, ExecTouch, ExecSpawn,
         ExecPublish, ExecWait, ExecUnregister
  <2>7. ASSUME \/ ExecRestoreFails(t) \/ ExecReject(t) \/ ExecSpawnFails(t) \/ ExecFinish(t) \/ ExecCancel(t)
        PROVE  Ok
    BY <2>7, ReleaseFacts DEF ExecRestoreFails, ExecReject, ExecSpawnFails, ExecFinish, ExecCancel
  <2>8. ASSUME JailWrite(t) \/ JailExit(t) PROVE Ok
    BY <2>8 DEF JailWrite, JailExit, execVars, rowVars
  <2> HIDE DEF Ok
  <2> QED
    BY <1>2, <2>1, <2>2, <2>3, <2>4, <2>5, <2>6, <2>7, <2>8 DEF ExecStep
<1>3. ASSUME NEW c \in Calls,
             \/ CallStep(c) \/ CallCancel(c)
             \/ \E o \in Ops, w \in Workspaces, n \in 1..MaxForks : CallGet(c, o, w, n)
             \/ \E o \in Ops, s \in SnapIds : CallGetSnap(c, o, s)
             \/ \E w \in Workspaces : CallCreate(c, w)
      PROVE  RowSeen'
  <2>1. ex' = ex
    BY <1>3, CallLeavesExecs
  <2>2. paused' = paused
    BY <1>3, CallLeavesPaused
  <2> QED
    BY <1>1, <2>1, <2>2
<1>4. CASE ReaperStep
  <2>1. ex' = ex
    BY <1>4, ReaperLeavesExecs
  <2>2. CASE ReaperMarkPaused
    BY <1>1, <2>1, <2>2 DEF ReaperMarkPaused, RowT
  <2>3. CASE ~ReaperMarkPaused
    <3>1. paused' = paused
      BY <1>4, <2>3 DEF ReaperStep, ReaperList, ReaperCopyBegin, ReaperCopyMissing, ReaperCopyEnd,
         ReaperWipe, ReaperInsert, ReaperInsertFails, rowVars
    <3> QED
      BY <1>1, <2>1, <3>1
  <2> QED
    BY <2>2, <2>3
<1>5. ASSUME NEW w \in Workspaces, IdleElapses(w) PROVE RowSeen'
  BY <1>1, <1>5 DEF IdleElapses, execVars
<1>6. CASE Crash
  BY <1>6, EndedExecFacts DEF Crash, RowSeen
<1>7. CASE UNCHANGED vars
  BY <1>1, <1>7 DEF vars, rowVars, execVars
<1>8. CASE Client
  BY <1>2, <1>3, <1>8 DEF Client
<1> QED
  BY <1>2, <1>3, <1>4, <1>5, <1>6, <1>7, <1>8 DEF Next

\* With a single exec request no row copy goes stale, so the reaper's pause saves what it
\* wipes whatever else the server does.
THEOREM PausesSaveForOneExec ==
    ASSUME \A t, u \in Execs : t = u PROVE Spec => PauseSaves
<1>1. Init => RowSeen
  BY SMT DEF Init, RowSeen, NewExec
<1>2. TypeInv /\ RowSeen /\ [Next]_vars => RowSeen'
  BY RowSeenStep
<1>3. TypeInv /\ RowSeen => FreshRow
  BY DEF TypeInv, ExecT, RowSeen, FreshRow
<1>4. Spec => []FreshRow
  BY <1>1, <1>2, <1>3, SafeInvAlways, PTL DEF Spec
<1> QED
  BY <1>4, PausesSaveWhenRowsAreFresh, PTL
============================================================================
