-------------------------- MODULE JailLedgerProofs --------------------------
(* The safety properties of JailLedger, for every workload, either ledger,  *)
(* every number of permits and every capacity of the ring: one invariant    *)
(* per concern, each proved over the kinds of steps of JailLedgerTypes.     *)
EXTENDS JailLedgerTypes, FiniteSetTheorems

-----------------------------------------------------------------------------
(* Whose a row is *)

\* Ids are handed out in order, each to one handler and once; what was not
\* handed out has no row and no task.
Held ==
    /\ \A r \in Requests : \A k \in DOMAIN req[r].recs : req[r].recs[k] < next_id
    /\ \A r, s \in Requests : \A k \in DOMAIN req[r].recs, j \in DOMAIN req[s].recs :
          req[r].recs[k] = req[s].recs[j] /\ req[r].recs[k] # NoRow => r = s /\ k = j
    /\ \A id \in Ids : id >= next_id => rows[id] = Absent /\ id \notin samplers \cup flushers

\* Only a step that starts a row gives a handler one.
RecsKept ==
    \A s \in DOMAIN req' :
        \/ DOMAIN req'[s].recs = {}
        \/ s \in Requests /\ req'[s].recs = req[s].recs

LEMMA KeptRecs ==
    ASSUME Typed,
           \/ \E r \in Requests : (\E h : Works(r, h) \/ Ends(r, h)) \/ Hangup(r)
           \/ Restart \/ Aside
    PROVE  RecsKept
<1>1. DOMAIN <<>> = {} /\ Idle.recs = <<>>
  BY IdleShaped
<1>2. ASSUME NEW r \in Requests, NEW h, Moves(r, h), h.recs = <<>> \/ h.recs = req[r].recs
      PROVE  RecsKept
  BY Zenon, <1>1, <1>2, MovesTyped DEF RecsKept
<1>3. ASSUME NEW r \in Requests, NEW h, Works(r, h) \/ Ends(r, h)
      PROVE  RecsKept
  BY Zenon, <1>2, <1>3 DEF Works, Ends
<1>4. ASSUME NEW r \in Requests, Hangup(r)
      PROVE  RecsKept
  BY Zenon, <1>1, <1>2, <1>4, HangupMoves
<1>5. CASE Restart
  BY Zenon, <1>1, <1>5, RestartTyped DEF RecsKept
<1>6. CASE Aside
  BY Zenon, <1>1, <1>6 DEF Aside, RecsKept
<1>. QED  BY Zenon, <1>3, <1>4, <1>5, <1>6

\* Where no row is started, the rows stay whose they were.
LEMMA HeldKept ==
    ASSUME Typed, Held, RecsKept,
           next_id' = next_id \/ \A s \in DOMAIN req' : DOMAIN req'[s].recs = {},
           \A id \in Ids : id >= next_id' => rows'[id] = Absent /\ id \notin samplers' \cup flushers'
    PROVE  Held'
BY DEF Held, RecsKept, Requests

\* A row that is ended was there.
LEMMA EndedRows ==
    ASSUME Typed, NEW r \in Requests, NEW id, RowEnded(r, id)
    PROVE  \A j \in Ids :
              \/ rows'[j] = rows[j]
              \/ /\ j = id /\ Present(id) /\ rows'[j] \in JailRecord /\ rows'[j] # Absent
                 /\ \/ rows'[j] = Completed(id) /\ At(r, "record")
                    \/ rows'[j].status = "error"
<1>1. ASSUME Present(id)
      PROVE  /\ Completed(id) \in JailRecord /\ Errored(rows[id]) \in JailRecord
             /\ Errored(rows[id]).status = "error"
             /\ Completed(id) # Absent /\ Errored(rows[id]) # Absent
  <2>1. id \in Ids /\ rows[id] \in JailRecord /\ 0 \in 0..MaxLines
    BY <1>1, PresentRow, LedgerAssumption DEF Typed
  <2>. QED  BY Zenon, <2>1, RowsOf, CompletedRow, RecordPresent
<1>. QED  BY <1>1, FinishError DEF RowEnded

LEMMA HeldStarts ==
    ASSUME Typed, Held, NEW r \in Requests, NEW h, NEW id, Starts(r, h, id)
    PROVE  Held'
<1>1. /\ DOMAIN req' = Requests /\ req'[r] = h /\ \A s \in Requests : s # r => req'[s] = req[s]
  BY Zenon, MovesTyped DEF Starts
<1>2. PICK recs \in Seq(Ids \cup {NoRow}) : recs = req[r].recs
  BY Zenon, Here, Fields
<1>3. /\ DOMAIN h.recs = 1..(Len(recs) + 1) /\ h.recs[Len(recs) + 1] = id
      /\ DOMAIN recs = 1..Len(recs) /\ Len(recs) \in Nat
      /\ \A j \in DOMAIN recs : h.recs[j] = recs[j]
  BY <1>2, Appended DEF Starts
<1>4. /\ id \in Ids \cup {NoRow} /\ next_id \in Nat /\ next_id > 0
      /\ \/ id = NoRow /\ UNCHANGED <<rows, next_id>>
         \/ /\ id = next_id /\ next_id' = next_id + 1
            /\ \A j \in Ids \ {id} : rows'[j] \in {rows[j], Absent}
  BY DEF Starts, RowStarted, Typed
<1>5. next_id' \in Nat /\ next_id' >= next_id /\ id < next_id'
  BY <1>4 DEF NoRow
<1>6. \A s \in Requests : \A k \in DOMAIN req[s].recs : req[s].recs[k] \in Nat
  BY RowOf DEF Ids, NoRow
<1>7. \A s \in Requests : \A k \in DOMAIN req[s].recs :
         req[s].recs[k] < next_id' /\ (req[s].recs[k] = id => id = NoRow)
  BY <1>4, <1>5, <1>6 DEF Held
<1>8. \A s \in Requests : \A k \in DOMAIN req'[s].recs :
         \/ k \in DOMAIN req[s].recs /\ req'[s].recs[k] = req[s].recs[k]
         \/ s = r /\ k = Len(recs) + 1 /\ req'[s].recs[k] = id
  BY <1>1, <1>2, <1>3
<1>9. \A s \in Requests : \A k \in DOMAIN req'[s].recs : req'[s].recs[k] < next_id'
  BY Zenon, <1>5, <1>7, <1>8
<1>10. \A s, t \in Requests : \A k \in DOMAIN req'[s].recs, j \in DOMAIN req'[t].recs :
          req'[s].recs[k] = req'[t].recs[j] /\ req'[s].recs[k] # NoRow => s = t /\ k = j
  BY <1>7, <1>8 DEF Held
<1>11. ASSUME NEW i \in Ids, i >= next_id'
       PROVE  rows'[i] = Absent /\ i \notin samplers' \cup flushers'
  <2>1. i >= next_id /\ i # id /\ i \in Nat
    BY <1>4, <1>5, <1>11 DEF Ids
  <2>2. rows[i] = Absent /\ i \notin samplers \cup flushers
    BY Zenon, <2>1 DEF Held
  <2>3. ~ \E k \in DOMAIN h.recs : h.recs[k] = i
    BY SMTT(30), <1>1, <1>5, <1>9, <1>11, <2>1
  <2>4. i \notin samplers' \cup flushers'
    BY Zenon, <2>2, <2>3 DEF Starts, TasksFit
  <2>. QED  BY Zenon, <1>4, <2>1, <2>2, <2>4
<1>. QED  BY Zenon, <1>1, <1>9, <1>10, <1>11 DEF Held, Requests

LEMMA HeldInit == Init => Held
BY DEF Init, Held, Requests

LEMMA HeldStep == Typed /\ Held /\ [Next]_vars => Held'
<1> SUFFICES ASSUME Typed, Held, [Next]_vars PROVE Held'
  BY Zenon
<1>1. next_id \in Nat /\ \A id \in Ids : id >= next_id => rows[id] = Absent /\ id \notin samplers \cup flushers
  BY DEF Held, Typed
<1>2. ASSUME NEW r \in Requests, NEW h, Works(r, h)
      PROVE  Held'
  <2>1. ASSUME NEW id \in Ids, id >= next_id
        PROVE  rows'[id] = Absent /\ id \notin samplers' \cup flushers'
    <3>1. ~ \E k \in DOMAIN h.recs : h.recs[k] = id
      <4>1. \A k \in DOMAIN req[r].recs : req[r].recs[k] < next_id /\ req[r].recs[k] \in Nat
        BY RowOf DEF Held, Ids, NoRow
      <4>. QED  BY SMTT(30), <1>1, <1>2, <2>1, <4>1 DEF Works, Ids
    <3>. QED  BY Zenon, <1>1, <1>2, <2>1, <3>1 DEF Works, LiveWrite, TasksFit
  <2>2. next_id' = next_id
    BY Zenon, <1>2 DEF Works
  <2>. QED  BY Zenon, <1>2, <2>1, <2>2, KeptRecs, HeldKept
<1>3. ASSUME NEW r \in Requests, NEW h, Ends(r, h)
      PROVE  Held'
  <2>1. \A id \in Ids : rows[id] = Absent => rows'[id] = Absent
    BY Zenon, <1>3, EndedRows DEF Ends, Present
  <2>2. next_id' = next_id /\ samplers' = samplers /\ flushers' = flushers
    BY Zenon, <1>3 DEF Ends, tasks
  <2>. QED  BY Zenon, <1>1, <1>3, <2>1, <2>2, KeptRecs, HeldKept
<1>4. ASSUME NEW r \in Requests, Hangup(r)
      PROVE  Held'
  <2>1. UNCHANGED <<rows, next_id, samplers, flushers>>
    BY Zenon, <1>4 DEF Hangup, tasks
  <2>. QED  BY Zenon, <1>1, <1>4, <2>1, KeptRecs, HeldKept
<1>5. CASE Restart
  <2>1. \A s \in DOMAIN req' : DOMAIN req'[s].recs = {}
    BY <1>5, RestartTyped, IdleShaped
  <2>2. \A id \in Ids : id >= next_id' => rows'[id] = Absent /\ id \notin samplers' \cup flushers'
    BY Zenon, <1>1, <1>5 DEF Restart
  <2>. QED  BY Zenon, <1>5, <2>1, <2>2, KeptRecs, HeldKept
<1>6. CASE Aside
  <2>1. UNCHANGED <<next_id, samplers, flushers>> /\ \A id \in Ids : rows[id] = Absent => rows'[id] = Absent
    BY Zenon, <1>6 DEF Aside, LiveWrite
  <2>. QED  BY Zenon, <1>1, <1>6, <2>1, KeptRecs, HeldKept
<1>. QED  BY Zenon, <1>2, <1>3, <1>4, <1>5, <1>6, HeldStarts, Steps

LEMMA HeldAlways == Spec => []Held
BY HeldInit, HeldStep, Typing, PTL DEF Spec
-----------------------------------------------------------------------------
(* Rows that run, and rows that have ended *)

\* A row its handler has not ended says running.
OwnedRuns ==
    \A r \in Requests : \A k \in DOMAIN req[r].recs :
        k > req[r].ended /\ Present(req[r].recs[k]) => rows[req[r].recs[k]].status = "running"

\* A step that starts no row, and after which the rows owned say what they said.
LEMMA OwnedKept ==
    ASSUME Typed, OwnedRuns, RecsKept,
           \A s \in Requests : \A k \in DOMAIN req[s].recs :
              LET id == req[s].recs[k] IN
              /\ s \in DOMAIN req' /\ req'[s].recs = req[s].recs /\ k > req'[s].ended
              /\ id \in Ids /\ rows'[id] # Absent
              => k > req[s].ended /\ rows[id] # Absent /\ rows'[id].status = rows[id].status
    PROVE  OwnedRuns'
<1> SUFFICES ASSUME NEW s \in DOMAIN req', NEW k \in DOMAIN req'[s].recs,
                    k > req'[s].ended, req'[s].recs[k] \in Ids, rows'[req'[s].recs[k]] # Absent
             PROVE  rows'[req'[s].recs[k]].status = "running"
  BY Zenon DEF OwnedRuns, Requests, Present
<1>1. s \in Requests /\ req'[s].recs = req[s].recs
  BY Zenon DEF RecsKept
<1>. QED  BY Zenon, <1>1 DEF OwnedRuns, Present

\* The next row to end runs, if it is there; no other handler has it.
LEMMA NextRow ==
    ASSUME Typed, Held, OwnedRuns, NEW r \in Requests, NEW h, Ends(r, h)
    PROVE  \/ UNCHANGED <<rows, orphans>> /\ Len(req[r].recs) = req[r].ended
           \/ \E id \in Ids \cup {NoRow} :
                 /\ id = req[r].recs[req[r].ended + 1] /\ RowEnded(r, id)
                 /\ req[r].ended + 1 \in DOMAIN req[r].recs
                 /\ Present(id) => rows[id].status = "running"
                 /\ \A s \in Requests : \A k \in DOMAIN req[s].recs :
                       req[s].recs[k] = id /\ id # NoRow => s = r /\ k = req[r].ended + 1
<1>1. req[r].ended \in Nat
  BY Here, Fields
<1>2. CASE /\ req[r].ended + 1 \in DOMAIN req[r].recs
           /\ RowEnded(r, req[r].recs[req[r].ended + 1])
  <2>1. PICK id \in Ids \cup {NoRow} : id = req[r].recs[req[r].ended + 1]
    BY Zenon, <1>2, RowOf
  <2>2. Present(id) => rows[id].status = "running"
    BY <1>1, <1>2, <2>1 DEF OwnedRuns
  <2>3. \A s \in Requests : \A k \in DOMAIN req[s].recs :
           req[s].recs[k] = id /\ id # NoRow => s = r /\ k = req[r].ended + 1
    BY <1>2, <2>1 DEF Held
  <2>. QED  BY Zenon, <1>2, <2>1, <2>2, <2>3
<1>. QED  BY Zenon, <1>2 DEF Ends

LEMMA OwnedStarts ==
    ASSUME Typed, Held, OwnedRuns, NEW r \in Requests, NEW h, NEW id, Starts(r, h, id)
    PROVE  OwnedRuns'
<1>1. DOMAIN req' = Requests /\ req'[r] = h /\ \A s \in Requests : s # r => req'[s] = req[s]
  BY Zenon, MovesTyped DEF Starts
<1>2. PICK recs \in Seq(Ids \cup {NoRow}) : recs = req[r].recs
  BY Zenon, Here, Fields
<1>3. \A k \in DOMAIN h.recs : h.recs[k] = id \/ (k \in DOMAIN recs /\ h.recs[k] = recs[k])
  BY <1>2, Appended DEF Starts
<1>4. \/ id = NoRow /\ rows' = rows
      \/ rows'[id] = new_running /\ \A j \in Ids \ {id} : rows'[j] \in {rows[j], Absent}
  BY Zenon DEF Starts, RowStarted
<1>5. h.ended = 0 /\ req[r].ended = 0
  BY Zenon DEF Starts
<1> SUFFICES ASSUME NEW s \in Requests, NEW k \in DOMAIN req'[s].recs,
                    k > req'[s].ended, req'[s].recs[k] \in Ids, rows'[req'[s].recs[k]] # Absent
             PROVE  rows'[req'[s].recs[k]].status = "running"
  BY Zenon, <1>1 DEF OwnedRuns, Requests, Present
<1>6. CASE req'[s].recs[k] = id
  <2>1. rows'[id] = new_running
    BY <1>4, <1>6 DEF Ids, NoRow
  <2>. QED  BY <1>6, <2>1 DEF new_running
<1>7. CASE req'[s].recs[k] # id
  <2>1. k \in DOMAIN req[s].recs /\ req'[s].recs[k] = req[s].recs[k] /\ k > req[s].ended
    BY Zenon, <1>1, <1>2, <1>3, <1>5, <1>7
  <2>2. rows'[req[s].recs[k]] = rows[req[s].recs[k]]
    BY Zenon, <1>4, <1>7, <2>1
  <2>. QED  BY Zenon, <2>1, <2>2 DEF OwnedRuns, Present
<1>. QED  BY Zenon, <1>6, <1>7

LEMMA OwnedStep == Typed /\ Held /\ OwnedRuns /\ [Next]_vars => OwnedRuns'
<1> SUFFICES ASSUME Typed, Held, OwnedRuns, [Next]_vars PROVE OwnedRuns'
  BY Zenon
<1>1. ASSUME NEW r \in Requests, NEW h, Works(r, h)
      PROVE  OwnedRuns'
  <2>1. \A s \in Requests : req'[s].ended = req[s].ended
    BY Zenon, <1>1, MovesTyped DEF Works
  <2>. QED  BY Zenon, <1>1, <2>1, KeptRecs, OwnedKept DEF Works, LiveWrite
<1>2. ASSUME NEW r \in Requests, NEW h, Ends(r, h)
      PROVE  OwnedRuns'
  <2>1. RecsKept /\ req'[r] = h /\ \A s \in Requests : s # r => req'[s] = req[s]
    BY Zenon, <1>2, KeptRecs, MovesTyped DEF Ends
  <2>2. ASSUME NEW s \in Requests, NEW k \in DOMAIN req[s].recs,
               req'[s].recs = req[s].recs, k > req'[s].ended,
               req[s].recs[k] \in Ids, rows'[req[s].recs[k]] # Absent
        PROVE  /\ k > req[s].ended /\ rows[req[s].recs[k]] # Absent
               /\ rows'[req[s].recs[k]] = rows[req[s].recs[k]]
    <3>1. /\ req[s].recs \in Seq(Ids \cup {NoRow}) /\ req[s].ended \in Nat
          /\ k \in 1..Len(req[s].recs)
      BY Here, Fields
    <3>2. s = r => k > req[r].ended + 1
      BY <1>2, <2>1, <2>2, <3>1 DEF Ends
    <3>3. k > req[s].ended
      BY <2>1, <2>2, <3>1, <3>2
    <3>4. CASE UNCHANGED <<rows, orphans>> /\ Len(req[r].recs) = req[r].ended
      BY Zenon, <2>2, <3>3, <3>4
    <3>5. ASSUME NEW id \in Ids \cup {NoRow},
                 id = req[r].recs[req[r].ended + 1], RowEnded(r, id),
                 \A t \in Requests : \A j \in DOMAIN req[t].recs :
                    req[t].recs[j] = id /\ id # NoRow => t = r /\ j = req[r].ended + 1
          PROVE  rows'[req[s].recs[k]] = rows[req[s].recs[k]]
      <4>1. req[s].recs[k] # id
        BY <2>2, <3>1, <3>2, <3>5 DEF Ids, NoRow
      <4>. QED  BY SMTT(30), <2>2, <3>5, <4>1, EndedRows
    <3>. QED  BY Zenon, <1>2, <2>2, <3>3, <3>4, <3>5, NextRow
  <2>. QED  BY Zenon, <2>1, <2>2, OwnedKept
<1>3. ASSUME NEW r \in Requests, Hangup(r)
      PROVE  OwnedRuns'
  <2>1. req'[r].recs = <<>> /\ rows' = rows /\ \A s \in Requests : s # r => req'[s] = req[s]
    BY Zenon, <1>3, HangupMoves, MovesTyped, IdleShaped DEF Hangup
  <2>2. \A s \in Requests : \A k \in DOMAIN req[s].recs :
           req'[s].recs = req[s].recs => req'[s].ended = req[s].ended
    BY <2>1
  <2>. QED  BY Zenon, <1>3, <2>1, <2>2, KeptRecs, OwnedKept
<1>4. CASE Restart
  BY <1>4, RestartTyped, IdleShaped DEF OwnedRuns, Requests
<1>5. CASE Aside
  BY Zenon, <1>5, KeptRecs, OwnedKept DEF Aside, LiveWrite
<1>. QED  BY Zenon, <1>1, <1>2, <1>3, <1>4, <1>5, OwnedStarts, Steps

LEMMA OwnedAlways == Spec => []OwnedRuns
<1>1. Init => OwnedRuns
  BY DEF Init, OwnedRuns, Requests
<1>. QED  BY <1>1, OwnedStep, Typing, HeldAlways, PTL DEF Spec

\* A jail that runs belongs to a row its handler has yet to end.
LEMMA AliveOwned ==
    ASSUME Typed, NEW r \in Requests, NEW k \in DOMAIN req[r].recs, Alive(r, k)
    PROVE  k > req[r].ended
<1>1. PICK q \in Handlers : q = req[r] /\ Shaped(q)
  BY Zenon, Here
<1>2. k \in DOMAIN q.jails /\ q.jails[k] = "up" /\ k \in DOMAIN q.recs
  BY Zenon, <1>1 DEF Alive
<1>3. q.at \notin {"record", "stragglers"}
  BY <1>1, <1>2 DEF Shaped, JailsShaped
<1>4. q.ended = 0 /\ q.recs \in Seq(Ids \cup {NoRow})
  BY Zenon, <1>1, <1>3, Fields DEF Shaped, RowsShaped
<1>. QED  BY <1>1, <1>2, <1>4

\* A row is ended only when its jail is gone (run_monitored returns after the
\* jail was reaped, and the handler ends the row after that).
THEOREM DeadBeforeEnded == Spec => []EndedMeansDead
<1>1. Typed /\ OwnedRuns => EndedMeansDead
  BY Zenon, AliveOwned DEF OwnedRuns, EndedMeansDead
<1>. QED  BY <1>1, Typing, OwnedAlways, PTL

LEMMA RunningStarts ==
    ASSUME Typed, RunningRowsOwned, NEW r \in Requests, NEW h, NEW new, Starts(r, h, new)
    PROVE  RunningRowsOwned'
<1>1. DOMAIN req' = Requests /\ req'[r] = h /\ \A s \in Requests : s # r => req'[s] = req[s]
  BY Zenon, MovesTyped DEF Starts
<1>2. PICK recs \in Seq(Ids \cup {NoRow}) : recs = req[r].recs
  BY Zenon, Here, Fields
<1>3. /\ \E k \in DOMAIN h.recs : h.recs[k] = new /\ k > h.ended
      /\ \A k \in DOMAIN recs : k \in DOMAIN h.recs /\ h.recs[k] = recs[k]
      /\ h.ended = 0 /\ req[r].ended = 0
  <2>1. Len(recs) + 1 \in DOMAIN h.recs /\ h.recs[Len(recs) + 1] = new /\ Len(recs) + 1 > 0
    BY <1>2, Appended DEF Starts
  <2>. QED  BY SMTT(30), <1>2, <2>1, Appended DEF Starts
<1> SUFFICES ASSUME NEW id \in Ids, rows'[id] # Absent, rows'[id].status = "running"
             PROVE  id \in orphans' \/ \E s \in DOMAIN req' : Owns(s, id)'
  BY Zenon DEF RunningRowsOwned, Present, Requests
<1>4. CASE id = new
  BY Zenon, <1>1, <1>3, <1>4 DEF Owns
<1>5. CASE id # new
  <2>1. rows[id] # Absent /\ rows[id].status = "running" /\ orphans' = orphans
    BY Zenon, <1>5 DEF Starts, RowStarted
  <2>2. ASSUME NEW s \in Requests, Owns(s, id)
        PROVE  Owns(s, id)'
    BY SMTT(30), <1>1, <1>2, <1>3, <2>2 DEF Owns
  <2>. QED  BY Zenon, <1>1, <2>1, <2>2 DEF RunningRowsOwned, Present
<1>. QED  BY Zenon, <1>4, <1>5

LEMMA RunningEnds ==
    ASSUME Typed, Held, OwnedRuns, RunningRowsOwned, NEW r \in Requests, NEW h, Ends(r, h)
    PROVE  RunningRowsOwned'
<1>1. DOMAIN req' = Requests /\ req'[r] = h /\ \A s \in Requests : s # r => req'[s] = req[s]
  BY Zenon, MovesTyped DEF Ends
<1>2. req[r].recs \in Seq(Ids \cup {NoRow}) /\ req[r].ended \in Nat
  BY Here, Fields
<1> SUFFICES ASSUME NEW id \in Ids, rows'[id] # Absent, rows'[id].status = "running"
             PROVE  id \in orphans' \/ \E s \in DOMAIN req' : Owns(s, id)'
  BY Zenon DEF RunningRowsOwned, Present, Requests
<1>3. CASE UNCHANGED <<rows, orphans>> /\ Len(req[r].recs) = req[r].ended
  <2>1. id \in orphans \/ \E s \in Requests : Owns(s, id)
    BY Zenon, <1>3 DEF RunningRowsOwned, Present
  <2>2. ~Owns(r, id)
    BY <1>2, <1>3 DEF Owns
  <2>3. \A s \in Requests : Owns(s, id) => Owns(s, id)'
    BY Zenon, <1>1, <2>2 DEF Owns
  <2>. QED  BY Zenon, <1>1, <1>3, <2>1, <2>3
<1>4. ASSUME NEW e \in Ids \cup {NoRow}, e = req[r].recs[req[r].ended + 1], RowEnded(r, e),
             req[r].ended + 1 \in DOMAIN req[r].recs
      PROVE  id \in orphans' \/ \E s \in DOMAIN req' : Owns(s, id)'
  <2>1. CASE id = e /\ orphans' = orphans \cup ({e} \cap Ids)
    BY Zenon, <2>1
  <2>2. CASE id = e /\ rows' \in {mem_finish(e), mem_error(e)}
    <3>1. /\ \A j \in Ids : mem_finish(e)[j] = IF j = e /\ Present(e) THEN Completed(e) ELSE rows[j]
          /\ \A j \in Ids : mem_error(e)[j] = IF j = e /\ Present(e) THEN Errored(rows[e]) ELSE rows[j]
      BY Zenon, FinishError
    <3>2. Present(e) /\ rows'[e] \in {Completed(e), Errored(rows[e])}
      BY Zenon, <2>2, <3>1 DEF Present
    <3>3. rows[e] \in JailRecord /\ 0 \in 0..MaxLines
      BY SMTT(30), <3>2, PresentRow, LedgerAssumption DEF Typed
    <3>. QED  BY Zenon, <2>2, <3>2, <3>3, CompletedRow, RowsOf
  <2>3. CASE id # e
    <3>1. rows'[id] = rows[id] /\ orphans \subseteq orphans'
      BY Zenon, <1>4, <2>3, EndedRows DEF RowEnded
    <3>2. id \in orphans \/ \E s \in Requests : Owns(s, id)
      BY Zenon, <3>1 DEF RunningRowsOwned, Present
    <3>3. ASSUME Owns(r, id)
          PROVE  Owns(r, id)'
      <4>1. PICK k \in DOMAIN req[r].recs : req[r].recs[k] = id /\ k > req[r].ended
        BY Zenon, <3>3 DEF Owns
      <4>2. k > req[r].ended + 1 /\ k \in 1..Len(req[r].recs)
        BY SMTT(30), <1>2, <1>4, <2>3, <4>1
      <4>3. h.recs = req[r].recs /\ h.ended = req[r].ended + 1
        BY <1>2, <4>2 DEF Ends
      <4>. QED  BY Zenon, <1>1, <4>1, <4>2, <4>3 DEF Owns
    <3>4. \A s \in Requests : Owns(s, id) => Owns(s, id)'
      BY Zenon, <1>1, <3>3 DEF Owns
    <3>. QED  BY Zenon, <1>1, <3>1, <3>2, <3>4
  <2>. QED  BY Zenon, <1>4, <2>1, <2>2, <2>3 DEF RowEnded
<1>. QED  BY Zenon, <1>3, <1>4, NextRow

LEMMA RunningStep == Typed /\ Held /\ OwnedRuns /\ RunningRowsOwned /\ [Next]_vars => RunningRowsOwned'
<1> SUFFICES ASSUME Typed, Held, OwnedRuns, RunningRowsOwned, [Next]_vars PROVE RunningRowsOwned'
  BY Zenon
<1>1. ASSUME LiveWrite, orphans' = orphans, Requests \subseteq DOMAIN req',
             \A s \in Requests : req'[s].recs = req[s].recs /\ req'[s].ended = req[s].ended
      PROVE  RunningRowsOwned'
  BY <1>1 DEF LiveWrite, RunningRowsOwned, Owns, Present, Requests
<1>2. ASSUME NEW r \in Requests, NEW h, Works(r, h)
      PROVE  RunningRowsOwned'
  <2>1. DOMAIN req' = Requests /\ req'[r] = h /\ \A s \in Requests : s # r => req'[s] = req[s]
    BY Zenon, <1>2, MovesTyped DEF Works
  <2>. QED  BY Zenon, <1>1, <1>2, <2>1 DEF Works
<1>3. ASSUME NEW r \in Requests, Hangup(r)
      PROVE  RunningRowsOwned'
  <2>1. DOMAIN req' = Requests /\ \A s \in Requests : s # r => req'[s] = req[s]
    BY Zenon, <1>3, HangupMoves, MovesTyped
  <2>2. rows' = rows /\ orphans' = orphans \cup {id \in Ids : Owns(r, id)}
    BY Zenon, <1>3 DEF Hangup
  <2>3. \A id \in Ids : \A s \in Requests : s # r /\ Owns(s, id) => Owns(s, id)'
    BY Zenon, <2>1 DEF Owns
  <2>. QED  BY Zenon, <2>1, <2>2, <2>3 DEF RunningRowsOwned, Present, Requests
<1>4. CASE Restart
  BY Zenon, <1>4 DEF Restart, RunningRowsOwned, Present, Pg, Typed, Rows
<1>5. CASE Aside
  BY Zenon, <1>1, <1>5 DEF Aside
<1>. QED  BY Zenon, <1>2, <1>3, <1>4, <1>5, RunningStarts, RunningEnds, Steps

\* Whatever fails on the way, no handler leaves a row running behind it: a row
\* that says so is still to be ended by its handler, unless that handler was
\* dropped, or the statement that ended the row failed.
THEOREM NoRowLeftRunning == Spec => []RunningRowsOwned
<1>1. Init => RunningRowsOwned
  BY Zenon DEF Init, RunningRowsOwned, Present
<1>. QED  BY <1>1, RunningStep, Typing, HeldAlways, OwnedAlways, PTL DEF Spec

LEMMA EndedStep ==
    ASSUME Typed, Held, OwnedRuns, [Next]_vars, NEW id \in Ids, Present(id),
           rows[id].status # "running"
    PROVE  rows'[id] = Absent \/ rows'[id].status = rows[id].status
<1>1. ASSUME NEW r \in Requests, NEW h, NEW new, Starts(r, h, new)
      PROVE  rows'[id] \in {rows[id], Absent}
  <2>1. new = next_id => new # id
    BY DEF Held, Typed, Present
  <2>. QED  BY Zenon, <1>1, <2>1 DEF Starts, RowStarted
<1>2. ASSUME NEW r \in Requests, NEW h, Ends(r, h)
      PROVE  rows'[id] = rows[id]
  BY <1>2, NextRow, EndedRows
<1>3. CASE Restart
  BY Zenon, <1>3 DEF Restart
<1>4. ASSUME NEW r \in Requests, Hangup(r)
      PROVE  rows' = rows
  BY Zenon, <1>4 DEF Hangup
<1>5. CASE LiveWrite
  BY Zenon, <1>5 DEF LiveWrite, Present
<1>. QED  BY Zenon, <1>1, <1>2, <1>3, <1>4, <1>5, Steps DEF Works, Aside

\* An ended row stays ended the same way: a handler ends each of its rows once,
\* and no task's write changes a status.
THEOREM EndingIsFinal == Spec => EndedStays
<1>1. Typed /\ Held /\ OwnedRuns /\ [Next]_vars =>
         [\A id \in Ids : Present(id) /\ rows[id].status # "running" =>
             rows'[id] = Absent \/ rows'[id].status = rows[id].status]_vars
  BY Zenon, EndedStep
<1>. QED  BY <1>1, Typing, HeldAlways, OwnedAlways, PTL DEF Spec, EndedStays
-----------------------------------------------------------------------------
(* What a completed row says, and the tasks that wrote it *)

LEMMA FiguresStep ==
    ASSUME Typed, Held, OwnedRuns, FinalFiguresKept, [Next]_vars
    PROVE  FinalFiguresKept'
<1> SUFFICES ASSUME Pg', NEW id \in Ids, rows'[id] # Absent, rows'[id].status = "completed"
             PROVE  rows'[id].stats = "final" /\ rows'[id].out = buf'[id]
  BY Zenon DEF FinalFiguresKept, Present
<1>1. ASSUME Pg, rows'[id] = rows[id], buf'[id] = buf[id]
      PROVE  rows'[id].stats = "final" /\ rows'[id].out = buf'[id]
  BY Zenon, <1>1 DEF FinalFiguresKept, Present
<1>2. ASSUME LiveWrite, Pg
      PROVE  rows'[id] = rows[id] /\ rows[id] # Absent /\ rows[id].status = "completed"
  BY Zenon, <1>2 DEF LiveWrite
<1>3. ASSUME NEW r \in Requests, NEW h, Works(r, h)
      PROVE  rows'[id].stats = "final" /\ rows'[id].out = buf'[id]
  BY Zenon, <1>1, <1>2, <1>3 DEF Works, Pg
<1>4. ASSUME NEW r \in Requests, NEW h, NEW new, Starts(r, h, new)
      PROVE  rows'[id].stats = "final" /\ rows'[id].out = buf'[id]
  <2>1. rows'[id] = rows[id] /\ backend' = backend /\ buf' = buf
    BY <1>4 DEF Starts, RowStarted, new_running
  <2>. QED  BY Zenon, <1>1, <2>1 DEF Pg
<1>5. ASSUME NEW r \in Requests, NEW h, Ends(r, h)
      PROVE  rows'[id].stats = "final" /\ rows'[id].out = buf'[id]
  <2>1. rows'[id] = rows[id] \/ rows'[id] = Completed(id)
    BY <1>5, NextRow, EndedRows
  <2>2. backend' = backend /\ buf' = buf
    BY Zenon, <1>5 DEF Ends
  <2>. QED  BY <1>1, <2>1, <2>2 DEF Completed, Pg
<1>6. ASSUME NEW r \in Requests, Hangup(r)
      PROVE  rows'[id].stats = "final" /\ rows'[id].out = buf'[id]
  BY Zenon, <1>1, <1>6 DEF Hangup, Pg
<1>7. CASE Restart
  BY Zenon, <1>1, <1>7 DEF Restart, Pg
<1>8. CASE Aside
  <2>1. Pg /\ LiveWrite
    BY Zenon, <1>8 DEF Aside, Pg
  <2>2. buf'[id] = buf[id]
    <3>1. ASSUME NEW r \in Requests, NEW k \in DOMAIN req[r].recs, Alive(r, k), req[r].recs[k] = id
          PROVE  FALSE
      BY Zenon, <1>2, <2>1, <3>1, AliveOwned DEF OwnedRuns, Present
    <3>. QED  BY Zenon, <1>8, <3>1 DEF Aside
  <2>. QED  BY Zenon, <1>1, <1>2, <2>1, <2>2
<1>. QED  BY Zenon, <1>3, <1>4, <1>5, <1>6, <1>7, <1>8, Steps

\* With the Postgres ledger the samples and flushes that were under way when
\* their tasks were aborted do not overwrite a completed row's figures.
THEOREM FiguresKept == Spec => []FinalFiguresKept
<1>1. Init => FinalFiguresKept
  BY Zenon DEF Init, FinalFiguresKept, Present
<1>. QED  BY <1>1, FiguresStep, Typing, HeldAlways, OwnedAlways, PTL DEF Spec

\* A row of a handler has a task only where the handler's place says so, and
\* a completed one has none.
Swept ==
    /\ \A r \in Requests : \A k \in DOMAIN req[r].recs :
          /\ req[r].recs[k] \in samplers => Sampled(req[r], k)
          /\ req[r].recs[k] \in flushers => Flushed(req[r], k)
    /\ CompletedHasNoTasks

\* The tasks of the handler that moves, of the others, and of rows that are
\* completed.
LEMMA SweptMoves ==
    ASSUME Typed, Held', OwnedRuns', Swept, NEW r \in Requests, NEW h, Moves(r, h), TasksFit(r, h),
           \A k \in DOMAIN h.recs : h.recs[k] \in samplers \cup flushers => k \in DOMAIN req[r].recs /\ req[r].recs[k] = h.recs[k],
           \A id \in samplers \cup flushers :
              rows'[id] # Absent /\ rows'[id].status = "completed" =>
                 rows[id] # Absent /\ rows[id].status = "completed"
    PROVE  Swept'
<1>1. DOMAIN req' = Requests /\ req'[r] = h /\ \A s \in Requests : s # r => req'[s] = req[s]
  BY Zenon, MovesTyped
<1>2. /\ samplers' \subseteq Ids /\ flushers' \subseteq Ids /\ NoRow \notin Ids
      /\ samplers \subseteq Ids /\ flushers \subseteq Ids
  BY DEF TasksFit, Ids, NoRow, Typed
<1>3. \A s \in Requests : \A k \in DOMAIN h.recs, j \in DOMAIN req'[s].recs :
         h.recs[k] = req'[s].recs[j] /\ h.recs[k] # NoRow => s = r /\ k = j
  BY <1>1 DEF Held, Requests
<1>4. ASSUME NEW k \in DOMAIN h.recs
      PROVE  /\ h.recs[k] \in samplers' => Sampled(h, k)
             /\ h.recs[k] \in flushers' => Flushed(h, k)
  <2>1. h.recs[k] \in Ids => ~ \E j \in DOMAIN h.recs : j # k /\ h.recs[j] = h.recs[k]
    BY Zenon, <1>1, <1>2, <1>3
  <2>2. /\ h.recs[k] \in samplers => Sampled(req[r], k)
        /\ h.recs[k] \in flushers => Flushed(req[r], k)
    BY Zenon DEF Swept
  <2>. QED  BY Zenon, <1>2, <2>1, <2>2 DEF TasksFit
<1>5. ASSUME NEW s \in Requests, s # r, NEW k \in DOMAIN req[s].recs
      PROVE  /\ req[s].recs[k] \in samplers' => Sampled(req[s], k)
             /\ req[s].recs[k] \in flushers' => Flushed(req[s], k)
  <2>1. req[s].recs[k] \in Ids => ~ \E j \in DOMAIN h.recs : h.recs[j] = req[s].recs[k]
    BY <1>1, <1>2, <1>3, <1>5
  <2>2. /\ req[s].recs[k] \in samplers' => req[s].recs[k] \in samplers
        /\ req[s].recs[k] \in flushers' => req[s].recs[k] \in flushers
    BY Zenon, <1>2, <2>1 DEF TasksFit
  <2>. QED  BY Zenon, <2>2 DEF Swept
<1>6. ASSUME NEW id \in samplers' \cup flushers', rows'[id] # Absent
      PROVE  rows'[id].status # "completed"
  <2>1. CASE id \in samplers \cup flushers
    BY Zenon, <1>2, <1>6, <2>1 DEF Swept, CompletedHasNoTasks, Present
  <2>2. CASE id \notin samplers \cup flushers
    <3>1. PICK k \in DOMAIN h.recs : k > h.ended /\ h.recs[k] = id
      BY Zenon, <2>2 DEF TasksFit
    <3>2. rows'[id].status = "running"
      BY <1>1, <1>2, <1>6, <3>1 DEF OwnedRuns, Present, Requests
    <3>. QED  BY Zenon, <3>2
  <2>. QED  BY Zenon, <2>1, <2>2
<1>. QED  BY Zenon, <1>1, <1>4, <1>5, <1>6 DEF Swept, CompletedHasNoTasks, Present, Requests

LEMMA SweptStep ==
    ASSUME Typed, Held, OwnedRuns, Swept, [Next]_vars
    PROVE  Swept'
<1>1. Typed' /\ Held' /\ OwnedRuns'
  BY Zenon, TypedStep, HeldStep, OwnedStep
<1>2. samplers \subseteq Ids /\ flushers \subseteq Ids /\ NoRow \notin Ids
  BY DEF Ids, NoRow, Typed
<1>3. ASSUME NEW r \in Requests, NEW h, Works(r, h)
      PROVE  Swept'
  <2>1. Moves(r, h) /\ TasksFit(r, h) /\ h.recs = req[r].recs
    BY Zenon, <1>3 DEF Works
  <2>2. \A id \in Ids : rows'[id] # Absent /\ rows'[id].status = "completed" =>
           rows[id] # Absent /\ rows[id].status = "completed"
    BY Zenon, <1>3 DEF Works, LiveWrite
  <2>. QED  BY Zenon, <1>1, <1>2, <2>1, <2>2, SweptMoves
<1>4. ASSUME NEW r \in Requests, NEW h, NEW new, Starts(r, h, new)
      PROVE  Swept'
  <2>1. Moves(r, h) /\ TasksFit(r, h)
    BY Zenon, <1>4 DEF Starts
  <2>2. new \notin samplers \cup flushers
    BY <1>2, <1>4 DEF Starts, RowStarted, Held, Typed
  <2>3. PICK recs \in Seq(Ids \cup {NoRow}) : recs = req[r].recs
    BY Zenon, Here, Fields
  <2>4. \A k \in DOMAIN h.recs : h.recs[k] = new \/ (k \in DOMAIN recs /\ h.recs[k] = recs[k])
    BY <1>4, <2>3, Appended DEF Starts
  <2>5. \A id \in samplers \cup flushers : rows'[id] \in {rows[id], Absent}
    BY Zenon, <1>2, <1>4, <2>2 DEF Starts, RowStarted
  <2>. QED  BY Zenon, <1>1, <2>1, <2>2, <2>3, <2>4, <2>5, SweptMoves
<1>5. ASSUME NEW r \in Requests, NEW h, Ends(r, h)
      PROVE  Swept'
  <2>1. Moves(r, h) /\ TasksFit(r, h) /\ (h.recs = req[r].recs \/ h.recs = <<>>)
    BY Zenon, <1>5 DEF Ends
  <2>2. ASSUME NEW id \in samplers \cup flushers, rows'[id] # Absent, rows'[id].status = "completed"
        PROVE  rows'[id] = rows[id]
    <3>1. CASE UNCHANGED <<rows, orphans>>
      BY Zenon, <3>1
    <3>2. ASSUME NEW e, e = req[r].recs[req[r].ended + 1], RowEnded(r, e),
                 req[r].ended + 1 \in DOMAIN req[r].recs
          PROVE  rows'[id] = rows[id]
      <4>1. At(r, "record") => e # id
        BY Zenon, <3>2 DEF Swept, Sampled, Flushed, At
      <4>. QED  BY ZenonT(30), <1>2, <2>2, <3>2, <4>1, EndedRows
    <3>. QED  BY Zenon, <1>5, <3>1, <3>2 DEF Ends
  <2>3. DOMAIN <<>> = {}
    OBVIOUS
  <2>. QED  BY Zenon, <1>1, <2>1, <2>2, <2>3, SweptMoves
<1>6. ASSUME NEW r \in Requests, Hangup(r)
      PROVE  Swept'
  <2>1. /\ DOMAIN req' = Requests /\ DOMAIN req'[r].recs = {}
        /\ \A s \in Requests : s # r => req'[s] = req[s]
    BY SMTT(30), <1>6, HangupMoves, MovesTyped, IdleShaped
  <2>2. UNCHANGED <<rows, samplers, flushers>>
    BY Zenon, <1>6 DEF Hangup, tasks
  <2>. QED  BY Zenon, <2>1, <2>2 DEF Swept, CompletedHasNoTasks, Present, Requests
<1>7. CASE Restart
  BY <1>7 DEF Restart, Swept, CompletedHasNoTasks
<1>8. CASE Aside
  <2>1. DOMAIN <<>> = {}
    OBVIOUS
  <2>2. CompletedHasNoTasks'
    BY Zenon, <1>2, <1>8 DEF Aside, LiveWrite, Swept, CompletedHasNoTasks, Present
  <2>. QED  BY Zenon, <1>8, <2>1, <2>2 DEF Aside, Swept, Requests
<1>. QED  BY Zenon, <1>3, <1>4, <1>5, <1>6, <1>7, <1>8, Steps

\* Both tasks of a row were aborted before the row was completed.
THEOREM TasksSwept == Spec => []CompletedHasNoTasks
<1>1. Init => Swept
  BY Zenon DEF Init, Swept, CompletedHasNoTasks, Requests
<1>2. Swept => CompletedHasNoTasks
  BY Zenon DEF Swept
<1>. QED  BY <1>1, <1>2, SweptStep, Typing, HeldAlways, OwnedAlways, PTL DEF Spec
-----------------------------------------------------------------------------
(* The ring *)

\* The rows of InMemoryJailStore are the last Capacity ones.
Ring ==
    ~Pg => \A id \in Ids : rows[id] # Absent <=> id < next_id /\ id + Capacity >= next_id

\* Dropping the oldest row when the ring is full makes room for one.
LEMMA RingTurns ==
    ASSUME Typed, Ring, ~Pg, next_id \in Ids, rows' = mem_start, next_id' = next_id + 1
    PROVE  \A id \in Ids : rows'[id] # Absent <=> id < next_id' /\ id + Capacity >= next_id'
<1> DEFINE kept == {i \in Ids : Present(i)}
           old  == CHOOSE i \in kept : \A j \in kept : i <= j
<1>1. rows' = IF Cardinality(kept) >= Capacity
              THEN [rows EXCEPT ![old] = Absent, ![next_id] = new_running]
              ELSE [rows EXCEPT ![next_id] = new_running]
  BY DEF mem_start
<1>2. /\ Capacity \in Nat /\ Capacity > 0 /\ MaxRows \in Nat /\ Ids \subseteq Nat
      /\ next_id \in 1..MaxRows
  BY LedgerAssumption DEF Ids
<1>3. kept = {i \in Ids : i < next_id /\ i + Capacity >= next_id}
  BY Zenon DEF Ring, Present
<1>4. new_running # Absent /\ DOMAIN rows = Ids
  BY Zenon DEF new_running, Absent, Typed, Rows
<1>5. \A id \in Ids : rows[id] # Absent <=> id < next_id /\ id + Capacity >= next_id
  BY Zenon DEF Ring
<1>. HIDE DEF kept, old
<1>6. CASE next_id <= Capacity
  <2>1. kept = 1..(next_id - 1)
    BY SMTT(30), <1>2, <1>3, <1>6 DEF Ids
  <2>2. 1 \in Int /\ next_id - 1 \in Int
    BY <1>2
  <2>3. Cardinality(1..(next_id - 1)) = IF 1 > next_id - 1 THEN 0 ELSE next_id - 1 - 1 + 1
    BY Zenon, <2>2, FS_Interval
  <2>4. ~(Cardinality(kept) >= Capacity)
    BY SMTT(30), <1>2, <1>6, <2>1, <2>3
  <2>5. \A id \in Ids : rows'[id] = IF id = next_id THEN new_running ELSE rows[id]
    BY Zenon, <1>1, <1>4, <2>4
  <2>. QED  BY SMTT(30), <1>2, <1>4, <1>5, <1>6, <2>5 DEF Ids
<1>7. CASE next_id > Capacity
  <2>1. kept = (next_id - Capacity)..(next_id - 1)
    BY SMTT(30), <1>2, <1>3, <1>7 DEF Ids
  <2>2. next_id - Capacity \in Int /\ next_id - 1 \in Int
    BY <1>2
  <2>3. Cardinality((next_id - Capacity)..(next_id - 1)) =
           IF next_id - Capacity > next_id - 1 THEN 0 ELSE next_id - 1 - (next_id - Capacity) + 1
    BY Zenon, <2>2, FS_Interval
  <2>4. Cardinality(kept) >= Capacity
    BY SMTT(30), <1>2, <2>1, <2>3
  <2>5. old = next_id - Capacity
    <3>1. next_id - Capacity \in kept /\ \A j \in kept : next_id - Capacity <= j
      BY <1>2, <2>1
    <3>2. old \in kept /\ \A j \in kept : old <= j
      BY Zenon, <3>1 DEF old
    <3>. QED  BY SMTT(30), <1>2, <2>1, <3>1, <3>2
  <2>6. \A id \in Ids : rows'[id] = IF id = next_id THEN new_running
                                   ELSE IF id = next_id - Capacity THEN Absent ELSE rows[id]
    BY Zenon, <1>1, <1>4, <2>4, <2>5
  <2>. QED  BY SMTT(30), <1>2, <1>4, <1>5, <1>7, <2>6
<1>. QED  BY SMTT(30), <1>2, <1>6, <1>7

LEMMA RingStep == Typed /\ Ring /\ [Next]_vars => Ring'
<1> SUFFICES ASSUME Typed, Ring, [Next]_vars PROVE Ring'
  BY Zenon
<1>1. ASSUME UNCHANGED <<backend, next_id>>, \A id \in Ids : rows'[id] = Absent <=> rows[id] = Absent
      PROVE  Ring'
  BY Zenon, <1>1 DEF Ring, Pg
<1>2. ASSUME NEW r \in Requests, NEW h, Works(r, h)
      PROVE  Ring'
  BY Zenon, <1>1, <1>2 DEF Works, LiveWrite
<1>3. ASSUME NEW r \in Requests, NEW h, NEW id, Starts(r, h, id)
      PROVE  Ring'
  <2>1. backend' = backend /\ (~Pg => next_id \in Ids /\ rows' = mem_start /\ next_id' = next_id + 1)
    BY Zenon, <1>3 DEF Starts, RowStarted
  <2>. QED  BY Zenon, <2>1, RingTurns DEF Ring, Pg
<1>4. ASSUME NEW r \in Requests, NEW h, Ends(r, h)
      PROVE  Ring'
  <2>1. \A id \in Ids : rows'[id] = Absent <=> rows[id] = Absent
    BY Zenon, <1>4, EndedRows DEF Ends, Present
  <2>. QED  BY Zenon, <1>1, <1>4, <2>1 DEF Ends
<1>5. ASSUME NEW r \in Requests, Hangup(r)
      PROVE  Ring'
  BY Zenon, <1>1, <1>5 DEF Hangup
<1>6. CASE Restart
  BY <1>6 DEF Restart, Ring, Pg, Ids
<1>7. CASE Aside
  BY Zenon, <1>1, <1>7 DEF Aside, LiveWrite
<1>. QED  BY Zenon, <1>2, <1>3, <1>4, <1>5, <1>6, <1>7, Steps

\* The state has its shape, and the in-memory ledger is the last Capacity rows.
THEOREM TypesHold == Spec => []TypeOK
<1>1. Init => Ring
  BY DEF Init, Ring, Ids
<1>2. Typed /\ Ring => TypeOK
  BY Zenon DEF Typed, Ring, TypeOK, Present, Rows
<1>. QED  BY <1>1, <1>2, RingStep, Typing, PTL DEF Spec
====
