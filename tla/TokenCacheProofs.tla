-------------------------- MODULE TokenCacheProofs --------------------------
(* LruTokenCache implements TokenContract, for every number of tokens,       *)
(* sessions and callers, every capacity and every bound on clock and faults. *)
EXTENDS TokenCache, TLAPS, FiniteSetTheorems, WellFoundedInduction

MaybeRecord == TokenRecord \cup {None}

Call == [op : {"idle", "issue", "lookup", "revoke", "revoke_session"},
         at : {"start", "confirm", "ask", "put", "evict"},
         tok : Tokens \cup {None}, sid : Sids \cup {None}, rec : MaybeRecord]

\* The shapes of the state.
Shapes ==
    /\ now \in Nat /\ faults \in Nat
    /\ rows \in [Tokens -> MaybeRecord]
    /\ map \in [Tokens -> MaybeRecord]
    /\ granted \in [Tokens -> MaybeRecord]
    /\ call \in [Callers -> Call]
    /\ \A c \in Callers : call[c].at \in {"confirm", "ask", "put"} => call[c].tok \in Tokens
    /\ \A c \in Callers : call[c].at = "evict" =>
           \/ call[c].op = "revoke" /\ call[c].tok \in Tokens
           \/ call[c].op = "revoke_session" /\ call[c].sid \in Sids
    /\ withdrawn \subseteq closing /\ closing \subseteq Keys(granted)

\* Every copy of a record, in the store, in the cache or carried by a call, is
\* the one the token was issued with.
Copies ==
    /\ \A t \in Tokens : rows[t] \in {None, granted[t]} /\ map[t] \in {None, granted[t]}
    /\ \A c \in Callers : call[c].at = "put" =>
           call[c].rec # None /\ call[c].rec = granted[call[c].tok]

\* As long as the database has not failed, the row of a token nobody revokes is
\* there until it expires.
Kept ==
    faults = 0 => \A t \in Tokens :
        granted[t] # None /\ t \notin closing => rows[t] = granted[t] \/ is_expired(granted[t], now)

\* A token whose revocation is in force is nowhere.
Gone == \A t \in withdrawn : rows[t] = None /\ map[t] = None /\ ~Carried(t)

IInv == Shapes /\ Copies /\ Kept /\ Gone

-----------------------------------------------------------------------------
\* Initially nothing is issued, stored, cached or in progress.
LEMMA InitIInv == Init => IInv
<1> SUFFICES ASSUME Init PROVE IInv BY Zenon
<1>1. \A c \in Callers : call[c] = Idle BY Zenon DEF Init
<1>2. Shapes
  <2>1. Idle \in Call BY Zenon DEF Idle, Call, MaybeRecord
  <2>2. call \in [Callers -> Call] BY Zenon, <2>1 DEF Init
  <2>3. None \in MaybeRecord BY Zenon DEF MaybeRecord
  <2> QED BY Zenon, <1>1, <2>2, <2>3 DEF Init, Shapes, Idle
<1>3. Copies BY Zenon, <1>1 DEF Init, Copies, Idle
<1>4. Kept BY Zenon DEF Init, Kept
<1>5. Gone BY Zenon DEF Init, Gone
<1> QED BY Zenon, <1>2, <1>3, <1>4, <1>5 DEF IInv

\* LruInner::put changes the map at the key it is given and drops others.
LEMMA PutMap ==
    ASSUME Shapes, NEW key \in Tokens, NEW rec \in TokenRecord, lru_put(key, rec)
    PROVE  /\ map' \in [Tokens -> MaybeRecord]
           /\ \A t \in Tokens : map'[t] \in {None, map[t]} \/ (t = key /\ map'[t] = rec)
BY Zenon DEF lru_put, Shapes, MaybeRecord

\* issue draws a new token, so no row, entry or call is about it yet.
LEMMA IssueIInv == ASSUME IInv, NEW c \in Callers, Issue(c) PROVE IInv'
<1> USE RecordAssumption, NoneAssumption
<1>1. PICK t \in Tokens, sid \in Sids, g \in Grants, ttl \in Ttls :
        LET rec == [session |-> sid, grant |-> g,
                    expires |-> IF ttl = None THEN None ELSE now + ttl]
        IN  /\ granted[t] = None
            /\ granted' = [granted EXCEPT ![t] = rec]
            /\ call' = [call EXCEPT ![c] = [op |-> "issue", at |-> "confirm", tok |-> t,
                                            sid |-> sid, rec |-> None]]
            /\ \/ inner_issue(t, rec) /\ NoFault
               \/ Fault /\ UNCHANGED rows
  BY Zenon DEF Issue
<1> DEFINE rec == [session |-> sid, grant |-> g,
                   expires |-> IF ttl = None THEN None ELSE now + ttl]
<1>2. rec \in TokenRecord BY TtlAssumption DEF TokenRecord, IInv, Shapes
<1>3. UNCHANGED <<now, map, order, closing, withdrawn, answer>> BY Zenon DEF Issue
<1>4. rows' \in [Tokens -> MaybeRecord] /\ faults' \in Nat
  BY <1>1, <1>2 DEF inner_issue, NoFault, Fault, IInv, Shapes, MaybeRecord
<1>5. Shapes'
  <2>1. [op |-> "issue", at |-> "confirm", tok |-> t, sid |-> sid, rec |-> None] \in Call
    BY Zenon DEF Call, MaybeRecord
  <2>2. call' \in [Callers -> Call] BY Zenon, <1>1, <2>1 DEF IInv, Shapes
  <2>3. granted' \in [Tokens -> MaybeRecord] /\ Keys(granted) \subseteq Keys(granted)'
    BY Zenon, <1>1, <1>2 DEF IInv, Shapes, MaybeRecord, Keys
  <2> QED BY Zenon, <1>1, <1>3, <1>4, <2>2, <2>3 DEF IInv, Shapes
<1>6. rows[t] = None /\ map[t] = None BY Zenon, <1>1 DEF IInv, Copies
<1>7. \A u \in Tokens : u # t => granted'[u] = granted[u] /\ rows'[u] = rows[u]
  BY Zenon, <1>1 DEF inner_issue, IInv, Shapes
<1>8. granted'[t] = rec /\ rows'[t] \in {None, rec}
  BY Zenon, <1>1, <1>6 DEF inner_issue, IInv, Shapes
<1>9. Copies'
  <2>1. \A u \in Tokens : rows'[u] \in {None, granted'[u]} /\ map'[u] \in {None, granted'[u]}
    BY Zenon, <1>3, <1>6, <1>7, <1>8 DEF IInv, Copies
  <2>2. ASSUME NEW d \in Callers, call'[d].at = "put"
        PROVE  call'[d].rec # None /\ call'[d].rec = granted'[call'[d].tok]
    <3>1. d # c /\ call'[d] = call[d] BY Zenon, <1>1, <2>2 DEF IInv, Shapes
    <3>2. call[d].rec # None /\ call[d].rec = granted[call[d].tok] /\ call[d].tok \in Tokens
      BY Zenon, <3>1, <2>2 DEF IInv, Shapes, Copies
    <3>3. call[d].tok # t BY Zenon, <3>2, <1>1
    <3> QED BY Zenon, <3>1, <3>2, <3>3, <1>7
  <2> QED BY Zenon, <2>1, <2>2 DEF Copies
<1>10. Kept'
  <2> SUFFICES ASSUME faults' = 0, NEW u \in Tokens, granted'[u] # None, u \notin closing'
               PROVE  rows'[u] = granted'[u] \/ is_expired(granted'[u], now')
    BY Zenon DEF Kept, is_expired
  <2>1. NoFault /\ inner_issue(t, rec) BY <1>1 DEF Fault, IInv, Shapes
  <2>2. CASE u = t BY Zenon, <2>1, <2>2, <1>8 DEF inner_issue, IInv, Shapes
  <2>3. CASE u # t BY Zenon, <2>1, <2>3, <1>7, <1>3 DEF NoFault, IInv, Kept
  <2> QED BY Zenon, <2>2, <2>3
<1>11. Gone'
  <2> SUFFICES ASSUME NEW u \in withdrawn PROVE rows'[u] = None /\ map'[u] = None /\ ~Carried(u)'
    BY Zenon, <1>3 DEF Gone
  <2>1. u \in Tokens /\ granted[u] # None BY Zenon DEF IInv, Shapes, Keys
  <2>2. u # t BY Zenon, <2>1, <1>1
  <2>3. rows'[u] = None /\ map'[u] = None BY Zenon, <1>7, <1>3, <2>1, <2>2 DEF IInv, Gone
  <2>4. \A d \in Callers : call'[d].at = "put" => call'[d] = call[d]
    BY Zenon, <1>1 DEF IInv, Shapes
  <2>5. ~Carried(u)' BY Zenon, <2>4 DEF IInv, Gone, Carried
  <2> QED BY Zenon, <2>3, <2>5
<1> QED BY Zenon, <1>5, <1>9, <1>10, <1>11 DEF IInv

\* A call in a state the code can leave it in.
Sound(k) ==
    /\ k.at \in {"confirm", "ask", "put"} => k.tok \in Tokens
    /\ k.at = "evict" => \/ k.op = "revoke" /\ k.tok \in Tokens
                         \/ k.op = "revoke_session" /\ k.sid \in Sids
    /\ k.at = "put" => k.rec # None /\ k.rec = granted[k.tok]

\* What the clock, the tables and the history may do in a step that issues nothing.
Steady ==
    /\ granted' = granted
    /\ now' \in Nat /\ now' >= now /\ faults' \in Nat /\ faults' >= faults
    /\ rows' \in [Tokens -> MaybeRecord] /\ map' \in [Tokens -> MaybeRecord]
    /\ \A t \in Tokens : rows'[t] \in {None, rows[t]} /\ map'[t] \in {None, granted[t]}
    /\ closing \subseteq closing' /\ closing' \subseteq Keys(granted)
    /\ withdrawn' \subseteq closing'
    /\ faults' = 0 => \A t \in Tokens \ closing' :
           granted[t] # None => rows'[t] = rows[t] \/ is_expired(granted[t], now')

\* What a step other than an issue has to show: its calls are sound, rows only
\* disappear, the cache only gains granted records, withdrawn tokens are gone.
LEMMA StepIInv ==
    ASSUME IInv, Steady, call' \in [Callers -> Call],
           \A d \in Callers : call'[d] = call[d] \/ Sound(call'[d]),
           Gone'
    PROVE  IInv'
<1>1. \A d \in Callers : call'[d].at \in {"confirm", "ask", "put"} => call'[d].tok \in Tokens
  BY Zenon DEF Sound, IInv, Shapes
<1>2. Shapes'
  <2>3. \A d \in Callers : call'[d].at = "evict" =>
           \/ call'[d].op = "revoke" /\ call'[d].tok \in Tokens
           \/ call'[d].op = "revoke_session" /\ call'[d].sid \in Sids
    BY Zenon DEF Sound, IInv, Shapes
  <2>4. granted' \in [Tokens -> MaybeRecord] /\ Keys(granted)' = Keys(granted)
    BY Zenon DEF IInv, Shapes, Keys, Steady
  <2> QED BY Zenon, <1>1, <2>3, <2>4 DEF Shapes, Steady
<1>3. Copies'
  <2>1. \A t \in Tokens : rows'[t] \in {None, granted'[t]} /\ map'[t] \in {None, granted'[t]}
    BY Zenon DEF IInv, Copies, Steady
  <2>2. \A d \in Callers : call'[d].at = "put" =>
           call'[d].rec # None /\ call'[d].rec = granted'[call'[d].tok]
    BY DEF IInv, Copies, Sound, Steady
  <2> QED BY Zenon, <2>1, <2>2 DEF Copies
<1>4. Kept'
  <2> SUFFICES ASSUME faults' = 0, NEW t \in Tokens, granted'[t] # None, t \notin closing'
               PROVE  rows'[t] = granted'[t] \/ is_expired(granted'[t], now')
    BY Zenon DEF Kept, is_expired
  <2>0. granted' = granted BY Zenon DEF Steady
  <2>1. faults = 0 /\ t \notin closing BY DEF IInv, Shapes, Steady
  <2>2. rows[t] = granted[t] \/ is_expired(granted[t], now) BY Zenon, <2>0, <2>1 DEF IInv, Kept
  <2>3. granted[t] \in TokenRecord BY Zenon, <2>0 DEF IInv, Shapes, MaybeRecord
  <2>4. is_expired(granted[t], now) => is_expired(granted[t], now')
    BY <2>3 DEF is_expired, TokenRecord, IInv, Shapes, Steady
  <2>5. rows'[t] = rows[t] \/ is_expired(granted[t], now') BY Zenon, <2>0 DEF Steady
  <2> QED BY Zenon, <2>0, <2>2, <2>4, <2>5
<1> QED BY Zenon, <1>2, <1>3, <1>4 DEF IInv

\* A step that leaves the tables and the history alone is steady.
LEMMA SameSteady ==
    ASSUME IInv, UNCHANGED <<now, rows, map, granted, closing, withdrawn>>,
           faults' \in Nat, faults' >= faults
    PROVE  Steady
BY DEF IInv, Shapes, Copies, Steady

\* An idle caller carries nothing.
LEMMA IdleCall == Idle \in Call /\ Sound(Idle) /\ Idle.at = "start"
BY Zenon DEF Idle, Call, Sound, MaybeRecord

\* A call that returns leaves the others alone.
LEMMA ReturnCalls ==
    ASSUME IInv, NEW c \in Callers, Return(c)
    PROVE  /\ call' \in [Callers -> Call]
           /\ \A d \in Callers : call'[d] = call[d] \/ Sound(call'[d])
           /\ \A t : Carried(t)' => Carried(t)
           /\ call'[c] = Idle /\ \A d \in Callers \ {c} : call'[d] = call[d]
BY Zenon, IdleCall DEF Return, IInv, Shapes, Carried

\* What the inner store finds is the granted record.
LEMMA FoundGranted ==
    ASSUME IInv, NEW t \in Tokens, Found(t) # None
    PROVE  Found(t) = granted[t] /\ Found(t) \in TokenRecord /\ t \notin withdrawn
BY Zenon DEF Found, IInv, Copies, Shapes, Gone, MaybeRecord

\* Confirm and Ask have the record in hand, or end the call.
LEMMA ReadIInv ==
    ASSUME IInv, NEW c \in Callers, call[c].at \in {"confirm", "ask"},
           UNCHANGED <<now, rows, map, granted, closing, withdrawn>>,
           faults' \in Nat, faults' >= faults,
           \/ /\ Found(call[c].tok) # None
              /\ call' = [call EXCEPT ![c].at = "put", ![c].rec = Found(call[c].tok)]
           \/ Return(c)
    PROVE  IInv'
<1>0. call[c] \in Call /\ call[c].tok \in Tokens BY Zenon DEF IInv, Shapes
<1>1. CASE Return(c)
  <2>1. Gone' BY Zenon, <1>1, ReturnCalls DEF IInv, Gone
  <2> QED BY Zenon, <1>1, <2>1, ReturnCalls, SameSteady, StepIInv
<1>2. CASE /\ Found(call[c].tok) # None
           /\ call' = [call EXCEPT ![c].at = "put", ![c].rec = Found(call[c].tok)]
  <2> DEFINE r == [call[c] EXCEPT !.at = "put", !.rec = Found(call[c].tok)]
  <2>1. /\ Found(call[c].tok) = granted[call[c].tok] /\ Found(call[c].tok) \in TokenRecord
        /\ call[c].tok \notin withdrawn
    BY Zenon, <1>0, <1>2, FoundGranted
  <2>2. call' = [call EXCEPT ![c] = r] BY Zenon, <1>2 DEF IInv, Shapes
  <2>3. r \in Call /\ r.at = "put" /\ r.tok = call[c].tok /\ r.rec = Found(call[c].tok)
    BY Zenon, <1>0, <2>1 DEF Call, MaybeRecord
  <2> HIDE DEF r
  <2>4. Sound(r) BY Zenon, <1>0, <1>2, <2>1, <2>3 DEF Sound
  <2>5. call' \in [Callers -> Call] /\ \A d \in Callers : call'[d] = call[d] \/ Sound(call'[d])
    BY Zenon, <2>2, <2>3, <2>4 DEF IInv, Shapes
  <2>6. Gone' BY <2>1, <2>2, <2>3 DEF Carried, IInv, Gone, Shapes
  <2> QED BY Zenon, <2>5, <2>6, SameSteady, StepIInv
<1> QED BY Zenon, <1>1, <1>2

\* issue reading its row back keeps the invariant.
LEMMA ConfirmIInv == ASSUME IInv, NEW c \in Callers, Confirm(c) PROVE IInv'
<1>1. faults' \in Nat /\ faults' >= faults BY DEF Confirm, Fault, NoFault, IInv, Shapes
<1> QED BY Zenon, <1>1, ReadIInv DEF Confirm

\* A lookup that misses the cache reads the row as it was issued.
LEMMA AskIInv == ASSUME IInv, NEW c \in Callers, Ask(c) PROVE IInv'
<1>1. faults' \in Nat /\ faults' >= faults BY DEF Ask, Fault, NoFault, IInv, Shapes
<1> QED BY Zenon, <1>1, ReadIInv DEF Ask

\* The start of a lookup changes only its own call.
LEMMA LookupIInv == ASSUME IInv, NEW c \in Callers, Lookup(c) PROVE IInv'
<1>1. UNCHANGED <<now, rows, map, granted, closing, withdrawn>> /\ faults' = faults
  BY Zenon DEF Lookup
<1>2. Steady BY <1>1, SameSteady DEF IInv, Shapes
<1>3. PICK t \in Tokens :
        \/ UNCHANGED call
        \/ call' = [call EXCEPT ![c] = [Idle EXCEPT !.op = "lookup", !.at = "ask", !.tok = t]]
  BY Zenon DEF Lookup
<1> DEFINE k == [Idle EXCEPT !.op = "lookup", !.at = "ask", !.tok = t]
<1>4. k \in Call /\ k.at = "ask" /\ k.tok = t BY Zenon DEF Idle, Call, MaybeRecord
<1>5. Sound(k) BY Zenon, <1>4 DEF Sound
<1>6. UNCHANGED call \/ call' = [call EXCEPT ![c] = k] BY Zenon, <1>3
<1> HIDE DEF k
<1>7. call' \in [Callers -> Call] /\ \A d \in Callers : call'[d] = call[d] \/ Sound(call'[d])
  BY Zenon, <1>4, <1>5, <1>6 DEF IInv, Shapes
<1>8. Gone' BY <1>1, <1>4, <1>6 DEF Carried, IInv, Gone, Shapes
<1> QED BY Zenon, <1>2, <1>7, <1>8, StepIInv

\* A caller that goes away carries nothing any more.
LEMMA AbandonIInv == ASSUME IInv, NEW c \in Callers, Abandon(c) PROVE IInv'
<1>1. UNCHANGED <<now, rows, map, granted, closing, withdrawn>> /\ faults' = faults /\ Return(c)
  BY Zenon DEF Abandon
<1>2. Steady BY <1>1, SameSteady DEF IInv, Shapes
<1>3. Gone' BY Zenon, <1>1, ReturnCalls DEF IInv, Gone
<1> QED BY Zenon, <1>1, <1>2, <1>3, ReturnCalls, StepIInv

\* The record a call carries belongs to a token whose revocation is not in force.
LEMMA PutIInv == ASSUME IInv, NEW c \in Callers, Put(c) PROVE IInv'
<1> USE RecordAssumption
<1>1. UNCHANGED <<now, rows, granted, closing, withdrawn, faults>> /\ Return(c)
      /\ call[c].at = "put" /\ lru_put(call[c].tok, call[c].rec)
  BY Zenon DEF Put
<1>2. /\ call[c].tok \in Tokens /\ call[c].rec = granted[call[c].tok]
      /\ call[c].rec \in TokenRecord /\ call[c].tok \notin withdrawn
  BY <1>1 DEF IInv, Shapes, Copies, MaybeRecord, Gone, Carried
<1>3. /\ map' \in [Tokens -> MaybeRecord]
      /\ \A t \in Tokens : \/ map'[t] \in {None, map[t]}
                           \/ t = call[c].tok /\ map'[t] = call[c].rec
  BY Zenon, <1>1, <1>2, PutMap DEF IInv
<1>4. Steady BY <1>1, <1>2, <1>3 DEF Steady, IInv, Shapes, Copies
<1>5. Gone'
  <2> SUFFICES ASSUME NEW t \in withdrawn PROVE rows'[t] = None /\ map'[t] = None /\ ~Carried(t)'
    BY Zenon, <1>1 DEF Gone
  <2>1. t \in Tokens BY Zenon DEF IInv, Shapes, Keys
  <2>2. map'[t] = None BY Zenon, <1>2, <1>3, <2>1 DEF IInv, Gone
  <2>3. ~Carried(t)' BY Zenon, <1>1, ReturnCalls DEF IInv, Gone
  <2> QED BY Zenon, <1>1, <2>2, <2>3 DEF IInv, Gone
<1> QED BY Zenon, <1>1, <1>4, <1>5, ReturnCalls, StepIInv

\* revoke and revoke_session delete rows and announce their tokens.
LEMMA DeleteIInv ==
    ASSUME IInv, NEW c \in Callers, NEW k \in Call, NEW S \in SUBSET Keys(granted),
           call' = [call EXCEPT ![c] = k], k.at = "evict", Sound(k),
           UNCHANGED <<now, map, granted, withdrawn>>,
           closing' = closing \cup S,
           rows' \in [Tokens -> MaybeRecord],
           \A t \in Tokens : rows'[t] = rows[t] \/ (t \in S /\ rows'[t] = None),
           faults' \in Nat, faults' >= faults
    PROVE  IInv'
<1>1. Steady BY DEF Steady, IInv, Shapes, Copies
<1>2. call' \in [Callers -> Call] /\ \A d \in Callers : call'[d] = call[d] \/ Sound(call'[d])
  BY Zenon DEF IInv, Shapes
<1>3. \A t : Carried(t)' => Carried(t) BY Zenon DEF Carried, IInv, Shapes
<1>4. Gone'
  <2> SUFFICES ASSUME NEW t \in withdrawn PROVE rows'[t] = None /\ map'[t] = None /\ ~Carried(t)'
    BY Zenon DEF Gone
  <2>1. t \in Tokens BY Zenon DEF IInv, Shapes, Keys
  <2> QED BY Zenon, <1>3, <2>1 DEF IInv, Gone
<1> QED BY Zenon, <1>1, <1>2, <1>4, StepIInv

\* The first half of a revocation keeps the invariant.
LEMMA RevokeIInv == ASSUME IInv, NEW c \in Callers, Revoke(c) PROVE IInv'
<1>1. PICK t \in Tokens :
         /\ granted[t] # None
         /\ call' = [call EXCEPT ![c] = [Idle EXCEPT !.op = "revoke", !.at = "evict", !.tok = t]]
         /\ closing' = closing \cup {t}
         /\ \/ inner_revoke(t) /\ NoFault
            \/ Fault /\ UNCHANGED rows
  BY Zenon DEF Revoke
<1> DEFINE k == [Idle EXCEPT !.op = "revoke", !.at = "evict", !.tok = t]
<1>2. k \in Call /\ k.at = "evict" /\ k.op = "revoke" /\ k.tok = t BY Zenon DEF Idle, Call, MaybeRecord
<1>3. Sound(k) BY Zenon, <1>2 DEF Sound
<1>4. call' = [call EXCEPT ![c] = k] BY Zenon, <1>1
<1> HIDE DEF k
<1>5. {t} \in SUBSET Keys(granted) BY Zenon, <1>1 DEF Keys
<1>6. /\ rows' \in [Tokens -> MaybeRecord]
      /\ \A u \in Tokens : rows'[u] = rows[u] \/ (u \in {t} /\ rows'[u] = None)
  BY Zenon, <1>1 DEF inner_revoke, IInv, Shapes, MaybeRecord
<1>7. faults' \in Nat /\ faults' >= faults BY <1>1 DEF Fault, NoFault, IInv, Shapes
<1>8. UNCHANGED <<now, map, granted, withdrawn>> BY Zenon DEF Revoke
<1> QED BY Zenon, <1>1, <1>2, <1>3, <1>4, <1>5, <1>6, <1>7, <1>8, DeleteIInv

\* The rows revoke_session deletes are those of the session's tokens.
LEMMA RevokeSessionIInv == ASSUME IInv, NEW c \in Callers, RevokeSession(c) PROVE IInv'
<1>1. PICK sid \in Sids :
         /\ call' = [call EXCEPT ![c] = [Idle EXCEPT !.op = "revoke_session", !.at = "evict",
                                                     !.sid = sid]]
         /\ closing' = closing \cup OfSession(sid)
         /\ \/ inner_revoke_session(sid) /\ NoFault
            \/ Fault /\ UNCHANGED rows
  BY Zenon DEF RevokeSession
<1> DEFINE k == [Idle EXCEPT !.op = "revoke_session", !.at = "evict", !.sid = sid]
<1>2. k \in Call /\ k.at = "evict" /\ k.op = "revoke_session" /\ k.sid = sid
  BY Zenon DEF Idle, Call, MaybeRecord
<1>3. Sound(k) BY Zenon, <1>2 DEF Sound
<1>4. call' = [call EXCEPT ![c] = k] BY Zenon, <1>1
<1> HIDE DEF k
<1>5. OfSession(sid) \in SUBSET Keys(granted) BY Zenon DEF Keys, OfSession
<1>6. \A u \in Tokens : rows[u] # None /\ rows[u].session = sid => u \in OfSession(sid)
  BY Zenon DEF OfSession, IInv, Copies
<1>7. /\ rows' \in [Tokens -> MaybeRecord]
      /\ \A u \in Tokens : rows'[u] = rows[u] \/ (u \in OfSession(sid) /\ rows'[u] = None)
  BY Zenon, <1>1, <1>6 DEF inner_revoke_session, IInv, Shapes, MaybeRecord
<1>8. faults' \in Nat /\ faults' >= faults BY <1>1 DEF Fault, NoFault, IInv, Shapes
<1>9. UNCHANGED <<now, map, granted, withdrawn>> BY Zenon DEF RevokeSession
<1> QED BY Zenon, <1>1, <1>2, <1>3, <1>4, <1>5, <1>7, <1>8, <1>9, DeleteIInv

\* When a revocation returns, the tokens whose row is gone and that no call
\* carries are gone from the cache too.
LEMMA EvictIInv == ASSUME IInv, NEW c \in Callers, Evict(c) PROVE IInv'
<1>1. UNCHANGED <<now, rows, granted, closing, faults>> /\ Return(c) /\ call[c].at = "evict"
  BY Zenon DEF Evict
<1>2. /\ map' \in [Tokens -> MaybeRecord]
      /\ \A t \in Tokens : map'[t] \in {None, map[t]}
  BY Zenon DEF Evict, lru_remove, lru_clear_session, IInv, Shapes, MaybeRecord
<1>3. \A t \in Targets(c) : map'[t] = None
  <2>1. CASE call[c].op = "revoke"
    BY <1>1, <2>1 DEF Targets, Evict, lru_remove, IInv, Shapes
  <2>2. CASE call[c].op # "revoke"
    <3>1. map' = [t \in Tokens |->
                    IF map[t] # None /\ map[t].session = call[c].sid THEN None ELSE map[t]]
      BY Zenon, <2>2 DEF Evict, lru_clear_session
    <3>2. ASSUME NEW t \in OfSession(call[c].sid) PROVE map'[t] = None
      BY Zenon, <3>1 DEF OfSession, IInv, Copies
    <3> QED BY Zenon, <2>2, <3>2 DEF Targets
  <2> QED BY Zenon, <2>1, <2>2
<1>4. withdrawn' = withdrawn \cup {t \in Targets(c) \cap closing : rows[t] = None /\ ~Carried(t)}
  BY Zenon DEF Evict
<1>5. Steady BY <1>1, <1>2, <1>4 DEF Steady, IInv, Shapes, Copies
<1>6. Gone'
  <2> SUFFICES ASSUME NEW t \in withdrawn' PROVE rows'[t] = None /\ map'[t] = None /\ ~Carried(t)'
    BY Zenon DEF Gone
  <2>1. t \in Tokens BY Zenon, <1>4 DEF IInv, Shapes, Keys
  <2>2. rows[t] = None /\ map'[t] = None /\ ~Carried(t)
    BY Zenon, <1>2, <1>3, <1>4, <2>1 DEF IInv, Gone
  <2> QED BY Zenon, <1>1, <2>2, ReturnCalls
<1> QED BY Zenon, <1>1, <1>5, <1>6, ReturnCalls, StepIInv

\* The sweeper deletes only rows that have expired.
LEMMA SweepIInv == ASSUME IInv, Sweep PROVE IInv'
<1>1. UNCHANGED <<now, map, call, granted, closing, withdrawn, faults>> BY Zenon DEF Sweep
<1>2. rows' = [t \in Tokens |->
                 IF rows[t] # None /\ is_expired(rows[t], now) THEN None ELSE rows[t]]
  BY Zenon DEF Sweep
<1>3. \A t \in Tokens : rows'[t] = rows[t] \/ is_expired(granted[t], now)
  BY Zenon, <1>2 DEF IInv, Copies
<1>4. rows' \in [Tokens -> MaybeRecord] /\ \A t \in Tokens : rows'[t] \in {None, rows[t]}
  BY Zenon, <1>2 DEF IInv, Shapes, MaybeRecord
<1>5. Steady BY <1>1, <1>3, <1>4 DEF Steady, IInv, Shapes, Copies
<1>6. Gone'
  <2> SUFFICES ASSUME NEW t \in withdrawn PROVE rows'[t] = None /\ map'[t] = None /\ ~Carried(t)'
    BY Zenon, <1>1 DEF Gone
  <2>1. t \in Tokens BY Zenon DEF IInv, Shapes, Keys
  <2> QED BY Zenon, <1>1, <1>4, <2>1 DEF IInv, Gone, Carried
<1> QED BY Zenon, <1>1, <1>5, <1>6, StepIInv DEF IInv, Shapes

\* Time passing may expire a record, and nothing else.
LEMMA TickIInv == ASSUME IInv, Tick PROVE IInv'
<1>1. UNCHANGED <<rows, map, call, granted, closing, withdrawn, faults>> /\ now' = now + 1
  BY Zenon DEF Tick
<1>2. Steady BY <1>1 DEF Steady, IInv, Shapes, Copies
<1>3. Gone' BY Zenon, <1>1 DEF IInv, Gone, Carried
<1> QED BY Zenon, <1>1, <1>2, <1>3, StepIInv DEF IInv, Shapes

\* A step that changes nothing keeps the invariant.
LEMMA StutterIInv == ASSUME IInv, UNCHANGED vars PROVE IInv'
<1>1. UNCHANGED <<now, rows, map, call, granted, closing, withdrawn, faults>> BY Zenon DEF vars
<1>2. Steady BY <1>1, SameSteady DEF IInv, Shapes
<1>3. Gone' BY Zenon, <1>1 DEF IInv, Gone, Carried
<1> QED BY Zenon, <1>1, <1>2, <1>3, StepIInv DEF IInv, Shapes

\* The invariant holds in every reachable state of the token store.
THEOREM CacheInvariant == Spec => []IInv
<1>1. ASSUME IInv, [Next]_vars PROVE IInv'
  BY Zenon, <1>1, IssueIInv, LookupIInv, RevokeIInv, RevokeSessionIInv, ConfirmIInv, AskIInv, PutIInv,
     EvictIInv, AbandonIInv, SweepIInv, TickIInv, StutterIInv DEF Next
<1> QED BY <1>1, InitIInv, PTL DEF Spec
-----------------------------------------------------------------------------
\* issue is a Grant.
LEMMA IssueGrants == ASSUME IInv, NEW c \in Callers, Issue(c) PROVE Store!Grant
<1>1. PICK t \in Tokens, sid \in Sids, g \in Grants, ttl \in Ttls :
        LET rec == [session |-> sid, grant |-> g,
                    expires |-> IF ttl = None THEN None ELSE now + ttl]
        IN  granted[t] = None /\ granted' = [granted EXCEPT ![t] = rec]
  BY ZenonT(30) DEF Issue
<1> DEFINE rec == [session |-> sid, grant |-> g,
                   expires |-> IF ttl = None THEN None ELSE now + ttl]
<1>2. rec \in TokenRecord BY TtlAssumption DEF TokenRecord, IInv, Shapes
<1> HIDE DEF rec
<1>3. granted[t] = None /\ granted' = [granted EXCEPT ![t] = rec] BY Zenon, <1>1 DEF rec
<1>4. granted'[t] = rec BY Zenon, <1>3 DEF IInv, Shapes
<1>5. UNCHANGED <<closing, withdrawn, now, answer>> /\ (Fault \/ NoFault) BY Zenon DEF Issue
<1>6. faults > 0 => faults' > 0 BY <1>5 DEF Fault, NoFault, IInv, Shapes
<1>7. granted[t] = None /\ granted'[t] \in TokenRecord /\ granted' = [granted EXCEPT ![t] = granted'[t]]
  BY Zenon, <1>2, <1>3, <1>4
<1> QED BY Zenon, <1>5, <1>6, <1>7 DEF Store!Grant

\* Both halves of a revocation are steps of Withdraw.
LEMMA RevocationWithdraws ==
    ASSUME IInv, NEW c \in Callers, Revoke(c) \/ RevokeSession(c) \/ Evict(c)
    PROVE  Store!Withdraw
<1>0. Fault \/ NoFault BY Zenon DEF Revoke, RevokeSession, Evict, NoFault
<1>1. faults > 0 => faults' > 0 BY <1>0 DEF Fault, NoFault, IInv, Shapes
<1>2. closing \subseteq closing' /\ withdrawn \subseteq withdrawn' /\ withdrawn' \subseteq closing'
  BY Zenon DEF Revoke, RevokeSession, Evict, IInv, Shapes
<1>3. UNCHANGED <<granted, now, answer>> BY Zenon DEF Revoke, RevokeSession, Evict
<1> QED BY Zenon, <1>1, <1>2, <1>3 DEF Store!Withdraw

\* A cache hit resolves the token; a miss is not seen by anybody.
LEMMA LookupResolves ==
    ASSUME IInv, NEW c \in Callers, Lookup(c)
    PROVE  Store!Resolve \/ UNCHANGED Store!absVars
<1>1. UNCHANGED <<now, granted, closing, withdrawn, faults>> BY Zenon DEF Lookup
<1>2. CASE UNCHANGED answer BY Zenon, <1>1, <1>2 DEF Store!absVars
<1>3. ASSUME NEW t \in Tokens, map[t] # None, answer' = [tok |-> t, rec |-> map[t]]
      PROVE  Store!Resolve
  <2>1. granted[t] # None /\ map[t] = granted[t] /\ t \notin withdrawn
    BY Zenon, <1>3 DEF IInv, Copies, Gone
  <2> QED BY Zenon, <1>1, <1>3, <2>1 DEF Store!Resolve
<1> QED BY Zenon, <1>2, <1>3 DEF Lookup

\* A call that has read the row resolves the token when it returns.
LEMMA PutResolves ==
    ASSUME IInv, NEW c \in Callers, Put(c)
    PROVE  Store!Resolve \/ UNCHANGED Store!absVars
<1>1. UNCHANGED <<now, granted, closing, withdrawn, faults>> /\ call[c].at = "put" BY Zenon DEF Put
<1>2. /\ call[c].tok \in Tokens /\ call[c].rec # None /\ call[c].rec = granted[call[c].tok]
      /\ call[c].tok \notin withdrawn
  BY Zenon, <1>1 DEF IInv, Shapes, Copies, Gone, Carried
<1>3. CASE UNCHANGED answer BY Zenon, <1>1, <1>3 DEF Store!absVars
<1>4. CASE answer' = [tok |-> call[c].tok, rec |-> call[c].rec]
  BY Zenon, <1>1, <1>2, <1>4 DEF Store!Resolve
<1> QED BY Zenon, <1>3, <1>4 DEF Put, Reply

\* A lookup that finds no row refuses the token: it was never issued, is being
\* revoked or has expired, or the database failed.
LEMMA AskRefuses ==
    ASSUME IInv, NEW c \in Callers, Ask(c)
    PROVE  Store!Refuse \/ UNCHANGED Store!absVars
<1>1. UNCHANGED <<now, granted, closing, withdrawn>> /\ call[c].tok \in Tokens
  BY Zenon DEF Ask, IInv, Shapes
<1>2. CASE UNCHANGED <<answer, faults>> BY Zenon, <1>1, <1>2 DEF Store!absVars
<1>3. CASE Reply(c, None) /\ Fault
  <2>1. faults' > 0 BY <1>3 DEF Fault, IInv, Shapes
  <2> QED BY Zenon, <1>1, <1>3, <2>1 DEF Store!Refuse, Reply
<1>4. CASE Reply(c, None) /\ NoFault /\ Found(call[c].tok) = None
  <2> DEFINE t == call[c].tok
  <2>1. faults > 0 \/ granted[t] = None \/ t \in closing \/ is_expired(granted[t], now)
    <3> SUFFICES ASSUME ~(faults > 0), granted[t] # None, t \notin closing
                 PROVE  is_expired(granted[t], now)
      BY Zenon
    <3>1. faults = 0 BY DEF IInv, Shapes
    <3>2. rows[t] = granted[t] \/ is_expired(granted[t], now) BY Zenon, <1>1, <3>1 DEF IInv, Kept
    <3> QED BY Zenon, <1>4, <3>2 DEF Found
  <2>2. answer'.rec = None /\ answer'.tok = t BY Zenon, <1>4 DEF Reply
  <2>3. faults' = faults BY Zenon, <1>4 DEF NoFault
  <2> QED BY Zenon, <1>1, <2>1, <2>2, <2>3 DEF Store!Refuse, Store!Lapsed, is_expired
<1> QED BY Zenon, <1>2, <1>3, <1>4 DEF Ask, NoFault

\* Reading a row back after an issue shows nothing, or that the database failed.
LEMMA ConfirmFails ==
    ASSUME IInv, NEW c \in Callers, Confirm(c)
    PROVE  Store!Fail \/ UNCHANGED Store!absVars
<1>1. UNCHANGED <<now, granted, closing, withdrawn, answer>> BY Zenon DEF Confirm
<1>2. CASE NoFault BY Zenon, <1>1, <1>2 DEF NoFault, Store!absVars
<1>3. CASE Fault
  <2>1. faults' > 0 BY <1>3 DEF Fault, IInv, Shapes
  <2> QED BY Zenon, <1>1, <2>1 DEF Store!Fail
<1> QED BY Zenon, <1>2, <1>3 DEF Confirm

\* LruTokenCache over its store, with any number of concurrent callers, client
\* disconnects and failing database calls, implements the contract of TokenStore.
THEOREM CacheImplementsContract == Spec => ImplementsContract
<1>1. ASSUME Init PROVE Store!AbsInit
  BY <1>1, RecordAssumption DEF Init, Store!AbsInit
<1>2. ASSUME IInv, [Next]_vars PROVE [Store!AbsNext]_(Store!absVars)
  <2>1. CASE UNCHANGED vars BY Zenon, <2>1 DEF vars, Store!absVars
  <2>2. CASE Sweep BY Zenon, <2>2 DEF Sweep, Store!absVars
  <2>3. CASE Tick
    <3>1. now' > now BY <1>2, <2>3 DEF Tick, IInv, Shapes
    <3> QED BY Zenon, <2>3, <3>1 DEF Tick, Store!Pass, Store!AbsNext
  <2>4. ASSUME NEW c \in Callers, Abandon(c) PROVE UNCHANGED Store!absVars
    BY Zenon, <2>4 DEF Abandon, Store!absVars
  <2> QED BY Zenon, <1>2, <2>1, <2>2, <2>3, <2>4, IssueGrants, RevocationWithdraws, LookupResolves,
             PutResolves, AskRefuses, ConfirmFails DEF Next, Store!AbsNext
<1> QED BY <1>1, <1>2, CacheInvariant, PTL DEF Spec, ImplementsContract, Store!Contract
-----------------------------------------------------------------------------
(* The bound of the cache *)

Queued(o) == {o[i] : i \in 1..Len(o)}

\* The bounds of clock and faults; the keys of the map are queued, so that `put`, which
\* pops from the queue, can always bring the map down to its capacity.
BoundInv ==
    /\ now \in 0..MaxNow /\ faults \in 0..MaxFaults
    /\ order \in Seq(Tokens) /\ Keys(map) \subseteq Queued(order)
    /\ Cardinality(Keys(map)) <= Capacity

\* A queue holds finitely many keys.
LEMMA QueuedFinite == ASSUME NEW o \in Seq(Tokens) PROVE IsFiniteSet(Queued(o))
<1> DEFINE I == 1..Len(o)
           f == [i \in I |-> o[i]]
<1>1. f \in Surjection(I, Queued(o))
  BY Zenon DEF Surjection, Queued
<1>2. IsFiniteSet(I)
  <2>1. 1 \in Int /\ Len(o) \in Int
    OBVIOUS
  <2> QED
    BY Zenon, <2>1, FS_Interval
<1> QED
  BY Zenon, <1>1, <1>2, FS_Surjection

\* A nonempty set of naturals has a least element.
LEMMA LeastElement ==
    ASSUME NEW T \in SUBSET Nat, T # {}
    PROVE  \E n \in T : \A k \in T : ~(k < n)
<1>1. \E n \in T : \A k \in T : <<k, n>> \notin OpToRel(<, Nat)
  BY Zenon, NatLessThanWellFounded, WFMin
<1> QED
  BY Zenon, <1>1 DEF OpToRel

\* LruInner::put pops until the map fits: it can, because every key of the map is
\* queued.
LEMMA PopsEnough ==
    ASSUME NEW m, NEW o \in Seq(Tokens), Keys(m) \subseteq Queued(o)
    PROVE  /\ Pops(m, o) \in 0..Len(o)
           /\ Cardinality(Keys(m) \ {o[i] : i \in 1..Pops(m, o)}) <= Capacity
<1> DEFINE left(n) == Keys(m) \ {o[i] : i \in 1..n}
           over(n) == Cardinality(left(n)) > Capacity
           stops(n) == (over(n) => n = Len(o)) /\ \A k \in 0..(n-1) : over(k)
           T == {n \in 0..Len(o) : over(n) => n = Len(o)}
<1>0. Len(o) \in Nat
  OBVIOUS
<1>1. \E n \in 0..Len(o) : stops(n)
  <2>1. T \in SUBSET Nat /\ Len(o) \in T
    BY <1>0
  <2>2. PICK n \in T : \A k \in T : ~(k < n)
    BY Zenon, <2>1, LeastElement
  <2>3. \A k \in 0..(n-1) : k \in 0..Len(o) /\ k \notin T
    <3>1. n \in 0..Len(o)
      BY Zenon
    <3> HIDE DEF T
    <3> QED
      BY <1>0, <2>2, <3>1
  <2>4. \A k \in 0..(n-1) : over(k)
    BY Zenon, <2>3
  <2> QED
    BY Zenon, <2>2, <2>4
<1>2. Pops(m, o) = CHOOSE n \in 0..Len(o) : stops(n)
  BY Zenon DEF Pops
<1>3. Pops(m, o) \in 0..Len(o) /\ stops(Pops(m, o))
  BY Zenon, <1>1, <1>2
<1>4. \A n \in 0..Len(o) : Cardinality(left(n)) \in Nat
  <2>1. ASSUME NEW n \in 0..Len(o) PROVE Cardinality(left(n)) \in Nat
    <3>1. IsFiniteSet(Queued(o)) /\ left(n) \in SUBSET Queued(o)
      BY Zenon, QueuedFinite
    <3>2. IsFiniteSet(left(n))
      BY Zenon, <3>1, FS_Subset
    <3> QED
      BY Zenon, <3>2, FS_CardinalityType
  <2> QED
    BY Zenon, <2>1
<1>5. Cardinality(left(Len(o))) = 0
  <2>1. left(Len(o)) = {}
    BY Zenon DEF Queued
  <2> QED
    BY Zenon, <2>1, FS_EmptySet
<1>6. Cardinality(left(Pops(m, o))) <= Capacity
  <2> HIDE DEF left
  <2>1. CASE over(Pops(m, o))
    BY <1>3, <1>5, <2>1, CapacityAssumption
  <2>2. CASE ~over(Pops(m, o))
    BY <1>3, <1>4, <2>2, CapacityAssumption
  <2> QED
    BY Zenon, <2>1, <2>2
<1> QED
  BY Zenon, <1>3, <1>6

\* LruInner::put leaves a map that fits, with its keys queued.
LEMMA PutBound ==
    ASSUME Shapes, BoundInv, NEW key \in Tokens, NEW rec \in TokenRecord, lru_put(key, rec)
    PROVE  /\ order' \in Seq(Tokens) /\ Keys(map)' \subseteq Queued(order')
           /\ Cardinality(Keys(map)') <= Capacity
<1> DEFINE m == [map EXCEPT ![key] = rec]
           o == IF map[key] = None THEN Append(order, key) ELSE order
           n == Pops(m, o)
<1>0. order \in Seq(Tokens) /\ map \in [Tokens -> MaybeRecord]
  BY Zenon DEF BoundInv, Shapes
<1>1. o \in Seq(Tokens)
  BY <1>0
<1>2. Keys(m) \subseteq Queued(o)
  <2>1. Keys(m) \subseteq Keys(map) \cup {key}
    BY Zenon, <1>0 DEF Keys
  <2>2. CASE map[key] = None
    <3>1. Len(o) = Len(order) + 1 /\ o[Len(order) + 1] = key
          /\ \A i \in 1..Len(order) : o[i] = order[i]
      BY <1>0, <2>2
    <3>2. Queued(order) \subseteq Queued(o) /\ key \in Queued(o)
      BY <1>0, <3>1 DEF Queued
    <3> QED
      BY Zenon, <2>1, <3>2 DEF BoundInv
  <2>3. CASE map[key] # None
    BY Zenon, <2>1, <2>3 DEF BoundInv, Keys
  <2> QED
    BY Zenon, <2>2, <2>3
<1>3. /\ map' = [t \in Tokens |-> IF t \in {o[i] : i \in 1..n} THEN None ELSE m[t]]
      /\ order' = SubSeq(o, n + 1, Len(o))
  BY Zenon DEF lru_put
<1>4. n \in 0..Len(o) /\ Cardinality(Keys(m) \ {o[i] : i \in 1..n}) <= Capacity
  BY Zenon, <1>1, <1>2, PopsEnough
<1> HIDE DEF m, o, n
<1>5. Keys(map)' = Keys(m) \ {o[i] : i \in 1..n}
  BY Zenon, <1>3 DEF Keys
<1>6. order' \in Seq(Tokens) /\ Len(order') = Len(o) - n
      /\ \A i \in 1..(Len(o) - n) : order'[i] = o[n + i]
  BY <1>1, <1>3, <1>4
<1>7. ASSUME NEW t \in Keys(m), t \notin {o[i] : i \in 1..n} PROVE t \in Queued(order')
  <2>1. PICK i \in 1..Len(o) : t = o[i]
    BY Zenon, <1>2 DEF Queued
  <2>2. i \notin 1..n /\ i - n \in 1..(Len(o) - n)
    BY <1>1, <1>4, <1>7, <2>1
  <2>3. order'[i - n] = t
    BY <1>1, <1>4, <1>6, <2>1, <2>2
  <2> QED
    BY Zenon, <1>6, <2>2, <2>3 DEF Queued
<1> QED
  BY Zenon, <1>4, <1>5, <1>6, <1>7

\* A step that only drops keys from the map keeps the bound.
LEMMA DropBound ==
    ASSUME BoundInv, order' = order, Keys(map)' \subseteq Keys(map)
    PROVE  /\ order' \in Seq(Tokens) /\ Keys(map)' \subseteq Queued(order')
           /\ Cardinality(Keys(map)') <= Capacity
<1>1. IsFiniteSet(Keys(map))
  BY Zenon, QueuedFinite, FS_Subset DEF BoundInv
<1>2. /\ IsFiniteSet(Keys(map)') /\ Cardinality(Keys(map)') <= Cardinality(Keys(map))
  BY Zenon, <1>1, FS_Subset
<1>3. Cardinality(Keys(map)) \in Nat /\ Cardinality(Keys(map)') \in Nat
  BY Zenon, <1>1, <1>2, FS_CardinalityType
<1> QED
  BY <1>2, <1>3, CapacityAssumption DEF BoundInv

\* Every step keeps the bounds.
LEMMA StepBound == ASSUME IInv, BoundInv, [Next]_vars PROVE BoundInv'
<1> USE ClockAssumption
<1>1. now' \in 0..MaxNow
  <2>1. now' = now \/ Tick
    BY ZenonT(30) DEF Next, Issue, Lookup, Revoke, RevokeSession, Confirm, Ask, Put, Evict, Abandon, Sweep, vars
  <2> QED
    BY <2>1 DEF Tick, BoundInv
<1>2. faults' \in 0..MaxFaults
  <2>1. faults' = faults \/ Fault
    BY ZenonT(30) DEF Next, Tick, Issue, Lookup, Revoke, RevokeSession, Confirm, Ask, Put, Evict, Abandon,
       Sweep, vars, NoFault
  <2> QED
    BY <2>1 DEF Fault, BoundInv
<1>3. ASSUME NEW c \in Callers, Put(c) PROVE BoundInv'
  <2>1. call[c].tok \in Tokens /\ call[c].rec \in TokenRecord /\ lru_put(call[c].tok, call[c].rec)
    BY <1>3 DEF Put, IInv, Shapes, Copies, MaybeRecord
  <2>2. /\ order' \in Seq(Tokens) /\ Keys(map)' \subseteq Queued(order')
        /\ Cardinality(Keys(map)') <= Capacity
    BY Zenon, <2>1, PutBound DEF IInv
  <2> QED
    BY Zenon, <1>1, <1>2, <2>2 DEF BoundInv, Queued
<1>4. ASSUME order' = order, Keys(map)' \subseteq Keys(map) PROVE BoundInv'
  BY Zenon, <1>1, <1>2, <1>4, DropBound DEF BoundInv, Queued
<1>5. ASSUME NEW c \in Callers, Evict(c) PROVE BoundInv'
  <2>1. order' = order /\ Keys(map)' \subseteq Keys(map)
    BY Zenon, <1>5 DEF Evict, lru_remove, lru_clear_session, Keys, IInv, Shapes
  <2> QED
    BY Zenon, <1>4, <2>1
<1>6. ASSUME UNCHANGED <<map, order>> PROVE BoundInv'
  BY Zenon, <1>4, <1>6 DEF Keys
<1> QED
  BY Zenon, <1>3, <1>5, <1>6 DEF Next, Tick, Issue, Lookup, Revoke, RevokeSession, Confirm, Ask, Abandon, Sweep, vars

\* Types, and the bound LruTokenCache::new promises: whatever interleaving of issues,
\* lookups and revocations leaves stale keys in the queue, the map never holds more than
\* `capacity` records.
THEOREM CacheStaysBounded == Spec => []TypeOK
<1>1. Init => BoundInv
  <2> SUFFICES ASSUME Init PROVE BoundInv
    BY Zenon
  <2>1. Keys(map) = {} /\ order = << >> /\ now = 0 /\ faults = 0
    BY Zenon DEF Init, Keys
  <2>2. Cardinality(Keys(map)) = 0
    BY Zenon, <2>1, FS_EmptySet
  <2> QED
    BY <2>1, <2>2, CapacityAssumption, ClockAssumption DEF BoundInv
<1>2. IInv /\ BoundInv /\ [Next]_vars => BoundInv'
  BY Zenon, StepBound
<1>3. IInv /\ BoundInv => TypeOK
  BY Zenon DEF IInv, Shapes, BoundInv, TypeOK, Queued, MaybeRecord, Call
<1> QED
  BY <1>1, <1>2, <1>3, CacheInvariant, PTL DEF Spec
=============================================================================
