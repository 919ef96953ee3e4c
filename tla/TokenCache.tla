----------------------------- MODULE TokenCache -----------------------------
(* The phantom-token store: LruTokenCache over an inner TokenStore, with    *)
(* the calls of several request handlers in flight at once.  Every await in *)
(* the code is a point where the other callers may run, and where a caller  *)
(* that goes away takes its unfinished call with it.                        *)
EXTENDS Naturals, Sequences, FiniteSets

CONSTANTS Tokens,      \* token values
          Sids,        \* session ids
          Grants,      \* tenant, service and scope of a token, as one value
          Ttls,        \* time-to-live values a session may ask for (None: no expiry)
          Callers,     \* request handlers that use the store
          Capacity,    \* entries the cache may hold
          MaxNow,      \* bound on the clock
          MaxFaults,   \* bound on database calls that fail
          None

ASSUME CapacityAssumption == Capacity \in Nat \ {0}
ASSUME TtlAssumption == Ttls \subseteq Nat \cup {None}
ASSUME ClockAssumption == MaxNow \in Nat /\ MaxFaults \in Nat
ASSUME NoneAssumption == None \notin Tokens

VARIABLES now,         \* the clock
          rows,        \* the inner store: token -> record or None
          map, order,  \* LruInner
          call,        \* each caller's call in progress
          granted,     \* history: the record each token was issued with
          closing,     \* history: tokens somebody has started to revoke
          withdrawn,   \* history: tokens whose revocation is in force
          faults,      \* database calls that failed
          answer       \* the last reply of lookup

vars == <<now, rows, map, order, call, granted, closing, withdrawn, faults, answer>>

TokenRecord == [session : Sids, grant : Grants, expires : Nat \cup {None}]

ASSUME RecordAssumption == None \notin TokenRecord

Idle == [op |-> "idle", at |-> "start", tok |-> None, sid |-> None, rec |-> None]

\* TokenRecord::is_expired
is_expired(rec, time) == rec.expires # None /\ time >= rec.expires

Keys(m) == {t \in Tokens : m[t] # None}

Init ==
    /\ now = 0
    /\ rows = [t \in Tokens |-> None]
    /\ map = [t \in Tokens |-> None] /\ order = << >>
    /\ call = [c \in Callers |-> Idle]
    /\ granted = [t \in Tokens |-> None]
    /\ closing = {} /\ withdrawn = {}
    /\ faults = 0
    /\ answer = [tok |-> None, rec |-> None]

Return(c) == call' = [call EXCEPT ![c] = Idle]
Reply(c, rec) == answer' = [tok |-> call[c].tok, rec |-> rec]

\* The inner store either does what it is asked or, once in a while, fails;
\* PgTokenStore drops the error.
Fault == faults < MaxFaults /\ faults' = faults + 1
NoFault == UNCHANGED faults
-----------------------------------------------------------------------------
(* LruInner *)

\* Mutant: one key too few is popped.
PopsLate(m, o) ==
    LET over(n) == Cardinality(Keys(m) \ {o[i] : i \in 1..n}) > Capacity + 1
    IN  CHOOSE n \in 0..Len(o) :
            (over(n) => n = Len(o)) /\ \A k \in 0..(n-1) : over(k)

\* How many keys `put` pops: until the map fits again or nothing is left.
Pops(m, o) ==
    LET over(n) == Cardinality(Keys(m) \ {o[i] : i \in 1..n}) > Capacity
    IN  CHOOSE n \in 0..Len(o) :
            (over(n) => n = Len(o)) /\ \A k \in 0..(n-1) : over(k)

\* LruInner::put
lru_put(key, rec) ==
    LET m == [map EXCEPT ![key] = rec]
        o == IF map[key] = None THEN Append(order, key) ELSE order
        n == Pops(m, o)
    IN  /\ map' = [t \in Tokens |-> IF t \in {o[i] : i \in 1..n} THEN None ELSE m[t]]
        /\ order' = SubSeq(o, n + 1, Len(o))

\* LruInner::remove leaves the key in `order`.
lru_remove(key) == map' = [map EXCEPT ![key] = None] /\ UNCHANGED order

\* Mutant: the cache keeps the session's records.
lru_clear_sessionKeeps(sid) == UNCHANGED <<map, order>>

\* LruInner::clear_session
lru_clear_session(sid) ==
    /\ map' = [t \in Tokens |->
                  IF map[t] # None /\ map[t].session = sid THEN None ELSE map[t]]
    /\ UNCHANGED order
-----------------------------------------------------------------------------
(* The inner store, as LruTokenCache uses it *)

inner_issue(t, rec) == rows' = [rows EXCEPT ![t] = rec]

\* What an inner lookup of t returns.
Found(t) ==
    IF rows[t] = None THEN None ELSE IF is_expired(rows[t], now) THEN None ELSE rows[t]

inner_revoke(t) == rows' = [rows EXCEPT ![t] = None]

inner_revoke_session(sid) ==
    rows' = [t \in Tokens |->
                IF rows[t] # None /\ rows[t].session = sid THEN None ELSE rows[t]]

\* sweep_expired_tokens, on the sweeper's tick
Sweep ==
    /\ rows' = [t \in Tokens |->
                   IF rows[t] # None /\ is_expired(rows[t], now) THEN None ELSE rows[t]]
    /\ rows' # rows
    /\ UNCHANGED <<now, map, order, call, granted, closing, withdrawn, faults, answer>>
-----------------------------------------------------------------------------
(* LruTokenCache::issue *)

Issue(c) ==
    /\ call[c] = Idle
    /\ \E t \in Tokens, sid \in Sids, g \in Grants, ttl \in Ttls :
         LET rec == [session |-> sid, grant |-> g,
                     expires |-> IF ttl = None THEN None ELSE now + ttl]
         IN  /\ granted[t] = None
             /\ granted' = [granted EXCEPT ![t] = rec]
             /\ call' = [call EXCEPT ![c] = [op |-> "issue", at |-> "confirm", tok |-> t,
                                             sid |-> sid, rec |-> None]]
             /\ \/ inner_issue(t, rec) /\ NoFault
                \/ Fault /\ UNCHANGED rows
    /\ UNCHANGED <<now, map, order, closing, withdrawn, answer>>

\* issue reads the row back before it caches it.
Confirm(c) ==
    /\ call[c].at = "confirm"
    /\ \/ /\ Found(call[c].tok) # None /\ NoFault
          /\ call' = [call EXCEPT ![c].at = "put", ![c].rec = Found(call[c].tok)]
       \/ /\ Found(call[c].tok) = None /\ NoFault
          /\ Return(c)
       \/ Fault /\ Return(c)
    /\ UNCHANGED <<now, rows, map, order, granted, closing, withdrawn, answer>>

(* LruTokenCache::lookup *)

Lookup(c) ==
    /\ call[c] = Idle
    /\ \E t \in Tokens :
         IF map[t] # None
         THEN /\ answer' = [tok |-> t, rec |-> map[t]]
              /\ UNCHANGED call
         ELSE /\ call' = [call EXCEPT ![c] = [Idle EXCEPT !.op = "lookup", !.at = "ask", !.tok = t]]
              /\ UNCHANGED answer
    /\ UNCHANGED <<now, rows, map, order, granted, closing, withdrawn, faults>>

Ask(c) ==
    /\ call[c].at = "ask"
    /\ \/ /\ Found(call[c].tok) # None /\ NoFault
          /\ call' = [call EXCEPT ![c].at = "put", ![c].rec = Found(call[c].tok)]
          /\ UNCHANGED answer
       \/ /\ Found(call[c].tok) = None /\ NoFault
          /\ Return(c) /\ Reply(c, None)
       \/ Fault /\ Return(c) /\ Reply(c, None)
    /\ UNCHANGED <<now, rows, map, order, granted, closing, withdrawn>>

\* The write lock is taken, the record cached, and the call returns.
Put(c) ==
    /\ call[c].at = "put"
    /\ lru_put(call[c].tok, call[c].rec)
    /\ IF call[c].op = "lookup" THEN Reply(c, call[c].rec) ELSE UNCHANGED answer
    /\ Return(c)
    /\ UNCHANGED <<now, rows, granted, closing, withdrawn, faults>>

(* LruTokenCache::revoke and revoke_session *)

Revoke(c) ==
    /\ call[c] = Idle
    /\ \E t \in Tokens :
         /\ granted[t] # None
         /\ call' = [call EXCEPT ![c] = [Idle EXCEPT !.op = "revoke", !.at = "evict", !.tok = t]]
         /\ closing' = closing \cup {t}
         /\ \/ inner_revoke(t) /\ NoFault
            \/ Fault /\ UNCHANGED rows
    /\ UNCHANGED <<now, map, order, granted, withdrawn, answer>>

OfSession(sid) == {t \in Tokens : granted[t] # None /\ granted[t].session = sid}

RevokeSession(c) ==
    /\ call[c] = Idle
    /\ \E sid \in Sids :
         /\ OfSession(sid) # {}
         /\ call' = [call EXCEPT ![c] = [Idle EXCEPT !.op = "revoke_session", !.at = "evict",
                                                     !.sid = sid]]
         /\ closing' = closing \cup OfSession(sid)
         /\ \/ inner_revoke_session(sid) /\ NoFault
            \/ Fault /\ UNCHANGED rows
    /\ UNCHANGED <<now, map, order, granted, withdrawn, answer>>

\* The tokens a revocation is about.
Targets(c) == IF call[c].op = "revoke" THEN {call[c].tok} ELSE OfSession(call[c].sid)

\* A call has read t's row and has not yet cached it.
Carried(t) == \E d \in Callers : call[d].at = "put" /\ call[d].tok = t

\* The cache forgets the tokens and the revocation returns.  It is in force
\* for those whose row is gone and that no call carries.
Evict(c) ==
    /\ call[c].at = "evict"
    /\ IF call[c].op = "revoke" THEN lru_remove(call[c].tok) ELSE lru_clear_session(call[c].sid)
    /\ withdrawn' = withdrawn \cup
           {t \in Targets(c) \cap closing : rows[t] = None /\ ~Carried(t)}
    /\ Return(c)
    /\ UNCHANGED <<now, rows, granted, closing, faults, answer>>
-----------------------------------------------------------------------------
\* The client goes away and its handler is dropped at an await.
Abandon(c) ==
    /\ call[c] # Idle
    /\ Return(c)
    /\ UNCHANGED <<now, rows, map, order, granted, closing, withdrawn, faults, answer>>

Tick ==
    /\ now < MaxNow
    /\ now' = now + 1
    /\ UNCHANGED <<rows, map, order, call, granted, closing, withdrawn, faults, answer>>

Next ==
    \/ \E c \in Callers : \/ Issue(c) \/ Lookup(c) \/ Revoke(c) \/ RevokeSession(c)
                          \/ Confirm(c) \/ Ask(c) \/ Put(c) \/ Evict(c) \/ Abandon(c)
    \/ Sweep \/ Tick

Spec == Init /\ [][Next]_vars

-----------------------------------------------------------------------------
(* Properties *)

\* Types, and the bound of LruTokenCache::new: the cache never holds more than
\* `capacity` records, because every key of `map` is still queued in `order`
\* however many removed keys are queued before it.
TypeOK ==
    /\ now \in 0..MaxNow /\ faults \in 0..MaxFaults
    /\ rows \in [Tokens -> TokenRecord \cup {None}]
    /\ map \in [Tokens -> TokenRecord \cup {None}]
    /\ granted \in [Tokens -> TokenRecord \cup {None}]
    /\ order \in Seq(Tokens) /\ Keys(map) \subseteq {order[i] : i \in 1..Len(order)}
    /\ Cardinality(Keys(map)) <= Capacity
    /\ call \in [Callers -> [op : {"idle", "issue", "lookup", "revoke", "revoke_session"},
                             at : {"start", "confirm", "ask", "put", "evict"},
                             tok : Tokens \cup {None}, sid : Sids \cup {None},
                             rec : TokenRecord \cup {None}]]
    /\ withdrawn \subseteq closing /\ closing \subseteq Keys(granted)

Store == INSTANCE TokenContract WITH Records <- TokenRecord, trouble <- (faults > 0)

\* LruTokenCache implements what the users of a TokenStore rely on: whatever
\* the other callers do, a lookup answers with the record the token was issued
\* with, or with None; a live token is refused only if the database failed; and
\* once a revocation is in force (its row was deleted and its cache entry
\* dropped with no call in between carrying the row) no lookup finds the token.
ImplementsContract == Store!Contract
=============================================================================
