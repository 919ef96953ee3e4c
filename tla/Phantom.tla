------------------------------ MODULE Phantom ------------------------------
(* Sessions, credentials and the phantom proxy: the handlers of the control *)
(* plane that mint and revoke tokens and set keys, the proxy's handler that *)
(* trades a token for a key, and the process around them (start, SIGTERM,   *)
(* kill).  Every store call is a step; several handlers run at once.        *)
EXTENDS Naturals, Sequences, FiniteSets

CONSTANTS Tenants, Services, Sids,
          Matches,       \* which paths a glob matches: pairs <<glob, path>>
          Secrets,       \* secrets users may attach
          Seeds,         \* pairs whose key comes from the environment
          EnvSecret,     \* the secret of such a pair
          ApiLines,      \* the entries of AGENTJAIL_API_KEY
          Backends,      \* "memory": main without DATABASE_URL, "postgres": main with
                         \* one, "library": ControlPlane::with_postgres
          Creates,       \* bodies of POST /v1/sessions: services, globs of one, ttl or not
          Puts,          \* credential requests: tenant asked for or None, service
          Calls,         \* requests to the proxy: token, service segment, path
          Handlers,      \* requests in flight at once
          AuditCapacity,
          MaxRequests,   \* bound on proxied requests
          MaxBoots,      \* bound on restarts
          DevTenant,     \* "dev"
          None

ASSUME DevAssumption == DevTenant \in Tenants /\ Seeds \subseteq {DevTenant} \X Services
\* Requests name services and tokens of the model.
ASSUME InputAssumption ==
    /\ \A body \in Creates : body.services \subseteq Services /\ body.ttl \in BOOLEAN
    /\ \A ask \in Puts : ask.service \in Services /\ ask.tenant \in Tenants \cup {None}
    /\ \A req \in Calls : req.tok \in (Sids \X Services) \cup {None}
ASSUME NoneAssumption ==
    /\ None \notin Tenants \cup Secrets \cup {EnvSecret} /\ EnvSecret \notin Secrets
    /\ None \notin [tenant : Tenants, role : {"admin", "operator"}]
    /\ None \notin [tenant : Tenants, services : SUBSET Services, ttl : BOOLEAN]
    /\ None \notin [session : Sids, tenant : Tenants, service : Services,
                    scope : {body.globs : body \in Creates} \cup {{}}, ttl : BOOLEAN]
ASSUME BoundAssumption ==
    /\ AuditCapacity \in Nat \ {0} /\ MaxRequests \in Nat /\ MaxBoots \in Nat
    /\ IsFiniteSet(Handlers)

VARIABLES backend,   \* chosen at start by DATABASE_URL
          phase,     \* "up", "draining" or "down"
          boots,
          lapsed,    \* sessions whose ttl has run out
          keys,      \* InMemoryKeyStore: (tenant, service) -> secret or None
          creds,     \* CredentialStore rows, named by the secret they were written for
          sessions,  \* SessionStore
          tokens,    \* TokenStore: (session, service) -> TokenRecord or None
          audit,     \* AuditStore: the retained rows and next_id
          task,      \* the handlers
          minted,    \* history: session ids drawn
          putBy,     \* history: who attached a secret
          deleted,   \* history: sessions whose delete has returned
          torn,      \* history: pairs with overlapping or lost credential writes
          unsets,    \* history: pairs whose key was removed
          fallback   \* history: sessions admitted on the "dev" key only

store == <<keys, creds, sessions, tokens, audit>>
process == <<backend, phase, boots, lapsed>>
history == <<minted, putBy, deleted, torn, unsets, fallback>>
vars == <<process, store, task, history>>

Pairs == Tenants \X Services
Tokens == Sids \X Services
Idle == [op |-> "idle", at |-> "start"]
Pg == backend # "memory"
-----------------------------------------------------------------------------
(* Identity: tenant.rs and auth.rs *)

\* Role::is_admin
is_admin(scope) == scope.role = "admin"

\* TenantScope::can_see
can_see(scope, tenant) == is_admin(scope) \/ scope.tenant = tenant

\* parse_key, with validate_tenant and Role::from_str: whether an entry is well formed
parse_key(line) ==
    line.token # None /\ line.tenant \in Tenants /\ line.role \in {"admin", "operator"}

\* ApiKeys::from_config_strings: the entries that are kept; malformed ones are skipped.
api_keys == {i \in DOMAIN ApiLines : parse_key(ApiLines[i])}

\* ApiKeys::match_scope: the first entry with the presented token wins, if there is one.
match_scope(presented) ==
    LET hits == {i \in api_keys : ApiLines[i].token = presented}
    IN  {[tenant |-> ApiLines[i].tenant, role |-> ApiLines[i].role] :
            i \in {k \in hits : \A j \in hits : k <= j}}

dev_admin == [tenant |-> DevTenant, role |-> "admin"]

\* require_api_key: the scopes requests are stamped with; without keys, dev_admin.
Callers ==
    IF api_keys = {} THEN {dev_admin}
    ELSE UNION {match_scope(ApiLines[i].token) : i \in DOMAIN ApiLines}

\* Mutant: anybody may name the tenant.
target_tenantAny(scope, requested) == IF requested = None THEN scope.tenant ELSE requested

\* target_tenant of routes/credentials.rs
target_tenant(scope, requested) ==
    IF requested = None THEN scope.tenant
    ELSE IF is_admin(scope) \/ requested = scope.tenant THEN requested ELSE None
-----------------------------------------------------------------------------
(* Process: main.rs *)

\* seed_if_set, for the "dev" tenant
seed_if_set == [p \in Pairs |-> IF p \in Seeds THEN EnvSecret ELSE None]

\* Mutant: the keys are seeded after the rows were loaded.
StartKeysSeeded(rows) ==
    [p \in Pairs |-> IF p \in Seeds THEN EnvSecret ELSE rows[p]]

\* rehydrate_keystore, over what was seeded before
StartKeys(rows) == [p \in Pairs |-> IF rows[p] # None THEN rows[p] ELSE seed_if_set[p]]

NoRows == [p \in Pairs |-> None]

Init ==
    /\ backend \in Backends /\ phase = "up" /\ boots = 0 /\ lapsed = {}
    /\ creds = NoRows /\ keys = StartKeys(NoRows)
    /\ sessions = [s \in Sids |-> None]
    /\ tokens = [t \in Tokens |-> None]
    /\ audit = [rows |-> << >>, next_id |-> 0]
    /\ task = [h \in Handlers |-> Idle]
    /\ minted = {} /\ putBy = [s \in Secrets |-> None] /\ deleted = {}
    /\ torn = {} /\ unsets = {} /\ fallback = {}

\* Stores::new_from_env and the wiring of main.  Credential rows and the audit
\* log survive with Postgres, sessions only in the library's wiring: main keeps
\* them in memory in either mode.
Boot ==
    /\ phase' = "up" /\ boots < MaxBoots /\ boots' = boots + 1
    /\ IF Pg THEN UNCHANGED <<creds, audit, tokens>>
       ELSE /\ creds' = NoRows /\ audit' = [rows |-> << >>, next_id |-> 0]
            /\ tokens' = [t \in Tokens |-> None]
    /\ keys' = StartKeys(creds')
    /\ IF backend = "library" THEN UNCHANGED sessions ELSE sessions' = [s \in Sids |-> None]
    /\ task' = [h \in Handlers |-> Idle]
    /\ torn' = {} /\ unsets' = {} /\ fallback' = {}
    /\ UNCHANGED <<backend, lapsed, minted, putBy, deleted>>

\* The process is killed and started again.
Crash == phase # "down" /\ Boot

Start == phase = "down" /\ Boot

\* wait_for_signal returns: every listener stops accepting.
Signal ==
    /\ phase = "up" /\ phase' = "draining"
    /\ UNCHANGED <<backend, boots, lapsed, store, task, history>>

\* main has awaited every listener; they return once their requests have.
Exit ==
    /\ phase = "draining" /\ \A h \in Handlers : task[h] = Idle
    /\ phase' = "down"
    /\ UNCHANGED <<backend, boots, lapsed, store, task, history>>

\* Time passes until a session's ttl is over.
Lapse ==
    /\ \E s \in Sids \ lapsed : sessions[s] # None /\ sessions[s].ttl /\ lapsed' = lapsed \cup {s}
    /\ UNCHANGED <<backend, phase, boots, store, task, history>>
-----------------------------------------------------------------------------
Begin(h, t) == phase = "up" /\ task[h] = Idle /\ task' = [task EXCEPT ![h] = t]
At(h, at) == phase # "down" /\ task[h].at = at
Return(h) == task' = [task EXCEPT ![h] = Idle]
Step(h, t) == task' = [task EXCEPT ![h] = t]

(* Sessions: routes/sessions.rs *)

\* TokenRecord::is_expired, and the same of a session
is_expired(rec, sid) == rec.ttl /\ sid \in lapsed

\* The model's ids suffice for the creations under way and one more.
SidsLeft == Cardinality(minted) + Cardinality({g \in Handlers : task[g].at = "check"}) < Cardinality(Sids)

\* create_session; a request without services is refused.
Create(h) ==
    /\ SidsLeft
    /\ \E who \in Callers, body \in Creates :
         /\ body.services # {}
         /\ Begin(h, [op |-> "create", at |-> "check", who |-> who, body |-> body,
                      todo |-> body.services, dev |-> FALSE])
    /\ UNCHANGED <<process, store, history>>

\* Mutant: everybody falls back to the "dev" pool.
has_keyAnyone(who, svc) == \E tenant \in {who.tenant, DevTenant} : keys[<<tenant, svc>>] # None

\* Is there a key for the tenant, or for an admin in the "dev" pool?
has_key(who, svc) ==
    \/ keys[<<who.tenant, svc>>] # None
    \/ is_admin(who) /\ keys[<<DevTenant, svc>>] # None

\* One turn of the loop over the services; after the last one the scopes are
\* checked and the id is drawn.
Check(h) ==
    /\ At(h, "check")
    /\ \E svc \in task[h].todo :
         LET t == task[h]
             found == has_key(t.who, svc)
             own == keys[<<t.who.tenant, svc>>] # None
             rest == t.todo \ {svc}
             scoped == t.body.limited \in t.body.services \cup {None}
             seen == [t EXCEPT !.todo = rest, !.dev = @ \/ (is_admin(t.who) /\ ~own)]
         IN  \/ /\ ~found \/ (rest = {} /\ ~scoped)
                /\ Return(h) /\ UNCHANGED <<minted, fallback>>
             \/ /\ found
                /\ rest # {}
                /\ Step(h, seen) /\ UNCHANGED <<minted, fallback>>
             \/ /\ found
                /\ rest = {} /\ scoped
                /\ \E sid \in Sids \ minted :
                     /\ minted' = minted \cup {sid}
                     /\ fallback' = IF seen.dev THEN fallback \cup {sid} ELSE fallback
                     /\ Step(h, [op |-> "create", at |-> "issue", sid |-> sid, body |-> t.body,
                                 todo |-> t.body.services,
                                 session |-> [tenant |-> t.who.tenant, services |-> t.body.services,
                                              ttl |-> t.body.ttl]])
    /\ UNCHANGED <<process, store, putBy, deleted, torn, unsets>>

\* InMemoryTokenStore::issue
mem_issue(tok, rec) == tokens' = [tokens EXCEPT ![tok] = rec]

\* PgTokenStore::issue: the row refers to one of the table `sessions`, which
\* main never fills and create_session fills last.  Without it the insert
\* fails, and the error is dropped.
pg_issue(tok, rec) ==
    IF backend = "library" /\ sessions[tok[1]] # None
    THEN tokens' = [tokens EXCEPT ![tok] = rec] ELSE UNCHANGED tokens

issue(tok, rec) == IF Pg THEN pg_issue(tok, rec) ELSE mem_issue(tok, rec)

\* Mutant: only one service gets its token.
IssueOnce(h) ==
    /\ At(h, "issue")
    /\ \E svc \in task[h].todo :
         LET t == task[h]
         IN  /\ issue(<<t.sid, svc>>,
                      [session |-> t.sid, tenant |-> t.session.tenant, service |-> svc,
                       scope |-> {}, ttl |-> t.session.ttl])
             /\ Step(h, [t EXCEPT !.at = "insert"])
    /\ UNCHANGED <<process, keys, creds, sessions, audit, history>>

\* One turn of create_session's second loop
Issue(h) ==
    /\ At(h, "issue")
    /\ \E svc \in task[h].todo :
         LET t == task[h]
             rest == t.todo \ {svc}
         IN  /\ issue(<<t.sid, svc>>,
                      [session |-> t.sid, tenant |-> t.session.tenant, service |-> svc,
                       scope |-> IF t.body.limited = svc THEN t.body.globs ELSE {},
                       ttl |-> t.session.ttl])
             /\ Step(h, [t EXCEPT !.todo = rest, !.at = IF rest = {} THEN "insert" ELSE "issue"])
    /\ UNCHANGED <<process, keys, creds, sessions, audit, history>>

\* SessionStore::insert; the id is new.
insert(sid, s) == sessions' = [sessions EXCEPT ![sid] = s]

\* PgSessionStore::insert may fail, and create_session with it.
pg_insert(sid, s) == insert(sid, s) \/ UNCHANGED sessions

\* create_session returns, and the client has its tokens.
Insert(h) ==
    /\ At(h, "insert")
    /\ IF backend = "library" THEN pg_insert(task[h].sid, task[h].session)
       ELSE insert(task[h].sid, task[h].session)
    /\ Return(h)
    /\ UNCHANGED <<process, keys, creds, tokens, audit, history>>

\* SessionStore::get; PgSessionStore does not find a session that has expired.
get(sid) ==
    LET s == sessions[sid]
    IN  IF s # None /\ backend = "library" /\ is_expired(s, sid) THEN None ELSE s

\* delete_session finds a session its caller may see.
Delete(h) ==
    /\ \E who \in Callers, sid \in Sids :
         /\ get(sid) # None /\ can_see(who, get(sid).tenant)
         /\ Begin(h, [op |-> "delete", at |-> "remove", sid |-> sid])
    /\ UNCHANGED <<process, store, history>>

\* Mutant: delete_session returns without revoking.
RemoveOnly(h) ==
    /\ At(h, "remove")
    /\ sessions' = [sessions EXCEPT ![task[h].sid] = None]
    /\ Return(h)
    /\ UNCHANGED <<process, keys, creds, tokens, audit, history>>

\* TokenStore::revoke_session
revoke_session(sid) ==
    tokens' = [t \in Tokens |-> IF tokens[t] # None /\ tokens[t].session = sid THEN None ELSE tokens[t]]

\* SessionStore::remove; with the foreign key the tokens go with the row.
remove(sid) ==
    /\ sessions' = [sessions EXCEPT ![sid] = None]
    /\ IF backend = "library" THEN revoke_session(sid) ELSE UNCHANGED tokens

\* Mutant: a DELETE that failed is answered like one that removed the session.
RemoveQuiet(h) ==
    /\ At(h, "remove")
    /\ LET sid == task[h].sid
       IN  \/ /\ sessions[sid] = None \/ backend = "library"
              /\ deleted' = deleted \cup {sid}
              /\ Return(h) /\ UNCHANGED <<sessions, tokens>>
           \/ /\ sessions[sid] # None
              /\ remove(sid)
              /\ Step(h, [task[h] EXCEPT !.at = "revoke"]) /\ UNCHANGED deleted
    /\ UNCHANGED <<process, keys, creds, audit, minted, putBy, torn, unsets, fallback>>

\* Whoever removes the session second gets 404, as does a failed DELETE.
Remove(h) ==
    /\ At(h, "remove")
    /\ LET sid == task[h].sid
       IN  \/ /\ sessions[sid] = None \/ backend = "library"
              /\ Return(h) /\ UNCHANGED <<sessions, tokens>>
           \/ /\ sessions[sid] # None
              /\ remove(sid)
              /\ Step(h, [task[h] EXCEPT !.at = "revoke"])
    /\ UNCHANGED <<process, keys, creds, audit, history>>

\* delete_session revokes the tokens and returns.
Revoke(h) ==
    /\ At(h, "revoke")
    /\ revoke_session(task[h].sid)
    /\ deleted' = deleted \cup {task[h].sid}
    /\ Return(h)
    /\ UNCHANGED <<process, keys, creds, sessions, audit, minted, putBy, torn, unsets, fallback>>

\* sweep_expired_sessions and sweep_expired_tokens
sweep_expired ==
    LET over == {s \in Sids : sessions[s] # None /\ is_expired(sessions[s], s)}
    IN  /\ over # {}
        /\ sessions' = [s \in Sids |-> IF s \in over THEN None ELSE sessions[s]]
        /\ tokens' = [t \in Tokens |-> IF t[1] \in over THEN None ELSE tokens[t]]

\* A tick of the sweeper of ControlPlane::with_postgres
Sweep ==
    /\ backend = "library" /\ phase # "down"
    /\ sweep_expired
    /\ UNCHANGED <<process, keys, creds, audit, task, history>>
-----------------------------------------------------------------------------
(* Credentials: routes/credentials.rs *)

\* Another handler is between its row and its key for the pair.
Writing(pair) == \E g \in Handlers : task[g].at \in {"upsert", "set", "unset"} /\ task[g].pair = pair
Torn(pair) == torn' = IF Writing(pair) THEN torn \cup {pair} ELSE torn

\* put_credential, up to the write; a blank secret is refused.  Secrets are
\* interchangeable: each call brings one that was not used before.
PutCredential(h) ==
    /\ \E s \in Secrets : putBy[s] = None
    /\ \E who \in Callers, ask \in Puts :
         LET tenant == target_tenant(who, ask.tenant)
             pair == <<tenant, ask.service>>
             secret == CHOOSE s \in Secrets : putBy[s] = None
         IN  /\ tenant # None
             /\ Begin(h, [op |-> "put", at |-> "upsert", pair |-> pair, secret |-> secret])
             /\ putBy' = [putBy EXCEPT ![secret] = who]
             /\ Torn(pair)
    /\ UNCHANGED <<process, store, minted, deleted, unsets, fallback>>

\* CredentialStore::upsert_with_secret
upsert(pair, secret) == creds' = [creds EXCEPT ![pair] = secret]

\* PgCredentialStore drops the error of a failed write.
pg_upsert(pair, secret) ==
    \/ upsert(pair, secret) /\ UNCHANGED torn
    \/ UNCHANGED creds /\ torn' = torn \cup {pair}

Upsert(h) ==
    /\ At(h, "upsert")
    /\ IF Pg THEN pg_upsert(task[h].pair, task[h].secret)
       ELSE upsert(task[h].pair, task[h].secret) /\ UNCHANGED torn
    /\ Step(h, [task[h] EXCEPT !.at = "set"])
    /\ UNCHANGED <<process, keys, sessions, tokens, audit, minted, putBy, deleted, unsets, fallback>>

\* InMemoryKeyStore::set and unset
set(pair, secret) == keys' = [keys EXCEPT ![pair] = secret]
unset(pair) == keys' = [keys EXCEPT ![pair] = None]

\* put_credential returns.
SetKey(h) ==
    /\ At(h, "set")
    /\ set(task[h].pair, task[h].secret)
    /\ Return(h)
    /\ UNCHANGED <<process, creds, sessions, tokens, audit, history>>

\* CredentialStore::remove
remove_row(pair) == creds' = [creds EXCEPT ![pair] = None]

\* delete_credential removes the row; without one, or if the DELETE fails, it
\* answers 404.
DeleteCredential(h) ==
    /\ \E who \in Callers, ask \in Puts :
         LET tenant == target_tenant(who, ask.tenant)
             pair == <<tenant, ask.service>>
         IN  /\ tenant # None /\ creds[pair] # None
             /\ Begin(h, [op |-> "del", at |-> "unset", pair |-> pair])
             /\ remove_row(pair)
             /\ Torn(pair)
    /\ UNCHANGED <<process, keys, sessions, tokens, audit, minted, putBy, deleted, unsets, fallback>>

\* delete_credential returns.
Unset(h) ==
    /\ At(h, "unset")
    /\ unset(task[h].pair)
    /\ unsets' = unsets \cup {task[h].pair}
    /\ Return(h)
    /\ UNCHANGED <<process, creds, sessions, tokens, audit, minted, putBy, deleted, torn, fallback>>
-----------------------------------------------------------------------------
(* The phantom proxy: proxy.rs *)

\* PathGlob::matches and Scope::allows_path
allows_path(scope, path) == scope = {} \/ \E g \in scope : <<g, path>> \in Matches

\* TokenStore::lookup
lookup(tok) ==
    IF tokens[tok] = None THEN None
    ELSE IF is_expired(tokens[tok], tok[1]) THEN None ELSE tokens[tok]

\* The handler goes on to write its audit row.  Of the row's reject reason only
\* the pair whose key was missing is kept ("no_upstream_key").
Answer(sid, missing) == [op |-> "proxy", at |-> "audit", sid |-> sid, missing |-> missing]

\* handle, up to the lookup: a bad path and a missing token are refused.
Arrive(h) ==
    /\ audit.next_id + Cardinality({g \in Handlers : task[g].op = "proxy"}) < MaxRequests
    /\ \E req \in Calls :
         Begin(h, IF req.seg = None \/ req.tok = None THEN Answer(None, None)
                  ELSE [op |-> "proxy", at |-> "lookup", req |-> req, late |-> req.tok[1] \in deleted])
    /\ UNCHANGED <<process, store, history>>

\* handle: the token, then provider, service and scope.  A segment that is not
\* in Services names no registered provider.
Lookup(h) ==
    /\ At(h, "lookup")
    /\ LET req == task[h].req
           rec == lookup(req.tok)
           refused == \/ req.seg \notin Services
                      \/ req.seg # rec.service
                      \/ ~allows_path(rec.scope, req.path)
       IN  Step(h, IF rec = None THEN Answer(None, None)
                   ELSE IF refused THEN Answer(rec.session, None)
                   ELSE [op |-> "proxy", at |-> "key", sid |-> rec.session,
                         pair |-> <<rec.tenant, rec.service>>, late |-> task[h].late])
    /\ UNCHANGED <<process, store, history>>

\* KeyStore::get for the token's tenant and service
GetKey(h) ==
    /\ At(h, "key")
    /\ LET t == task[h]
           secret == keys[t.pair]
       IN  Step(h, IF secret = None THEN Answer(t.sid, t.pair)
                   ELSE [op |-> "proxy", at |-> "forward", sid |-> t.sid, pair |-> t.pair,
                         late |-> t.late, secret |-> secret])
    /\ UNCHANGED <<process, store, history>>

\* Mutant: the upstream client has no timeout.
ForwardWaits(h) == At(h, "forward") /\ FALSE /\ UNCHANGED vars

\* forward: the upstream answers, or fails or times out.
Forward(h) ==
    /\ At(h, "forward")
    /\ Step(h, Answer(task[h].sid, None))
    /\ UNCHANGED <<process, store, history>>

\* Mutant: push never drops the oldest row.
pushKeepsAll(row) ==
    audit' = [rows |-> Append(audit.rows, row), next_id |-> audit.next_id + 1]

\* InMemoryAuditStore::push, a ring
push(row) ==
    LET kept == IF Len(audit.rows) >= AuditCapacity THEN Tail(audit.rows) ELSE audit.rows
    IN  audit' = [rows |-> Append(kept, row), next_id |-> audit.next_id + 1]

\* PgAuditStore::push, a table; the error of a failed insert is dropped.
pg_push(row) ==
    \/ audit' = [rows |-> Append(audit.rows, row), next_id |-> audit.next_id + 1]
    \/ UNCHANGED audit

\* AuditStoreSink::record; then the response goes out.
Audit(h) ==
    /\ At(h, "audit")
    /\ LET row == [id |-> audit.next_id, sid |-> task[h].sid]
       IN  IF Pg THEN pg_push(row) ELSE push(row)
    /\ Return(h)
    /\ UNCHANGED <<process, keys, creds, sessions, tokens, history>>

\* The client hangs up: its handler is dropped at an await that is waiting for
\* the network, which with in-memory stores only `forward` does.
Hangup(h) ==
    /\ phase # "down" /\ task[h] # Idle
    /\ \/ task[h].at = "forward"
       \/ Pg /\ task[h].at \in {"issue", "revoke", "upsert", "set", "unset", "lookup", "audit"}
       \/ backend = "library" /\ task[h].at \in {"insert", "remove"}
    /\ Return(h)
    /\ torn' = IF task[h].op \in {"put", "del"} THEN torn \cup {task[h].pair} ELSE torn
    /\ UNCHANGED <<process, store, minted, putBy, deleted, unsets, fallback>>
-----------------------------------------------------------------------------
Finish(h) ==
    \/ Check(h) \/ Issue(h) \/ Insert(h) \/ Remove(h) \/ Revoke(h)
    \/ Upsert(h) \/ SetKey(h) \/ Unset(h)
    \/ Lookup(h) \/ GetKey(h) \/ Forward(h) \/ Audit(h)

Next ==
    \/ \E h \in Handlers : \/ Create(h) \/ Delete(h) \/ PutCredential(h) \/ DeleteCredential(h)
                           \/ Arrive(h) \/ Finish(h) \/ Hangup(h)
    \/ Signal \/ Exit \/ Crash \/ Start \/ Lapse \/ Sweep

\* While the server drains, the runtime polls some handler that can go on, and
\* main leaves when it can.
Fairness == WF_vars(phase = "draining" /\ (Exit \/ \E h \in Handlers : Finish(h)))

Spec == Init /\ [][Next]_vars
FairSpec == Spec /\ Fairness
-----------------------------------------------------------------------------
(* Properties *)

MaybeSecret == Secrets \cup {EnvSecret, None}

\* Types; in memory the audit log retains the newest rows, up to its capacity,
\* under consecutive ids (InMemoryAuditStore::push).
TypeOK ==
    /\ backend \in Backends /\ phase \in {"up", "draining", "down"}
    /\ boots \in 0..MaxBoots /\ lapsed \subseteq minted
    /\ keys \in [Pairs -> MaybeSecret] /\ creds \in [Pairs -> MaybeSecret]
    /\ DOMAIN sessions = Sids /\ DOMAIN tokens = Tokens /\ DOMAIN task = Handlers
    /\ \A s \in Sids : sessions[s] # None => sessions[s].services \in (SUBSET Services) \ {{}}
    /\ audit.next_id \in 0..MaxRequests
    /\ LET n == Len(audit.rows)
       IN  /\ backend = "memory" => n <= AuditCapacity
           /\ n = audit.next_id \/ (backend = "memory" /\ n = AuditCapacity)
           /\ \A i \in 1..n : audit.rows[i].id = audit.next_id - n + i - 1

\* The key `handle` forwards a request with was attached for the token's own
\* tenant: from the environment for "dev", by an admin, or by an operator of
\* that tenant.  Credential writes, session creation and requests may overlap.
SpendsOwnKey ==
    \A h \in Handlers : task[h].at = "forward" =>
        LET t == task[h]
        IN  IF t.secret = EnvSecret THEN t.pair \in Seeds
            ELSE can_see(putBy[t.secret], t.pair[1])

\* Once delete_session has answered, no request that arrives later with one of
\* the session's tokens is forwarded, however the delete interleaved with the
\* create_session that was issuing them.
DeletedStops == \A h \in Handlers : task[h].at = "forward" => ~task[h].late

\* Every token in the store belongs to a session that is listed, or that a
\* handler is still creating or deleting; none is left behind that no
\* delete_session could reach.
NoOrphanTokens ==
    \A tok \in Tokens : tokens[tok] # None =>
        \/ sessions[tok[1]] # None
        \/ \E h \in Handlers : task[h].at \in {"issue", "insert", "revoke"} /\ task[h].sid = tok[1]

\* create_session checks the keys so that its tokens work: the proxy misses
\* the key of a token only if it was removed since, or if an admin's session
\* was admitted on the "dev" key of another tenant.
CheckedKeyUsable ==
    \A h \in Handlers : task[h].at = "audit" /\ task[h].missing # None =>
        task[h].sid \in fallback \/ task[h].missing \in unsets

\* Between credential writes, the key the proxy spends is the one whose
\* fingerprint the credential row shows, also across a restart, unless writes to
\* the pair overlapped or a write was lost.
KeysMatchRows ==
    \A p \in Pairs \ torn : ~Writing(p) =>
        IF creds[p] # None THEN keys[p] = creds[p]
        ELSE keys[p] = None \/ (p \in Seeds /\ keys[p] = EnvSecret)

\* A token of a session that is listed and has not expired
Live(tok) ==
    LET s == sessions[tok[1]]
    IN  s # None /\ tok[2] \in s.services /\ ~is_expired(s, tok[1])

\* With in-memory stores the proxy knows every token of a listed session, from
\* the moment create_session answers to the moment delete_session starts.
LiveTokenKnown == backend = "memory" => \A tok \in Tokens : Live(tok) => lookup(tok) # None

\* The same for any store, as main promises for Postgres: issued tokens resolve
\* (and would survive a restart).
IssuedTokenKnown == \A tok \in Tokens : Live(tok) => lookup(tok) # None

\* After SIGTERM the server drains: every request in flight ends, upstream
\* answers or not, and the process exits.
DrainEnds == phase = "draining" ~> phase # "draining"
=============================================================================
