-------------------------- MODULE PhantomSessions --------------------------
(* The shape of Phantom's state and the invariants of its sessions and      *)
(* tokens, for every number of tenants, services, sessions, secrets and     *)
(* handlers, every list of API keys and every wiring of the stores.         *)
EXTENDS Phantom, TLAPS

Scopes == [tenant : Tenants, role : {"admin", "operator"}]
SessionRecord == [tenant : Tenants, services : SUBSET Services, ttl : BOOLEAN]
TokenRecord ==
    [session : Sids, tenant : Tenants, service : Services,
     scope : {body.globs : body \in Creates} \cup {{}}, ttl : BOOLEAN]

\* The shape of a handler's state at each of its places.
Checking == [op : {"create"}, at : {"check"}, who : Scopes, body : Creates,
             todo : SUBSET Services, dev : BOOLEAN]
Issuing == [op : {"create"}, at : {"issue", "insert"}, sid : Sids, body : Creates,
            todo : SUBSET Services, session : SessionRecord]
Deleting == [op : {"delete"}, at : {"remove", "revoke"}, sid : Sids]
Putting == [op : {"put"}, at : {"upsert", "set"}, pair : Pairs, secret : Secrets]
Unsetting == [op : {"del"}, at : {"unset"}, pair : Pairs]
Looking == [op : {"proxy"}, at : {"lookup"}, req : {req \in Calls : req.tok \in Tokens}, late : BOOLEAN]
Keying == [op : {"proxy"}, at : {"key"}, sid : Sids, pair : Pairs, late : BOOLEAN]
Forwarding == [op : {"proxy"}, at : {"forward"}, sid : Sids, pair : Pairs, late : BOOLEAN,
               secret : Secrets \cup {EnvSecret}]
Auditing == [op : {"proxy"}, at : {"audit"}, sid : Sids \cup {None}, missing : Pairs \cup {None}]

Tasks == {Idle} \cup Checking \cup Issuing \cup Deleting \cup Putting \cup Unsetting
             \cup Looking \cup Keying \cup Forwarding \cup Auditing

Typed ==
    /\ task \in [Handlers -> Tasks]
    /\ keys \in [Pairs -> MaybeSecret] /\ creds \in [Pairs -> MaybeSecret]
    /\ putBy \in [Secrets -> Scopes \cup {None}]
    /\ sessions \in [Sids -> SessionRecord \cup {None}]
    /\ tokens \in [Tokens -> TokenRecord \cup {None}]
    /\ \A tok \in Tokens : tokens[tok] # None =>
          tokens[tok].session = tok[1] /\ tokens[tok].service = tok[2]

-----------------------------------------------------------------------------
(* The shape of the state *)

\* A request is stamped with the scope of a well-formed API key, or with
\* dev_admin (require_api_key).
LEMMA CallersAreScopes == Callers \subseteq Scopes
<1>1. dev_admin \in Scopes
  BY Zenon, DevAssumption DEF dev_admin, Scopes
<1>2. ASSUME NEW presented, NEW who \in match_scope(presented)
      PROVE  who \in Scopes
  BY DEF match_scope, api_keys, parse_key, Scopes
<1>. QED  BY Zenon, <1>1, <1>2 DEF Callers

\* target_tenant grants a tenant its caller may see, or none.
LEMMA TargetIsVisible ==
    ASSUME NEW who \in Scopes, NEW ask \in Puts, target_tenant(who, ask.tenant) # None
    PROVE  /\ target_tenant(who, ask.tenant) \in Tenants
           /\ can_see(who, target_tenant(who, ask.tenant))
BY Zenon, InputAssumption DEF target_tenant, can_see, is_admin, Scopes

\* The keys the server starts with are rows, or the environment's secret.
LEMMA StartKeysTyped ==
    ASSUME NEW rows \in [Pairs -> MaybeSecret]
    PROVE  StartKeys(rows) \in [Pairs -> MaybeSecret]
BY Zenon DEF StartKeys, seed_if_set, MaybeSecret

\* A handler that moves to a well-formed state leaves all of them well formed.
LEMMA TaskTyped ==
    ASSUME task \in [Handlers -> Tasks], NEW h \in Handlers, NEW t \in Tasks,
           task' = [task EXCEPT ![h] = t]
    PROVE  task' \in [Handlers -> Tasks]
BY Zenon

\* The place of a handler tells its shape.
LEMMA TaskAt ==
    ASSUME NEW t \in Tasks
    PROVE  /\ t.at = "start" => t = Idle
           /\ t.at = "check" => t \in Checking
           /\ t.at \in {"issue", "insert"} => t \in Issuing
           /\ t.at \in {"remove", "revoke"} => t \in Deleting
           /\ t.at \in {"upsert", "set"} => t \in Putting
           /\ t.at = "unset" => t \in Unsetting
           /\ t.at = "lookup" => t \in Looking
           /\ t.at = "key" => t \in Keying
           /\ t.at = "forward" => t \in Forwarding
           /\ t.at = "audit" => t \in Auditing
           /\ t.at \in {"start", "check", "issue", "insert", "remove", "revoke", "upsert", "set",
                        "unset", "lookup", "key", "forward", "audit"}
BY DEF Tasks, Idle, Checking, Issuing, Deleting, Putting, Unsetting, Looking, Keying,
       Forwarding, Auditing

\* A handler moves and the stores stay.
LEMMA TypedFrame ==
    ASSUME Typed, NEW h \in Handlers, NEW t \in Tasks, Step(h, t),
           UNCHANGED <<keys, creds, putBy, sessions, tokens>>
    PROVE  Typed'
BY Zenon DEF Typed, Step

\* A handler that returns is idle.
LEMMA IdleIsTask == Idle \in Tasks
BY Zenon DEF Tasks

LEMMA TypedInit == Init => Typed
<1> SUFFICES ASSUME Init PROVE Typed
  BY Zenon
<1>1. task \in [Handlers -> Tasks]
  BY Zenon, IdleIsTask DEF Init
<1>2. NoRows \in [Pairs -> MaybeSecret]
  BY Zenon DEF NoRows, MaybeSecret
<1>3. keys \in [Pairs -> MaybeSecret] /\ creds \in [Pairs -> MaybeSecret]
  BY Zenon, <1>2, StartKeysTyped DEF Init
<1>. QED  BY Zenon, <1>1, <1>3 DEF Init, Typed

LEMMA CreateTyped ==
    ASSUME Typed, NEW h \in Handlers, Create(h)
    PROVE  Typed'
<1>1. PICK who \in Callers, body \in Creates :
         Step(h, [op |-> "create", at |-> "check", who |-> who, body |-> body,
                  todo |-> body.services, dev |-> FALSE])
  BY Zenon DEF Create, Begin, Step
<1>2. [op |-> "create", at |-> "check", who |-> who, body |-> body,
       todo |-> body.services, dev |-> FALSE] \in Tasks
  BY Zenon, CallersAreScopes, InputAssumption DEF Tasks, Checking
<1>. QED  BY Zenon, <1>1, <1>2, TypedFrame DEF Create, store, history

\* The session create_session is going to insert.
LEMMA SessionOfBody ==
    ASSUME NEW who \in Scopes, NEW body \in Creates
    PROVE  [tenant |-> who.tenant, services |-> body.services, ttl |-> body.ttl] \in SessionRecord
BY Zenon, InputAssumption DEF Scopes, SessionRecord

\* A turn of create_session's first loop that has another service to check.
CheckGoesOn(h, svc, t) ==
    /\ t \in Checking /\ Step(h, t)
    /\ t.who = task[h].who /\ t.body = task[h].body /\ t.todo = task[h].todo \ {svc}
    /\ has_key(t.who, svc)
    /\ task[h].dev => t.dev
    /\ is_admin(t.who) /\ keys[<<t.who.tenant, svc>>] = None => t.dev
    /\ UNCHANGED <<minted, fallback>>

\* The last turn, which draws the session's id.
CheckEnds(h, svc, t) ==
    /\ t \in Issuing /\ Step(h, t) /\ t.at = "issue"
    /\ t.sid \notin minted /\ minted' = minted \cup {t.sid}
    /\ t.todo = task[h].body.services
    /\ t.session = [tenant |-> task[h].who.tenant, services |-> task[h].body.services,
                    ttl |-> task[h].body.ttl]
    /\ task[h].todo \ {svc} = {} /\ has_key(task[h].who, svc)
    /\ fallback \subseteq fallback'
    /\ task[h].dev => t.sid \in fallback'
    /\ is_admin(task[h].who) /\ keys[<<task[h].who.tenant, svc>>] = None => t.sid \in fallback'

\* create_session gives up, goes on to the next service, or draws its id.
LEMMA CheckSteps ==
    ASSUME Typed, NEW h \in Handlers, Check(h)
    PROVE  /\ task[h] \in Checking /\ task[h].at = "check"
           /\ \/ Return(h) /\ UNCHANGED <<minted, fallback>>
              \/ \E svc \in task[h].todo, t \in Tasks : CheckGoesOn(h, svc, t) \/ CheckEnds(h, svc, t)
           /\ UNCHANGED <<process, store, putBy, deleted, torn, unsets>>
<1> DEFINE t == task[h]
           own(svc) == keys[<<t.who.tenant, svc>>] # None
           seen(svc) == [t EXCEPT !.todo = t.todo \ {svc}, !.dev = @ \/ (is_admin(t.who) /\ ~own(svc))]
           drawn(sid) == [op |-> "create", at |-> "issue", sid |-> sid, body |-> t.body,
                          todo |-> t.body.services,
                          session |-> [tenant |-> t.who.tenant, services |-> t.body.services,
                                       ttl |-> t.body.ttl]]
<1>1. t \in Checking /\ t.at = "check"
  BY Zenon, TaskAt DEF Typed, Check, At
<1>2. PICK svc \in t.todo :
         \/ Return(h) /\ UNCHANGED <<minted, fallback>>
         \/ has_key(t.who, svc) /\ Step(h, seen(svc)) /\ UNCHANGED <<minted, fallback>>
         \/ /\ has_key(t.who, svc) /\ t.todo \ {svc} = {}
            /\ \E sid \in Sids \ minted :
                  /\ minted' = minted \cup {sid}
                  /\ fallback' = IF seen(svc).dev THEN fallback \cup {sid} ELSE fallback
                  /\ Step(h, drawn(sid))
  BY Zenon DEF Check
<1>3. /\ seen(svc) \in Checking /\ seen(svc) \in Tasks
      /\ seen(svc).who = t.who /\ seen(svc).body = t.body /\ seen(svc).todo = t.todo \ {svc}
      /\ seen(svc).dev = (t.dev \/ (is_admin(t.who) /\ ~own(svc)))
  <2>1. (t.dev \/ (is_admin(t.who) /\ ~own(svc))) \in BOOLEAN
    BY Zenon
  <2>. QED  BY Zenon, <1>1, <2>1 DEF Checking, Tasks
<1>4. CASE has_key(t.who, svc) /\ Step(h, seen(svc)) /\ UNCHANGED <<minted, fallback>>
  <2>1. CheckGoesOn(h, svc, seen(svc))
    <3> HIDE DEF seen
    <3>. QED  BY Zenon, <1>3, <1>4 DEF CheckGoesOn
  <2>. QED  BY Zenon, <1>1, <1>3, <2>1 DEF Check
<1>5. ASSUME NEW sid \in Sids \ minted, has_key(t.who, svc), t.todo \ {svc} = {},
             minted' = minted \cup {sid},
             fallback' = IF seen(svc).dev THEN fallback \cup {sid} ELSE fallback,
             Step(h, drawn(sid))
      PROVE  \E r \in Tasks : CheckEnds(h, svc, r)
  <2>1. t.who \in Scopes /\ t.body \in Creates /\ t.body.services \in SUBSET Services
    BY Zenon, <1>1, InputAssumption DEF Checking
  <2>2. drawn(sid) \in Issuing /\ drawn(sid) \in Tasks
    BY Zenon, <2>1, SessionOfBody DEF Issuing, Tasks
  <2>3. /\ drawn(sid).at = "issue" /\ drawn(sid).sid = sid /\ drawn(sid).todo = t.body.services
        /\ drawn(sid).session = [tenant |-> t.who.tenant, services |-> t.body.services,
                                 ttl |-> t.body.ttl]
    BY Zenon
  <2>4. fallback \subseteq fallback' /\ (t.dev \/ (is_admin(t.who) /\ ~own(svc)) => sid \in fallback')
    BY Zenon, <1>3, <1>5
  <2> HIDE DEF drawn, seen
  <2>. QED  BY Zenon, <1>5, <2>2, <2>3, <2>4 DEF CheckEnds
<1>. QED  BY Zenon, <1>1, <1>2, <1>4, <1>5 DEF Check

LEMMA CheckTyped ==
    ASSUME Typed, NEW h \in Handlers, Check(h)
    PROVE  Typed'
<1>1. \E t \in Tasks : Step(h, t)
  BY Zenon, CheckSteps, IdleIsTask DEF CheckGoesOn, CheckEnds, Return, Step
<1>2. UNCHANGED <<keys, creds, putBy, sessions, tokens>>
  BY Zenon, CheckSteps DEF store
<1>. QED  BY Zenon, <1>1, <1>2, TypedFrame

\* What one turn of create_session's second loop does, whatever the backend.
IssueStep(h, svc, rec) ==
    /\ \/ tokens' = [tokens EXCEPT ![<<task[h].sid, svc>>] = rec] /\ backend = "memory"
       \/ tokens' = [tokens EXCEPT ![<<task[h].sid, svc>>] = rec] /\ sessions[task[h].sid] # None
       \/ UNCHANGED tokens /\ Pg
    /\ Step(h, [task[h] EXCEPT !.todo = task[h].todo \ {svc},
                               !.at = IF task[h].todo \ {svc} = {} THEN "insert" ELSE "issue"])

\* The record that `issue` writes is one of the token's session and service.
LEMMA IssueSteps ==
    ASSUME Typed, NEW h \in Handlers, Issue(h)
    PROVE  /\ task[h] \in Issuing /\ task[h].at = "issue"
           /\ \E svc \in task[h].todo, rec \in TokenRecord :
                 /\ IssueStep(h, svc, rec)
                 /\ rec.session = task[h].sid /\ rec.service = svc
                 /\ rec.tenant = task[h].session.tenant /\ rec.ttl = task[h].session.ttl
           /\ UNCHANGED <<process, keys, creds, sessions, audit, history>>
<1> DEFINE t == task[h]
           record(svc) == [session |-> t.sid, tenant |-> t.session.tenant, service |-> svc,
                           scope |-> IF t.body.limited = svc THEN t.body.globs ELSE {},
                           ttl |-> t.session.ttl]
<1>1. t \in Issuing /\ t.at = "issue"
  BY Zenon, TaskAt DEF Typed, Issue, At
<1>2. PICK svc \in t.todo :
         /\ issue(<<t.sid, svc>>, record(svc))
         /\ Step(h, [t EXCEPT !.todo = t.todo \ {svc},
                              !.at = IF t.todo \ {svc} = {} THEN "insert" ELSE "issue"])
  BY Zenon DEF Issue
<1>3. record(svc) \in TokenRecord
  BY Zenon, <1>1 DEF Issuing, SessionRecord, TokenRecord
<1>4. IssueStep(h, svc, record(svc))
  BY Zenon, <1>2 DEF IssueStep, issue, pg_issue, mem_issue, Pg
<1>. QED  BY Zenon, <1>1, <1>2, <1>3, <1>4 DEF Issue

LEMMA IssueTyped ==
    ASSUME Typed, NEW h \in Handlers, Issue(h)
    PROVE  Typed'
<1> DEFINE t == task[h]
<1>1. PICK svc \in t.todo, rec \in TokenRecord :
         IssueStep(h, svc, rec) /\ rec.session = t.sid /\ rec.service = svc
  BY Zenon, IssueSteps
<1>2. t \in Issuing /\ UNCHANGED <<keys, creds, putBy, sessions>>
  BY Zenon, IssueSteps DEF history
<1>3. [t EXCEPT !.todo = t.todo \ {svc},
                !.at = IF t.todo \ {svc} = {} THEN "insert" ELSE "issue"] \in Tasks
  BY Zenon, <1>2 DEF Issuing, Tasks
<1>4. task' \in [Handlers -> Tasks]
  BY Zenon, <1>1, <1>3, TaskTyped DEF IssueStep, Step, Typed
<1>5. <<t.sid, svc>> \in Tokens
  BY Zenon, <1>2 DEF Issuing, Tokens
<1>6. /\ tokens' \in [Tokens -> TokenRecord \cup {None}]
      /\ \A tok \in Tokens : tokens'[tok] # None =>
            tokens'[tok].session = tok[1] /\ tokens'[tok].service = tok[2]
  <2>1. CASE UNCHANGED tokens
    BY Zenon, <2>1 DEF Typed
  <2>2. CASE tokens' = [tokens EXCEPT ![<<t.sid, svc>>] = rec]
    BY <1>1, <1>5, <2>2 DEF Typed
  <2>. QED  BY Zenon, <1>1, <2>1, <2>2 DEF IssueStep
<1>. QED  BY Zenon, <1>2, <1>4, <1>6 DEF Typed

LEMMA InsertTyped ==
    ASSUME Typed, NEW h \in Handlers, Insert(h)
    PROVE  Typed'
<1>1. task[h] \in Issuing
  BY Zenon, TaskAt DEF Typed, Insert, At
<1>2. sessions' \in [Sids -> SessionRecord \cup {None}]
  BY Zenon, <1>1 DEF Insert, pg_insert, insert, Typed, Issuing
<1>3. task' \in [Handlers -> Tasks]
  BY Zenon, IdleIsTask, TaskTyped DEF Insert, Return, Typed
<1>. QED  BY Zenon, <1>2, <1>3 DEF Insert, history, Typed

LEMMA DeleteTyped ==
    ASSUME Typed, NEW h \in Handlers, Delete(h)
    PROVE  Typed'
<1>1. PICK sid \in Sids : Step(h, [op |-> "delete", at |-> "remove", sid |-> sid])
  BY Zenon DEF Delete, Begin, Step
<1>2. [op |-> "delete", at |-> "remove", sid |-> sid] \in Tasks
  BY Zenon DEF Deleting, Tasks
<1>. QED  BY Zenon, <1>1, <1>2, TypedFrame DEF Delete, store, history

\* Revoking keeps the shape of the token store.
LEMMA RevokeSessionTyped ==
    ASSUME Typed, NEW sid, revoke_session(sid)
    PROVE  /\ tokens' \in [Tokens -> TokenRecord \cup {None}]
           /\ \A tok \in Tokens : tokens'[tok] # None =>
                 tokens'[tok].session = tok[1] /\ tokens'[tok].service = tok[2]
BY Zenon DEF revoke_session, Typed

LEMMA RemoveTyped ==
    ASSUME Typed, NEW h \in Handlers, Remove(h)
    PROVE  Typed'
<1>1. task[h] \in Deleting
  BY Zenon, TaskAt DEF Typed, Remove, At
<1>2. [task[h] EXCEPT !.at = "revoke"] \in Tasks
  BY Zenon, <1>1 DEF Deleting, Tasks
<1>3. task' \in [Handlers -> Tasks]
  BY Zenon, <1>2, IdleIsTask, TaskTyped DEF Remove, Return, Step, Typed
<1>4. sessions' \in [Sids -> SessionRecord \cup {None}]
  BY Zenon DEF Remove, remove, Typed
<1>5. /\ tokens' \in [Tokens -> TokenRecord \cup {None}]
      /\ \A tok \in Tokens : tokens'[tok] # None =>
            tokens'[tok].session = tok[1] /\ tokens'[tok].service = tok[2]
  <2>1. UNCHANGED tokens \/ revoke_session(task[h].sid)
    BY Zenon DEF Remove, remove
  <2>. QED  BY Zenon, <2>1, RevokeSessionTyped DEF Typed
<1>. QED  BY Zenon, <1>3, <1>4, <1>5 DEF Remove, history, Typed

LEMMA RevokeTyped ==
    ASSUME Typed, NEW h \in Handlers, Revoke(h)
    PROVE  Typed'
<1>1. task' \in [Handlers -> Tasks]
  BY Zenon, IdleIsTask, TaskTyped DEF Revoke, Return, Typed
<1>. QED  BY Zenon, <1>1, RevokeSessionTyped DEF Revoke, Typed

LEMMA SweepTyped == Typed /\ Sweep => Typed'
<1> SUFFICES ASSUME Typed, Sweep PROVE Typed'
  BY Zenon
<1>1. sessions' \in [Sids -> SessionRecord \cup {None}]
  BY Zenon DEF Sweep, sweep_expired, Typed
<1>2. /\ tokens' \in [Tokens -> TokenRecord \cup {None}]
      /\ \A tok \in Tokens : tokens'[tok] # None =>
            tokens'[tok].session = tok[1] /\ tokens'[tok].service = tok[2]
  BY Zenon DEF Sweep, sweep_expired, Typed
<1>. QED  BY Zenon, <1>1, <1>2 DEF Sweep, history, Typed

\* A put_credential that is let through: a fresh secret, for a tenant its
\* caller may see.
LEMMA PutSteps ==
    ASSUME Typed, NEW h \in Handlers, PutCredential(h)
    PROVE  \E who \in Scopes, pair \in Pairs, secret \in Secrets :
              /\ putBy[secret] = None /\ can_see(who, pair[1])
              /\ putBy' = [putBy EXCEPT ![secret] = who]
              /\ Step(h, [op |-> "put", at |-> "upsert", pair |-> pair, secret |-> secret])
              /\ Torn(pair) /\ task[h] = Idle
<1>1. PICK who \in Callers, ask \in Puts :
         LET tenant == target_tenant(who, ask.tenant)
             pair == <<tenant, ask.service>>
             secret == CHOOSE s \in Secrets : putBy[s] = None
         IN  /\ tenant # None
             /\ Begin(h, [op |-> "put", at |-> "upsert", pair |-> pair, secret |-> secret])
             /\ putBy' = [putBy EXCEPT ![secret] = who]
             /\ Torn(pair)
  BY Zenon DEF PutCredential
<1> DEFINE tenant == target_tenant(who, ask.tenant)
           pair == <<tenant, ask.service>>
           secret == CHOOSE s \in Secrets : putBy[s] = None
<1>2. secret \in Secrets /\ putBy[secret] = None
  BY Zenon DEF PutCredential
<1>3. who \in Scopes
  BY Zenon, CallersAreScopes
<1>4. tenant \in Tenants /\ can_see(who, tenant)
  BY Zenon, <1>1, <1>3, TargetIsVisible
<1>5. pair \in Pairs /\ pair[1] = tenant
  BY Zenon, <1>4, InputAssumption DEF Pairs
<1>6. /\ Step(h, [op |-> "put", at |-> "upsert", pair |-> pair, secret |-> secret])
      /\ putBy' = [putBy EXCEPT ![secret] = who] /\ Torn(pair) /\ task[h] = Idle
  BY Zenon, <1>1 DEF Begin, Step
<1>7. can_see(who, pair[1])
  BY Zenon, <1>4, <1>5
<1> HIDE DEF tenant, pair, secret
<1>. QED  BY Zenon, <1>2, <1>3, <1>5, <1>6, <1>7

LEMMA PutCredentialTyped ==
    ASSUME Typed, NEW h \in Handlers, PutCredential(h)
    PROVE  Typed'
<1>1. PICK who \in Scopes, pair \in Pairs, secret \in Secrets :
         /\ putBy' = [putBy EXCEPT ![secret] = who]
         /\ Step(h, [op |-> "put", at |-> "upsert", pair |-> pair, secret |-> secret])
  BY Zenon, PutSteps
<1>2. [op |-> "put", at |-> "upsert", pair |-> pair, secret |-> secret] \in Tasks
  BY Zenon DEF Putting, Tasks
<1>3. task' \in [Handlers -> Tasks]
  BY Zenon, <1>1, <1>2, TaskTyped DEF Step, Typed
<1>4. putBy' \in [Secrets -> Scopes \cup {None}]
  BY Zenon, <1>1 DEF Typed
<1>. QED  BY Zenon, <1>3, <1>4 DEF PutCredential, store, Typed

LEMMA UpsertTyped ==
    ASSUME Typed, NEW h \in Handlers, Upsert(h)
    PROVE  Typed'
<1>1. task[h] \in Putting
  BY Zenon, TaskAt DEF Typed, Upsert, At
<1>2. [task[h] EXCEPT !.at = "set"] \in Tasks
  BY Zenon, <1>1 DEF Putting, Tasks
<1>3. task' \in [Handlers -> Tasks]
  BY Zenon, <1>2, TaskTyped DEF Upsert, Step, Typed
<1>4. creds' \in [Pairs -> MaybeSecret]
  BY Zenon, <1>1 DEF Upsert, pg_upsert, upsert, Typed, Putting, MaybeSecret
<1>. QED  BY Zenon, <1>3, <1>4 DEF Upsert, Typed

LEMMA SetKeyTyped ==
    ASSUME Typed, NEW h \in Handlers, SetKey(h)
    PROVE  Typed'
<1>1. task[h] \in Putting
  BY Zenon, TaskAt DEF Typed, SetKey, At
<1>2. task' \in [Handlers -> Tasks]
  BY Zenon, IdleIsTask, TaskTyped DEF SetKey, Return, Typed
<1>3. keys' \in [Pairs -> MaybeSecret]
  BY Zenon, <1>1 DEF SetKey, set, Typed, Putting, MaybeSecret
<1>. QED  BY Zenon, <1>2, <1>3 DEF SetKey, history, Typed

\* A delete_credential that finds its row.
LEMMA DelSteps ==
    ASSUME Typed, NEW h \in Handlers, DeleteCredential(h)
    PROVE  \E pair \in Pairs :
              /\ Step(h, [op |-> "del", at |-> "unset", pair |-> pair])
              /\ creds' = [creds EXCEPT ![pair] = None]
              /\ Torn(pair) /\ task[h] = Idle
<1>1. PICK who \in Callers, ask \in Puts :
         LET tenant == target_tenant(who, ask.tenant)
             pair == <<tenant, ask.service>>
         IN  /\ tenant # None
             /\ Begin(h, [op |-> "del", at |-> "unset", pair |-> pair])
             /\ remove_row(pair)
             /\ Torn(pair)
  BY Zenon DEF DeleteCredential
<1> DEFINE pair == <<target_tenant(who, ask.tenant), ask.service>>
<1>2. pair \in Pairs
  BY Zenon, <1>1, CallersAreScopes, TargetIsVisible, InputAssumption DEF Pairs
<1>. QED  BY Zenon, <1>1, <1>2 DEF Begin, Step, remove_row

LEMMA DeleteCredentialTyped ==
    ASSUME Typed, NEW h \in Handlers, DeleteCredential(h)
    PROVE  Typed'
<1>1. PICK pair \in Pairs :
         /\ Step(h, [op |-> "del", at |-> "unset", pair |-> pair])
         /\ creds' = [creds EXCEPT ![pair] = None]
  BY Zenon, DelSteps
<1>2. [op |-> "del", at |-> "unset", pair |-> pair] \in Tasks
  BY Zenon DEF Unsetting, Tasks
<1>3. task' \in [Handlers -> Tasks]
  BY Zenon, <1>1, <1>2, TaskTyped DEF Step, Typed
<1>4. creds' \in [Pairs -> MaybeSecret]
  BY Zenon, <1>1 DEF Typed, MaybeSecret
<1>. QED  BY Zenon, <1>3, <1>4 DEF DeleteCredential, Typed

LEMMA UnsetTyped ==
    ASSUME Typed, NEW h \in Handlers, Unset(h)
    PROVE  Typed'
<1>1. task' \in [Handlers -> Tasks]
  BY Zenon, IdleIsTask, TaskTyped DEF Unset, Return, Typed
<1>2. keys' \in [Pairs -> MaybeSecret]
  BY Zenon DEF Unset, unset, Typed, MaybeSecret
<1>. QED  BY Zenon, <1>1, <1>2 DEF Unset, Typed

\* An answered request waits for its audit row.
LEMMA AnswerTyped ==
    ASSUME NEW sid \in Sids \cup {None}, NEW missing \in Pairs \cup {None}
    PROVE  Answer(sid, missing) \in Auditing /\ Answer(sid, missing) \in Tasks
BY Zenon DEF Answer, Auditing, Tasks

\* An accepted request has a token to look up; the others are answered.
LEMMA ArriveSteps ==
    ASSUME Typed, NEW h \in Handlers, Arrive(h)
    PROVE  /\ task[h] = Idle
           /\ \E t \in Tasks : /\ Step(h, t) /\ t.op = "proxy"
                               /\ \/ t = Answer(None, None)
                                  \/ t \in Looking /\ t.late = (t.req.tok[1] \in deleted)
<1>1. PICK req \in Calls :
         Begin(h, IF req.seg = None \/ req.tok = None THEN Answer(None, None)
                  ELSE [op |-> "proxy", at |-> "lookup", req |-> req, late |-> req.tok[1] \in deleted])
  BY Zenon DEF Arrive
<1>2. CASE req.seg = None \/ req.tok = None
  BY Zenon, <1>1, <1>2, AnswerTyped DEF Begin, Step, Answer
<1>3. CASE ~(req.seg = None \/ req.tok = None)
  <2> DEFINE t == [op |-> "proxy", at |-> "lookup", req |-> req, late |-> req.tok[1] \in deleted]
  <2>1. req.tok \in Tokens
    BY Zenon, <1>3, InputAssumption DEF Tokens
  <2>2. (req.tok[1] \in deleted) \in BOOLEAN
    OBVIOUS
  <2>3. t \in Looking
    BY Zenon, <2>1, <2>2 DEF Looking
  <2>4. t \in Tasks /\ t.op = "proxy" /\ t.late = (t.req.tok[1] \in deleted)
    BY Zenon, <2>3 DEF Tasks
  <2>5. task[h] = Idle /\ Step(h, t)
    BY Zenon, <1>1, <1>3 DEF Begin, Step
  <2> HIDE DEF t
  <2>. QED  BY Zenon, <2>3, <2>4, <2>5
<1>. QED  BY Zenon, <1>2, <1>3

\* The lookup answers the request, or finds the token's record and goes on for
\* its tenant and service.
LEMMA LookupSteps ==
    ASSUME Typed, NEW h \in Handlers, Lookup(h)
    PROVE  /\ task[h] \in Looking
           /\ \E t \in Tasks :
                 /\ Step(h, t)
                 /\ \/ \E sid : t = Answer(sid, None)
                    \/ LET tok == task[h].req.tok
                       IN  /\ tok \in Tokens /\ tokens[tok] # None
                           /\ t \in Keying /\ t.sid = tok[1] /\ t.late = task[h].late
                           /\ t.pair = <<tokens[tok].tenant, tok[2]>>
<1> DEFINE tok == task[h].req.tok
           rec == lookup(tok)
           next == [op |-> "proxy", at |-> "key", sid |-> rec.session,
                    pair |-> <<rec.tenant, rec.service>>, late |-> task[h].late]
<1>1. task[h] \in Looking
  BY Zenon, TaskAt DEF Typed, Lookup, At
<1>2. tok \in Tokens
  BY Zenon, <1>1 DEF Looking
<1>3. rec = None \/ (rec = tokens[tok] /\ tokens[tok] # None)
  BY Zenon DEF lookup
<1>4. rec = None \/ (rec \in TokenRecord /\ rec.session = tok[1] /\ rec.service = tok[2])
  BY Zenon, <1>2, <1>3 DEF Typed
<1>5. \/ Step(h, Answer(None, None))
      \/ rec # None /\ Step(h, Answer(rec.session, None))
      \/ rec # None /\ Step(h, next)
  BY Zenon DEF Lookup
<1>6. CASE Step(h, Answer(None, None))
  BY Zenon, <1>1, <1>6, AnswerTyped
<1>7. CASE rec # None /\ Step(h, Answer(rec.session, None))
  <2>1. rec.session \in Sids
    BY Zenon, <1>4, <1>7 DEF TokenRecord
  <2>2. Answer(rec.session, None) \in Tasks
    BY Zenon, <2>1, AnswerTyped
  <2>. QED  BY Zenon, <1>1, <1>7, <2>2
<1>8. CASE rec # None /\ Step(h, next)
  <2>1. next \in Keying /\ next \in Tasks
    BY Zenon, <1>1, <1>4, <1>8 DEF TokenRecord, Looking, Keying, Tasks, Pairs
  <2>2. next.sid = tok[1] /\ next.late = task[h].late /\ next.pair = <<tokens[tok].tenant, tok[2]>>
    BY Zenon, <1>3, <1>4, <1>8
  <2> HIDE DEF next
  <2>. QED  BY Zenon, <1>1, <1>2, <1>3, <1>8, <2>1, <2>2
<1>. QED  BY Zenon, <1>5, <1>6, <1>7, <1>8

\* The key is missing, or the request is forwarded with the one stored for its pair.
LEMMA GetKeySteps ==
    ASSUME Typed, NEW h \in Handlers, GetKey(h)
    PROVE  /\ task[h] \in Keying
           /\ \E t \in Tasks :
                 /\ Step(h, t)
                 /\ \/ t = Answer(task[h].sid, task[h].pair) /\ keys[task[h].pair] = None
                    \/ /\ t \in Forwarding /\ t.pair = task[h].pair /\ t.late = task[h].late
                       /\ t.secret = keys[t.pair] /\ keys[t.pair] # None
<1> DEFINE t == task[h]
           secret == keys[t.pair]
           next == [op |-> "proxy", at |-> "forward", sid |-> t.sid, pair |-> t.pair,
                    late |-> t.late, secret |-> secret]
<1>1. t \in Keying
  BY Zenon, TaskAt DEF Typed, GetKey, At
<1>2. t.pair \in Pairs /\ t.sid \in Sids /\ secret \in MaybeSecret
  BY Zenon, <1>1 DEF Keying, Typed
<1>3. CASE secret = None
  BY Zenon, <1>1, <1>2, <1>3, AnswerTyped DEF GetKey
<1>4. CASE secret # None
  <2>1. next \in Forwarding /\ next \in Tasks
    BY Zenon, <1>1, <1>2, <1>4 DEF Keying, Forwarding, Tasks, MaybeSecret
  <2>2. Step(h, next)
    BY Zenon, <1>4 DEF GetKey
  <2>3. next.pair = t.pair /\ next.late = t.late /\ next.secret = secret
    BY Zenon
  <2> HIDE DEF next
  <2>. QED  BY Zenon, <1>1, <1>4, <2>1, <2>2, <2>3
<1>. QED  BY Zenon, <1>3, <1>4

LEMMA ProxyTyped ==
    ASSUME Typed, NEW h \in Handlers,
           Arrive(h) \/ Lookup(h) \/ GetKey(h) \/ Forward(h) \/ Audit(h)
    PROVE  Typed'
<1>1. UNCHANGED <<keys, creds, putBy, sessions, tokens>>
  BY Zenon DEF Arrive, Lookup, GetKey, Forward, Audit, store, history
<1>2. CASE Arrive(h)
  BY Zenon, <1>1, <1>2, ArriveSteps, TypedFrame
<1>3. CASE Lookup(h)
  BY Zenon, <1>1, <1>3, LookupSteps, TypedFrame
<1>4. CASE GetKey(h)
  BY Zenon, <1>1, <1>4, GetKeySteps, TypedFrame
<1>5. CASE Forward(h)
  <2>1. task[h] \in Forwarding
    BY Zenon, <1>5, TaskAt DEF Typed, Forward, At
  <2>2. Answer(task[h].sid, None) \in Tasks
    BY Zenon, <2>1, AnswerTyped DEF Forwarding
  <2>. QED  BY Zenon, <1>1, <1>5, <2>2, TypedFrame DEF Forward
<1>6. CASE Audit(h)
  BY Zenon, <1>1, <1>6, IdleIsTask, TypedFrame DEF Audit, Return, Step
<1>. QED  BY Zenon, <1>2, <1>3, <1>4, <1>5, <1>6

LEMMA BootTyped == Typed /\ Boot => Typed'
<1> SUFFICES ASSUME Typed, Boot PROVE Typed'
  BY Zenon
<1>1. creds' \in [Pairs -> MaybeSecret]
  BY Zenon DEF Boot, NoRows, MaybeSecret, Typed
<1>2. keys' \in [Pairs -> MaybeSecret]
  BY Zenon, <1>1, StartKeysTyped DEF Boot
<1>3. task' \in [Handlers -> Tasks]
  BY Zenon, IdleIsTask DEF Boot
<1>4. sessions' \in [Sids -> SessionRecord \cup {None}]
  BY Zenon DEF Boot, Typed
<1>5. tokens' = tokens \/ tokens' = [tok \in Tokens |-> None]
  BY Zenon DEF Boot
<1>6. putBy' = putBy
  BY Zenon DEF Boot
<1>. QED  BY Zenon, <1>1, <1>2, <1>3, <1>4, <1>5, <1>6 DEF Typed

LEMMA TypedStep == Typed /\ [Next]_vars => Typed'
<1> SUFFICES ASSUME Typed, [Next]_vars PROVE Typed'
  BY Zenon
<1>1. ASSUME NEW h \in Handlers,
             Create(h) \/ Check(h) \/ Issue(h) \/ Insert(h) \/ Delete(h) \/ Remove(h) \/ Revoke(h)
      PROVE  Typed'
  BY Zenon, <1>1, CreateTyped, CheckTyped, IssueTyped, InsertTyped, DeleteTyped, RemoveTyped, RevokeTyped
<1>2. ASSUME NEW h \in Handlers,
             PutCredential(h) \/ Upsert(h) \/ SetKey(h) \/ DeleteCredential(h) \/ Unset(h)
      PROVE  Typed'
  BY Zenon, <1>2, PutCredentialTyped, UpsertTyped, SetKeyTyped, DeleteCredentialTyped, UnsetTyped
<1>3. ASSUME NEW h \in Handlers,
             Arrive(h) \/ Lookup(h) \/ GetKey(h) \/ Forward(h) \/ Audit(h)
      PROVE  Typed'
  BY Zenon, <1>3, ProxyTyped
<1>4. ASSUME NEW h \in Handlers, Hangup(h)
      PROVE  Typed'
  BY Zenon, <1>4, IdleIsTask, TypedFrame DEF Hangup, Return, Step, store
<1>5. CASE Signal \/ Exit \/ Lapse \/ UNCHANGED vars
  BY Zenon, <1>5 DEF Signal, Exit, Lapse, vars, store, history, Typed
<1>6. CASE Boot
  BY Zenon, <1>6, BootTyped
<1>7. CASE Sweep
  BY Zenon, <1>7, SweepTyped
<1>. QED
  BY Zenon, <1>1, <1>2, <1>3, <1>4, <1>5, <1>6, <1>7 DEF Next, Finish, Crash, Start

\* The stores hold what their types say and every handler's state has the shape
\* of its place in the code, whatever the API keys and the requests are.
THEOREM Typing == Spec => []Typed
BY TypedInit, TypedStep, PTL DEF Spec
-----------------------------------------------------------------------------
(* What a step leaves alone *)

\* The places at which a handler is about a session, a credential, a request.
SessionAt == {"issue", "insert", "remove", "revoke"}
CredentialAt == {"upsert", "set", "unset"}
ProxyAt == {"lookup", "key", "forward", "audit"}

\* Nothing happens to a session; a handler at work on one stays where it is,
\* unless its client hangs up, which drops it only with Postgres.
SessionFrame ==
    /\ UNCHANGED <<backend, sessions, tokens, minted, deleted>>
    /\ \A g \in Handlers :
          \/ task'[g] = task[g]
          \/ task'[g].at \notin SessionAt /\ (task[g].at \notin SessionAt \/ Pg)

\* Nothing happens to a credential, nor to the handlers that write one.
CredentialFrame ==
    /\ UNCHANGED <<keys, creds, putBy, torn, unsets>>
    /\ \A g \in Handlers :
          task'[g] = task[g] \/ (task'[g].at \notin CredentialAt /\ task[g].at \notin CredentialAt)

\* No request to the proxy gets any further.
ProxyFrame == \A g \in Handlers : task'[g] = task[g] \/ task'[g].at \notin ProxyAt

\* The handler h moves to t.
LEMMA Moved ==
    ASSUME Typed, NEW h \in Handlers, NEW t, Step(h, t)
    PROVE  task'[h] = t /\ \A g \in Handlers : g # h => task'[g] = task[g]
BY Zenon DEF Typed, Step

\* The handler h returns.
LEMMA Returned ==
    ASSUME Typed, NEW h \in Handlers, Return(h)
    PROVE  task'[h] = Idle /\ \A g \in Handlers : g # h => task'[g] = task[g]
BY Zenon DEF Typed, Return

\* A turn of create_session's second loop moves its handler to the next service
\* or to the insert, for the same session.
LEMMA IssueMoves ==
    ASSUME Typed, NEW h \in Handlers, NEW svc, NEW rec, task[h] \in Issuing, IssueStep(h, svc, rec)
    PROVE  /\ task'[h] \in Issuing /\ task'[h].sid = task[h].sid
           /\ task'[h].session = task[h].session /\ task'[h].todo = task[h].todo \ {svc}
           /\ task'[h].at = IF task'[h].todo = {} THEN "insert" ELSE "issue"
<1> DEFINE t == [task[h] EXCEPT !.todo = task[h].todo \ {svc},
                                !.at = IF task[h].todo \ {svc} = {} THEN "insert" ELSE "issue"]
<1>1. /\ t \in Issuing /\ t.sid = task[h].sid /\ t.session = task[h].session
      /\ t.todo = task[h].todo \ {svc} /\ t.at = IF t.todo = {} THEN "insert" ELSE "issue"
  BY Zenon DEF Issuing
<1>2. Step(h, t)
  BY Zenon DEF IssueStep
<1> HIDE DEF t
<1>3. task'[h] = t
  BY Zenon, <1>2, Moved
<1>. QED  BY Zenon, <1>1, <1>3

\* The actions of sessions.rs that matter to a session's state.
SessionStep(h) == Check(h) \/ Issue(h) \/ Insert(h) \/ Delete(h) \/ Remove(h) \/ Revoke(h)
CredentialStep(h) == PutCredential(h) \/ Upsert(h) \/ SetKey(h) \/ DeleteCredential(h) \/ Unset(h)
ProxyStep(h) == Arrive(h) \/ Lookup(h) \/ GetKey(h) \/ Forward(h) \/ Audit(h)

\* Where a handler of the proxy goes.
LEMMA ProxyMoves ==
    ASSUME Typed, NEW h \in Handlers, ProxyStep(h)
    PROVE  /\ task[h].at \in {"start"} \cup ProxyAt /\ task'[h].at \in {"start"} \cup ProxyAt
           /\ \A g \in Handlers : g # h => task'[g] = task[g]
<1>1. CASE Arrive(h)
  BY <1>1, ArriveSteps, Moved DEF Idle, Answer, Looking, ProxyAt
<1>2. CASE Lookup(h)
  BY <1>2, LookupSteps, Moved DEF Answer, Looking, Keying, ProxyAt
<1>3. CASE GetKey(h)
  BY <1>3, GetKeySteps, Moved DEF Answer, Keying, Forwarding, ProxyAt
<1>4. CASE Forward(h)
  BY <1>4, Moved DEF Forward, At, Answer, ProxyAt
<1>5. CASE Audit(h)
  BY <1>5, Moved DEF Audit, At, Return, Step, Idle, ProxyAt
<1>. QED  BY Zenon, <1>1, <1>2, <1>3, <1>4, <1>5 DEF ProxyStep

\* Where a handler of the credential routes goes.
LEMMA CredentialMoves ==
    ASSUME Typed, NEW h \in Handlers, CredentialStep(h)
    PROVE  /\ task[h].at \in {"start"} \cup CredentialAt /\ task'[h].at \in {"start"} \cup CredentialAt
           /\ \A g \in Handlers : g # h => task'[g] = task[g]
<1>1. CASE PutCredential(h)
  <2>1. PICK pair \in Pairs, secret \in Secrets :
           /\ task[h] = Idle
           /\ Step(h, [op |-> "put", at |-> "upsert", pair |-> pair, secret |-> secret])
    BY Zenon, <1>1, PutSteps
  <2>. QED  BY <2>1, Moved DEF Idle, CredentialAt
<1>2. CASE DeleteCredential(h)
  <2>1. PICK pair \in Pairs :
           task[h] = Idle /\ Step(h, [op |-> "del", at |-> "unset", pair |-> pair])
    BY Zenon, <1>2, DelSteps
  <2>. QED  BY <2>1, Moved DEF Idle, CredentialAt
<1>3. CASE Upsert(h)
  <2>1. task[h] \in Putting
    BY Zenon, <1>3, TaskAt DEF Typed, Upsert, At
  <2>2. [task[h] EXCEPT !.at = "set"].at = "set"
    BY Zenon, <2>1 DEF Putting
  <2>. QED  BY Zenon, <1>3, <2>2, Moved DEF Upsert, At, CredentialAt
<1>4. CASE SetKey(h) \/ Unset(h)
  BY <1>4, Moved DEF SetKey, Unset, At, Return, Step, Idle, CredentialAt
<1>. QED  BY Zenon, <1>1, <1>2, <1>3, <1>4 DEF CredentialStep

\* Where a handler of the session routes goes.
LEMMA SessionMoves ==
    ASSUME Typed, NEW h \in Handlers, Create(h) \/ SessionStep(h)
    PROVE  /\ task[h].at \in {"start", "check"} \cup SessionAt
           /\ task'[h].at \in {"start", "check"} \cup SessionAt
           /\ \A g \in Handlers : g # h => task'[g] = task[g]
<1>1. \E t : Step(h, t)
  BY Zenon DEF Create, SessionStep, Check, Issue, Insert, Delete, Remove, Revoke, Begin, Return, Step
<1>2. \A g \in Handlers : g # h => task'[g] = task[g]
  BY Zenon, <1>1, Moved
<1>3. CASE Create(h) \/ Delete(h)
  BY <1>3 DEF Create, Delete, Begin, Idle, Typed, SessionAt
<1>4. CASE Check(h)
  <2>1. task[h].at = "check"
    BY Zenon, <1>4 DEF Check, At
  <2>2. \E t \in Tasks : Step(h, t) /\ t.at \in {"start", "check", "issue"}
    <3>1. CASE Return(h)
      BY Zenon, <3>1, IdleIsTask DEF Return, Step, Idle
    <3>. QED  BY Zenon, <1>4, <3>1, CheckSteps DEF CheckGoesOn, CheckEnds, Checking
  <2>. QED  BY Zenon, <2>1, <2>2, Moved DEF SessionAt
<1>5. CASE Issue(h)
  <2>1. task[h] \in Issuing
    BY Zenon, <1>5, IssueSteps
  <2>. QED  BY <1>5, <2>1 DEF Issue, Step, Issuing, Typed, SessionAt
<1>6. CASE Insert(h) \/ Revoke(h)
  BY <1>6 DEF Insert, Revoke, At, Return, Idle, Typed, SessionAt
<1>7. CASE Remove(h)
  <2>1. task[h] \in Deleting /\ task[h].at = "remove"
    BY Zenon, <1>7, TaskAt DEF Remove, At, Typed
  <2>. QED  BY <1>7, <2>1 DEF Remove, Return, Step, Idle, Deleting, Typed, SessionAt
<1>. QED  BY Zenon, <1>2, <1>3, <1>4, <1>5, <1>6, <1>7 DEF SessionStep

\* All steps but the session routes' own, the sweeper's and a restart leave the
\* sessions alone.
LEMMA SessionFrames ==
    ASSUME Typed, [Next]_vars, ~Boot, ~Sweep, \A h \in Handlers : ~SessionStep(h)
    PROVE  SessionFrame
<1>1. CASE Signal \/ Exit \/ Lapse \/ UNCHANGED vars
  BY Zenon, <1>1 DEF Signal, Exit, Lapse, vars, process, store, history, SessionFrame
<1>2. ASSUME NEW h \in Handlers, ProxyStep(h)
      PROVE  SessionFrame
  <2>1. UNCHANGED <<backend, sessions, tokens, minted, deleted>>
    BY Zenon, <1>2 DEF ProxyStep, Arrive, Lookup, GetKey, Forward, Audit, process, store, history
  <2>. QED  BY Zenon, <1>2, <2>1, ProxyMoves DEF SessionFrame, SessionAt, ProxyAt
<1>3. ASSUME NEW h \in Handlers, CredentialStep(h)
      PROVE  SessionFrame
  <2>1. UNCHANGED <<backend, sessions, tokens, minted, deleted>>
    BY Zenon, <1>3 DEF CredentialStep, PutCredential, Upsert, SetKey, DeleteCredential, Unset,
                process, store, history
  <2>. QED  BY Zenon, <1>3, <2>1, CredentialMoves DEF SessionFrame, SessionAt, CredentialAt
<1>4. ASSUME NEW h \in Handlers, Create(h)
      PROVE  SessionFrame
  <2>1. UNCHANGED <<backend, sessions, tokens, minted, deleted>>
    BY Zenon, <1>4 DEF Create, process, store, history
  <2>2. task[h] = Idle /\ task'[h].at = "check"
    BY <1>4 DEF Create, Begin, Typed
  <2>. QED  BY <1>4, <2>1, <2>2, SessionMoves DEF SessionFrame, SessionAt, Idle
<1>5. ASSUME NEW h \in Handlers, Hangup(h)
      PROVE  SessionFrame
  <2>1. UNCHANGED <<backend, sessions, tokens, minted, deleted>>
    BY Zenon, <1>5 DEF Hangup, process, store
  <2>2. task[h].at \notin SessionAt \/ Pg
    BY Zenon, <1>5 DEF Hangup, SessionAt, Pg
  <2>3. task'[h] = Idle /\ \A g \in Handlers : g # h => task'[g] = task[g]
    BY Zenon, <1>5, Moved DEF Hangup, Return, Step
  <2>. QED  BY <2>1, <2>2, <2>3 DEF SessionFrame, SessionAt, Idle
<1>. QED
  BY Zenon, <1>1, <1>2, <1>3, <1>4, <1>5
  DEF Next, Finish, Crash, Start, SessionStep, CredentialStep, ProxyStep

\* All steps but the credential routes' own, a client that hangs up and a
\* restart leave the credentials alone.
LEMMA CredentialFrames ==
    ASSUME Typed, [Next]_vars, ~Boot, \A h \in Handlers : ~CredentialStep(h) /\ ~Hangup(h)
    PROVE  CredentialFrame
<1>1. CASE Signal \/ Exit \/ Lapse \/ Sweep \/ UNCHANGED vars
  BY Zenon, <1>1 DEF Signal, Exit, Lapse, Sweep, vars, store, history, CredentialFrame
<1>2. ASSUME NEW h \in Handlers, ProxyStep(h)
      PROVE  CredentialFrame
  <2>1. UNCHANGED <<keys, creds, putBy, torn, unsets>>
    BY Zenon, <1>2 DEF ProxyStep, Arrive, Lookup, GetKey, Forward, Audit, store, history
  <2>. QED  BY Zenon, <1>2, <2>1, ProxyMoves DEF CredentialFrame, CredentialAt, ProxyAt
<1>3. ASSUME NEW h \in Handlers, Create(h) \/ SessionStep(h)
      PROVE  CredentialFrame
  <2>1. UNCHANGED <<keys, creds, putBy, torn, unsets>>
    BY Zenon, <1>3 DEF Create, SessionStep, Check, Issue, Insert, Delete, Remove, Revoke, store, history
  <2>. QED  BY Zenon, <1>3, <2>1, SessionMoves DEF CredentialFrame, CredentialAt, SessionAt
<1>. QED
  BY Zenon, <1>1, <1>2, <1>3 DEF Next, Finish, Crash, Start, SessionStep, CredentialStep, ProxyStep

\* All steps but the proxy's own leave its requests alone or drop them.
LEMMA ProxyFrames ==
    ASSUME Typed, [Next]_vars, \A h \in Handlers : ~ProxyStep(h)
    PROVE  ProxyFrame
<1>1. CASE Signal \/ Exit \/ Lapse \/ Sweep \/ UNCHANGED vars
  BY Zenon, <1>1 DEF Signal, Exit, Lapse, Sweep, vars, ProxyFrame
<1>2. CASE Boot
  BY Zenon, <1>2 DEF Boot, ProxyFrame, ProxyAt, Idle
<1>3. ASSUME NEW h \in Handlers, CredentialStep(h)
      PROVE  ProxyFrame
  BY Zenon, <1>3, CredentialMoves DEF ProxyFrame, ProxyAt, CredentialAt
<1>4. ASSUME NEW h \in Handlers, Create(h) \/ SessionStep(h)
      PROVE  ProxyFrame
  BY Zenon, <1>4, SessionMoves DEF ProxyFrame, ProxyAt, SessionAt
<1>5. ASSUME NEW h \in Handlers, Hangup(h)
      PROVE  ProxyFrame
  BY <1>5, Moved DEF Hangup, Return, Step, Idle, ProxyFrame, ProxyAt
<1>. QED
  BY Zenon, <1>1, <1>2, <1>3, <1>4, <1>5
  DEF Next, Finish, Crash, Start, SessionStep, CredentialStep, ProxyStep
-----------------------------------------------------------------------------
(* Sessions: an id is used once *)

\* A session that is being created is in nobody else's hands and not listed;
\* one that is being deleted or listed had its id drawn; one whose delete has
\* returned, or is about to revoke, is not listed.
Once ==
    /\ \A h \in Handlers : task[h].at \in {"issue", "insert"} =>
          /\ task[h].sid \in minted \ deleted /\ sessions[task[h].sid] = None
          /\ \A g \in Handlers : g # h /\ task[g].at \in SessionAt => task[g].sid # task[h].sid
    /\ \A h \in Handlers : task[h].at \in {"remove", "revoke"} => task[h].sid \in minted
    /\ \A h \in Handlers : task[h].at = "revoke" => sessions[task[h].sid] = None
    /\ \A sid \in Sids : sessions[sid] # None => sid \in minted \ deleted
    /\ deleted \subseteq minted

LEMMA OnceInit == Init => Once
BY DEF Init, Idle, Once

LEMMA OnceFrame ==
    ASSUME Once, SessionFrame
    PROVE  Once'
BY Zenon DEF Once, SessionFrame, SessionAt

LEMMA OnceStep == Typed /\ Once /\ [Next]_vars => Once'
<1> SUFFICES ASSUME Typed, Once, [Next]_vars PROVE Once'
  BY Zenon
<1>1. ASSUME NEW h \in Handlers, Check(h)
      PROVE  Once'
  <2>1. UNCHANGED <<sessions, deleted>>
    BY Zenon, <1>1, CheckSteps DEF store
  <2>2. CASE UNCHANGED minted /\ task'[h].at \notin SessionAt
    BY <1>1, <2>1, <2>2, SessionMoves DEF Once, SessionAt, SessionStep
  <2>3. CASE \E svc, t : CheckEnds(h, svc, t)
    <3>1. PICK t \in Issuing : /\ task'[h] = t /\ t.at = "issue" /\ t.sid \notin minted
                               /\ minted' = minted \cup {t.sid}
      BY <2>3, Moved DEF CheckEnds
    <3>2. t.sid \in Sids
      BY Zenon DEF Issuing
    <3>. QED  BY <1>1, <2>1, <3>1, <3>2, SessionMoves DEF Once, SessionAt, SessionStep
  <2>4. CASE Return(h) /\ UNCHANGED <<minted, fallback>>
    BY <2>2, <2>4, Returned DEF Idle, SessionAt
  <2>5. ASSUME NEW svc, NEW t, CheckGoesOn(h, svc, t)
        PROVE  UNCHANGED minted /\ task'[h].at \notin SessionAt
    BY Zenon, <2>5, Moved DEF CheckGoesOn, Checking, SessionAt
  <2>. QED  BY Zenon, <1>1, <2>2, <2>3, <2>4, <2>5, CheckSteps
<1>2. ASSUME NEW h \in Handlers, Issue(h)
      PROVE  Once'
  <2>1. UNCHANGED <<sessions, minted, deleted>> /\ task[h] \in Issuing
    BY Zenon, <1>2, IssueSteps DEF history
  <2>2. task'[h].at \in {"issue", "insert"} /\ task'[h].sid = task[h].sid
    <3>1. PICK svc, rec : IssueStep(h, svc, rec)
      BY Zenon, <1>2, IssueSteps
    <3>. QED  BY Zenon, <2>1, <3>1, IssueMoves DEF Issuing
  <2>. QED  BY <1>2, <2>1, <2>2, SessionMoves DEF Once, SessionAt, SessionStep, Issuing
<1>3. ASSUME NEW h \in Handlers, Insert(h)
      PROVE  Once'
  <2>1. UNCHANGED <<minted, deleted>> /\ task[h] \in Issuing /\ task'[h] = Idle
    BY Zenon, <1>3, TaskAt, Moved DEF Insert, At, Return, Step, Typed, history
  <2>2. \A sid \in Sids : sid # task[h].sid => sessions'[sid] = sessions[sid]
    BY Zenon, <1>3 DEF Insert, insert, pg_insert, Typed
  <2>3. task[h].at = "insert"
    BY Zenon, <1>3 DEF Insert, At
  <2>4. \A g \in Handlers : g # h => task'[g] = task[g]
    BY Zenon, <1>3, SessionMoves DEF SessionStep
  <2>5. \A g \in Handlers : g # h /\ task[g].at \in SessionAt => task[g].sid \in Sids
    BY Zenon, TaskAt DEF Typed, SessionAt, Issuing, Deleting
  <2>6. \A g \in Handlers : g # h /\ task[g].at \in SessionAt => sessions'[task[g].sid] = sessions[task[g].sid]
    BY Zenon, <2>1, <2>2, <2>3, <2>5 DEF Once, SessionAt
  <2>. QED  BY <2>1, <2>2, <2>3, <2>4, <2>5, <2>6 DEF Once, SessionAt, Idle
<1>4. ASSUME NEW h \in Handlers, Delete(h)
      PROVE  Once'
  <2>1. UNCHANGED <<sessions, minted, deleted>>
    BY Zenon, <1>4 DEF Delete, store, history
  <2>2. PICK sid \in Sids : sessions[sid] # None /\ task'[h] = [op |-> "delete", at |-> "remove", sid |-> sid]
    BY Zenon, <1>4 DEF Delete, get, Begin, Typed
  <2>. QED  BY <1>4, <2>1, <2>2, SessionMoves DEF Once, SessionAt, SessionStep
<1>5. ASSUME NEW h \in Handlers, Remove(h)
      PROVE  Once'
  <2>1. UNCHANGED <<minted, deleted>> /\ task[h] \in Deleting /\ task[h].at = "remove"
    BY Zenon, <1>5, TaskAt DEF Remove, At, Typed, history
  <2>2. \/ task'[h] = Idle /\ UNCHANGED sessions
        \/ /\ task'[h] = [task[h] EXCEPT !.at = "revoke"]
           /\ sessions' = [sessions EXCEPT ![task[h].sid] = None]
    BY Zenon, <1>5, Moved DEF Remove, remove, Return, Step
  <2>3. \A g \in Handlers : g # h => task'[g] = task[g]
    BY Zenon, <1>5, SessionMoves DEF SessionStep
  <2>4. CASE task'[h] = Idle /\ UNCHANGED sessions
    BY <2>1, <2>3, <2>4 DEF Once, SessionAt, Idle
  <2>5. CASE task'[h] = [task[h] EXCEPT !.at = "revoke"] /\ sessions' = [sessions EXCEPT ![task[h].sid] = None]
    <3>1. task'[h].at = "revoke" /\ task'[h].sid = task[h].sid
      BY Zenon, <2>1, <2>5 DEF Deleting
    <3>2. \A sid \in Sids : sessions'[sid] = sessions[sid] \/ sessions'[sid] = None
      BY Zenon, <2>5 DEF Typed
    <3>3. sessions'[task[h].sid] = None
      BY Zenon, <2>1, <2>5 DEF Typed, Deleting
    <3>4. \A g \in Handlers : task[g].at \in SessionAt => task[g].sid \in Sids
      BY Zenon, TaskAt DEF Typed, SessionAt, Issuing, Deleting
    <3>. QED  BY <2>1, <2>3, <3>1, <3>2, <3>3, <3>4 DEF Once, SessionAt
  <2>. QED  BY Zenon, <2>2, <2>4, <2>5
<1>6. ASSUME NEW h \in Handlers, Revoke(h)
      PROVE  Once'
  <2>1. UNCHANGED <<sessions, minted>> /\ deleted' = deleted \cup {task[h].sid}
    BY Zenon, <1>6 DEF Revoke
  <2>2. task[h].at = "revoke" /\ task'[h] = Idle
    BY Zenon, <1>6, Moved DEF Revoke, At, Return, Step
  <2>. QED  BY <1>6, <2>1, <2>2, SessionMoves DEF Once, SessionAt, SessionStep, Idle
<1>7. CASE Sweep
  <2>1. UNCHANGED <<task, minted, deleted>>
    BY Zenon, <1>7 DEF Sweep, history
  <2>2. \A sid \in Sids : sessions'[sid] = sessions[sid] \/ sessions'[sid] = None
    BY Zenon, <1>7 DEF Sweep, sweep_expired
  <2>3. \A g \in Handlers : task[g].at \in SessionAt => task[g].sid \in Sids
    BY Zenon, TaskAt DEF Typed, SessionAt, Issuing, Deleting
  <2>. QED  BY Zenon, <2>1, <2>2, <2>3 DEF Once, SessionAt
<1>8. CASE Boot
  BY <1>8 DEF Boot, Once, Idle
<1>. QED
  BY Zenon, <1>1, <1>2, <1>3, <1>4, <1>5, <1>6, <1>7, <1>8, SessionFrames, OnceFrame DEF SessionStep

\* Session ids are used once, however creations, deletions, sweeps, restarts
\* and hang-ups interleave.
THEOREM SessionOnce == Spec => []Once
BY OnceInit, OnceStep, Typing, PTL DEF Spec
-----------------------------------------------------------------------------
(* Tokens: each one belongs to a session *)

\* Handler h is between the first token of the session and its row, or between
\* the removal of the row and that of the tokens.
Holds(h, sid) == task[h].at \in {"issue", "insert", "revoke"} /\ task[h].sid = sid

\* A stored token has its session or a handler that stands in for it, and no
\* token of a deleted session is stored.  In both Postgres wirings nothing is
\* ever stored: a token is issued before the row its foreign key names exists.
Stored ==
    \A tok \in Tokens : tokens[tok] # None =>
        /\ ~Pg /\ tok[1] \notin deleted
        /\ sessions[tok[1]] # None \/ \E h \in Handlers : Holds(h, tok[1])

LEMMA StoredInit == Init => Stored
BY Zenon DEF Init, Stored

\* A handler that stands in for a session goes on doing so while it stays put.
LEMMA StoredFrame ==
    ASSUME Stored, SessionFrame
    PROVE  Stored'
BY Zenon DEF Stored, SessionFrame, SessionAt, Holds, Pg

LEMMA StoredStep == Typed /\ Once /\ Stored /\ [Next]_vars => Stored'
<1> SUFFICES ASSUME Typed, Once, Stored, [Next]_vars PROVE Stored'
  BY Zenon
<1>0. \A tok \in Tokens : tok[1] \in Sids
  BY Zenon DEF Tokens
<1>1. ASSUME NEW h \in Handlers, Check(h) \/ Delete(h)
      PROVE  Stored'
  <2>1. UNCHANGED <<backend, sessions, tokens, deleted>>
    BY Zenon, <1>1, CheckSteps DEF Delete, process, store, history
  <2>2. task[h].at \in {"start", "check"}
    <3>1. CASE Check(h)
      BY Zenon, <3>1 DEF Check, At
    <3>2. CASE Delete(h)
      BY <3>2 DEF Delete, Begin, Idle
    <3>. QED  BY Zenon, <1>1, <3>1, <3>2
  <2>3. \A g \in Handlers : g # h => task'[g] = task[g]
    BY Zenon, <1>1, SessionMoves DEF SessionStep
  <2>. QED  BY Zenon, <2>1, <2>2, <2>3 DEF Stored, Holds, Pg
<1>2. ASSUME NEW h \in Handlers, Issue(h)
      PROVE  Stored'
  <2>1. /\ UNCHANGED <<backend, sessions, deleted>>
        /\ task[h] \in Issuing /\ task[h].at = "issue"
    BY Zenon, <1>2, IssueSteps DEF process, history
  <2>2. PICK svc, rec : IssueStep(h, svc, rec)
    BY Zenon, <1>2, IssueSteps
  <2>3. task'[h].at \in {"issue", "insert"} /\ task'[h].sid = task[h].sid
    BY Zenon, <2>1, <2>2, IssueMoves DEF Issuing
  <2>4. \A g \in Handlers : g # h => task'[g] = task[g]
    BY Zenon, <1>2, SessionMoves DEF SessionStep
  <2>5. \A sid : (\E g \in Handlers : Holds(g, sid)) => \E g \in Handlers : Holds(g, sid)'
    BY Zenon, <2>1, <2>3, <2>4 DEF Holds
  <2>6. task[h].sid \notin deleted /\ sessions[task[h].sid] = None
    BY Zenon, <2>1 DEF Once
  <2>7. CASE UNCHANGED tokens
    BY Zenon, <2>1, <2>5, <2>7 DEF Stored, Pg
  <2>8. CASE tokens' = [tokens EXCEPT ![<<task[h].sid, svc>>] = rec] /\ backend = "memory"
    <3>1. \A tok \in Tokens : tok[1] # task[h].sid => tokens'[tok] = tokens[tok]
      BY <2>8 DEF Typed
    <3> SUFFICES ASSUME NEW tok \in Tokens, tokens'[tok] # None
                 PROVE  /\ ~Pg' /\ tok[1] \notin deleted'
                        /\ sessions'[tok[1]] # None \/ \E g \in Handlers : Holds(g, tok[1])'
      BY Zenon DEF Stored
    <3>2. CASE tok[1] = task[h].sid
      BY Zenon, <2>1, <2>3, <2>6, <2>8, <3>2 DEF Holds, Pg
    <3>3. CASE tok[1] # task[h].sid
      BY Zenon, <2>1, <2>5, <3>1, <3>3 DEF Stored, Pg
    <3>. QED  BY Zenon, <3>2, <3>3
  <2>. QED  BY Zenon, <2>2, <2>6, <2>7, <2>8 DEF IssueStep
<1>3. ASSUME NEW h \in Handlers, Insert(h)
      PROVE  Stored'
  <2>1. UNCHANGED <<backend, tokens, deleted>>
    BY Zenon, <1>3 DEF Insert, process, history
  <2>2. task[h] \in Issuing
    BY Zenon, <1>3, TaskAt DEF Insert, At, Typed
  <2>3. \A g \in Handlers : g # h => task'[g] = task[g]
    BY Zenon, <1>3, SessionMoves DEF SessionStep
  <2>4. \/ Pg
        \/ /\ sessions'[task[h].sid] # None
           /\ \A sid \in Sids : sid # task[h].sid => sessions'[sid] = sessions[sid]
    <3>1. task[h].session # None
      BY Zenon, <2>2, NoneAssumption DEF Issuing, SessionRecord
    <3>. QED  BY Zenon, <1>3, <2>2, <3>1 DEF Insert, insert, Typed, Issuing, Pg
  <2>. QED  BY <1>0, <2>1, <2>3, <2>4 DEF Stored, Holds, Pg
<1>4. ASSUME NEW h \in Handlers, Remove(h)
      PROVE  Stored'
  <2>1. UNCHANGED <<backend, deleted>> /\ task[h] \in Deleting /\ task[h].at = "remove"
    BY Zenon, <1>4, TaskAt DEF Remove, At, Typed, process, history
  <2>2. \A g \in Handlers : g # h => task'[g] = task[g]
    BY Zenon, <1>4, SessionMoves DEF SessionStep
  <2>3. \A tok \in Tokens : tokens'[tok] = tokens[tok] \/ tokens'[tok] = None
    BY Zenon, <1>4 DEF Remove, remove, revoke_session
  <2>4. \/ UNCHANGED sessions
        \/ /\ task'[h].at = "revoke" /\ task'[h].sid = task[h].sid
           /\ \A sid \in Sids : sid # task[h].sid => sessions'[sid] = sessions[sid]
    <3>1. CASE Return(h) /\ UNCHANGED sessions
      BY Zenon, <3>1
    <3>2. CASE remove(task[h].sid) /\ Step(h, [task[h] EXCEPT !.at = "revoke"])
      <4>1. [task[h] EXCEPT !.at = "revoke"].at = "revoke" /\ [task[h] EXCEPT !.at = "revoke"].sid = task[h].sid
        BY Zenon, <2>1 DEF Deleting
      <4>. QED  BY Zenon, <3>2, <4>1, Moved DEF remove, Typed
    <3>. QED  BY Zenon, <1>4, <3>1, <3>2 DEF Remove
  <2>5. \A sid : (\E g \in Handlers : Holds(g, sid)) => \E g \in Handlers : Holds(g, sid)'
    BY Zenon, <2>1, <2>2 DEF Holds
  <2> SUFFICES ASSUME NEW tok \in Tokens, tokens'[tok] # None
               PROVE  /\ ~Pg' /\ tok[1] \notin deleted'
                      /\ sessions'[tok[1]] # None \/ \E g \in Handlers : Holds(g, tok[1])'
    BY Zenon DEF Stored
  <2>6. tokens[tok] # None
    BY Zenon, <2>3
  <2>7. CASE sessions[tok[1]] # None /\ sessions'[tok[1]] = None
    BY Zenon, <1>0, <2>1, <2>4, <2>6, <2>7 DEF Stored, Holds, Pg
  <2>. QED  BY Zenon, <2>1, <2>5, <2>6, <2>7 DEF Stored, Pg
<1>5. ASSUME NEW h \in Handlers, Revoke(h)
      PROVE  Stored'
  <2>1. UNCHANGED <<backend, sessions>> /\ deleted' = deleted \cup {task[h].sid}
    BY Zenon, <1>5 DEF Revoke, process
  <2>2. \A g \in Handlers : g # h => task'[g] = task[g]
    BY Zenon, <1>5, SessionMoves DEF SessionStep
  <2>3. \A tok \in Tokens : tokens'[tok] # None => tokens'[tok] = tokens[tok] /\ tok[1] # task[h].sid
    BY Zenon, <1>5 DEF Revoke, revoke_session, Typed
  <2>. QED  BY <2>1, <2>2, <2>3 DEF Stored, Holds, Pg
<1>6. CASE Sweep
  BY Zenon, <1>6 DEF Sweep, sweep_expired, process, Stored, Pg
<1>7. CASE Boot
  BY Zenon, <1>7 DEF Boot, Stored, Pg
<1>. QED
  BY Zenon, <1>1, <1>2, <1>3, <1>4, <1>5, <1>6, <1>7, SessionFrames, StoredFrame DEF SessionStep

LEMMA StoredAlways == Spec => []Stored
BY StoredInit, StoredStep, Typing, SessionOnce, PTL DEF Spec

\* No token outlives its session: what the store holds can be reached by a
\* delete_session, or a handler is about to insert or to revoke it.
THEOREM NoOrphans == Spec => []NoOrphanTokens
<1>1. Stored => NoOrphanTokens
  BY Zenon DEF Stored, NoOrphanTokens, Holds
<1>. QED  BY <1>1, StoredAlways, PTL

\* A request that arrived after the delete has not found its token.
Timely ==
    \A h \in Handlers :
        /\ task[h].at = "lookup" /\ task[h].late => task[h].req.tok[1] \in deleted
        /\ task[h].at \in {"key", "forward"} => ~task[h].late

LEMMA TimelyInit == Init => Timely
BY DEF Init, Idle, Timely

\* A delete that has returned has returned for good.
LEMMA DeletedGrows ==
    ASSUME [Next]_vars
    PROVE  deleted \subseteq deleted'
<1>1. ASSUME NEW h \in Handlers, Revoke(h)
      PROVE  deleted \subseteq deleted'
  BY Zenon, <1>1 DEF Revoke
<1>2. ASSUME NEW h \in Handlers,
             Create(h) \/ Check(h) \/ Issue(h) \/ Insert(h) \/ Delete(h) \/ Remove(h)
      PROVE  UNCHANGED deleted
  BY Zenon, <1>2 DEF Create, Check, Issue, Insert, Delete, Remove, history
<1>3. ASSUME NEW h \in Handlers, CredentialStep(h) \/ ProxyStep(h) \/ Hangup(h)
      PROVE  UNCHANGED deleted
  BY Zenon, <1>3 DEF CredentialStep, PutCredential, Upsert, SetKey, DeleteCredential, Unset,
              ProxyStep, Arrive, Lookup, GetKey, Forward, Audit, Hangup, history
<1>4. CASE Signal \/ Exit \/ Lapse \/ Sweep \/ Boot \/ UNCHANGED vars
  BY Zenon, <1>4 DEF Signal, Exit, Lapse, Sweep, Boot, vars, history
<1>. QED
  BY Zenon, <1>1, <1>2, <1>3, <1>4 DEF Next, Finish, Crash, Start, CredentialStep, ProxyStep

LEMMA TimelyStep == Typed /\ Stored /\ Timely /\ [Next]_vars => Timely'
<1> SUFFICES ASSUME Typed, Stored, Timely, [Next]_vars PROVE Timely'
  BY Zenon
<1>1. CASE ProxyFrame
  BY Zenon, <1>1, DeletedGrows DEF Timely, ProxyFrame, ProxyAt
<1>2. ASSUME NEW h \in Handlers, ProxyStep(h)
      PROVE  Timely'
  <2>1. UNCHANGED deleted /\ \A g \in Handlers : g # h => task'[g] = task[g]
    BY Zenon, <1>2, ProxyMoves DEF ProxyStep, Arrive, Lookup, GetKey, Forward, Audit, history
  <2>2. /\ task'[h].at = "lookup" /\ task'[h].late => task'[h].req.tok[1] \in deleted
        /\ task'[h].at \in {"key", "forward"} => ~task'[h].late
    <3>1. CASE Arrive(h)
      <4>1. task'[h] = Answer(None, None)
            \/ (task'[h] \in Looking /\ task'[h].late = (task'[h].req.tok[1] \in deleted))
        BY <3>1, ArriveSteps, Moved
      <4>. QED  BY <4>1 DEF Answer, Looking
    <3>2. CASE Lookup(h)
      <4>1. \/ \E sid : task'[h] = Answer(sid, None)
            \/ LET tok == task[h].req.tok
               IN  tok \in Tokens /\ tokens[tok] # None /\ task'[h] \in Keying /\ task'[h].late = task[h].late
        BY <3>2, LookupSteps, Moved
      <4>2. task[h].at = "lookup"
        BY Zenon, <3>2 DEF Lookup, At
      <4>3. CASE \E sid : task'[h] = Answer(sid, None)
        BY <4>3 DEF Answer
      <4>4. CASE task[h].req.tok \in Tokens /\ tokens[task[h].req.tok] # None
                 /\ task'[h] \in Keying /\ task'[h].late = task[h].late
        <5>1. ~task[h].late
          BY Zenon, <4>2, <4>4 DEF Stored, Timely
        <5>. QED  BY Zenon, <4>4, <5>1 DEF Keying
      <4>. QED  BY Zenon, <4>1, <4>3, <4>4
    <3>3. CASE GetKey(h)
      <4>1. \/ \E sid, pair : task'[h] = Answer(sid, pair)
            \/ task'[h] \in Forwarding /\ task'[h].late = task[h].late
        BY <3>3, GetKeySteps, Moved
      <4>2. task[h].at = "key"
        BY Zenon, <3>3 DEF GetKey, At
      <4>3. ~task[h].late
        BY Zenon, <4>2 DEF Timely
      <4>4. CASE task'[h] \in Forwarding /\ task'[h].late = task[h].late
        BY Zenon, <4>3, <4>4 DEF Forwarding
      <4>5. CASE \E sid, pair : task'[h] = Answer(sid, pair)
        BY <4>5 DEF Answer
      <4>. QED  BY Zenon, <4>1, <4>4, <4>5
    <3>4. CASE Forward(h)
      BY <3>4, Moved DEF Forward, Answer
    <3>5. CASE Audit(h)
      BY <3>5, Returned DEF Audit, Idle
    <3>. QED  BY Zenon, <1>2, <3>1, <3>2, <3>3, <3>4, <3>5 DEF ProxyStep
  <2>. QED  BY Zenon, <2>1, <2>2 DEF Timely
<1>. QED  BY Zenon, <1>1, <1>2, ProxyFrames

\* Once delete_session has answered, no request that arrives later is forwarded
\* for one of the session's tokens.
THEOREM DeleteIsFinal == Spec => []DeletedStops
<1>1. Spec => []Timely
  BY TimelyInit, TimelyStep, Typing, StoredAlways, PTL DEF Spec
<1>2. Timely => DeletedStops
  BY Zenon DEF Timely, DeletedStops
<1>. QED  BY <1>1, <1>2, PTL

\* The token store has the token of a service of the session, with its ttl.
Minted(toks, sid, svc, ttl) == toks[<<sid, svc>>] # None /\ toks[<<sid, svc>>].ttl = ttl

\* In memory, a listed session has all its tokens and one under creation those
\* of the services create_session is through with.
Known ==
    /\ \A h \in Handlers : task[h].at = "insert" => task[h].todo = {}
    /\ ~Pg => \A h \in Handlers : task[h].at \in {"issue", "insert"} =>
          \A svc \in task[h].session.services \ task[h].todo :
              Minted(tokens, task[h].sid, svc, task[h].session.ttl)
    /\ ~Pg => \A sid \in Sids : sessions[sid] # None =>
          \A svc \in sessions[sid].services : Minted(tokens, sid, svc, sessions[sid].ttl)

LEMMA KnownInit == Init => Known
BY DEF Init, Idle, Known

LEMMA KnownFrame ==
    ASSUME Known, SessionFrame
    PROVE  Known'
BY DEF Known, SessionFrame, SessionAt, Minted, Pg

LEMMA CheckKnown ==
    ASSUME Typed, Known, NEW h \in Handlers, Check(h)
    PROVE  Known'
<1>1. UNCHANGED <<backend, sessions, tokens>> /\ \A g \in Handlers : g # h => task'[g] = task[g]
  BY Zenon, CheckSteps, SessionMoves DEF store, process, SessionStep
<1>2. CASE task'[h].at \notin SessionAt
  BY <1>1, <1>2 DEF Known, Minted, Pg, SessionAt
<1>3. CASE task'[h].at = "issue" /\ task'[h].session.services = task'[h].todo
  BY <1>1, <1>3 DEF Known, Minted, Pg
<1>4. CASE Return(h)
  BY <1>2, <1>4, Returned DEF Idle, SessionAt
<1>5. ASSUME NEW svc, NEW t, CheckGoesOn(h, svc, t)
      PROVE  task'[h].at \notin SessionAt
  BY Zenon, <1>5, Moved DEF CheckGoesOn, Checking, SessionAt
<1>6. ASSUME NEW svc, NEW t, CheckEnds(h, svc, t)
      PROVE  task'[h].at = "issue" /\ task'[h].session.services = task'[h].todo
  BY <1>6, Moved DEF CheckEnds
<1>. QED  BY Zenon, <1>2, <1>3, <1>4, <1>5, <1>6, CheckSteps

LEMMA IssueKnown ==
    ASSUME Typed, Once, Known, NEW h \in Handlers, Issue(h)
    PROVE  Known'
<1>1. /\ UNCHANGED <<backend, sessions>>
      /\ task[h] \in Issuing /\ task[h].at = "issue"
  BY Zenon, IssueSteps DEF process
<1>2. PICK svc \in task[h].todo, rec \in TokenRecord :
         IssueStep(h, svc, rec) /\ rec.ttl = task[h].session.ttl
  BY Zenon, IssueSteps
<1>3. /\ task'[h] \in Issuing /\ task'[h].sid = task[h].sid
      /\ task'[h].session = task[h].session /\ task'[h].todo = task[h].todo \ {svc}
      /\ task'[h].at = IF task'[h].todo = {} THEN "insert" ELSE "issue"
  BY Zenon, <1>1, <1>2, IssueMoves
<1>4. \A g \in Handlers : g # h => task'[g] = task[g]
  BY Zenon, SessionMoves DEF SessionStep
<1>5. CASE Pg
  BY Zenon, <1>1, <1>3, <1>4, <1>5 DEF Known, Pg
<1>6. CASE ~Pg
  <2>1. sessions[task[h].sid] = None
    BY Zenon, <1>1 DEF Once
  <2>2. tokens' = [tokens EXCEPT ![<<task[h].sid, svc>>] = rec]
    BY Zenon, <1>2, <1>6 DEF IssueStep
  <2>3. rec # None
    BY Zenon, NoneAssumption DEF TokenRecord
  <2>4. <<task[h].sid, svc>> \in Tokens
    BY Zenon, <1>1 DEF Issuing, Tokens
  <2>5. Minted(tokens', task[h].sid, svc, task[h].session.ttl)
    <3>1. tokens'[<<task[h].sid, svc>>] = rec
      BY Zenon, <2>2, <2>4 DEF Typed
    <3>. QED  BY Zenon, <1>2, <2>3, <3>1 DEF Minted
  <2>6. \A sid \in Sids, s \in Services : \A ttl :
           <<sid, s>> # <<task[h].sid, svc>> /\ Minted(tokens, sid, s, ttl) => Minted(tokens', sid, s, ttl)
    BY Zenon, <2>2 DEF Minted, Typed, Tokens
  <2>7. ASSUME NEW g \in Handlers, task'[g].at \in {"issue", "insert"},
               NEW s \in task'[g].session.services \ task'[g].todo
        PROVE  Minted(tokens', task'[g].sid, s, task'[g].session.ttl)
    <3>1. CASE g = h
      <4>1. CASE s = svc
        BY Zenon, <1>3, <2>5, <3>1, <4>1
      <4>2. CASE s # svc
        <5>1. s \in task[h].session.services \ task[h].todo /\ task[h].sid \in Sids /\ s \in Services
          BY Zenon, <1>1, <1>3, <2>7, <3>1, <4>2 DEF Issuing, SessionRecord
        <5>2. Minted(tokens, task[h].sid, s, task[h].session.ttl)
          BY Zenon, <1>1, <1>6, <5>1 DEF Known
        <5>. QED  BY Zenon, <1>3, <2>6, <3>1, <4>2, <5>1, <5>2
      <4>. QED  BY Zenon, <4>1, <4>2
    <3>2. CASE g # h
      <4>1. task'[g] = task[g] /\ task[g] \in Issuing
        BY Zenon, <1>4, <2>7, <3>2, TaskAt DEF Typed
      <4>2. task[g].sid \in Sids /\ s \in Services /\ task[g].sid # task[h].sid
        BY Zenon, <1>1, <2>7, <3>2, <4>1 DEF Issuing, SessionRecord, Once, SessionAt
      <4>3. Minted(tokens, task[g].sid, s, task[g].session.ttl)
        BY Zenon, <1>6, <2>7, <4>1 DEF Known
      <4>. QED  BY Zenon, <2>6, <4>1, <4>2, <4>3
    <3>. QED  BY Zenon, <3>1, <3>2
  <2>8. ASSUME NEW sid \in Sids, sessions'[sid] # None, NEW s \in sessions'[sid].services
        PROVE  Minted(tokens', sid, s, sessions'[sid].ttl)
    <3>1. sessions'[sid] = sessions[sid] /\ sid # task[h].sid /\ s \in Services
      BY Zenon, <1>1, <2>1, <2>8 DEF Typed, SessionRecord
    <3>2. Minted(tokens, sid, s, sessions[sid].ttl)
      BY Zenon, <1>6, <2>8, <3>1 DEF Known
    <3>. QED  BY Zenon, <2>6, <3>1, <3>2
  <2>9. \A g \in Handlers : task'[g].at = "insert" => task'[g].todo = {}
    BY Zenon, <1>3, <1>4 DEF Known
  <2>. QED  BY Zenon, <2>7, <2>8, <2>9 DEF Known
<1>. QED  BY Zenon, <1>5, <1>6

LEMMA InsertKnown ==
    ASSUME Typed, Known, NEW h \in Handlers, Insert(h)
    PROVE  Known'
<1>1. /\ UNCHANGED <<backend, tokens>> /\ task[h].at = "insert" /\ task'[h] = Idle
      /\ \A g \in Handlers : g # h => task'[g] = task[g]
  BY Zenon, Returned DEF Insert, At, process
<1>2. ~Pg => \A svc \in task[h].session.services : Minted(tokens, task[h].sid, svc, task[h].session.ttl)
  BY Zenon, <1>1 DEF Known
<1>3. sessions' = sessions \/ sessions' = [sessions EXCEPT ![task[h].sid] = task[h].session]
  BY Zenon DEF Insert, insert, pg_insert
<1>4. ~Pg => \A sid \in Sids : sessions'[sid] # None =>
         \A svc \in sessions'[sid].services : Minted(tokens, sid, svc, sessions'[sid].ttl)
  BY Zenon, <1>2, <1>3 DEF Known, Typed
<1>. QED  BY <1>1, <1>4 DEF Known, Pg, Idle

LEMMA RemoveKnown ==
    ASSUME Typed, Known, NEW h \in Handlers, Remove(h)
    PROVE  Known'
<1>1. UNCHANGED backend /\ \A g \in Handlers : g # h => task'[g] = task[g]
  BY Zenon, SessionMoves DEF Remove, process, SessionStep
<1>2. task'[h].at \notin {"issue", "insert"}
  <2>1. task[h] \in Deleting
    BY Zenon, TaskAt DEF Remove, At, Typed
  <2>. QED  BY <2>1 DEF Remove, Return, Step, Idle, Deleting, Typed
<1>3. Pg \/ UNCHANGED tokens
  BY Zenon DEF Remove, remove, Pg
<1>4. \A sid \in Sids : sessions'[sid] = sessions[sid] \/ sessions'[sid] = None
  BY Zenon DEF Remove, remove, Typed
<1>. QED  BY Zenon, <1>1, <1>2, <1>3, <1>4 DEF Known, Pg

LEMMA RevokeKnown ==
    ASSUME Typed, Once, Known, NEW h \in Handlers, Revoke(h)
    PROVE  Known'
<1>1. /\ UNCHANGED <<backend, sessions>> /\ task[h].at = "revoke" /\ task'[h] = Idle
      /\ \A g \in Handlers : g # h => task'[g] = task[g]
  BY Zenon, Returned DEF Revoke, At, process
<1>2. sessions[task[h].sid] = None
  BY Zenon, <1>1 DEF Once
<1>3. \A sid \in Sids, svc \in Services : \A ttl :
         sid # task[h].sid /\ Minted(tokens, sid, svc, ttl) => Minted(tokens', sid, svc, ttl)
  BY DEF Revoke, revoke_session, Minted, Tokens, Typed
<1>4. ASSUME ~Pg, NEW g \in Handlers, task'[g].at \in {"issue", "insert"},
             NEW s \in task'[g].session.services \ task'[g].todo
      PROVE  Minted(tokens', task'[g].sid, s, task'[g].session.ttl)
  <2>1. task'[g] = task[g] /\ task[g] \in Issuing /\ g # h
    BY <1>1, <1>4, TaskAt DEF Typed, Idle
  <2>2. task[g].sid \in Sids /\ s \in Services /\ task[g].sid # task[h].sid
    BY Zenon, <1>1, <1>4, <2>1 DEF Issuing, SessionRecord, Once, SessionAt
  <2>3. Minted(tokens, task[g].sid, s, task[g].session.ttl)
    BY Zenon, <1>4, <2>1 DEF Known
  <2>. QED  BY Zenon, <1>3, <2>1, <2>2, <2>3
<1>5. ASSUME ~Pg, NEW sid \in Sids, sessions[sid] # None, NEW s \in sessions[sid].services
      PROVE  Minted(tokens', sid, s, sessions[sid].ttl)
  BY Zenon, <1>2, <1>3, <1>5 DEF Known, Typed, SessionRecord
<1>. QED  BY <1>1, <1>4, <1>5 DEF Known, Pg, Idle

LEMMA KnownStep == Typed /\ Once /\ Known /\ [Next]_vars => Known'
<1> SUFFICES ASSUME Typed, Once, Known, [Next]_vars PROVE Known'
  BY Zenon
<1>1. ASSUME NEW h \in Handlers, Delete(h)
      PROVE  Known'
  <2>1. UNCHANGED <<backend, sessions, tokens>> /\ task'[h].at = "remove"
    BY <1>1 DEF Delete, Begin, process, store, Typed
  <2>. QED  BY Zenon, <1>1, <2>1, SessionMoves DEF Known, Pg, SessionStep
<1>2. CASE Sweep
  BY Zenon, <1>2 DEF Sweep, process, Known, Pg
<1>3. CASE Boot
  BY Zenon, <1>3 DEF Boot, Known, Pg, Idle
<1>. QED
  BY Zenon, <1>1, <1>2, <1>3, CheckKnown, IssueKnown, InsertKnown, RemoveKnown, RevokeKnown,
     SessionFrames, KnownFrame DEF SessionStep

\* With in-memory stores the proxy knows every token of a session that is
\* listed and has not expired, however many handlers create and delete sessions.
THEOREM TokensKnown == Spec => []LiveTokenKnown
<1>1. Spec => []Known
  BY KnownInit, KnownStep, Typing, SessionOnce, PTL DEF Spec
<1>2. Typed /\ Known => LiveTokenKnown
  <2> SUFFICES ASSUME Typed, Known, ~Pg, NEW tok \in Tokens, Live(tok)
               PROVE  lookup(tok) # None
    BY Zenon DEF LiveTokenKnown, Pg
  <2>1. tok = <<tok[1], tok[2]>> /\ tok[1] \in Sids
    BY DEF Tokens
  <2>2. Minted(tokens, tok[1], tok[2], sessions[tok[1]].ttl)
    BY Zenon, <2>1 DEF Known, Live
  <2>. QED  BY Zenon, <2>1, <2>2 DEF Minted, lookup, Live, is_expired
<1>. QED  BY <1>1, <1>2, Typing, PTL
=============================================================================
