--------------------------- MODULE PhantomProofs ---------------------------
(* The invariants of Phantom's credentials, of the admission check and of   *)
(* the audit log, for every value of the constants: each is proved from the *)
(* shape of the state and the session invariants of PhantomSessions.        *)
EXTENDS PhantomSessions, FiniteSetTheorems

-----------------------------------------------------------------------------
(* Credentials: whose key is spent *)

\* The secret may be spent for the pair: it came from the environment, or
\* somebody who may see the pair's tenant attached it.
Own(by, secret, pair) ==
    IF secret = EnvSecret THEN pair \in Seeds
    ELSE secret \in Secrets /\ by[secret] # None /\ can_see(by[secret], pair[1])

\* Every key the proxy may spend, every row it may be loaded from and every
\* secret a handler carries is the pair's own.
Owned ==
    /\ \A p \in Pairs : /\ keys[p] # None => Own(putBy, keys[p], p)
                        /\ creds[p] # None => Own(putBy, creds[p], p)
    /\ \A h \in Handlers : task[h].at \in {"upsert", "set", "forward"} =>
          Own(putBy, task[h].secret, task[h].pair)

\* The keys a server starts with are the pairs' own when its rows are.
LEMMA StartKeysOwned ==
    ASSUME NEW rows \in [Pairs -> MaybeSecret], NEW by,
           \A p \in Pairs : rows[p] # None => Own(by, rows[p], p)
    PROVE  \A p \in Pairs : StartKeys(rows)[p] # None => Own(by, StartKeys(rows)[p], p)
BY Zenon DEF StartKeys, seed_if_set, Own

LEMMA OwnedInit == Init => Owned
<1> SUFFICES ASSUME Init PROVE Owned
  BY Zenon
<1>1. NoRows \in [Pairs -> MaybeSecret] /\ \A p \in Pairs : NoRows[p] = None
  BY Zenon DEF NoRows, MaybeSecret
<1>2. \A p \in Pairs : keys[p] # None => Own(putBy, keys[p], p)
  BY Zenon, <1>1, StartKeysOwned DEF Init
<1>. QED  BY Zenon, <1>1, <1>2 DEF Init, Idle, Owned

\* Who attached a secret is recorded once: each put_credential brings a new one.
LEMMA OwnKept ==
    ASSUME Typed, [Next]_vars, NEW secret, NEW pair, Own(putBy, secret, pair)
    PROVE  Own(putBy', secret, pair)
<1>1. ASSUME NEW h \in Handlers, PutCredential(h)
      PROVE  Own(putBy', secret, pair)
  <2>1. PICK who \in Scopes, fresh \in Secrets : putBy[fresh] = None /\ putBy' = [putBy EXCEPT ![fresh] = who]
    BY Zenon, <1>1, PutSteps
  <2>. QED  BY Zenon, <2>1 DEF Own, Typed
<1>2. ASSUME NEW h \in Handlers, CredentialStep(h), ~PutCredential(h)
      PROVE  UNCHANGED putBy
  BY Zenon, <1>2 DEF CredentialStep, Upsert, SetKey, DeleteCredential, Unset, history
<1>3. ASSUME NEW h \in Handlers, Hangup(h)
      PROVE  UNCHANGED putBy
  BY Zenon, <1>3 DEF Hangup
<1>4. CASE Boot
  BY Zenon, <1>4 DEF Boot
<1>. QED  BY Zenon, <1>1, <1>2, <1>3, <1>4, CredentialFrames DEF CredentialFrame

LEMMA PutOwned ==
    ASSUME Typed, Owned, [Next]_vars, NEW h \in Handlers, PutCredential(h)
    PROVE  Owned'
<1>1. PICK who \in Scopes, pair \in Pairs, secret \in Secrets :
         /\ putBy[secret] = None /\ can_see(who, pair[1])
         /\ putBy' = [putBy EXCEPT ![secret] = who]
         /\ Step(h, [op |-> "put", at |-> "upsert", pair |-> pair, secret |-> secret])
  BY Zenon, PutSteps
<1>2. UNCHANGED <<keys, creds>> /\ \A g \in Handlers : g # h => task'[g] = task[g]
  BY Zenon, CredentialMoves DEF PutCredential, store, CredentialStep
<1>3. task'[h] = [op |-> "put", at |-> "upsert", pair |-> pair, secret |-> secret]
  BY Zenon, <1>1, Moved
<1>4. Own(putBy', secret, pair)
  BY Zenon, <1>1, NoneAssumption DEF Own, Typed, Scopes
<1>5. Own(putBy', task'[h].secret, task'[h].pair)
  BY <1>3, <1>4
<1>. QED  BY Zenon, <1>2, <1>5, OwnKept DEF Owned

LEMMA UpsertOwned ==
    ASSUME Typed, Owned, NEW h \in Handlers, Upsert(h)
    PROVE  Owned'
<1>1. task[h] \in Putting /\ task[h].at = "upsert"
  BY Zenon, TaskAt DEF Typed, Upsert, At
<1>2. UNCHANGED <<keys, putBy>> /\ \A g \in Handlers : g # h => task'[g] = task[g]
  BY Zenon, CredentialMoves DEF Upsert, CredentialStep
<1>3. task'[h].secret = task[h].secret /\ task'[h].pair = task[h].pair
  BY Zenon, <1>1 DEF Upsert, Step, Putting, Typed
<1>4. Own(putBy, task[h].secret, task[h].pair)
  BY Zenon, <1>1 DEF Owned
<1>5. UNCHANGED creds \/ creds' = [creds EXCEPT ![task[h].pair] = task[h].secret]
  BY Zenon DEF Upsert, pg_upsert, upsert
<1>6. \A p \in Pairs : creds'[p] # None => Own(putBy, creds'[p], p)
  BY Zenon, <1>4, <1>5 DEF Owned, Typed
<1>. QED  BY Zenon, <1>2, <1>3, <1>4, <1>6 DEF Owned

LEMMA SetKeyOwned ==
    ASSUME Typed, Owned, NEW h \in Handlers, SetKey(h)
    PROVE  Owned'
<1>1. /\ UNCHANGED <<creds, putBy>> /\ task'[h] = Idle
      /\ \A g \in Handlers : g # h => task'[g] = task[g]
  BY Zenon, Returned DEF SetKey, history
<1>2. Own(putBy, task[h].secret, task[h].pair)
  BY Zenon DEF Owned, SetKey, At
<1>3. \A p \in Pairs : keys'[p] # None => Own(putBy, keys'[p], p)
  BY Zenon, <1>2 DEF SetKey, set, Owned, Typed
<1>. QED  BY <1>1, <1>3 DEF Owned, Idle

LEMMA DelOwned ==
    ASSUME Typed, Owned, NEW h \in Handlers, DeleteCredential(h) \/ Unset(h) \/ Hangup(h)
    PROVE  Owned'
<1>1. UNCHANGED putBy
  BY Zenon DEF DeleteCredential, Unset, Hangup
<1>2. \A p \in Pairs : /\ keys'[p] = keys[p] \/ keys'[p] = None
                       /\ creds'[p] = creds[p] \/ creds'[p] = None
  BY Zenon DEF DeleteCredential, remove_row, Unset, unset, Hangup, store, Typed
<1>3. \A g \in Handlers : task'[g] = task[g] \/ task'[g].at \notin {"upsert", "set", "forward"}
  <2>1. CASE DeleteCredential(h)
    <3>1. PICK pair : Step(h, [op |-> "del", at |-> "unset", pair |-> pair])
      BY Zenon, <2>1, DelSteps
    <3>. QED  BY <3>1, Moved
  <2>2. CASE Unset(h) \/ Hangup(h)
    BY <2>2, Returned DEF Unset, Hangup, Idle
  <2>. QED  BY Zenon, <2>1, <2>2
<1>. QED  BY Zenon, <1>1, <1>2, <1>3 DEF Owned

LEMMA ProxyOwned ==
    ASSUME Typed, Owned, NEW h \in Handlers, ProxyStep(h)
    PROVE  Owned'
<1>1. UNCHANGED <<keys, creds, putBy>> /\ \A g \in Handlers : g # h => task'[g] = task[g]
  BY Zenon, ProxyMoves DEF ProxyStep, Arrive, Lookup, GetKey, Forward, Audit, store, history
<1>2. task'[h].at \in {"upsert", "set", "forward"} => Own(putBy, task'[h].secret, task'[h].pair)
  <2>1. CASE Arrive(h)
    BY <2>1, ArriveSteps, Moved DEF Answer, Looking
  <2>2. CASE Lookup(h)
    BY <2>2, LookupSteps, Moved DEF Answer, Keying
  <2>3. CASE GetKey(h)
    <3>1. task[h].pair \in Pairs
      BY Zenon, <2>3, GetKeySteps DEF Keying
    <3>2. \/ task'[h] = Answer(task[h].sid, task[h].pair)
          \/ /\ task'[h].pair = task[h].pair /\ task'[h].secret = keys[task[h].pair]
             /\ keys[task[h].pair] # None
      BY <2>3, GetKeySteps, Moved
    <3>3. CASE task'[h] = Answer(task[h].sid, task[h].pair)
      BY <3>3 DEF Answer
    <3>. QED  BY Zenon, <3>1, <3>2, <3>3 DEF Owned
  <2>4. CASE Forward(h)
    BY <2>4, Moved DEF Forward, Answer
  <2>5. CASE Audit(h)
    BY <2>5, Returned DEF Audit, Idle
  <2>. QED  BY Zenon, <2>1, <2>2, <2>3, <2>4, <2>5 DEF ProxyStep
<1>. QED  BY Zenon, <1>1, <1>2 DEF Owned

LEMMA BootOwned == Typed /\ Owned /\ Boot => Owned'
<1> SUFFICES ASSUME Typed, Owned, Boot PROVE Owned'
  BY Zenon
<1>1. creds' \in [Pairs -> MaybeSecret] /\ UNCHANGED putBy
  BY Zenon, BootTyped DEF Typed, Boot
<1>2. \A p \in Pairs : creds'[p] # None => Own(putBy, creds'[p], p)
  BY Zenon DEF Boot, NoRows, Owned
<1>3. \A p \in Pairs : keys'[p] # None => Own(putBy, keys'[p], p)
  BY Zenon, <1>1, <1>2, StartKeysOwned DEF Boot
<1>4. \A h \in Handlers : task'[h] = Idle
  BY Zenon DEF Boot
<1>. QED  BY <1>1, <1>2, <1>3, <1>4 DEF Owned, Idle

LEMMA OwnedStep == Typed /\ Owned /\ [Next]_vars => Owned'
<1> SUFFICES ASSUME Typed, Owned, [Next]_vars PROVE Owned'
  BY Zenon
<1>1. CASE CredentialFrame /\ ProxyFrame
  BY Zenon, <1>1 DEF CredentialFrame, ProxyFrame, CredentialAt, ProxyAt, Owned
<1>. QED
  BY Zenon, <1>1, PutOwned, UpsertOwned, SetKeyOwned, DelOwned, ProxyOwned, BootOwned,
     CredentialFrames, ProxyFrames DEF CredentialStep

\* The proxy forwards a request with a key of the token's own tenant only:
\* seeded for it, attached by an operator of that tenant or by an admin.
THEOREM KeysAreOwn == Spec => []SpendsOwnKey
<1>1. Spec => []Owned
  BY OwnedInit, OwnedStep, Typing, PTL DEF Spec
<1>2. Owned => SpendsOwnKey
  BY Zenon DEF Owned, Own, SpendsOwnKey
<1>. QED  BY <1>1, <1>2, PTL

\* The key is the one the row shows, or the environment's when there is no row.
Matched(p) ==
    IF creds[p] # None THEN keys[p] = creds[p]
    ELSE keys[p] = None \/ (p \in Seeds /\ keys[p] = EnvSecret)

\* Handler h writes the pair's credential: the row first, the key second.
Writes(h, p) == task[h].at \in CredentialAt /\ task[h].pair = p

\* A pair that is not torn has one writer at most; between its two writes the
\* row is already what the key is going to be, and otherwise they match.
InStep(p) ==
    /\ \A g, h \in Handlers : Writes(g, p) /\ Writes(h, p) => g = h
    /\ \A h \in Handlers : Writes(h, p) =>
          /\ task[h].at = "set" => creds[p] = task[h].secret
          /\ task[h].at = "unset" => creds[p] = None
    /\ Matched(p) \/ \E h \in Handlers : Writes(h, p) /\ task[h].at \in {"set", "unset"}

Paired == \A p \in Pairs \ torn : InStep(p)

\* A server starts with matching keys.
LEMMA StartKeysMatch ==
    ASSUME NEW rows \in [Pairs -> MaybeSecret], NEW p \in Pairs
    PROVE  IF rows[p] # None THEN StartKeys(rows)[p] = rows[p]
           ELSE StartKeys(rows)[p] = None \/ (p \in Seeds /\ StartKeys(rows)[p] = EnvSecret)
BY Zenon DEF StartKeys, seed_if_set

LEMMA PairedInit == Init => Paired
<1> SUFFICES ASSUME Init PROVE Paired
  BY Zenon
<1>1. NoRows \in [Pairs -> MaybeSecret]
  BY Zenon DEF NoRows, MaybeSecret
<1>2. \A p \in Pairs : Matched(p)
  BY Zenon, <1>1, StartKeysMatch DEF Init, Matched
<1>3. \A h \in Handlers : \A p : ~Writes(h, p)
  BY Zenon DEF Init, Idle, Writes, CredentialAt
<1>. QED  BY Zenon, <1>2, <1>3 DEF Paired, InStep

LEMMA PairedFrame ==
    ASSUME Paired, CredentialFrame
    PROVE  Paired'
BY DEF Paired, InStep, CredentialFrame, CredentialAt, Writes, Matched

\* What a step of handler h means for the pairs it does not write.
LEMMA PairedElsewhere ==
    ASSUME Typed, Paired, NEW h \in Handlers, NEW p \in Pairs \ torn,
           \A g \in Handlers : g # h => task'[g] = task[g],
           keys'[p] = keys[p], creds'[p] = creds[p],
           ~Writes(h, p), ~(task'[h].at \in CredentialAt /\ task'[h].pair = p)
    PROVE  InStep(p)'
<1>1. \A g \in Handlers : Writes(g, p)' <=> Writes(g, p) /\ g # h
  BY Zenon DEF Writes
<1>2. Matched(p)' <=> Matched(p)
  BY Zenon DEF Matched
<1>. QED  BY <1>1, <1>2 DEF Paired, InStep

\* A handler that becomes a pair's writer is its only one, or tears the pair.
LEMMA TornOrAlone ==
    ASSUME NEW pair \in Pairs, Torn(pair)
    PROVE  /\ torn \subseteq torn'
           /\ pair \notin torn' => \A g \in Handlers : ~Writes(g, pair)
BY Zenon DEF Torn, Writing, Writes, CredentialAt

LEMMA PutPaired ==
    ASSUME Typed, Paired, NEW h \in Handlers, PutCredential(h)
    PROVE  Paired'
<1>1. PICK pair \in Pairs, secret \in Secrets :
         /\ Step(h, [op |-> "put", at |-> "upsert", pair |-> pair, secret |-> secret])
         /\ Torn(pair) /\ task[h] = Idle
  BY Zenon, PutSteps
<1>2. UNCHANGED <<keys, creds>> /\ \A g \in Handlers : g # h => task'[g] = task[g]
  BY Zenon, CredentialMoves DEF PutCredential, store, CredentialStep
<1>3. task'[h].at = "upsert" /\ task'[h].pair = pair /\ ~\E p : Writes(h, p)
  BY <1>1, Moved DEF Writes, Idle, CredentialAt
<1>4. torn \subseteq torn' /\ (pair \notin torn' => \A g \in Handlers : ~Writes(g, pair))
  BY Zenon, <1>1, TornOrAlone
<1> SUFFICES ASSUME NEW p \in Pairs \ torn'
             PROVE  InStep(p)'
  BY Zenon DEF Paired
<1>5. CASE p # pair
  BY Zenon, <1>2, <1>3, <1>4, <1>5, PairedElsewhere
<1>6. CASE p = pair
  <2>1. \A g \in Handlers : Writes(g, p)' => g = h
    BY Zenon, <1>2, <1>4, <1>6 DEF Writes
  <2>2. Matched(p)'
    BY Zenon, <1>2, <1>4, <1>6 DEF Paired, InStep, Matched
  <2>. QED  BY Zenon, <1>3, <2>1, <2>2 DEF InStep
<1>. QED  BY Zenon, <1>5, <1>6

LEMMA DelPaired ==
    ASSUME Typed, Paired, NEW h \in Handlers, DeleteCredential(h)
    PROVE  Paired'
<1>1. PICK pair \in Pairs :
         /\ Step(h, [op |-> "del", at |-> "unset", pair |-> pair])
         /\ creds' = [creds EXCEPT ![pair] = None]
         /\ Torn(pair) /\ task[h] = Idle
  BY Zenon, DelSteps
<1>2. UNCHANGED keys /\ \A g \in Handlers : g # h => task'[g] = task[g]
  BY Zenon, CredentialMoves DEF DeleteCredential, CredentialStep
<1>3. task'[h].at = "unset" /\ task'[h].pair = pair /\ ~\E p : Writes(h, p)
  BY <1>1, Moved DEF Writes, Idle, CredentialAt
<1>4. torn \subseteq torn' /\ (pair \notin torn' => \A g \in Handlers : ~Writes(g, pair))
  BY Zenon, <1>1, TornOrAlone
<1> SUFFICES ASSUME NEW p \in Pairs \ torn'
             PROVE  InStep(p)'
  BY Zenon DEF Paired
<1>5. CASE p # pair
  <2>1. creds'[p] = creds[p]
    BY Zenon, <1>1, <1>5 DEF Typed
  <2>. QED  BY Zenon, <1>2, <1>3, <1>4, <1>5, <2>1, PairedElsewhere
<1>6. CASE p = pair
  <2>1. \A g \in Handlers : Writes(g, p)' => g = h
    BY Zenon, <1>2, <1>4, <1>6 DEF Writes
  <2>2. creds'[p] = None
    BY Zenon, <1>1, <1>6 DEF Typed
  <2>3. Writes(h, p)'
    BY Zenon, <1>3, <1>6 DEF Writes, CredentialAt
  <2>. QED  BY Zenon, <1>3, <2>1, <2>2, <2>3 DEF InStep
<1>. QED  BY Zenon, <1>5, <1>6

LEMMA UpsertPaired ==
    ASSUME Typed, Paired, NEW h \in Handlers, Upsert(h)
    PROVE  Paired'
<1> DEFINE pair == task[h].pair
           secret == task[h].secret
<1>1. task[h] \in Putting /\ task[h].at = "upsert"
  BY Zenon, TaskAt DEF Typed, Upsert, At
<1>2. UNCHANGED keys /\ \A g \in Handlers : g # h => task'[g] = task[g]
  BY Zenon, CredentialMoves DEF Upsert, CredentialStep
<1>3. task'[h].at = "set" /\ task'[h].pair = pair /\ task'[h].secret = secret
  BY Zenon, <1>1 DEF Upsert, Step, Putting, Typed
<1>4. \/ creds' = [creds EXCEPT ![pair] = secret] /\ UNCHANGED torn
      \/ UNCHANGED creds /\ torn' = torn \cup {pair}
  BY Zenon DEF Upsert, pg_upsert, upsert
<1>5. pair \in Pairs
  BY Zenon, <1>1 DEF Putting
<1> SUFFICES ASSUME NEW p \in Pairs \ torn'
             PROVE  InStep(p)'
  BY Zenon DEF Paired
<1>6. CASE p # pair
  <2>1. creds'[p] = creds[p] /\ p \notin torn
    BY Zenon, <1>4, <1>6 DEF Typed
  <2>2. ~Writes(h, p) /\ task'[h].pair # p
    BY Zenon, <1>3, <1>6 DEF Writes
  <2>. QED  BY Zenon, <1>2, <2>1, <2>2, PairedElsewhere
<1>7. CASE p = pair
  <2>1. creds'[p] = secret /\ p \notin torn
    BY Zenon, <1>4, <1>5, <1>7 DEF Typed
  <2>2. Writes(h, p) /\ (task'[h].at \in CredentialAt /\ task'[h].pair = p)
    BY Zenon, <1>1, <1>3, <1>7 DEF Writes, CredentialAt
  <2>3. \A g \in Handlers : Writes(g, p)' => g = h
    BY <1>2, <2>1, <2>2 DEF Paired, InStep, Writes
  <2>. QED  BY Zenon, <1>3, <2>1, <2>2, <2>3 DEF InStep, Writes
<1>. QED  BY Zenon, <1>6, <1>7

LEMMA SetKeyPaired ==
    ASSUME Typed, Paired, NEW h \in Handlers, SetKey(h)
    PROVE  Paired'
<1> DEFINE pair == task[h].pair
           secret == task[h].secret
<1>1. task[h] \in Putting /\ task[h].at = "set"
  BY Zenon, TaskAt DEF Typed, SetKey, At
<1>2. /\ UNCHANGED <<creds, torn>> /\ task'[h] = Idle
      /\ \A g \in Handlers : g # h => task'[g] = task[g]
  BY Zenon, Returned DEF SetKey, history
<1>3. keys' = [keys EXCEPT ![pair] = secret]
  BY Zenon DEF SetKey, set
<1>4. pair \in Pairs /\ secret # None
  BY Zenon, <1>1, NoneAssumption DEF Putting
<1>5. task'[h].at \notin CredentialAt
  BY <1>2 DEF Idle, CredentialAt
<1> SUFFICES ASSUME NEW p \in Pairs \ torn
             PROVE  InStep(p)'
  BY Zenon, <1>2 DEF Paired
<1>6. CASE p # pair
  <2>1. keys'[p] = keys[p] /\ ~Writes(h, p)
    BY Zenon, <1>3, <1>6 DEF Typed, Writes
  <2>. QED  BY Zenon, <1>2, <1>5, <2>1, PairedElsewhere
<1>7. CASE p = pair
  <2>1. Writes(h, p)
    BY Zenon, <1>1, <1>7 DEF Writes, CredentialAt
  <2>2. creds[p] = secret
    BY Zenon, <1>1, <2>1 DEF Paired, InStep
  <2>3. Matched(p)'
    BY Zenon, <1>2, <1>3, <1>4, <1>7, <2>2 DEF Matched, Typed
  <2>4. \A g \in Handlers : ~(task'[g].at \in CredentialAt /\ task'[g].pair = p)
    BY <1>2, <1>5, <2>1 DEF Paired, InStep, Writes
  <2>. QED  BY Zenon, <2>3, <2>4 DEF InStep, Writes
<1>. QED  BY Zenon, <1>6, <1>7

LEMMA UnsetPaired ==
    ASSUME Typed, Paired, NEW h \in Handlers, Unset(h)
    PROVE  Paired'
<1> DEFINE pair == task[h].pair
<1>1. task[h] \in Unsetting /\ task[h].at = "unset"
  BY Zenon, TaskAt DEF Typed, Unset, At
<1>2. /\ UNCHANGED <<creds, torn>> /\ task'[h] = Idle
      /\ \A g \in Handlers : g # h => task'[g] = task[g]
  BY Zenon, Returned DEF Unset
<1>3. keys' = [keys EXCEPT ![pair] = None]
  BY Zenon DEF Unset, unset
<1>4. pair \in Pairs
  BY Zenon, <1>1 DEF Unsetting
<1>5. task'[h].at \notin CredentialAt
  BY <1>2 DEF Idle, CredentialAt
<1> SUFFICES ASSUME NEW p \in Pairs \ torn
             PROVE  InStep(p)'
  BY Zenon, <1>2 DEF Paired
<1>6. CASE p # pair
  <2>1. keys'[p] = keys[p] /\ ~Writes(h, p)
    BY Zenon, <1>3, <1>6 DEF Typed, Writes
  <2>. QED  BY Zenon, <1>2, <1>5, <2>1, PairedElsewhere
<1>7. CASE p = pair
  <2>1. Writes(h, p)
    BY Zenon, <1>1, <1>7 DEF Writes, CredentialAt
  <2>2. creds[p] = None
    BY Zenon, <1>1, <2>1 DEF Paired, InStep
  <2>3. Matched(p)'
    BY Zenon, <1>2, <1>3, <1>4, <1>7, <2>2 DEF Matched, Typed
  <2>4. \A g \in Handlers : ~(task'[g].at \in CredentialAt /\ task'[g].pair = p)
    BY <1>2, <1>5, <2>1 DEF Paired, InStep, Writes
  <2>. QED  BY Zenon, <2>3, <2>4 DEF InStep, Writes
<1>. QED  BY Zenon, <1>6, <1>7

LEMMA HangupPaired ==
    ASSUME Typed, Paired, NEW h \in Handlers, Hangup(h)
    PROVE  Paired'
<1>1. /\ UNCHANGED <<keys, creds>> /\ task'[h] = Idle
      /\ \A g \in Handlers : g # h => task'[g] = task[g]
  BY Zenon, Returned DEF Hangup, store
<1>2. torn' = IF task[h].op \in {"put", "del"} THEN torn \cup {task[h].pair} ELSE torn
  BY Zenon DEF Hangup
<1>3. task[h].at \in CredentialAt => task[h].op \in {"put", "del"}
  BY Zenon, TaskAt DEF Typed, CredentialAt, Putting, Unsetting
<1>4. task'[h].at \notin CredentialAt
  BY <1>1 DEF Idle, CredentialAt
<1> SUFFICES ASSUME NEW p \in Pairs \ torn'
             PROVE  InStep(p)'
  BY Zenon DEF Paired
<1>5. p \notin torn /\ ~Writes(h, p)
  BY Zenon, <1>2, <1>3 DEF Writes
<1>. QED  BY Zenon, <1>1, <1>4, <1>5, PairedElsewhere

LEMMA BootPaired == Typed /\ Boot => Paired'
<1> SUFFICES ASSUME Typed, Boot PROVE Paired'
  BY Zenon
<1>1. creds' \in [Pairs -> MaybeSecret]
  BY Zenon, BootTyped DEF Typed
<1>2. \A p \in Pairs : Matched(p)'
  BY Zenon, <1>1, StartKeysMatch DEF Boot, Matched
<1>3. \A h \in Handlers : task'[h].at \notin CredentialAt
  BY Zenon DEF Boot, Idle, CredentialAt
<1>. QED  BY Zenon, <1>2, <1>3 DEF Paired, InStep, Writes

LEMMA PairedStep == Typed /\ Paired /\ [Next]_vars => Paired'
BY Zenon, PutPaired, DelPaired, UpsertPaired, SetKeyPaired, UnsetPaired, HangupPaired, BootPaired,
   CredentialFrames, PairedFrame DEF CredentialStep

\* Between credential writes the key the proxy spends is the one the credential
\* row shows, across restarts too, unless writes to the pair overlapped or one
\* of them was lost.
THEOREM RowsShowKeys == Spec => []KeysMatchRows
<1>1. Spec => []Paired
  BY PairedInit, PairedStep, Typing, PTL DEF Spec
<1>2. Paired => KeysMatchRows
  BY Zenon DEF Paired, InStep, KeysMatchRows, Writing, Writes, CredentialAt, Matched
<1>. QED  BY <1>1, <1>2, PTL
-----------------------------------------------------------------------------
(* Admission: create_session checks that its tokens will find a key *)

\* The key of the pair is there, or was removed since the server started.
Had(p, ks, us) == ks[p] # None \/ p \in us

\* What a handler knows of the keys at each of its places.
Admits(t, ks, us, fb) ==
    /\ t.at = "check" =>
          t.dev \/ \A svc \in t.body.services \ t.todo : Had(<<t.who.tenant, svc>>, ks, us)
    /\ t.at \in {"issue", "insert"} =>
          /\ t.todo \subseteq t.session.services
          /\ t.sid \in fb \/ \A svc \in t.session.services : Had(<<t.session.tenant, svc>>, ks, us)
    /\ t.at = "key" => t.sid \in fb \/ Had(t.pair, ks, us)
    /\ t.at = "audit" => t.missing = None \/ t.sid \in fb \/ t.missing \in us

\* Handlers and stored tokens stand on keys that create_session saw.
Admitted ==
    /\ \A h \in Handlers : Admits(task[h], keys, unsets, fallback)
    /\ \A tok \in Tokens : tokens[tok] # None =>
          tok[1] \in fallback \/ Had(<<tokens[tok].tenant, tok[2]>>, keys, unsets)

LEMMA IdleAdmits == \A ks, us, fb : Admits(Idle, ks, us, fb)
BY Zenon DEF Admits, Idle

LEMMA AdmittedInit == Init => Admitted
BY IdleAdmits DEF Init, Admitted

\* Until a restart, a key disappears only by delete_credential, which is noted.
LEMMA HadGrows ==
    ASSUME Typed, [Next]_vars, ~Boot
    PROVE  /\ \A p \in Pairs : Had(p, keys, unsets) => Had(p, keys', unsets')
           /\ unsets \subseteq unsets' /\ fallback \subseteq fallback'
<1>1. fallback \subseteq fallback'
  <2>1. ASSUME NEW h \in Handlers, Check(h)
        PROVE  fallback \subseteq fallback'
    BY Zenon, <2>1, CheckSteps DEF CheckGoesOn, CheckEnds
  <2>2. ASSUME NEW h \in Handlers,
               Create(h) \/ Issue(h) \/ Insert(h) \/ Delete(h) \/ Remove(h) \/ Revoke(h)
        PROVE  UNCHANGED fallback
    BY Zenon, <2>2 DEF Create, Issue, Insert, Delete, Remove, Revoke, history
  <2>3. ASSUME NEW h \in Handlers, CredentialStep(h) \/ ProxyStep(h) \/ Hangup(h)
        PROVE  UNCHANGED fallback
    BY Zenon, <2>3 DEF CredentialStep, PutCredential, Upsert, SetKey, DeleteCredential, Unset,
                ProxyStep, Arrive, Lookup, GetKey, Forward, Audit, Hangup, history
  <2>4. CASE Signal \/ Exit \/ Lapse \/ Sweep \/ UNCHANGED vars
    BY Zenon, <2>4 DEF Signal, Exit, Lapse, Sweep, vars, history
  <2>. QED
    BY Zenon, <2>1, <2>2, <2>3, <2>4 DEF Next, Finish, Crash, Start, CredentialStep, ProxyStep
<1>2. ASSUME NEW h \in Handlers, PutCredential(h) \/ Upsert(h) \/ DeleteCredential(h) \/ Hangup(h)
      PROVE  UNCHANGED <<keys, unsets>>
  BY Zenon, <1>2 DEF PutCredential, Upsert, DeleteCredential, Hangup, store
<1>3. ASSUME NEW h \in Handlers, SetKey(h)
      PROVE  UNCHANGED unsets /\ \A p \in Pairs : keys[p] # None => keys'[p] # None
  <2>1. task[h] \in Putting
    BY Zenon, <1>3, TaskAt DEF Typed, SetKey, At
  <2>2. task[h].secret # None
    BY Zenon, <2>1, NoneAssumption DEF Putting
  <2>. QED  BY Zenon, <1>3, <2>2 DEF SetKey, set, Typed, history
<1>4. ASSUME NEW h \in Handlers, Unset(h)
      PROVE  /\ unsets' = unsets \cup {task[h].pair}
             /\ \A p \in Pairs : p # task[h].pair => keys'[p] = keys[p]
  BY Zenon, <1>4 DEF Unset, unset, Typed
<1>5. CASE CredentialFrame
  BY Zenon, <1>1, <1>5 DEF CredentialFrame
<1>. QED  BY Zenon, <1>1, <1>2, <1>3, <1>4, <1>5, CredentialFrames DEF CredentialStep, Had

\* What a handler knows stays true.
LEMMA AdmitsKept ==
    ASSUME Typed, [Next]_vars, ~Boot, NEW t \in Tasks, Admits(t, keys, unsets, fallback)
    PROVE  Admits(t, keys', unsets', fallback')
<1>1. CASE t.at = "check"
  <2>1. t \in Checking /\ t.body.services \subseteq Services
    BY Zenon, <1>1, TaskAt, InputAssumption DEF Checking
  <2>2. \A svc \in t.body.services : <<t.who.tenant, svc>> \in Pairs
    BY Zenon, <2>1 DEF Checking, Scopes, Pairs
  <2>. QED  BY Zenon, <1>1, <2>2, HadGrows DEF Admits
<1>2. CASE t.at \in {"issue", "insert"}
  <2>1. t \in Issuing
    BY Zenon, <1>2, TaskAt
  <2>2. \A svc \in t.session.services : <<t.session.tenant, svc>> \in Pairs
    BY Zenon, <2>1 DEF Issuing, SessionRecord, Pairs
  <2>. QED  BY Zenon, <1>2, <2>2, HadGrows DEF Admits
<1>3. CASE t.at = "key"
  <2>1. t.pair \in Pairs
    BY Zenon, <1>3, TaskAt DEF Keying
  <2>. QED  BY Zenon, <1>3, <2>1, HadGrows DEF Admits
<1>4. CASE t.at = "audit"
  BY Zenon, <1>4, HadGrows DEF Admits
<1>. QED  BY Zenon, <1>1, <1>2, <1>3, <1>4 DEF Admits

\* Handlers move to where they may be; no token is written.
LEMMA AdmittedFrame ==
    ASSUME Typed, [Next]_vars, ~Boot, Admitted,
           \A g \in Handlers : task'[g] = task[g] \/ Admits(task'[g], keys', unsets', fallback'),
           \A tok \in Tokens : tokens'[tok] = tokens[tok] \/ tokens'[tok] = None
    PROVE  Admitted'
<1>1. ASSUME NEW g \in Handlers
      PROVE  Admits(task'[g], keys', unsets', fallback')
  <2>1. task[g] \in Tasks
    BY Zenon DEF Typed
  <2>2. Admits(task[g], keys', unsets', fallback')
    BY Zenon, <2>1, AdmitsKept DEF Admitted
  <2>. QED  BY Zenon, <2>2
<1>2. ASSUME NEW tok \in Tokens, tokens'[tok] # None
      PROVE  tok[1] \in fallback' \/ Had(<<tokens'[tok].tenant, tok[2]>>, keys', unsets')
  <2>1. tokens'[tok] = tokens[tok] /\ tokens[tok] \in TokenRecord
    BY Zenon, <1>2 DEF Typed
  <2>2. <<tokens[tok].tenant, tok[2]>> \in Pairs
    BY Zenon, <2>1 DEF TokenRecord, Tokens, Pairs
  <2>. QED  BY Zenon, <1>2, <2>1, <2>2, HadGrows DEF Admitted
<1>. QED  BY Zenon, <1>1, <1>2 DEF Admitted

\* At the other places nothing is to be known.
LEMMA OthersAdmit ==
    ASSUME NEW t, t.at \notin {"check", "issue", "insert", "key", "audit"}
    PROVE  \A ks, us, fb : Admits(t, ks, us, fb)
BY Zenon DEF Admits

LEMMA CheckAdmits ==
    ASSUME Typed, Admitted, NEW h \in Handlers, Check(h)
    PROVE  Admits(task'[h], keys', unsets', fallback')
<1>1. task[h] \in Checking /\ task[h].at = "check" /\ UNCHANGED <<keys, unsets>>
  BY Zenon, CheckSteps DEF store
<1>2. task[h].dev \/ \A svc \in task[h].body.services \ task[h].todo :
                        Had(<<task[h].who.tenant, svc>>, keys, unsets)
  BY Zenon, <1>1 DEF Admitted, Admits
<1>3. CASE Return(h)
  BY Zenon, <1>3, Returned, IdleAdmits
<1>4. ASSUME NEW svc \in task[h].todo, NEW t, CheckGoesOn(h, svc, t)
      PROVE  Admits(task'[h], keys', unsets', fallback')
  <2>1. task'[h] = t /\ t.at = "check" /\ t.who = task[h].who /\ t.body = task[h].body
    BY Zenon, <1>4, Moved DEF CheckGoesOn, Checking
  <2>2. t.dev \/ \A s \in t.body.services \ t.todo : Had(<<t.who.tenant, s>>, keys, unsets)
    BY Zenon, <1>2, <1>4 DEF CheckGoesOn, has_key, Had
  <2>. QED  BY Zenon, <1>1, <2>1, <2>2 DEF Admits
<1>5. ASSUME NEW svc \in task[h].todo, NEW t, CheckEnds(h, svc, t)
      PROVE  Admits(task'[h], keys', unsets', fallback')
  <2>1. task'[h] = t /\ t.at = "issue" /\ t.todo = t.session.services
    BY SMTT(30), <1>5, Moved DEF CheckEnds
  <2>2. t.sid \in fallback' \/ \A s \in t.session.services : Had(<<t.session.tenant, s>>, keys, unsets)
    BY <1>2, <1>5 DEF CheckEnds, has_key, Had
  <2>. QED  BY Zenon, <1>1, <2>1, <2>2 DEF Admits
<1>. QED  BY Zenon, <1>3, <1>4, <1>5, CheckSteps

LEMMA IssueAdmitted ==
    ASSUME Typed, Admitted, NEW h \in Handlers, Issue(h)
    PROVE  Admitted'
<1>1. /\ UNCHANGED <<keys, unsets, fallback>>
      /\ task[h] \in Issuing /\ task[h].at = "issue"
  BY Zenon, IssueSteps DEF history
<1>2. PICK svc \in task[h].todo, rec \in TokenRecord :
         IssueStep(h, svc, rec) /\ rec.tenant = task[h].session.tenant
  BY Zenon, IssueSteps
<1>3. /\ task'[h] \in Issuing /\ task'[h].sid = task[h].sid
      /\ task'[h].session = task[h].session /\ task'[h].todo = task[h].todo \ {svc}
  BY Zenon, <1>1, <1>2, IssueMoves
<1>4. /\ task[h].todo \subseteq task[h].session.services
      /\ \/ task[h].sid \in fallback
         \/ \A s \in task[h].session.services : Had(<<task[h].session.tenant, s>>, keys, unsets)
  BY Zenon, <1>1 DEF Admitted, Admits
<1>5. Admits(task'[h], keys, unsets, fallback)
  BY Zenon, <1>3, <1>4 DEF Admits, Issuing
<1>6. \A g \in Handlers : g # h => task'[g] = task[g]
  BY Zenon, SessionMoves DEF SessionStep
<1>7. \A tok \in Tokens : tokens'[tok] # None =>
         \/ tokens'[tok] = tokens[tok]
         \/ tok = <<task[h].sid, svc>> /\ tokens'[tok] = rec
  BY Zenon, <1>2 DEF IssueStep, Typed
<1>8. task[h].sid \in fallback \/ Had(<<rec.tenant, svc>>, keys, unsets)
  BY Zenon, <1>2, <1>4
<1>9. \A tok \in Tokens : tokens'[tok] # None =>
         tok[1] \in fallback \/ Had(<<tokens'[tok].tenant, tok[2]>>, keys, unsets)
  BY <1>7, <1>8 DEF Admitted
<1>. QED  BY Zenon, <1>1, <1>5, <1>6, <1>9 DEF Admitted

LEMMA ProxyAdmits ==
    ASSUME Typed, Admitted, NEW h \in Handlers, ProxyStep(h)
    PROVE  Admits(task'[h], keys', unsets', fallback')
<1>1. UNCHANGED <<keys, unsets, fallback>>
  BY Zenon DEF ProxyStep, Arrive, Lookup, GetKey, Forward, Audit, store, history
<1>2. \A sid, ks, us, fb : Admits(Answer(sid, None), ks, us, fb)
  BY DEF Admits, Answer
<1>3. CASE Arrive(h)
  <2>1. task'[h] = Answer(None, None) \/ task'[h] \in Looking
    BY <1>3, ArriveSteps, Moved
  <2>. QED  BY Zenon, <1>2, <2>1, OthersAdmit DEF Looking
<1>4. CASE Lookup(h)
  <2>1. \/ \E sid : task'[h] = Answer(sid, None)
        \/ LET tok == task[h].req.tok
           IN  /\ tok \in Tokens /\ tokens[tok] # None /\ task'[h] \in Keying
               /\ task'[h].sid = tok[1] /\ task'[h].pair = <<tokens[tok].tenant, tok[2]>>
    BY <1>4, LookupSteps, Moved
  <2>2. CASE \E sid : task'[h] = Answer(sid, None)
    BY Zenon, <1>2, <2>2
  <2>3. ASSUME NEW tok \in Tokens, tokens[tok] # None, task'[h] \in Keying,
               task'[h].sid = tok[1], task'[h].pair = <<tokens[tok].tenant, tok[2]>>
        PROVE  Admits(task'[h], keys', unsets', fallback')
    <3>1. task'[h].sid \in fallback \/ Had(task'[h].pair, keys, unsets)
      BY Zenon, <2>3 DEF Admitted
    <3>. QED  BY Zenon, <1>1, <2>3, <3>1 DEF Admits, Keying
  <2>. QED  BY ZenonT(30), <2>1, <2>2, <2>3
<1>5. CASE GetKey(h)
  <2>1. \/ task'[h] = Answer(task[h].sid, task[h].pair) /\ keys[task[h].pair] = None
        \/ task'[h] \in Forwarding
    BY <1>5, GetKeySteps, Moved
  <2>2. task[h].sid \in fallback \/ Had(task[h].pair, keys, unsets)
    BY Zenon, <1>5 DEF GetKey, At, Admitted, Admits
  <2>3. CASE task'[h] \in Forwarding
    BY Zenon, <2>3, OthersAdmit DEF Forwarding
  <2>4. CASE task'[h] = Answer(task[h].sid, task[h].pair) /\ keys[task[h].pair] = None
    BY <1>1, <2>2, <2>4 DEF Admits, Answer, Had
  <2>. QED  BY Zenon, <2>1, <2>3, <2>4
<1>6. CASE Forward(h)
  BY Zenon, <1>2, <1>6, Moved DEF Forward
<1>7. CASE Audit(h)
  BY Zenon, <1>7, Returned, IdleAdmits DEF Audit
<1>. QED  BY Zenon, <1>3, <1>4, <1>5, <1>6, <1>7 DEF ProxyStep

LEMMA AdmittedStep == Typed /\ Stored /\ Admitted /\ [Next]_vars => Admitted'
<1> SUFFICES ASSUME Typed, Stored, Admitted, [Next]_vars PROVE Admitted'
  BY Zenon
<1>1. CASE Boot
  <2>1. \A tok \in Tokens : tokens'[tok] = None
    BY Zenon, <1>1 DEF Boot, Stored, Pg
  <2>. QED  BY Zenon, <1>1, <2>1, IdleAdmits DEF Boot, Admitted
<1> SUFFICES ASSUME ~Boot PROVE Admitted'
  BY Zenon, <1>1
<1>2. ASSUME NEW h \in Handlers, Check(h)
      PROVE  Admitted'
  BY Zenon, <1>2, CheckAdmits, CheckSteps, SessionMoves, AdmittedFrame DEF store, SessionStep
<1>3. ASSUME NEW h \in Handlers, Create(h) \/ Insert(h) \/ Delete(h) \/ Remove(h) \/ Revoke(h)
      PROVE  Admitted'
  <2>1. \A tok \in Tokens : tokens'[tok] = tokens[tok] \/ tokens'[tok] = None
    BY Zenon, <1>3 DEF Create, Insert, Delete, Remove, remove, Revoke, revoke_session, store
  <2>2. Admits(task'[h], keys', unsets', fallback')
    <3>1. CASE Create(h)
      <4>1. task'[h].at = "check" /\ task'[h].todo = task'[h].body.services
        BY <3>1 DEF Create, Begin, Typed
      <4>. QED  BY Zenon, <4>1 DEF Admits
    <3>2. CASE Insert(h) \/ Revoke(h)
      BY Zenon, <3>2, Returned, IdleAdmits DEF Insert, Revoke
    <3>3. CASE Delete(h) \/ Remove(h)
      <4>1. Remove(h) => task[h] \in Deleting
        BY Zenon, TaskAt DEF Remove, At, Typed
      <4>2. task'[h].at \in {"start", "remove", "revoke"}
        BY <3>3, <4>1 DEF Delete, Begin, Remove, Return, Step, Idle, Deleting, Typed
      <4>. QED  BY Zenon, <4>2, OthersAdmit
    <3>. QED  BY Zenon, <1>3, <3>1, <3>2, <3>3
  <2>. QED  BY Zenon, <1>3, <2>1, <2>2, SessionMoves, AdmittedFrame DEF SessionStep
<1>4. ASSUME NEW h \in Handlers, CredentialStep(h)
      PROVE  Admitted'
  <2>1. UNCHANGED tokens
    BY Zenon, <1>4 DEF CredentialStep, PutCredential, Upsert, SetKey, DeleteCredential, Unset, store
  <2>2. Admits(task'[h], keys', unsets', fallback')
    BY Zenon, <1>4, CredentialMoves, OthersAdmit DEF CredentialAt
  <2>. QED  BY Zenon, <1>4, <2>1, <2>2, CredentialMoves, AdmittedFrame
<1>5. ASSUME NEW h \in Handlers, ProxyStep(h)
      PROVE  Admitted'
  <2>1. UNCHANGED tokens
    BY Zenon, <1>5 DEF ProxyStep, Arrive, Lookup, GetKey, Forward, Audit, store
  <2>. QED  BY Zenon, <1>5, <2>1, ProxyAdmits, ProxyMoves, AdmittedFrame
<1>6. ASSUME NEW h \in Handlers, Hangup(h)
      PROVE  Admitted'
  BY Zenon, <1>6, Returned, IdleAdmits, AdmittedFrame DEF Hangup, store
<1>7. CASE Signal \/ Exit \/ Lapse \/ Sweep \/ UNCHANGED vars
  <2>1. UNCHANGED task /\ \A tok \in Tokens : tokens'[tok] = tokens[tok] \/ tokens'[tok] = None
    BY Zenon, <1>7 DEF Signal, Exit, Lapse, Sweep, sweep_expired, vars, store
  <2>. QED  BY Zenon, <2>1, AdmittedFrame
<1>. QED
  BY Zenon, <1>2, <1>3, <1>4, <1>5, <1>6, <1>7, IssueAdmitted
  DEF Next, Finish, Crash, Start, CredentialStep, ProxyStep

\* The proxy misses the key of a token that create_session admitted only if the
\* key was removed since, or if an admin was admitted on the "dev" key.
THEOREM AdmissionHolds == Spec => []CheckedKeyUsable
<1>1. Spec => []Admitted
  BY AdmittedInit, AdmittedStep, Typing, StoredAlways, PTL DEF Spec
<1>2. Admitted => CheckedKeyUsable
  BY Zenon DEF Admitted, Admits, CheckedKeyUsable
<1>. QED  BY <1>1, <1>2, PTL
-----------------------------------------------------------------------------
(* The audit log and the rest of the type invariant *)

\* The handlers of the proxy that have not written their audit row yet.
Open == {g \in Handlers : task[g].op = "proxy"}

\* The rows retained are the newest ones, under consecutive ids.
Consecutive(rows, next) == \A i \in 1..Len(rows) : rows[i].id = next - Len(rows) + i - 1

AuditRow == [id : Nat, sid : Sids \cup {None}]

Logged ==
    /\ audit.rows \in Seq(AuditRow) /\ audit.next_id \in Nat
    /\ audit.next_id + Cardinality(Open) <= MaxRequests
    /\ backend = "memory" => Len(audit.rows) <= AuditCapacity
    /\ Len(audit.rows) = audit.next_id \/ (backend = "memory" /\ Len(audit.rows) = AuditCapacity)
    /\ Consecutive(audit.rows, audit.next_id)

LEMMA OpenFinite == IsFiniteSet(Open) /\ Cardinality(Open) \in Nat
BY BoundAssumption, FS_Subset, FS_CardinalityType DEF Open

\* A handler of the proxy is at one of its places.
LEMMA OpenAt ==
    ASSUME NEW tasks \in [Handlers -> Tasks]
    PROVE  {g \in Handlers : tasks[g].op = "proxy"} = {g \in Handlers : tasks[g].at \in ProxyAt}
<1>1. ASSUME NEW t \in Tasks
      PROVE  t.op = "proxy" <=> t.at \in ProxyAt
  BY DEF Tasks, Idle, Checking, Issuing, Deleting, Putting, Unsetting, Looking, Keying,
         Forwarding, Auditing, ProxyAt
<1>. QED  BY Zenon, <1>1

LEMMA EmptyLog ==
    ASSUME NEW a, a = [rows |-> << >>, next_id |-> 0]
    PROVE  /\ a.rows \in Seq(AuditRow) /\ a.next_id = 0 /\ Len(a.rows) = 0
           /\ Consecutive(a.rows, a.next_id)
BY DEF Consecutive

LEMMA LoggedInit == Init => Logged
<1> SUFFICES ASSUME Init PROVE Logged
  BY Zenon
<1>1. Open = {}
  BY Zenon DEF Init, Idle, Open
<1>2. Cardinality(Open) = 0
  BY Zenon, <1>1, FS_EmptySet
<1>. QED  BY <1>2, EmptyLog, BoundAssumption DEF Init, Logged

\* The log is left alone and no request comes in.
LEMMA LoggedFrame ==
    ASSUME Logged, UNCHANGED <<audit, backend>>, Open' \subseteq Open
    PROVE  Logged'
<1>1. Cardinality(Open') <= Cardinality(Open) /\ Cardinality(Open') \in Nat /\ Cardinality(Open) \in Nat
  BY Zenon, OpenFinite, FS_Subset, FS_CardinalityType
<1>. QED  BY <1>1, BoundAssumption DEF Logged

\* `push` appends the next row, in memory over the oldest one when the ring is full.
LEMMA Pushed ==
    ASSUME Logged, NEW row \in AuditRow, row.id = audit.next_id,
           IF Pg THEN pg_push(row) ELSE push(row)
    PROVE  /\ audit'.rows \in Seq(AuditRow) /\ audit'.next_id \in audit.next_id..(audit.next_id + 1)
           /\ backend = "memory" => Len(audit'.rows) <= AuditCapacity
           /\ \/ Len(audit'.rows) = audit'.next_id
              \/ backend = "memory" /\ Len(audit'.rows) = AuditCapacity
           /\ Consecutive(audit'.rows, audit'.next_id)
<1> DEFINE rows == audit.rows
           next == audit.next_id
<1>1. rows \in Seq(AuditRow) /\ next \in Nat /\ AuditCapacity \in Nat \ {0}
  BY Zenon, BoundAssumption DEF Logged
<1>2. CASE UNCHANGED audit
  BY <1>1, <1>2 DEF Logged
<1>3. CASE /\ audit' = [rows |-> Append(rows, row), next_id |-> next + 1]
           /\ Len(rows) = next /\ (backend = "memory" => Len(rows) < AuditCapacity)
  <2>1. audit'.rows = Append(rows, row) /\ audit'.next_id = next + 1
    BY Zenon, <1>3
  <2>2. Append(rows, row) \in Seq(AuditRow) /\ Len(Append(rows, row)) = Len(rows) + 1
    BY <1>1
  <2>3. ASSUME NEW i \in 1..(Len(rows) + 1)
        PROVE  Append(rows, row)[i].id = (next + 1) - (Len(rows) + 1) + i - 1
    <3>1. CASE i = Len(rows) + 1
      <4>1. Append(rows, row)[i] = row
        BY <1>1, <3>1
      <4>2. (next + 1) - (Len(rows) + 1) + i - 1 = next
        BY <1>1, <1>3, <3>1
      <4>. QED  BY Zenon, <4>1, <4>2
    <3>2. CASE i \in 1..Len(rows)
      <4>1. Append(rows, row)[i] = rows[i]
        BY <1>1, <3>2
      <4>2. rows[i].id = next - Len(rows) + i - 1
        BY Zenon, <3>2 DEF Logged, Consecutive
      <4>. QED  BY <1>1, <3>2, <4>1, <4>2
    <3>. QED  BY <1>1, <3>1, <3>2
  <2>4. Consecutive(Append(rows, row), next + 1)
    BY Zenon, <2>2, <2>3 DEF Consecutive
  <2>. QED  BY <1>1, <1>3, <2>1, <2>2, <2>4
<1>4. CASE /\ audit' = [rows |-> Append(Tail(rows), row), next_id |-> next + 1]
           /\ backend = "memory" /\ Len(rows) = AuditCapacity
  <2>1. audit'.rows = Append(Tail(rows), row) /\ audit'.next_id = next + 1
    BY Zenon, <1>4
  <2>2. Tail(rows) \in Seq(AuditRow) /\ Len(Tail(rows)) = Len(rows) - 1
    BY <1>1, <1>4
  <2>3. Append(Tail(rows), row) \in Seq(AuditRow) /\ Len(Append(Tail(rows), row)) = Len(rows)
    BY <1>1, <2>2
  <2>4. ASSUME NEW i \in 1..Len(rows)
        PROVE  Append(Tail(rows), row)[i].id = (next + 1) - Len(rows) + i - 1
    <3>1. CASE i = Len(rows)
      BY <1>1, <2>2, <3>1
    <3>2. CASE i < Len(rows)
      <4>1. Append(Tail(rows), row)[i] = rows[i + 1]
        BY <1>1, <2>2, <3>2
      <4>2. rows[i + 1].id = next - Len(rows) + (i + 1) - 1
        BY <1>1, <3>2 DEF Logged, Consecutive
      <4>. QED  BY SMTT(30), <1>1, <4>1, <4>2
    <3>. QED  BY <1>1, <3>1, <3>2
  <2>5. Consecutive(Append(Tail(rows), row), next + 1)
    BY Zenon, <2>3, <2>4 DEF Consecutive
  <2>. QED  BY <1>1, <1>4, <2>1, <2>3, <2>5
<1>5. Len(rows) \in Nat
  BY <1>1
<1>6. CASE Pg
  BY Zenon, <1>2, <1>3, <1>6 DEF pg_push, Logged, Pg
<1>7. CASE ~Pg
  <2>1. CASE Len(rows) >= AuditCapacity
    BY SMTT(30), <1>1, <1>4, <1>5, <1>7, <2>1 DEF push, Logged, Pg
  <2>2. CASE ~(Len(rows) >= AuditCapacity)
    BY <1>1, <1>3, <1>5, <1>7, <2>2 DEF push, Logged, Pg
  <2>. QED  BY Zenon, <2>1, <2>2
<1>. QED  BY Zenon, <1>6, <1>7

\* A request comes in, moves on, or ends with its row.
LEMMA ProxyLogged ==
    ASSUME Typed, Typed', Logged, NEW h \in Handlers, ProxyStep(h)
    PROVE  Logged'
<1>1. /\ Open = {g \in Handlers : task[g].at \in ProxyAt}
      /\ Open' = {g \in Handlers : task'[g].at \in ProxyAt}
  BY Zenon, OpenAt DEF Open, Typed
<1>2. \A g \in Handlers : g # h => task'[g] = task[g]
  BY Zenon, ProxyMoves
<1>3. /\ audit.next_id \in Nat /\ Cardinality(Open) \in Nat /\ IsFiniteSet(Open) /\ MaxRequests \in Nat
      /\ UNCHANGED backend
  BY Zenon, OpenFinite, BoundAssumption
  DEF Logged, ProxyStep, Arrive, Lookup, GetKey, Forward, Audit, process
<1>4. CASE Arrive(h)
  <2>1. audit.next_id + Cardinality(Open) < MaxRequests /\ UNCHANGED audit
    BY <1>4 DEF Arrive, Open, store
  <2>2. Open' \subseteq Open \cup {h}
    BY Zenon, <1>1, <1>2
  <2>3. Cardinality(Open \cup {h}) <= Cardinality(Open) + 1 /\ IsFiniteSet(Open \cup {h})
    BY SMTT(30), <1>3, FS_AddElement
  <2>4. Cardinality(Open') <= Cardinality(Open \cup {h}) /\ IsFiniteSet(Open')
    BY Zenon, <2>2, <2>3, FS_Subset
  <2>5. Cardinality(Open') \in Nat /\ Cardinality(Open \cup {h}) \in Nat
    BY Zenon, <2>3, <2>4, FS_CardinalityType
  <2>6. audit.next_id + Cardinality(Open') <= MaxRequests
    BY <1>3, <2>1, <2>3, <2>4, <2>5
  <2>. QED  BY Zenon, <1>3, <2>1, <2>6 DEF Logged
<1>5. CASE Lookup(h) \/ GetKey(h) \/ Forward(h)
  <2>1. task[h].at \in ProxyAt
    BY Zenon, <1>5 DEF Lookup, GetKey, Forward, At, ProxyAt
  <2>2. Open' \subseteq Open
    BY Zenon, <1>1, <1>2, <2>1
  <2>3. UNCHANGED audit
    BY Zenon, <1>5 DEF Lookup, GetKey, Forward, store
  <2>. QED  BY Zenon, <1>3, <2>2, <2>3, LoggedFrame
<1>6. CASE Audit(h)
  <2>1. task[h] \in Auditing /\ task[h].at = "audit"
    BY Zenon, <1>6, TaskAt DEF Typed, Audit, At
  <2> DEFINE row == [id |-> audit.next_id, sid |-> task[h].sid]
  <2>2. row \in AuditRow /\ row.id = audit.next_id /\ (IF Pg THEN pg_push(row) ELSE push(row))
    BY Zenon, <1>3, <1>6, <2>1 DEF Audit, Auditing, AuditRow
  <2>3. /\ audit'.rows \in Seq(AuditRow) /\ audit'.next_id \in audit.next_id..(audit.next_id + 1)
        /\ backend = "memory" => Len(audit'.rows) <= AuditCapacity
        /\ \/ Len(audit'.rows) = audit'.next_id
           \/ backend = "memory" /\ Len(audit'.rows) = AuditCapacity
        /\ Consecutive(audit'.rows, audit'.next_id)
    <3> HIDE DEF row
    <3>. QED  BY Zenon, <2>2, Pushed
  <2>4. task'[h] = Idle
    BY Zenon, <1>6, Returned DEF Audit
  <2>5. Open' = Open \ {h} /\ h \in Open
    BY SMTT(30), <1>1, <1>2, <2>1, <2>4 DEF Idle, ProxyAt
  <2>6. Cardinality(Open') = Cardinality(Open) - 1
    BY Zenon, <1>3, <2>5, FS_RemoveElement
  <2>7. audit.next_id + Cardinality(Open) <= MaxRequests
    BY Zenon DEF Logged
  <2>8. audit'.next_id \in Nat /\ audit'.next_id + Cardinality(Open') <= MaxRequests
    BY <1>3, <2>3, <2>6, <2>7
  <2>. QED  BY Zenon, <1>3, <2>3, <2>8 DEF Logged
<1>. QED  BY Zenon, <1>4, <1>5, <1>6 DEF ProxyStep

LEMMA LoggedStep == Typed /\ Typed' /\ Logged /\ [Next]_vars => Logged'
<1> SUFFICES ASSUME Typed, Typed', Logged, [Next]_vars PROVE Logged'
  BY Zenon
<1>1. CASE Boot
  <2>1. Open' = {}
    BY Zenon, <1>1 DEF Boot, Open, Idle
  <2>2. Cardinality(Open') = 0 /\ Open' \subseteq Open
    BY Zenon, <2>1, FS_EmptySet
  <2>3. CASE Pg
    BY Zenon, <1>1, <2>2, <2>3, LoggedFrame DEF Boot
  <2>4. CASE ~Pg
    BY SMTT(30), <1>1, <2>2, <2>4, EmptyLog, BoundAssumption DEF Boot, Logged
  <2>. QED  BY Zenon, <2>3, <2>4
<1>2. ASSUME \A h \in Handlers : ~ProxyStep(h), ~Boot
      PROVE  Logged'
  <2>1. UNCHANGED <<audit, backend>>
    <3>1. ASSUME NEW h \in Handlers, Create(h) \/ SessionStep(h)
          PROVE  UNCHANGED <<audit, backend>>
      BY Zenon, <3>1 DEF Create, SessionStep, Check, Issue, Insert, Delete, Remove, Revoke, store, process
    <3>2. ASSUME NEW h \in Handlers, CredentialStep(h) \/ Hangup(h)
          PROVE  UNCHANGED <<audit, backend>>
      BY Zenon, <3>2 DEF CredentialStep, PutCredential, Upsert, SetKey, DeleteCredential, Unset, Hangup,
                  store, process
    <3>3. CASE Signal \/ Exit \/ Lapse \/ Sweep \/ UNCHANGED vars
      BY Zenon, <3>3 DEF Signal, Exit, Lapse, Sweep, vars, store, process
    <3>. QED
      BY Zenon, <1>2, <3>1, <3>2, <3>3
      DEF Next, Finish, Crash, Start, SessionStep, CredentialStep, ProxyStep
  <2>2. ProxyFrame
    BY Zenon, <1>2, ProxyFrames
  <2>3. Open' \subseteq Open
    <3>1. /\ Open = {g \in Handlers : task[g].at \in ProxyAt}
          /\ Open' = {g \in Handlers : task'[g].at \in ProxyAt}
      BY Zenon, OpenAt DEF Open, Typed
    <3>. QED  BY Zenon, <2>2, <3>1 DEF ProxyFrame
  <2>. QED  BY Zenon, <2>1, <2>3, LoggedFrame
<1>. QED  BY Zenon, <1>1, <1>2, ProxyLogged

\* Sessions are made for at least one service, ids lapse after they were drawn.
Kept ==
    /\ backend \in Backends /\ phase \in {"up", "draining", "down"} /\ boots \in 0..MaxBoots
    /\ lapsed \subseteq minted
    /\ \A s \in Sids : sessions[s] # None => sessions[s].services # {}
    /\ \A h \in Handlers : /\ task[h].at = "check" => task[h].body.services # {}
                           /\ task[h].at \in {"issue", "insert"} => task[h].session.services # {}

LEMMA KeptInit == Init => Kept
BY BoundAssumption DEF Init, Idle, Kept

LEMMA KeptStep == Typed /\ Once /\ Kept /\ [Next]_vars => Kept'
<1> SUFFICES ASSUME Typed, Once, Kept, [Next]_vars PROVE Kept'
  BY Zenon
<1>1. CASE Boot
  BY <1>1, BoundAssumption DEF Boot, Kept, Idle
<1>2. CASE Signal \/ Exit \/ UNCHANGED vars
  BY Zenon, <1>2 DEF Signal, Exit, vars, process, store, history, Kept
<1>3. CASE Lapse
  BY Zenon, <1>3 DEF Lapse, store, history, Once, Kept
<1>4. CASE Sweep
  BY Zenon, <1>4 DEF Sweep, sweep_expired, process, history, Kept
<1>5. ASSUME NEW h \in Handlers, Create(h)
      PROVE  Kept'
  <2>1. task'[h].at = "check" /\ task'[h].body.services # {}
    BY <1>5 DEF Create, Begin, Typed
  <2>. QED  BY ZenonT(30), <1>5, <2>1, SessionMoves DEF Create, process, store, history, Kept
<1>6. ASSUME NEW h \in Handlers, Check(h)
      PROVE  Kept'
  <2>1. /\ UNCHANGED <<process, sessions>> /\ task[h].at = "check" /\ minted \subseteq minted'
        /\ \A g \in Handlers : g # h => task'[g] = task[g]
    BY Zenon, <1>6, CheckSteps, SessionMoves DEF store, SessionStep, CheckGoesOn, CheckEnds
  <2>2. /\ task'[h].at = "check" => task'[h].body.services # {}
        /\ task'[h].at \in {"issue", "insert"} => task'[h].session.services # {}
    <3>1. task[h].body.services # {}
      BY Zenon, <2>1 DEF Kept
    <3>2. CASE Return(h)
      BY <3>2, Returned DEF Idle
    <3>3. ASSUME NEW svc, NEW t, CheckGoesOn(h, svc, t)
          PROVE  task'[h].at = "check" /\ task'[h].body = task[h].body
      BY ZenonT(30), <3>3, Moved DEF CheckGoesOn, Checking
    <3>4. ASSUME NEW svc, NEW t, CheckEnds(h, svc, t)
          PROVE  task'[h].at = "issue" /\ task'[h].session.services = task[h].body.services
      BY <3>4, Moved DEF CheckEnds
    <3>. QED  BY Zenon, <1>6, <3>1, <3>2, <3>3, <3>4, CheckSteps
  <2>. QED  BY Zenon, <2>1, <2>2 DEF Kept, process
<1>7. ASSUME NEW h \in Handlers, Issue(h)
      PROVE  Kept'
  <2>1. /\ UNCHANGED <<process, sessions, minted>> /\ task[h] \in Issuing
        /\ \A g \in Handlers : g # h => task'[g] = task[g]
    BY Zenon, <1>7, IssueSteps, SessionMoves DEF history, SessionStep
  <2>2. task'[h] \in Issuing /\ task'[h].session = task[h].session
    BY Zenon, <1>7, <2>1, IssueSteps, IssueMoves
  <2>3. task[h].session.services # {}
    BY Zenon, <2>1 DEF Issuing, Kept
  <2>. QED  BY Zenon, <2>1, <2>2, <2>3 DEF Kept, process, Issuing
<1>8. ASSUME NEW h \in Handlers, Insert(h)
      PROVE  Kept'
  <2>1. /\ UNCHANGED <<process, minted>> /\ task[h].at = "insert" /\ task'[h] = Idle
        /\ \A g \in Handlers : g # h => task'[g] = task[g]
    BY Zenon, <1>8, Returned DEF Insert, At, history
  <2>2. sessions' = sessions \/ sessions' = [sessions EXCEPT ![task[h].sid] = task[h].session]
    BY Zenon, <1>8 DEF Insert, insert, pg_insert
  <2>3. \A s \in Sids : sessions'[s] # None => sessions'[s].services # {}
    BY Zenon, <2>1, <2>2 DEF Kept, Typed
  <2>. QED  BY <2>1, <2>3 DEF Kept, process, Idle
<1>9. ASSUME NEW h \in Handlers,
             Delete(h) \/ Remove(h) \/ Revoke(h) \/ CredentialStep(h) \/ ProxyStep(h) \/ Hangup(h)
      PROVE  Kept'
  <2>1. UNCHANGED <<process, minted>>
    BY Zenon, <1>9 DEF Delete, Remove, Revoke, CredentialStep, PutCredential, Upsert, SetKey,
                DeleteCredential, Unset, ProxyStep, Arrive, Lookup, GetKey, Forward, Audit,
                Hangup, history
  <2>2. \A s \in Sids : sessions'[s] = sessions[s] \/ sessions'[s] = None
    BY Zenon, <1>9 DEF Delete, Remove, remove, Revoke, CredentialStep, PutCredential, Upsert, SetKey,
                DeleteCredential, Unset, ProxyStep, Arrive, Lookup, GetKey, Forward, Audit,
                Hangup, store, Typed
  <2>3. /\ task'[h].at \notin {"check", "issue", "insert"}
        /\ \A g \in Handlers : g # h => task'[g] = task[g]
    <3>1. CASE CredentialStep(h) \/ ProxyStep(h)
      BY ZenonT(30), <3>1, CredentialMoves, ProxyMoves DEF CredentialAt, ProxyAt
    <3>2. CASE Revoke(h) \/ Hangup(h)
      BY <3>2, Returned DEF Revoke, Hangup, Idle
    <3>3. CASE Delete(h) \/ Remove(h)
      <4>1. Remove(h) => task[h] \in Deleting
        BY Zenon, TaskAt DEF Remove, At, Typed
      <4>2. task'[h].at \in {"start", "remove", "revoke"}
        BY <3>3, <4>1 DEF Delete, Begin, Remove, Return, Step, Idle, Deleting, Typed
      <4>. QED  BY Zenon, <3>3, <4>2, SessionMoves DEF SessionStep
    <3>. QED  BY Zenon, <1>9, <3>1, <3>2, <3>3
  <2>. QED  BY Zenon, <2>1, <2>2, <2>3 DEF Kept, process
<1>. QED
  BY Zenon, <1>1, <1>2, <1>3, <1>4, <1>5, <1>6, <1>7, <1>8, <1>9
  DEF Next, Finish, Crash, Start, CredentialStep, ProxyStep

\* The type invariant, with what the audit log retains: the newest rows up to
\* the ring's capacity, or all of them, under consecutive ids.
THEOREM TypesHold == Spec => []TypeOK
<1>1. Spec => []Logged
  BY LoggedInit, LoggedStep, Typing, PTL DEF Spec
<1>2. Spec => []Kept
  BY KeptInit, KeptStep, Typing, SessionOnce, PTL DEF Spec
<1>3. Typed /\ Logged /\ Kept => TypeOK
  <2> SUFFICES ASSUME Typed, Logged, Kept PROVE TypeOK
    BY Zenon
  <2>1. audit.next_id \in 0..MaxRequests
    BY OpenFinite, BoundAssumption DEF Logged
  <2>2. DOMAIN sessions = Sids /\ DOMAIN tokens = Tokens /\ DOMAIN task = Handlers
    BY Zenon DEF Typed
  <2>3. \A s \in Sids : sessions[s] # None => sessions[s].services \in (SUBSET Services) \ {{}}
    BY Zenon DEF Typed, Kept, SessionRecord
  <2>. QED  BY Zenon, <2>1, <2>2, <2>3 DEF Typed, Logged, Kept, TypeOK, Consecutive
<1>. QED  BY <1>1, <1>2, <1>3, Typing, PTL
=============================================================================
