------------------------------ MODULE ZfwGate ------------------------------
(***************************************************************************)
(* The way of a request through the daemon: the session check              *)
(* (internal/auth), the rate limiter (internal/handlers/middleware.go) and *)
(* the handler, here GET /api/geo/lookup (internal/geo).  The three share  *)
(* nothing but the request; each has a cache or a pool that other requests *)
(* change meanwhile: the key set, the buckets, the country index.          *)
(*                                                                         *)
(* Abstractions.  Time passes in ticks; what a duration is compared with   *)
(* is kept as an age that stops at its bound.  Buckets are refilled by the *)
(* tick instead of by the next request.  A token is the key it is signed   *)
(* with and the kid it names; one whose format, algorithm, issuer, exp or  *)
(* nbf is not in order is refused whatever the keys are and left out, as   *)
(* are the paths exempt from the check.  The zone files are one version.   *)
(***************************************************************************)
EXTENDS Integers, Sequences, FiniteSets

CONSTANTS
  Request,      \* requests under way at the same time
  Client,       \* clientKey
  Token,        \* [key, kid]: kid is NoKid where none is named
  NoKid,        \* a token, or a key, without kid
  JWKS,         \* JWKS[v]: what the user-service publishes, a set of [key, kid]
  None,         \* nobody
  TTL, MaxStale,  \* jwksTTL, jwksMaxStale, in ticks
  Timeout,      \* the deadline of a JWKS fetch, in ticks
  Capacity, Rate, AggCapacity, AggRate,  \* newKeyedLimiter
  MaxTracked,   \* maxTrackedClients
  MaxZone       \* bound: how often the zone files change

Versions == DOMAIN JWKS
Key == {e.key : e \in UNION {JWKS[v] : v \in Versions}}
\* A client has at most one bucket in the map; requests may still hold others.
Bucket == Client \X (1 .. Cardinality(Request))

ASSUME TimeAssumption ==
  Timeout \in Nat /\ TTL \in Nat \ {0} /\ MaxStale \in Nat /\ TTL < MaxStale
ASSUME JWKSAssumption ==
  /\ JWKS # << >> /\ Versions = 1 .. Len(JWKS)
  /\ \A v \in Versions : JWKS[v] # {}
ASSUME LimitAssumption ==
  /\ {Capacity, Rate, AggCapacity, AggRate, MaxTracked} \subseteq Nat \ {0}
  /\ AggCapacity <= MaxTracked * Capacity
ASSUME NamesAssumption ==
  /\ IsFiniteSet(Request)
  /\ None \notin Request \cup Bucket

VARIABLES
  jwks,       \* [ver, up]: the user-service
  calm,       \* how long it has answered, and with the same keys
  gone,       \* key -> how long it has not been published
  keys, age,  \* Verifier.keys; time since Verifier.fetched
  clients,    \* the keys of keyedLimiter.clients, the one seen longest ago first
  bucket,     \* client -> its bucket, or None
  tokens,     \* bucket -> its tokens
  aggregate,  \* the tokens of the aggregate bucket
  came,       \* the clients there have been
  zone,       \* the version of the zone files
  index,      \* [fp, ver]: indexFP, and what the entries were built from
  indexMu,    \* the holder of indexMu for writing, or None
  proc        \* request -> [pc, token, snap, snapAge, wait, own, since, built]

auth == <<jwks, calm, gone, keys, age>>
limiter == <<clients, bucket, tokens, aggregate, came>>
geo == <<zone, index, indexMu>>
vars == <<auth, limiter, geo, proc>>

Idle == [pc |-> "idle", token |-> None, snap |-> {}, snapAge |-> 0, wait |-> 0,
         own |-> None, since |-> 0, built |-> 0]

TypeOK ==
  /\ jwks \in [ver : Versions, up : BOOLEAN]
  /\ keys \subseteq UNION {JWKS[v] : v \in Versions}
  /\ age \in 0 .. MaxStale
  /\ calm \in 0 .. TTL + Timeout
  /\ gone \in [Key -> 0 .. MaxStale + Timeout]
  /\ clients \in Seq(Client) /\ Len(clients) <= MaxTracked
  /\ \A c \in Client : bucket[c] \in {<<c, i>> : i \in 1 .. Cardinality(Request)} \cup {None}
  /\ {clients[i] : i \in DOMAIN clients} = {c \in Client : bucket[c] # None}
  /\ tokens \in [Bucket -> 0 .. Capacity]
  /\ aggregate \in 0 .. AggCapacity
  /\ indexMu \in Request \cup {None}
  /\ \A r \in Request : proc[r].wait <= Timeout

-----------------------------------------------------------------------------
At(r, place) == proc[r].pc = place
Goto(r, place) == proc' = [proc EXCEPT ![r].pc = place]
Begin(r, place) == proc' = [proc EXCEPT ![r] = [Idle EXCEPT !.pc = place]]
Finish(r) == proc' = [proc EXCEPT ![r] = Idle]

Arrive(r, t) ==
  /\ At(r, "idle")
  /\ proc' = [proc EXCEPT ![r] = [Idle EXCEPT !.pc = "session", !.token = t]]
  /\ UNCHANGED <<auth, limiter, geo>>

-----------------------------------------------------------------------------
(* auth.Verify *)

\* A key with another kid than the one the token names may not verify it.
Eligible(t, e) == t.kid = NoKid \/ e.kid = NoKid \/ t.kid = e.kid
Accepts(ks, t) == \E e \in ks : Eligible(t, e) /\ e.key = t.key

\* The request goes on to the limiter, or is answered 401.
Check(r, ks) == IF Accepts(ks, proc[r].token) THEN Begin(r, "bucket") ELSE Finish(r)

\* currentKeys: a set younger than jwksTTL serves, an older one is fetched anew.
Session(r) ==
  /\ At(r, "session")
  /\ IF keys # {} /\ age < TTL THEN Check(r, keys)
     ELSE proc' = [proc EXCEPT ![r].pc = "fetch", ![r].snap = keys, ![r].snapAge = age]
  /\ UNCHANGED <<auth, limiter, geo>>

\* refreshKeys: the user-service answers ...
Fetch(r) ==
  /\ At(r, "fetch") /\ jwks.up
  /\ proc' = [proc EXCEPT ![r].pc = "store", ![r].snap = JWKS[jwks.ver]]
  /\ UNCHANGED <<auth, limiter, geo>>

\* A mutant of Store: the set that is there stays.
StoreFirst(r) ==
  /\ At(r, "store")
  /\ keys' = IF keys = {} THEN proc[r].snap ELSE keys
  /\ age' = 0
  /\ Goto(r, "reread")
  /\ UNCHANGED <<jwks, calm, gone, limiter, geo>>

\* ... and its answer replaces the cached set, whoever else has answered since.
Store(r) ==
  /\ At(r, "store")
  /\ keys' = proc[r].snap /\ age' = 0
  /\ Goto(r, "reread")
  /\ UNCHANGED <<jwks, calm, gone, limiter, geo>>

Reread(r) ==
  /\ At(r, "reread")
  /\ Check(r, keys)
  /\ UNCHANGED <<auth, limiter, geo>>

\* A mutant of FetchFails: the set it had serves, however old it is.
FetchFailsOpen(r) ==
  /\ At(r, "fetch") /\ ~jwks.up
  /\ IF proc[r].snap # {} THEN Check(r, proc[r].snap) ELSE Finish(r)
  /\ UNCHANGED <<auth, limiter, geo>>

\* The fetch fails: the set it had serves while it is younger than jwksMaxStale.
FetchFails(r) ==
  /\ At(r, "fetch") /\ ~jwks.up
  /\ IF proc[r].snap # {} /\ proc[r].snapAge < MaxStale THEN Check(r, proc[r].snap)
     ELSE Finish(r)
  /\ UNCHANGED <<auth, limiter, geo>>

-----------------------------------------------------------------------------
(* keyedLimiter.allow *)

Held(r, b) == \E q \in Request \ {r} : proc[q].own = b

\* The clients in their order, without d.
Without(d) ==
  IF \E i \in DOMAIN clients : clients[i] = d
  THEN LET i == CHOOSE i \in DOMAIN clients : clients[i] = d IN
       [j \in 1 .. Len(clients) - 1 |-> IF j < i THEN clients[j] ELSE clients[j + 1]]
  ELSE clients

\* Under k.mu: the client's bucket, or a new one, in place of the one of the
\* client seen longest ago if need be; the client is the one seen last.  (A
\* bucket that nobody knows is full, as a new one is.)
Track(r, c) ==
  LET full == bucket[c] = None /\ Len(clients) >= MaxTracked
      own == IF bucket[c] # None THEN bucket[c]
             ELSE CHOOSE b \in Bucket : b[1] = c /\ ~Held(r, b) IN
  /\ At(r, "bucket")
  /\ clients' = Append(Without(IF full THEN Head(clients) ELSE c), c)
  /\ bucket' = [d \in Client |->
       IF d = c THEN own ELSE IF full /\ d = Head(clients) THEN None ELSE bucket[d]]
  /\ tokens' = [b \in Bucket |->
       IF (b = bucket'[b[1]] /\ b = bucket[b[1]]) \/ Held(r, b) THEN tokens[b] ELSE Capacity]
  /\ came' = came \cup {c}
  /\ proc' = [proc EXCEPT ![r].pc = "allow", ![r].own = own]
  /\ UNCHANGED <<auth, aggregate, geo>>

\* The aggregate's turn: the request goes on to the handler, or gets 429.
Aggregate(r) ==
  IF aggregate < 1 THEN Finish(r) /\ UNCHANGED aggregate
  ELSE aggregate' = aggregate - 1 /\ Begin(r, "ask")

\* A mutant of Allow: the aggregate pays before the client's bucket is asked.
AllowAggregateFirst(r) ==
  LET own == proc[r].own IN
  /\ At(r, "allow")
  /\ IF aggregate < 1 \/ tokens[own] >= 1 THEN Aggregate(r)
     ELSE aggregate' = aggregate - 1 /\ Finish(r)
  /\ tokens' = [tokens EXCEPT ![own] = IF aggregate >= 1 /\ @ >= 1 THEN @ - 1 ELSE @]
  /\ UNCHANGED <<auth, clients, bucket, came, geo>>

\* After the unlock: a token of the client's bucket, then one of the
\* aggregate.  (Between the two locks another request only takes tokens.)
Allow(r) ==
  LET own == proc[r].own IN
  /\ At(r, "allow")
  /\ IF tokens[own] < 1 THEN Finish(r) /\ UNCHANGED <<tokens, aggregate>>
     ELSE tokens' = [tokens EXCEPT ![own] = @ - 1] /\ Aggregate(r)
  /\ UNCHANGED <<auth, clients, bucket, came, geo>>

-----------------------------------------------------------------------------
(* geo.LookupBatch *)

\* zoneFingerprint
Ask(r) ==
  /\ At(r, "ask")
  /\ proc' = [proc EXCEPT ![r].pc = "compare", ![r].since = zone]
  /\ UNCHANGED <<auth, limiter, geo>>

\* ensureIndex, under the read lock
Compare(r) ==
  /\ At(r, "compare") /\ indexMu = None
  /\ Goto(r, IF proc[r].since = index.fp THEN "answer" ELSE "build")
  /\ UNCHANGED <<auth, limiter, geo>>

\* Again under the write lock; then buildIndex reads the zone files.
Build(r) ==
  /\ At(r, "build") /\ indexMu = None
  /\ IF proc[r].since = index.fp THEN Goto(r, "answer") /\ UNCHANGED indexMu
     ELSE /\ proc' = [proc EXCEPT ![r].pc = "publish", ![r].built = zone]
          /\ indexMu' = r
  /\ UNCHANGED <<auth, limiter, zone, index>>

\* A mutant of Publish: the fingerprint is taken after the build.
PublishLate(r) ==
  /\ At(r, "publish")
  /\ index' = [fp |-> zone, ver |-> proc[r].built]
  /\ indexMu' = None
  /\ Goto(r, "answer")
  /\ UNCHANGED <<auth, limiter, zone>>

\* The entries get the fingerprint that was taken before they were read.
Publish(r) ==
  /\ At(r, "publish")
  /\ index' = [fp |-> proc[r].since, ver |-> proc[r].built]
  /\ indexMu' = None
  /\ Goto(r, "answer")
  /\ UNCHANGED <<auth, limiter, zone>>

Answer(r) ==
  /\ At(r, "answer") /\ indexMu = None
  /\ Finish(r)
  /\ UNCHANGED <<auth, limiter, geo>>

-----------------------------------------------------------------------------
(* Time and the environment *)

Older(n, bound) == IF n < bound THEN n + 1 ELSE n
Refilled(n, rate, capacity) == IF n + rate > capacity THEN capacity ELSE n + rate
Withdrawn(k) ==
  /\ \A e \in JWKS[jwks.ver] : e.key # k
  /\ \E v \in 1 .. jwks.ver : \E e \in JWKS[v] : e.key = k
Fetching(r) == proc[r].pc \in {"fetch", "store"}

\* A mutant of Refill: what a quiet client saves up is not capped.
RefillUncapped ==
  /\ tokens' = [b \in Bucket |-> tokens[b] + Rate]
  /\ aggregate' = Refilled(aggregate, AggRate, AggCapacity)

\* rateBucket.allow's refill, for the time that has passed
Refill ==
  /\ tokens' = [b \in Bucket |-> Refilled(tokens[b], Rate, Capacity)]
  /\ aggregate' = Refilled(aggregate, AggRate, AggCapacity)

\* Only a fetch lasts as long as a tick, and none outlasts its deadline.
Tick ==
  /\ \A r \in Request : At(r, "idle") \/ (Fetching(r) /\ proc[r].wait < Timeout)
  /\ Refill
  /\ age' = Older(age, MaxStale)
  /\ calm' = IF jwks.up THEN Older(calm, TTL + Timeout) ELSE 0
  /\ gone' = [k \in Key |-> IF Withdrawn(k) THEN Older(gone[k], MaxStale + Timeout) ELSE 0]
  /\ proc' = [r \in Request |->
       IF Fetching(r)
       THEN [proc[r] EXCEPT !.wait = @ + 1, !.snapAge = Older(@, MaxStale)]
       ELSE proc[r]]
  /\ UNCHANGED <<jwks, keys, clients, bucket, came, geo>>

\* The user-service rotates its keys, stops answering, or answers again.
UserService ==
  /\ \/ jwks.ver + 1 \in Versions /\ jwks' = [jwks EXCEPT !.ver = @ + 1]
     \/ jwks' = [jwks EXCEPT !.up = ~@]
  /\ calm' = 0
  /\ gone' = [k \in Key |-> IF \E e \in JWKS[jwks'.ver] : e.key = k THEN 0 ELSE gone[k]]
  /\ UNCHANGED <<keys, age, limiter, geo, proc>>

\* A zone file is renamed into place.
ZoneChanges ==
  /\ zone < MaxZone
  /\ zone' = zone + 1
  /\ UNCHANGED <<auth, limiter, index, indexMu, proc>>

-----------------------------------------------------------------------------
\* Warm may have failed.
Init ==
  /\ jwks = [ver |-> 1, up |-> TRUE]
  /\ calm = 0
  /\ gone = [k \in Key |-> 0]
  /\ keys \in {{}, JWKS[1]}
  /\ age = 0
  /\ clients = << >>
  /\ bucket = [c \in Client |-> None]
  /\ tokens = [b \in Bucket |-> Capacity]
  /\ aggregate = AggCapacity
  /\ came = {}
  /\ zone = 1
  /\ index = [fp |-> 0, ver |-> 0]
  /\ indexMu = None
  /\ proc = [r \in Request |-> Idle]

Step(r) ==
  \/ Session(r) \/ Fetch(r) \/ Store(r) \/ Reread(r) \/ FetchFails(r)
  \/ (\E c \in Client : Track(r, c)) \/ Allow(r)
  \/ Ask(r) \/ Compare(r) \/ Build(r) \/ Publish(r) \/ Answer(r)

Next ==
  \/ \E r \in Request, t \in Token : Arrive(r, t)
  \/ \E r \in Request : Step(r)
  \/ Tick \/ UserService \/ ZoneChanges

Spec == Init /\ [][Next]_vars

-----------------------------------------------------------------------------
(* Properties *)

\* This step lets a request through whose key the user-service has withdrawn.
OutdatedPass(r) ==
  /\ proc[r].pc \in {"session", "fetch", "reread"} /\ proc'[r].pc = "bucket"
  /\ Withdrawn(proc[r].token.key)

\* A session signed with a withdrawn key ends at the latest jwksMaxStale and
\* one fetch after that, whatever fails ...
WithdrawnKeyEnds ==
  [][\A r \in Request : OutdatedPass(r) => gone[proc[r].token.key] < MaxStale + Timeout]_vars

\* ... and within jwksTTL and one fetch when the user-service answers, in
\* whichever order concurrent refreshes store what they got.
RotationIsFollowed == [][\A r \in Request : OutdatedPass(r) => calm < TTL + Timeout]_vars

\* A noisy client is throttled on its own bucket and costs the others
\* nothing: as long as no more clients have come than the aggregate has
\* capacities for, so that none was evicted, whoever has a token of its own is
\* admitted.
NoisyPaysAlone ==
  Cardinality(came) * Capacity <= AggCapacity /\ Cardinality(came) * Rate <= AggRate
    => \A r \in Request : At(r, "allow") /\ tokens[proc[r].own] >= 1 => aggregate >= 1

\* An answer of LookupBatch is no older than the zone files were when it was
\* asked for, however lookups, rebuilds and downloads interleave.
LookupIsCurrent ==
  \A r \in Request : At(r, "answer") /\ indexMu = None => index.ver >= proc[r].since
=============================================================================
