---------------------------- MODULE ZfwGateProofs ----------------------------
(***************************************************************************)
(* Theorems about ZfwGate, for every number of requests and clients, every *)
(* succession of key sets and every rate, capacity and time limit.         *)
(***************************************************************************)
EXTENDS ZfwGate, FiniteSetTheorems, TLAPS

USE TimeAssumption, JWKSAssumption, LimitAssumption, NamesAssumption

-----------------------------------------------------------------------------
(* Types *)

Places == {"idle", "session", "fetch", "store", "reread", "bucket", "allow", "ask",
           "compare", "build", "publish", "answer"}
Turn == [pc : Places, token : Token \cup {None}, snap : SUBSET UNION {JWKS[v] : v \in Versions},
         snapAge : 0 .. MaxStale, wait : 0 .. Timeout, own : Bucket \cup {None}, since : Nat, built : Nat]

\* The types of the variables but the order of the clients and their buckets.
DataOK ==
  /\ proc \in [Request -> Turn]
  /\ \A r \in Request : At(r, "allow") => proc[r].own # None
  /\ jwks \in [ver : Versions, up : BOOLEAN]
  /\ keys \in SUBSET UNION {JWKS[v] : v \in Versions}
  /\ age \in 0 .. MaxStale
  /\ calm \in 0 .. TTL + Timeout
  /\ gone \in [Key -> 0 .. MaxStale + Timeout]
  /\ tokens \in [Bucket -> 0 .. Capacity]
  /\ aggregate \in 0 .. AggCapacity
  /\ zone \in Nat /\ index \in [fp : Nat, ver : Nat]
  /\ indexMu \in Request \cup {None}

\* The clients in order are those with a bucket, each once and with its own.
OrderInv ==
  /\ clients \in Seq(Client) /\ Len(clients) <= MaxTracked
  /\ \A i, j \in DOMAIN clients : clients[i] = clients[j] => i = j
  /\ bucket \in [Client -> Bucket \cup {None}]
  /\ \A c \in Client : bucket[c] # None => bucket[c][1] = c
  /\ \A c \in Client : bucket[c] # None <=> \E i \in DOMAIN clients : clients[i] = c

-----------------------------------------------------------------------------
(* The keys *)

Published(k) == \E e \in JWKS[jwks.ver] : e.key = k

\* How long a key has been withdrawn is at most how long ago it was got.
GoneInv ==
  /\ \A k \in Key : Published(k) => gone[k] = 0
  /\ \A e \in keys : gone[e.key] <= age + Timeout
  /\ \A r \in Request :
       /\ At(r, "fetch") => \A e \in proc[r].snap : gone[e.key] <= proc[r].snapAge + Timeout
       /\ At(r, "store") => \A e \in proc[r].snap : gone[e.key] <= proc[r].wait
       /\ At(r, "reread") => age = 0

\* How long the user-service has answered with other keys than these.
CalmInv ==
  /\ ~jwks.up => calm = 0
  /\ keys = {} \/ keys = JWKS[jwks.ver] \/ calm <= age + Timeout
  /\ \A r \in Request :
       At(r, "store") => proc[r].snap = JWKS[jwks.ver] \/ calm <= proc[r].wait

-----------------------------------------------------------------------------
(* The index *)

\* What is built under the lock is newer than what it replaces.
IndexInv ==
  /\ index.fp <= index.ver /\ index.ver <= zone
  /\ \A r \in Request :
       /\ proc[r].pc \in {"compare", "build", "publish", "answer"} => proc[r].since <= zone
       /\ At(r, "publish") => /\ indexMu = r
                              /\ proc[r].since <= proc[r].built /\ proc[r].built <= zone
                              /\ index.ver <= proc[r].built
       /\ At(r, "answer") => proc[r].since <= index.ver

-----------------------------------------------------------------------------
(* The limiter *)

\* As long as no more clients have come than the aggregate has capacities for.
Few == Cardinality(came) * Capacity <= AggCapacity /\ Cardinality(came) * Rate <= AggRate

\* The tokens that are missing from the buckets of the clients.
Spent == {s \in came \X (1 .. Capacity) : s[2] <= Capacity - tokens[bucket[s[1]]]}

\* Nobody is evicted then, and the aggregate misses no token that the bucket
\* of some client does not miss as well.
LimitInv ==
  /\ came \in SUBSET Client /\ IsFiniteSet(came)
  /\ \A c \in Client : bucket[c] # None => c \in came
  /\ Few =>
       /\ \A c \in came : bucket[c] # None
       /\ \A r \in Request : At(r, "allow") =>
            proc[r].own # None /\ proc[r].own[1] \in came /\ proc[r].own = bucket[proc[r].own[1]]
       /\ AggCapacity - aggregate <= Cardinality(Spent)

-----------------------------------------------------------------------------
(* What a step makes of the state of its request *)

Others(r) == \A q \in Request \ {r} : proc'[q] = proc[q]

\* The request goes to another place ...
LEMMA GoesTo ==
  ASSUME DataOK, NEW r \in Request, NEW place \in Places,
         proc' = [proc EXCEPT ![r].pc = place]
  PROVE  /\ proc' \in [Request -> Turn] /\ Others(r)
         /\ proc'[r].pc = place
         /\ proc'[r].token = proc[r].token /\ proc'[r].snap = proc[r].snap /\ proc'[r].snapAge = proc[r].snapAge /\ proc'[r].wait = proc[r].wait
         /\ proc'[r].own = proc[r].own /\ proc'[r].since = proc[r].since /\ proc'[r].built = proc[r].built
<1> DEFINE new(t) == [t EXCEPT !.pc = place]
<1>1. proc \in [Request -> Turn] /\ proc' = [proc EXCEPT ![r] = new(proc[r])]
  BY DEF DataOK
<1>2. ASSUME NEW t \in Turn
      PROVE  /\ new(t) \in Turn
             /\ new(t).pc = place
             /\ new(t).token = t.token /\ new(t).snap = t.snap /\ new(t).snapAge = t.snapAge /\ new(t).wait = t.wait
             /\ new(t).own = t.own /\ new(t).since = t.since /\ new(t).built = t.built
  BY DEF Turn
<1> HIDE DEF new
<1>3. proc[r] \in Turn /\ proc'[r] = new(proc[r]) /\ Others(r)
  BY <1>1 DEF Others
<1>4. proc' \in [Request -> Turn]
  BY <1>1, <1>2, <1>3
<1> QED
  BY <1>2, <1>3, <1>4

\* ... with the keys there are, to fetch others ...
LEMMA GoesWithKeys ==
  ASSUME DataOK, NEW r \in Request,
         proc' = [proc EXCEPT ![r].pc = "fetch", ![r].snap = keys, ![r].snapAge = age]
  PROVE  /\ proc' \in [Request -> Turn] /\ Others(r)
         /\ proc'[r].pc = "fetch"
         /\ proc'[r].snap = keys
         /\ proc'[r].snapAge = age
         /\ proc'[r].token = proc[r].token /\ proc'[r].wait = proc[r].wait /\ proc'[r].own = proc[r].own /\ proc'[r].since = proc[r].since
         /\ proc'[r].built = proc[r].built
<1> DEFINE new(t) == [t EXCEPT !.pc = "fetch", !.snap = keys, !.snapAge = age]
<1>0. "fetch" \in Places /\ keys \in SUBSET UNION {JWKS[v] : v \in Versions} /\ age \in 0 .. MaxStale
  BY DEF Places, DataOK
<1>1. proc \in [Request -> Turn] /\ proc' = [proc EXCEPT ![r] = new(proc[r])]
  BY DEF DataOK
<1>2. ASSUME NEW t \in Turn
      PROVE  /\ new(t) \in Turn
             /\ new(t).pc = "fetch"
             /\ new(t).snap = keys
             /\ new(t).snapAge = age
             /\ new(t).token = t.token /\ new(t).wait = t.wait /\ new(t).own = t.own /\ new(t).since = t.since
             /\ new(t).built = t.built
  BY <1>0 DEF Turn
<1> HIDE DEF new
<1>3. proc[r] \in Turn /\ proc'[r] = new(proc[r]) /\ Others(r)
  BY <1>1 DEF Others
<1>4. proc' \in [Request -> Turn]
  BY <1>1, <1>2, <1>3
<1> QED
  BY <1>2, <1>3, <1>4

\* ... with the keys it has got ...
LEMMA GoesWithAnswer ==
  ASSUME DataOK, NEW r \in Request,
         proc' = [proc EXCEPT ![r].pc = "store", ![r].snap = JWKS[jwks.ver]]
  PROVE  /\ proc' \in [Request -> Turn] /\ Others(r)
         /\ proc'[r].pc = "store"
         /\ proc'[r].snap = JWKS[jwks.ver]
         /\ proc'[r].token = proc[r].token /\ proc'[r].snapAge = proc[r].snapAge /\ proc'[r].wait = proc[r].wait /\ proc'[r].own = proc[r].own
         /\ proc'[r].since = proc[r].since /\ proc'[r].built = proc[r].built
<1> DEFINE new(t) == [t EXCEPT !.pc = "store", !.snap = JWKS[jwks.ver]]
<1>0. "store" \in Places /\ JWKS[jwks.ver] \in SUBSET UNION {JWKS[v] : v \in Versions}
  BY ZenonT(60) DEF Places, DataOK
<1>1. proc \in [Request -> Turn] /\ proc' = [proc EXCEPT ![r] = new(proc[r])]
  BY DEF DataOK
<1>2. ASSUME NEW t \in Turn
      PROVE  /\ new(t) \in Turn
             /\ new(t).pc = "store"
             /\ new(t).snap = JWKS[jwks.ver]
             /\ new(t).token = t.token /\ new(t).snapAge = t.snapAge /\ new(t).wait = t.wait /\ new(t).own = t.own
             /\ new(t).since = t.since /\ new(t).built = t.built
  BY <1>0 DEF Turn
<1> HIDE DEF new
<1>3. proc[r] \in Turn /\ proc'[r] = new(proc[r]) /\ Others(r)
  BY <1>1 DEF Others
<1>4. proc' \in [Request -> Turn]
  BY <1>1, <1>2, <1>3
<1> QED
  BY <1>2, <1>3, <1>4

\* ... with a bucket ...
LEMMA GoesWithBucket ==
  ASSUME DataOK, NEW r \in Request, NEW own \in Bucket,
         proc' = [proc EXCEPT ![r].pc = "allow", ![r].own = own]
  PROVE  /\ proc' \in [Request -> Turn] /\ Others(r)
         /\ proc'[r].pc = "allow"
         /\ proc'[r].own = own
         /\ proc'[r].token = proc[r].token /\ proc'[r].snap = proc[r].snap /\ proc'[r].snapAge = proc[r].snapAge /\ proc'[r].wait = proc[r].wait
         /\ proc'[r].since = proc[r].since /\ proc'[r].built = proc[r].built
<1> DEFINE new(t) == [t EXCEPT !.pc = "allow", !.own = own]
<1>0. "allow" \in Places
  BY DEF Places
<1>1. proc \in [Request -> Turn] /\ proc' = [proc EXCEPT ![r] = new(proc[r])]
  BY DEF DataOK
<1>2. ASSUME NEW t \in Turn
      PROVE  /\ new(t) \in Turn
             /\ new(t).pc = "allow"
             /\ new(t).own = own
             /\ new(t).token = t.token /\ new(t).snap = t.snap /\ new(t).snapAge = t.snapAge /\ new(t).wait = t.wait
             /\ new(t).since = t.since /\ new(t).built = t.built
  BY <1>0 DEF Turn
<1> HIDE DEF new
<1>3. proc[r] \in Turn /\ proc'[r] = new(proc[r]) /\ Others(r)
  BY <1>1 DEF Others
<1>4. proc' \in [Request -> Turn]
  BY <1>1, <1>2, <1>3
<1> QED
  BY <1>2, <1>3, <1>4

\* ... with a fingerprint of the zone files ...
LEMMA GoesWithPrint ==
  ASSUME DataOK, NEW r \in Request,
         proc' = [proc EXCEPT ![r].pc = "compare", ![r].since = zone]
  PROVE  /\ proc' \in [Request -> Turn] /\ Others(r)
         /\ proc'[r].pc = "compare"
         /\ proc'[r].since = zone
         /\ proc'[r].token = proc[r].token /\ proc'[r].snap = proc[r].snap /\ proc'[r].snapAge = proc[r].snapAge /\ proc'[r].wait = proc[r].wait
         /\ proc'[r].own = proc[r].own /\ proc'[r].built = proc[r].built
<1> DEFINE new(t) == [t EXCEPT !.pc = "compare", !.since = zone]
<1>0. "compare" \in Places /\ zone \in Nat
  BY DEF Places, DataOK
<1>1. proc \in [Request -> Turn] /\ proc' = [proc EXCEPT ![r] = new(proc[r])]
  BY DEF DataOK
<1>2. ASSUME NEW t \in Turn
      PROVE  /\ new(t) \in Turn
             /\ new(t).pc = "compare"
             /\ new(t).since = zone
             /\ new(t).token = t.token /\ new(t).snap = t.snap /\ new(t).snapAge = t.snapAge /\ new(t).wait = t.wait
             /\ new(t).own = t.own /\ new(t).built = t.built
  BY <1>0 DEF Turn
<1> HIDE DEF new
<1>3. proc[r] \in Turn /\ proc'[r] = new(proc[r]) /\ Others(r)
  BY <1>1 DEF Others
<1>4. proc' \in [Request -> Turn]
  BY <1>1, <1>2, <1>3
<1> QED
  BY <1>2, <1>3, <1>4

\* ... or with what it has read from them.
LEMMA GoesWithIndex ==
  ASSUME DataOK, NEW r \in Request,
         proc' = [proc EXCEPT ![r].pc = "publish", ![r].built = zone]
  PROVE  /\ proc' \in [Request -> Turn] /\ Others(r)
         /\ proc'[r].pc = "publish"
         /\ proc'[r].built = zone
         /\ proc'[r].token = proc[r].token /\ proc'[r].snap = proc[r].snap /\ proc'[r].snapAge = proc[r].snapAge /\ proc'[r].wait = proc[r].wait
         /\ proc'[r].own = proc[r].own /\ proc'[r].since = proc[r].since
<1> DEFINE new(t) == [t EXCEPT !.pc = "publish", !.built = zone]
<1>0. "publish" \in Places /\ zone \in Nat
  BY DEF Places, DataOK
<1>1. proc \in [Request -> Turn] /\ proc' = [proc EXCEPT ![r] = new(proc[r])]
  BY DEF DataOK
<1>2. ASSUME NEW t \in Turn
      PROVE  /\ new(t) \in Turn
             /\ new(t).pc = "publish"
             /\ new(t).built = zone
             /\ new(t).token = t.token /\ new(t).snap = t.snap /\ new(t).snapAge = t.snapAge /\ new(t).wait = t.wait
             /\ new(t).own = t.own /\ new(t).since = t.since
  BY <1>0 DEF Turn
<1> HIDE DEF new
<1>3. proc[r] \in Turn /\ proc'[r] = new(proc[r]) /\ Others(r)
  BY <1>1 DEF Others
<1>4. proc' \in [Request -> Turn]
  BY <1>1, <1>2, <1>3
<1> QED
  BY <1>2, <1>3, <1>4

\* A request that goes on to the next gate, or is answered ...
LEMMA StartsAnew ==
  ASSUME DataOK, NEW r \in Request, NEW place \in Places,
         (Finish(r) /\ place = "idle") \/ Begin(r, place)
  PROVE  /\ proc' \in [Request -> Turn] /\ Others(r)
         /\ proc'[r].pc = place
<1>1. PICK u \in {Idle, [Idle EXCEPT !.pc = place]} : proc' = [proc EXCEPT ![r] = u] /\ u.pc = place
  <2>1. [Idle EXCEPT !.pc = place].pc = place /\ (place = "idle" => Idle.pc = place)
    BY DEF Idle
  <2> QED
    BY <2>1 DEF Finish, Begin
<1>2. Idle \in Turn
  <2>1. 0 \in 0 .. MaxStale /\ 0 \in 0 .. Timeout /\ 0 \in Nat /\ "idle" \in Places
    BY DEF Places
  <2> QED
    BY <2>1 DEF Turn, Idle
<1>3. ASSUME NEW i \in Turn PROVE [i EXCEPT !.pc = place] \in Turn
  BY DEF Turn
<1>4. u \in Turn
  BY <1>2, <1>3
<1> QED
  BY <1>1, <1>4 DEF DataOK, Others

\* ... and one that arrives.
LEMMA ArriveEffect ==
  ASSUME DataOK, NEW r \in Request, NEW t \in Token, Arrive(r, t)
  PROVE  /\ proc' \in [Request -> Turn] /\ Others(r)
         /\ proc'[r].pc = "session"
<1> DEFINE new == [Idle EXCEPT !.pc = "session", !.token = t]
<1>1. proc' = [proc EXCEPT ![r] = new]
  BY DEF Arrive
<1>2. new \in Turn /\ new.pc = "session"
  <2>1. 0 \in 0 .. MaxStale /\ 0 \in 0 .. Timeout /\ 0 \in Nat /\ "session" \in Places
    BY DEF Places
  <2> QED
    BY <2>1 DEF Turn, Idle
<1> HIDE DEF new
<1> QED
  BY <1>1, <1>2 DEF DataOK, Others

-----------------------------------------------------------------------------
(* Helpers *)

\* Ages and buckets stop at their bounds.
LEMMA Bounded ==
  /\ \A bound \in Nat : \A n \in 0 .. bound :
       Older(n, bound) \in 0 .. bound /\ n <= Older(n, bound) /\ Older(n, bound) <= n + 1
  /\ \A rate, cap \in Nat : \A n \in 0 .. cap :
       Refilled(n, rate, cap) \in 0 .. cap /\ n <= Refilled(n, rate, cap)
BY DEF Older, Refilled

\* The keys that the user-service publishes.
LEMMA Answers ==
  /\ 1 \in Versions
  /\ \A v \in Versions : JWKS[v] \in SUBSET UNION {JWKS[w] : w \in Versions}
  /\ \A e \in UNION {JWKS[w] : w \in Versions} : e.key \in Key
BY DEF Key

\* The numbers of the buckets of a client, one for each request.
LEMMA Numbers ==
  ASSUME NEW r \in Request
  PROVE  /\ Cardinality(Request) \in Nat /\ Cardinality(Request) >= 1
         /\ IsFiniteSet(1 .. Cardinality(Request))
         /\ Cardinality(1 .. Cardinality(Request)) = Cardinality(Request)
<1>1. Cardinality(Request) \in Nat /\ Cardinality(Request) # 0
  BY FS_CardinalityType, FS_EmptySet
<1>2. 1 \in Int /\ Cardinality(Request) \in Int
  BY <1>1
<1>3. /\ IsFiniteSet(1 .. Cardinality(Request))
      /\ Cardinality(1 .. Cardinality(Request))
           = IF 1 > Cardinality(Request) THEN 0 ELSE Cardinality(Request) - 1 + 1
  BY <1>2, FS_Interval
<1> QED
  BY <1>1, <1>3

\* There is a bucket for a client that no other request holds.
LEMMA FreeBucket ==
  ASSUME NEW r \in Request, NEW c \in Client
  PROVE  \E b \in Bucket : b[1] = c /\ ~Held(r, b)
<1> SUFFICES ASSUME \A b \in Bucket : b[1] = c => Held(r, b) PROVE FALSE
  OBVIOUS
<1> DEFINE N == Cardinality(Request)
           number == [q \in Request \ {r} |-> IF proc[q].own \in Bucket THEN proc[q].own[2] ELSE 1]
<1>1. \A i \in 1 .. N : \E q \in Request \ {r} : number[q] = i
  <2> SUFFICES ASSUME NEW i \in 1 .. N PROVE \E q \in Request \ {r} : number[q] = i
    OBVIOUS
  <2>1. <<c, i>> \in Bucket /\ <<c, i>>[1] = c /\ <<c, i>>[2] = i
    BY DEF Bucket
  <2> QED
    BY <2>1 DEF Held
<1>2. number \in [Request \ {r} -> 1 .. N]
  BY Numbers DEF Bucket
<1> HIDE DEF number
<1>3. number \in Surjection(Request \ {r}, 1 .. N)
  BY <1>1, <1>2 DEF Surjection
<1>4. IsFiniteSet(Request \ {r}) /\ Cardinality(Request \ {r}) = N - 1
  BY FS_RemoveElement
<1>5. Cardinality(1 .. N) <= N - 1
  BY <1>3, <1>4, FS_Surjection
<1> QED
  BY <1>5, Numbers

-----------------------------------------------------------------------------
(* The types *)

\* A request that is tracked gets a bucket of its client.
LEMMA TrackGives ==
  ASSUME DataOK, OrderInv, NEW r \in Request, NEW c \in Client, Track(r, c)
  PROVE  \E own \in Bucket :
           /\ own[1] = c /\ (bucket[c] # None => own = bucket[c])
           /\ (bucket[c] = None => ~Held(r, own))
           /\ bucket' = [d \in Client |->
                IF d = c THEN own
                ELSE IF bucket[c] = None /\ Len(clients) >= MaxTracked /\ d = Head(clients)
                     THEN None ELSE bucket[d]]
           /\ proc' = [proc EXCEPT ![r].pc = "allow", ![r].own = own]
<1> DEFINE own == IF bucket[c] # None THEN bucket[c]
                  ELSE CHOOSE b \in Bucket : b[1] = c /\ ~Held(r, b)
<1>1. /\ bucket' = [d \in Client |->
           IF d = c THEN own
           ELSE IF bucket[c] = None /\ Len(clients) >= MaxTracked /\ d = Head(clients)
                THEN None ELSE bucket[d]]
      /\ proc' = [proc EXCEPT ![r].pc = "allow", ![r].own = own]
  BY Zenon DEF Track
<1>2. CASE bucket[c] # None
  <2>1. own = bucket[c] /\ bucket[c] \in Bucket /\ bucket[c][1] = c
    BY <1>2 DEF OrderInv
  <2> HIDE DEF own
  <2> QED
    BY <1>1, <1>2, <2>1
<1>3. CASE bucket[c] = None
  <2>1. own = CHOOSE b \in Bucket : b[1] = c /\ ~Held(r, b)
    BY <1>3
  <2>2. own \in Bucket /\ own[1] = c /\ ~Held(r, own)
    BY <2>1, FreeBucket
  <2> HIDE DEF own
  <2> QED
    BY <1>1, <1>3, <2>2
<1> QED
  BY <1>2, <1>3

\* What a request does before it comes to the limiter leaves it where it was,
\* or takes it to another place; what that is says which keys were looked at.
LEMMA SessionEffect ==
  ASSUME DataOK, NEW r \in Request,
         Session(r) \/ Fetch(r) \/ Store(r) \/ Reread(r) \/ FetchFails(r)
  PROVE  /\ proc' \in [Request -> Turn] /\ Others(r)
         /\ UNCHANGED <<jwks, calm, gone, limiter, geo>>
         /\ \/ /\ At(r, "session") /\ proc'[r].pc \in {"idle", "bucket"}
               /\ proc'[r].pc = "bucket" => keys # {} /\ age < TTL /\ Accepts(keys, proc[r].token)
               /\ UNCHANGED <<keys, age>>
            \/ /\ At(r, "session") /\ proc'[r].pc = "fetch"
               /\ proc'[r].snap = keys /\ proc'[r].snapAge = age
               /\ UNCHANGED <<keys, age>>
            \/ /\ At(r, "fetch") /\ jwks.up /\ proc'[r].pc = "store"
               /\ proc'[r].snap = JWKS[jwks.ver] /\ proc'[r].wait = proc[r].wait
               /\ UNCHANGED <<keys, age>>
            \/ /\ At(r, "store") /\ proc'[r].pc = "reread"
               /\ keys' = proc[r].snap /\ age' = 0
            \/ /\ At(r, "reread") /\ proc'[r].pc \in {"idle", "bucket"}
               /\ proc'[r].pc = "bucket" => Accepts(keys, proc[r].token)
               /\ UNCHANGED <<keys, age>>
            \/ /\ At(r, "fetch") /\ ~jwks.up /\ proc'[r].pc \in {"idle", "bucket"}
               /\ proc'[r].pc = "bucket" =>
                    proc[r].snapAge < MaxStale /\ Accepts(proc[r].snap, proc[r].token)
               /\ UNCHANGED <<keys, age>>
<1>0. {"idle", "session", "fetch", "store", "reread", "bucket"} \subseteq Places
  BY DEF Places
<1>1. ASSUME NEW ks, Check(r, ks)
      PROVE  /\ proc' \in [Request -> Turn] /\ Others(r)
             /\ proc'[r].pc \in {"idle", "bucket"}
             /\ proc'[r].pc = "bucket" => Accepts(ks, proc[r].token)
  <2>1. CASE Accepts(ks, proc[r].token)
    <3>1. Begin(r, "bucket") /\ "bucket" \in Places
      BY <1>0, <1>1, <2>1 DEF Check
    <3> QED
      BY <2>1, <3>1, StartsAnew
  <2>2. CASE ~Accepts(ks, proc[r].token)
    <3>1. Finish(r) /\ "idle" \in Places
      BY <1>0, <1>1, <2>2 DEF Check
    <3>2. proc' \in [Request -> Turn] /\ Others(r) /\ proc'[r].pc = "idle"
      BY <3>1, StartsAnew
    <3> QED
      BY <3>2
  <2> QED
    BY <2>1, <2>2
<1>2. CASE Session(r)
  <2>1. CASE keys # {} /\ age < TTL
    <3>1. Check(r, keys) /\ At(r, "session") /\ UNCHANGED <<auth, limiter, geo>>
      BY <1>2, <2>1 DEF Session
    <3>2. UNCHANGED <<jwks, calm, gone, keys, age, limiter, geo>>
      BY <3>1 DEF auth
    <3> QED
      BY <1>1, <2>1, <3>1, <3>2
  <2>2. CASE ~(keys # {} /\ age < TTL)
    <3>1. /\ proc' = [proc EXCEPT ![r].pc = "fetch", ![r].snap = keys, ![r].snapAge = age]
          /\ At(r, "session") /\ UNCHANGED <<auth, limiter, geo>>
      BY <1>2, <2>2 DEF Session
    <3>2. /\ proc' \in [Request -> Turn] /\ Others(r) /\ proc'[r].pc = "fetch"
          /\ proc'[r].snap = keys /\ proc'[r].snapAge = age
      BY <1>0, <3>1, GoesWithKeys DEF DataOK
    <3>3. UNCHANGED <<jwks, calm, gone, keys, age, limiter, geo>>
      BY <3>1 DEF auth
    <3> QED
      BY <3>1, <3>2, <3>3
  <2> QED
    BY <2>1, <2>2
<1>3. CASE Fetch(r)
  <2>1. /\ proc' = [proc EXCEPT ![r].pc = "store", ![r].snap = JWKS[jwks.ver]]
        /\ At(r, "fetch") /\ jwks.up /\ UNCHANGED <<auth, limiter, geo>>
    BY <1>3 DEF Fetch
  <2>2. JWKS[jwks.ver] \in SUBSET UNION {JWKS[v] : v \in Versions}
    BY Answers DEF DataOK
  <2>3. /\ proc' \in [Request -> Turn] /\ Others(r) /\ proc'[r].pc = "store"
        /\ proc'[r].snap = JWKS[jwks.ver] /\ proc'[r].wait = proc[r].wait
    BY <1>0, <2>1, <2>2, GoesWithAnswer
  <2>4. UNCHANGED <<jwks, calm, gone, keys, age, limiter, geo>>
    BY <2>1 DEF auth
  <2> QED
    BY <2>1, <2>3, <2>4
<1>4. CASE Store(r)
  <2>1. /\ proc' = [proc EXCEPT ![r].pc = "reread"]
        /\ At(r, "store") /\ keys' = proc[r].snap /\ age' = 0
        /\ UNCHANGED <<jwks, calm, gone, limiter, geo>>
    BY <1>4 DEF Store, Goto
  <2>2. proc' \in [Request -> Turn] /\ Others(r) /\ proc'[r].pc = "reread"
    BY <1>0, <2>1, GoesTo
  <2> QED
    BY <2>1, <2>2
<1>5. CASE Reread(r)
  <2>1. Check(r, keys) /\ At(r, "reread") /\ UNCHANGED <<auth, limiter, geo>>
    BY <1>5 DEF Reread
  <2>2. UNCHANGED <<jwks, calm, gone, keys, age, limiter, geo>>
    BY <2>1 DEF auth
  <2> QED
    BY <1>1, <2>1, <2>2
<1>6. CASE FetchFails(r)
  <2>1. At(r, "fetch") /\ ~jwks.up /\ UNCHANGED <<auth, limiter, geo>>
    BY <1>6 DEF FetchFails
  <2>2. UNCHANGED <<jwks, calm, gone, keys, age, limiter, geo>>
    BY <2>1 DEF auth
  <2>3. CASE proc[r].snap # {} /\ proc[r].snapAge < MaxStale
    <3>1. Check(r, proc[r].snap)
      BY <1>6, <2>3 DEF FetchFails
    <3> QED
      BY <1>1, <2>1, <2>2, <2>3, <3>1
  <2>4. CASE ~(proc[r].snap # {} /\ proc[r].snapAge < MaxStale)
    <3>1. Finish(r) /\ "idle" \in Places
      BY <1>0, <1>6, <2>4 DEF FetchFails
    <3>2. proc' \in [Request -> Turn] /\ Others(r) /\ proc'[r].pc = "idle"
      BY <3>1, StartsAnew
    <3> QED
      BY <2>1, <2>2, <3>2
  <2> QED
    BY <2>3, <2>4
<1> QED
  BY <1>2, <1>3, <1>4, <1>5, <1>6

\* What an admitted request does: the aggregate has a token less.
LEMMA AllowEffect ==
  ASSUME DataOK, NEW r \in Request, Allow(r)
  PROVE  /\ proc' \in [Request -> Turn] /\ Others(r)
         /\ At(r, "allow") /\ proc'[r].pc \in {"idle", "ask"}
         /\ UNCHANGED <<auth, clients, bucket, came, geo>>
         /\ \/ tokens[proc[r].own] < 1 /\ UNCHANGED <<tokens, aggregate>>
            \/ /\ tokens[proc[r].own] >= 1
               /\ tokens' = [tokens EXCEPT ![proc[r].own] = @ - 1]
               /\ \/ aggregate < 1 /\ UNCHANGED aggregate
                  \/ aggregate >= 1 /\ aggregate' = aggregate - 1
<1>0. "idle" \in Places /\ "ask" \in Places
  BY DEF Places
<1>1. At(r, "allow") /\ UNCHANGED <<auth, clients, bucket, came, geo>>
  BY DEF Allow
<1>2. proc[r].own \in Bucket /\ tokens[proc[r].own] \in 0 .. Capacity /\ aggregate \in 0 .. AggCapacity
  <2>1. proc[r].own \in Bucket
    BY <1>1 DEF DataOK, Turn
  <2> QED
    BY <2>1 DEF DataOK
<1>3. ASSUME Finish(r)
      PROVE  proc' \in [Request -> Turn] /\ Others(r) /\ proc'[r].pc = "idle"
  BY <1>0, <1>3, StartsAnew
<1>4. ASSUME Begin(r, "ask")
      PROVE  proc' \in [Request -> Turn] /\ Others(r) /\ proc'[r].pc = "ask"
  BY <1>0, <1>4, StartsAnew
<1>5. CASE tokens[proc[r].own] < 1
  <2>1. Finish(r) /\ UNCHANGED <<tokens, aggregate>>
    BY <1>5 DEF Allow
  <2> QED
    BY <1>1, <1>3, <1>5, <2>1
<1>6. CASE ~(tokens[proc[r].own] < 1)
  <2>1. tokens' = [tokens EXCEPT ![proc[r].own] = @ - 1] /\ Aggregate(r)
    BY <1>6 DEF Allow
  <2>2. tokens[proc[r].own] >= 1
    BY <1>2, <1>6
  <2>3. CASE aggregate < 1
    <3>1. Finish(r) /\ UNCHANGED aggregate
      BY <2>1, <2>3 DEF Aggregate
    <3> QED
      BY <1>1, <1>3, <2>1, <2>2, <2>3, <3>1
  <2>4. CASE ~(aggregate < 1)
    <3>1. aggregate' = aggregate - 1 /\ Begin(r, "ask")
      BY <2>1, <2>4 DEF Aggregate
    <3>2. aggregate >= 1
      BY <1>2, <2>4
    <3> QED
      BY <1>1, <1>4, <2>1, <2>2, <3>1, <3>2
  <2> QED
    BY <2>3, <2>4
<1> QED
  BY <1>5, <1>6

\* What a lookup does to the index.
LEMMA LookupEffect ==
  ASSUME DataOK, NEW r \in Request,
         Ask(r) \/ Compare(r) \/ Build(r) \/ Publish(r) \/ Answer(r)
  PROVE  /\ proc' \in [Request -> Turn] /\ Others(r)
         /\ UNCHANGED <<auth, limiter, zone>>
         /\ \/ /\ At(r, "ask") /\ proc'[r].pc = "compare" /\ proc'[r].since = zone
               /\ UNCHANGED <<index, indexMu>>
            \/ /\ proc[r].pc \in {"compare", "build"} /\ proc'[r].pc = "answer"
               /\ indexMu = None /\ proc[r].since = index.fp /\ proc'[r].since = proc[r].since
               /\ UNCHANGED <<index, indexMu>>
            \/ /\ At(r, "compare") /\ proc'[r].pc = "build" /\ proc'[r].since = proc[r].since
               /\ UNCHANGED <<index, indexMu>>
            \/ /\ At(r, "build") /\ proc'[r].pc = "publish" /\ proc'[r].since = proc[r].since
               /\ indexMu = None /\ proc'[r].built = zone /\ indexMu' = r
               /\ UNCHANGED index
            \/ /\ At(r, "publish") /\ proc'[r].pc = "answer" /\ proc'[r].since = proc[r].since
               /\ index' = [fp |-> proc[r].since, ver |-> proc[r].built] /\ indexMu' = None
            \/ /\ At(r, "answer") /\ proc'[r].pc = "idle"
               /\ UNCHANGED <<index, indexMu>>
<1>0. {"idle", "compare", "build", "publish", "answer"} \subseteq Places
  BY DEF Places
<1>1. CASE Ask(r)
  <2>1. /\ proc' = [proc EXCEPT ![r].pc = "compare", ![r].since = zone]
        /\ At(r, "ask") /\ UNCHANGED <<auth, limiter, geo>>
    BY <1>1 DEF Ask
  <2>2. zone \in Nat
    BY DEF DataOK
  <2>3. /\ proc' \in [Request -> Turn] /\ Others(r) /\ proc'[r].pc = "compare"
        /\ proc'[r].since = zone
    BY <1>0, <2>1, <2>2, GoesWithPrint
  <2> QED
    BY <2>1, <2>3 DEF geo
<1>2. CASE Compare(r)
  <2>1. /\ Goto(r, IF proc[r].since = index.fp THEN "answer" ELSE "build")
        /\ At(r, "compare") /\ indexMu = None /\ UNCHANGED <<auth, limiter, geo>>
    BY <1>2 DEF Compare
  <2>2. CASE proc[r].since = index.fp
    <3>1. proc' = [proc EXCEPT ![r].pc = "answer"]
      BY <2>1, <2>2 DEF Goto
    <3>2. proc' \in [Request -> Turn] /\ Others(r) /\ proc'[r].pc = "answer" /\ proc'[r].since = proc[r].since
      BY <1>0, <3>1, GoesTo
    <3> QED
      BY <2>1, <2>2, <3>2 DEF geo, At
  <2>3. CASE proc[r].since # index.fp
    <3>1. proc' = [proc EXCEPT ![r].pc = "build"]
      BY <2>1, <2>3 DEF Goto
    <3>2. proc' \in [Request -> Turn] /\ Others(r) /\ proc'[r].pc = "build" /\ proc'[r].since = proc[r].since
      BY <1>0, <3>1, GoesTo
    <3> QED
      BY <2>1, <3>2 DEF geo
  <2> QED
    BY <2>2, <2>3
<1>3. CASE Build(r)
  <2>1. At(r, "build") /\ indexMu = None /\ UNCHANGED <<auth, limiter, zone, index>>
    BY <1>3 DEF Build
  <2>2. CASE proc[r].since = index.fp
    <3>1. proc' = [proc EXCEPT ![r].pc = "answer"] /\ UNCHANGED indexMu
      BY <1>3, <2>2 DEF Build, Goto
    <3>2. proc' \in [Request -> Turn] /\ Others(r) /\ proc'[r].pc = "answer" /\ proc'[r].since = proc[r].since
      BY <1>0, <3>1, GoesTo
    <3> QED
      BY <2>1, <2>2, <3>1, <3>2 DEF At
  <2>3. CASE proc[r].since # index.fp
    <3>1. proc' = [proc EXCEPT ![r].pc = "publish", ![r].built = zone] /\ indexMu' = r
      BY <1>3, <2>3 DEF Build
    <3>2. zone \in Nat
      BY DEF DataOK
    <3>3. /\ proc' \in [Request -> Turn] /\ Others(r) /\ proc'[r].pc = "publish"
          /\ proc'[r].since = proc[r].since /\ proc'[r].built = zone
      BY <1>0, <3>1, <3>2, GoesWithIndex
    <3> QED
      BY <2>1, <3>1, <3>3
  <2> QED
    BY <2>2, <2>3
<1>4. CASE Publish(r)
  <2>1. /\ proc' = [proc EXCEPT ![r].pc = "answer"]
        /\ At(r, "publish") /\ indexMu' = None /\ UNCHANGED <<auth, limiter, zone>>
        /\ index' = [fp |-> proc[r].since, ver |-> proc[r].built]
    BY <1>4 DEF Publish, Goto
  <2>2. proc' \in [Request -> Turn] /\ Others(r) /\ proc'[r].pc = "answer" /\ proc'[r].since = proc[r].since
    BY <1>0, <2>1, GoesTo
  <2> QED
    BY <2>1, <2>2
<1>5. CASE Answer(r)
  <2>1. Finish(r) /\ At(r, "answer") /\ UNCHANGED <<auth, limiter, geo>>
    BY <1>5 DEF Answer
  <2>2. proc' \in [Request -> Turn] /\ Others(r) /\ proc'[r].pc = "idle"
    BY <1>0, <2>1, StartsAnew
  <2> QED
    BY <2>1, <2>2 DEF geo
<1> QED
  BY <1>1, <1>2, <1>3, <1>4, <1>5

\* What a tracked request makes of the clients and the buckets.
LEMMA TrackEffect ==
  ASSUME DataOK, OrderInv, NEW r \in Request, NEW c \in Client, Track(r, c)
  PROVE  /\ proc' \in [Request -> Turn] /\ Others(r)
         /\ At(r, "bucket") /\ proc'[r].pc = "allow"
         /\ proc'[r].own \in Bucket /\ proc'[r].own[1] = c /\ bucket'[c] = proc'[r].own
         /\ bucket[c] # None => bucket'[c] = bucket[c]
         /\ bucket[c] = None => ~Held(r, bucket'[c])
         /\ bucket' \in [Client -> Bucket \cup {None}]
         /\ \A d \in Client \ {c} :
              bucket'[d] = IF bucket[c] = None /\ Len(clients) >= MaxTracked /\ d = Head(clients)
                           THEN None ELSE bucket[d]
         /\ tokens' = [b \in Bucket |->
              IF (b = bucket'[b[1]] /\ b = bucket[b[1]]) \/ Held(r, b) THEN tokens[b] ELSE Capacity]
         /\ came' = came \cup {c}
         /\ UNCHANGED <<auth, aggregate, geo>>
<1>1. /\ At(r, "bucket") /\ came' = came \cup {c} /\ UNCHANGED <<auth, aggregate, geo>>
      /\ tokens' = [b \in Bucket |->
           IF (b = bucket'[b[1]] /\ b = bucket[b[1]]) \/ Held(r, b) THEN tokens[b] ELSE Capacity]
  BY Zenon DEF Track
<1>2. PICK own \in Bucket :
        /\ own[1] = c /\ (bucket[c] # None => own = bucket[c])
        /\ (bucket[c] = None => ~Held(r, own))
        /\ bucket' = [d \in Client |->
             IF d = c THEN own
             ELSE IF bucket[c] = None /\ Len(clients) >= MaxTracked /\ d = Head(clients)
                  THEN None ELSE bucket[d]]
        /\ proc' = [proc EXCEPT ![r].pc = "allow", ![r].own = own]
  BY TrackGives
<1>3. proc' \in [Request -> Turn] /\ Others(r) /\ proc'[r].pc = "allow" /\ proc'[r].own = own
  BY <1>2, GoesWithBucket
<1>4. bucket'[c] = own
  BY <1>2
<1>5. bucket' \in [Client -> Bucket \cup {None}]
  BY <1>2 DEF OrderInv
<1>6. \A d \in Client \ {c} :
        bucket'[d] = IF bucket[c] = None /\ Len(clients) >= MaxTracked /\ d = Head(clients)
                     THEN None ELSE bucket[d]
  BY <1>2
<1> QED
  BY <1>1, <1>2, <1>3, <1>4, <1>5, <1>6

\* What time makes of the requests.
LEMMA TickEffect ==
  ASSUME DataOK, Tick
  PROVE  /\ proc' \in [Request -> Turn]
         /\ \A r \in Request :
              /\ At(r, "idle") \/ Fetching(r)
              /\ proc'[r].pc = proc[r].pc /\ proc'[r].own = proc[r].own /\ proc'[r].snap = proc[r].snap
              /\ Fetching(r) => /\ proc'[r].wait = proc[r].wait + 1
                                /\ proc'[r].snapAge = Older(proc[r].snapAge, MaxStale)
<1> DEFINE new(t) == [t EXCEPT !.wait = @ + 1, !.snapAge = Older(@, MaxStale)]
<1>1. /\ proc \in [Request -> Turn]
      /\ proc' = [r \in Request |-> IF Fetching(r) THEN new(proc[r]) ELSE proc[r]]
  BY DEF DataOK, Tick
<1>2. ASSUME NEW t \in Turn
      PROVE  /\ t.wait < Timeout => new(t) \in Turn
             /\ new(t).pc = t.pc /\ new(t).own = t.own /\ new(t).snap = t.snap
             /\ new(t).wait = t.wait + 1
             /\ new(t).snapAge = Older(t.snapAge, MaxStale)
  <2>1. Older(t.snapAge, MaxStale) \in 0 .. MaxStale
    BY Bounded DEF Turn
  <2>2. ASSUME t.wait < Timeout PROVE t.wait + 1 \in 0 .. Timeout
    BY <2>2 DEF Turn
  <2>3. /\ new(t).pc = t.pc /\ new(t).own = t.own /\ new(t).snap = t.snap
        /\ new(t).wait = t.wait + 1
        /\ new(t).snapAge = Older(t.snapAge, MaxStale)
    BY DEF Turn
  <2>4. ASSUME NEW a \in 0 .. MaxStale, NEW w \in 0 .. Timeout
        PROVE  [t EXCEPT !.wait = w, !.snapAge = a] \in Turn
    BY DEF Turn
  <2>5. ASSUME t.wait < Timeout PROVE new(t) \in Turn
    BY <2>1, <2>2, <2>4, <2>5
  <2> QED
    BY <2>3, <2>5
<1> HIDE DEF new
<1>3. \A r \in Request : At(r, "idle") \/ (Fetching(r) /\ proc[r].wait < Timeout)
  BY DEF Tick
<1>4. \A r \in Request : ~(At(r, "idle") /\ Fetching(r))
  BY DEF At, Fetching
<1>5. proc' \in [Request -> Turn]
  BY <1>1, <1>2, <1>3, <1>4
<1> QED
  BY <1>1, <1>2, <1>3, <1>4, <1>5

LEMMA DataStep ==
  ASSUME DataOK, OrderInv, [Next]_vars
  PROVE  DataOK'
<1>1. ASSUME NEW r \in Request, proc' \in [Request -> Turn], Others(r),
             proc'[r].pc = "allow" => proc'[r].own # None
      PROVE  (\A q \in Request : At(q, "allow") => proc[q].own # None)'
  BY <1>1 DEF DataOK, At, Others
<1>2. ASSUME NEW r \in Request, NEW t \in Token, Arrive(r, t)
      PROVE  DataOK'
  <2>1. UNCHANGED <<auth, limiter, geo>>
    BY <1>2 DEF Arrive
  <2>2. proc' \in [Request -> Turn] /\ Others(r) /\ proc'[r].pc = "session"
    BY <1>2, ArriveEffect
  <2> QED
    BY <1>1, <2>1, <2>2 DEF DataOK, auth, limiter, geo
<1>3. ASSUME NEW r \in Request,
             Session(r) \/ Fetch(r) \/ Store(r) \/ Reread(r) \/ FetchFails(r)
      PROVE  DataOK'
  <2>1. /\ proc' \in [Request -> Turn] /\ Others(r) /\ proc'[r].pc # "allow"
        /\ UNCHANGED <<jwks, calm, gone, limiter, geo>>
        /\ UNCHANGED <<keys, age>> \/ (keys' = proc[r].snap /\ age' = 0)
    BY <1>3, SessionEffect
  <2>2. proc[r].snap \in SUBSET UNION {JWKS[v] : v \in Versions}
    BY DEF DataOK, Turn
  <2>3. 0 \in 0 .. MaxStale
    OBVIOUS
  <2>4. keys' \in SUBSET UNION {JWKS[v] : v \in Versions} /\ age' \in 0 .. MaxStale
    BY <2>1, <2>2, <2>3 DEF DataOK
  <2> QED
    BY <1>1, <2>1, <2>4 DEF DataOK, limiter, geo
<1>4. ASSUME NEW r \in Request, NEW c \in Client, Track(r, c)
      PROVE  DataOK'
  <2>1. /\ proc' \in [Request -> Turn] /\ Others(r) /\ proc'[r].own \in Bucket
        /\ tokens' = [b \in Bucket |->
              IF (b = bucket'[b[1]] /\ b = bucket[b[1]]) \/ Held(r, b) THEN tokens[b] ELSE Capacity]
        /\ UNCHANGED <<auth, aggregate, geo>>
    BY <1>4, TrackEffect
  <2>2. tokens' \in [Bucket -> 0 .. Capacity]
    BY <2>1 DEF DataOK
  <2>3. proc'[r].own # None
    BY <2>1
  <2> QED
    BY <1>1, <2>1, <2>2, <2>3 DEF DataOK, auth, geo
<1>5. ASSUME NEW r \in Request, Allow(r)
      PROVE  DataOK'
  <2>1. /\ proc' \in [Request -> Turn] /\ Others(r) /\ proc'[r].pc # "allow"
        /\ UNCHANGED <<auth, clients, bucket, came, geo>>
        /\ \/ UNCHANGED <<tokens, aggregate>>
           \/ /\ tokens[proc[r].own] >= 1
              /\ tokens' = [tokens EXCEPT ![proc[r].own] = @ - 1]
              /\ \/ UNCHANGED aggregate
                 \/ aggregate >= 1 /\ aggregate' = aggregate - 1
    BY <1>5, AllowEffect
  <2>2. proc[r].own \in Bucket
    BY <1>5 DEF Allow, DataOK, Turn
  <2>3. tokens' \in [Bucket -> 0 .. Capacity]
    <3>1. tokens \in [Bucket -> 0 .. Capacity]
      BY DEF DataOK
    <3>2. tokens[proc[r].own] >= 1 => tokens[proc[r].own] - 1 \in 0 .. Capacity
      BY <2>2, <3>1
    <3> QED
      BY <2>1, <2>2, <3>1, <3>2
  <2>4. aggregate' \in 0 .. AggCapacity
    BY <2>1 DEF DataOK
  <2> QED
    BY <1>1, <2>1, <2>3, <2>4 DEF DataOK, auth, geo
<1>6. ASSUME NEW r \in Request,
             Ask(r) \/ Compare(r) \/ Build(r) \/ Publish(r) \/ Answer(r)
      PROVE  DataOK'
  <2>1. /\ proc' \in [Request -> Turn] /\ Others(r) /\ proc'[r].pc # "allow"
        /\ UNCHANGED <<auth, limiter, zone>>
        /\ index' = index \/ index' = [fp |-> proc[r].since, ver |-> proc[r].built]
        /\ indexMu' = indexMu \/ indexMu' = r \/ indexMu' = None
    BY <1>6, LookupEffect
  <2>2. proc[r].since \in Nat /\ proc[r].built \in Nat
    BY DEF DataOK, Turn
  <2>3. [fp |-> proc[r].since, ver |-> proc[r].built] \in [fp : Nat, ver : Nat]
    BY <2>2
  <2>4. index' \in [fp : Nat, ver : Nat] /\ indexMu' \in Request \cup {None}
    BY <2>1, <2>3 DEF DataOK
  <2> QED
    BY <1>1, <2>1, <2>4 DEF DataOK, auth, limiter
<1>7. CASE Tick
  <2>1. /\ proc' \in [Request -> Turn]
        /\ \A r \in Request : proc'[r].pc = proc[r].pc /\ proc'[r].own = proc[r].own
    BY <1>7, TickEffect
  <2>2. /\ tokens' = [b \in Bucket |-> Refilled(tokens[b], Rate, Capacity)]
        /\ aggregate' = Refilled(aggregate, AggRate, AggCapacity)
    BY <1>7 DEF Tick, Refill
  <2>3. tokens' \in [Bucket -> 0 .. Capacity]
    BY <2>2, Bounded DEF DataOK
  <2>4. aggregate' \in 0 .. AggCapacity
    BY <2>2, Bounded DEF DataOK
  <2>5. age' \in 0 .. MaxStale
    BY <1>7, Bounded DEF Tick, DataOK
  <2>6. TTL + Timeout \in Nat /\ MaxStale + Timeout \in Nat
    OBVIOUS
  <2>7. calm' \in 0 .. TTL + Timeout
    <3>1. calm' = IF jwks.up THEN Older(calm, TTL + Timeout) ELSE 0
      BY <1>7 DEF Tick
    <3>2. calm \in 0 .. TTL + Timeout
      BY DEF DataOK
    <3>3. Older(calm, TTL + Timeout) \in 0 .. TTL + Timeout
      BY <2>6, <3>2, Bounded
    <3> QED
      BY <2>6, <3>1, <3>3
  <2>8. gone' \in [Key -> 0 .. MaxStale + Timeout]
    <3>1. gone' = [k \in Key |-> IF Withdrawn(k) THEN Older(gone[k], MaxStale + Timeout) ELSE 0]
      BY <1>7 DEF Tick
    <3>2. \A k \in Key : gone[k] \in 0 .. MaxStale + Timeout
      BY DEF DataOK
    <3>3. \A k \in Key : Older(gone[k], MaxStale + Timeout) \in 0 .. MaxStale + Timeout
      BY <2>6, <3>2, Bounded
    <3>4. 0 \in 0 .. MaxStale + Timeout
      BY <2>6
    <3> QED
      BY <3>1, <3>3, <3>4
  <2>9. UNCHANGED <<jwks, keys, zone, index, indexMu>>
    BY <1>7 DEF Tick, geo
  <2> QED
    BY <2>1, <2>3, <2>4, <2>5, <2>7, <2>8, <2>9 DEF DataOK, At
<1>8. CASE UserService
  <2>1. jwks' \in [ver : Versions, up : BOOLEAN]
    BY <1>8 DEF UserService, DataOK
  <2>2. gone' \in [Key -> 0 .. MaxStale + Timeout] /\ calm' \in 0 .. TTL + Timeout
    <3>1. /\ gone' = [k \in Key |-> IF \E e \in JWKS[jwks'.ver] : e.key = k THEN 0 ELSE gone[k]]
          /\ calm' = 0
      BY <1>8 DEF UserService
    <3>2. \A k \in Key : gone[k] \in 0 .. MaxStale + Timeout
      BY DEF DataOK
    <3>3. 0 \in 0 .. MaxStale + Timeout /\ 0 \in 0 .. TTL + Timeout
      OBVIOUS
    <3> QED
      BY <3>1, <3>2, <3>3
  <2>3. UNCHANGED <<keys, age, limiter, geo, proc>>
    BY <1>8 DEF UserService
  <2> QED
    BY <2>1, <2>2, <2>3 DEF DataOK, limiter, geo, At
<1>9. CASE ZoneChanges
  BY <1>9 DEF ZoneChanges, DataOK, auth, limiter, At
<1>10. CASE UNCHANGED vars
  BY <1>10 DEF vars, DataOK, auth, limiter, geo, At
<1> QED
  BY <1>2, <1>3, <1>4, <1>5, <1>6, <1>7, <1>8, <1>9, <1>10 DEF Next, Step

\* Without a client are the others, in their order.
LEMMA WithoutDrops ==
  ASSUME OrderInv, NEW d \in Client
  PROVE  /\ Without(d) \in Seq(Client) /\ Len(clients) \in Nat
         /\ Len(Without(d)) = IF \E i \in DOMAIN clients : clients[i] = d THEN Len(clients) - 1 ELSE Len(clients)
         /\ \A i, j \in DOMAIN Without(d) : Without(d)[i] = Without(d)[j] => i = j
         /\ \A e : (\E i \in DOMAIN Without(d) : Without(d)[i] = e)
                     <=> e # d /\ \E i \in DOMAIN clients : clients[i] = e
<1>1. /\ clients \in Seq(Client) /\ Len(clients) \in Nat /\ DOMAIN clients = 1 .. Len(clients)
      /\ \A i, j \in DOMAIN clients : clients[i] = clients[j] => i = j
  BY DEF OrderInv
<1>2. CASE ~\E i \in DOMAIN clients : clients[i] = d
  <2>1. Without(d) = clients
    BY <1>2 DEF Without
  <2> QED
    BY SMTT(30), <1>1, <1>2, <2>1
<1>3. CASE \E i \in DOMAIN clients : clients[i] = d
  <2> DEFINE k == CHOOSE i \in DOMAIN clients : clients[i] = d
             w == [j \in 1 .. Len(clients) - 1 |-> IF j < k THEN clients[j] ELSE clients[j + 1]]
  <2>1. k \in 1 .. Len(clients) /\ clients[k] = d
    BY <1>1, <1>3
  <2>2. Without(d) = w
    BY <1>3 DEF Without
  <2> HIDE DEF k
  <2>3. Len(clients) - 1 \in Nat
    BY <1>1, <2>1
  <2>4. \A j \in 1 .. Len(clients) - 1 : w[j] \in Client
    BY <1>1, <2>1
  <2>5. w \in Seq(Client) /\ DOMAIN w = 1 .. Len(clients) - 1
    BY <2>3, <2>4
  <2>6. Len(w) = Len(clients) - 1
    BY <2>3, <2>5
  <2>7. ASSUME NEW i \in DOMAIN w, NEW j \in DOMAIN w, w[i] = w[j]
        PROVE  i = j
    <3> DEFINE at(x) == IF x < k THEN x ELSE x + 1
    <3>1. at(i) \in DOMAIN clients /\ at(j) \in DOMAIN clients
      BY <1>1, <2>1, <2>5
    <3>2. w[i] = clients[at(i)] /\ w[j] = clients[at(j)]
      BY <2>5
    <3>3. at(i) = at(j)
      BY <1>1, <2>7, <3>1, <3>2
    <3> QED
      BY <2>1, <2>5, <3>3
  <2>8. ASSUME NEW i \in DOMAIN w
        PROVE  w[i] # d /\ \E j \in DOMAIN clients : clients[j] = w[i]
    <3> DEFINE at == IF i < k THEN i ELSE i + 1
    <3>1. at \in DOMAIN clients /\ at # k
      BY <1>1, <2>1, <2>5
    <3>2. w[i] = clients[at]
      BY <2>5
    <3> HIDE DEF at, w
    <3> QED
      BY <1>1, <2>1, <3>1, <3>2
  <2>9. ASSUME NEW j \in DOMAIN clients, clients[j] # d
        PROVE  \E i \in DOMAIN w : w[i] = clients[j]
    <3>1. CASE j < k
      <4>1. j \in DOMAIN w /\ w[j] = clients[j]
        BY <1>1, <2>1, <2>5, <3>1
      <4> HIDE DEF w
      <4> QED
        BY <4>1
    <3>2. CASE ~(j < k)
      <4>1. j # k
        BY <2>1, <2>9
      <4>2. j - 1 \in DOMAIN w /\ w[j - 1] = clients[j]
        BY <1>1, <2>1, <2>5, <3>2, <4>1
      <4> HIDE DEF w
      <4> QED
        BY <4>2
    <3> QED
      BY <3>1, <3>2
  <2> HIDE DEF w
  <2>10. \A e : (\E i \in DOMAIN w : w[i] = e) <=> e # d /\ \E i \in DOMAIN clients : clients[i] = e
    BY <2>8, <2>9
  <2> QED
    BY <1>1, <1>3, <2>2, <2>5, <2>6, <2>7, <2>10
<1> QED
  BY <1>2, <1>3

LEMMA AppendIs ==
  ASSUME NEW S, NEW s \in Seq(S), NEW x \in S
  PROVE  /\ Append(s, x) \in Seq(S) /\ Len(Append(s, x)) = Len(s) + 1
         /\ DOMAIN s = 1 .. Len(s) /\ Len(s) \in Nat
         /\ DOMAIN Append(s, x) = 1 .. Len(s) + 1
         /\ \A i \in 1 .. Len(s) : Append(s, x)[i] = s[i]
         /\ Append(s, x)[Len(s) + 1] = x
OBVIOUS

LEMMA OrderStep ==
  ASSUME DataOK, OrderInv, [Next]_vars
  PROVE  OrderInv'
<1>1. CASE UNCHANGED <<clients, bucket>>
  BY <1>1 DEF OrderInv
<1>2. ASSUME NEW r \in Request, NEW c \in Client, Track(r, c)
      PROVE  OrderInv'
  <2> DEFINE full == bucket[c] = None /\ Len(clients) >= MaxTracked
             d == IF full THEN Head(clients) ELSE c
             w == Without(d)
  <2>1. clients' = Append(w, c)
    BY <1>2 DEF Track
  <2>2. /\ bucket' \in [Client -> Bucket \cup {None}]
        /\ bucket'[c] \in Bucket /\ bucket'[c][1] = c
        /\ \A e \in Client \ {c} : bucket'[e] = IF full /\ e = Head(clients) THEN None ELSE bucket[e]
    BY <1>2, TrackEffect
  <2>3. /\ clients \in Seq(Client) /\ Len(clients) \in Nat /\ DOMAIN clients = 1 .. Len(clients)
        /\ Len(clients) <= MaxTracked /\ MaxTracked \in Nat \ {0}
    BY DEF OrderInv
  <2>4. full => 1 \in DOMAIN clients /\ Head(clients) = clients[1]
    BY <2>3
  <2>5. d \in Client /\ (full => \E i \in DOMAIN clients : clients[i] = d)
    BY <2>3, <2>4
  <2>6. (\E i \in DOMAIN clients : clients[i] = c) <=> bucket[c] # None
    BY DEF OrderInv
  <2>7. /\ w \in Seq(Client)
        /\ Len(w) = IF \E i \in DOMAIN clients : clients[i] = d THEN Len(clients) - 1 ELSE Len(clients)
        /\ \A i, j \in DOMAIN w : w[i] = w[j] => i = j
        /\ \A e : (\E i \in DOMAIN w : w[i] = e) <=> e # d /\ \E i \in DOMAIN clients : clients[i] = e
    BY <2>5, WithoutDrops
  <2>8. Len(w) < MaxTracked
    BY <2>3, <2>5, <2>6, <2>7
  <2>9. ~\E i \in DOMAIN w : w[i] = c
    BY <2>6, <2>7
  <2>10. \A e \in Client : bucket'[e] # None <=> e = c \/ (e # d /\ bucket[e] # None)
    BY <2>2, NamesAssumption
  <2>11. \A e \in Client : bucket'[e] # None => bucket'[e][1] = e
    BY <2>2 DEF OrderInv
  <2> HIDE DEF w, d, full
  <2>12. /\ Append(w, c) \in Seq(Client) /\ Len(Append(w, c)) = Len(w) + 1
         /\ DOMAIN w = 1 .. Len(w) /\ Len(w) \in Nat
         /\ DOMAIN Append(w, c) = 1 .. Len(w) + 1
         /\ \A i \in 1 .. Len(w) : Append(w, c)[i] = w[i]
         /\ Append(w, c)[Len(w) + 1] = c
    <3>1. w \in Seq(Client)
      BY <2>7
    <3> QED
      BY <3>1, AppendIs
  <2>13. clients' \in Seq(Client) /\ Len(clients)' <= MaxTracked
    BY <2>1, <2>3, <2>8, <2>12
  <2>14. \A i, j \in DOMAIN Append(w, c) : Append(w, c)[i] = Append(w, c)[j] => i = j
    <3> DEFINE a == Append(w, c)
               n == Len(w)
    <3>1. n \in Nat /\ DOMAIN a = 1 .. n + 1 /\ a[n + 1] = c
      BY <2>12
    <3>2. \A i \in 1 .. n : a[i] = w[i] /\ a[i] # c
      BY <2>9, <2>12
    <3>3. \A i, j \in 1 .. n : w[i] = w[j] => i = j
      BY <2>7, <2>12
    <3> HIDE DEF a, n
    <3>4. \A i \in 1 .. n + 1 : i \in 1 .. n \/ i = n + 1
      BY <3>1
    <3>5. \A i, j \in DOMAIN a : a[i] = a[j] => i = j
      BY <3>1, <3>2, <3>3, <3>4
    <3> QED
      BY <3>5 DEF a
  <2>15. \A e : (\E i \in DOMAIN Append(w, c) : Append(w, c)[i] = e)
                  <=> e = c \/ \E i \in DOMAIN w : w[i] = e
    <3>1. Len(w) + 1 \in 1 .. Len(w) + 1 /\ 1 .. Len(w) + 1 = (1 .. Len(w)) \cup {Len(w) + 1}
      BY <2>12
    <3> QED
      BY <2>12, <3>1
  <2>16. \A e \in Client : bucket[e] # None <=> \E i \in DOMAIN clients : clients[i] = e
    BY DEF OrderInv
  <2>17. \A e \in Client : bucket'[e] # None <=> \E i \in DOMAIN clients' : clients'[i] = e
    BY <2>1, <2>7, <2>10, <2>15, <2>16
  <2> QED
    BY <2>1, <2>2, <2>11, <2>13, <2>14, <2>17 DEF OrderInv
<1>3. ASSUME NEW r \in Request, Step(r), ~\E c \in Client : Track(r, c)
      PROVE  UNCHANGED <<clients, bucket>>
  <2>1. CASE Session(r) \/ Fetch(r) \/ Store(r) \/ Reread(r) \/ FetchFails(r)
    BY <2>1, SessionEffect DEF limiter
  <2>2. CASE Allow(r)
    BY <2>2 DEF Allow
  <2>3. CASE Ask(r) \/ Compare(r) \/ Build(r) \/ Publish(r) \/ Answer(r)
    BY <2>3, LookupEffect DEF limiter
  <2> QED
    BY <1>3, <2>1, <2>2, <2>3 DEF Step
<1>4. ASSUME NEW r \in Request, NEW t \in Token, Arrive(r, t)
      PROVE  UNCHANGED <<clients, bucket>>
  BY <1>4 DEF Arrive, limiter
<1>5. Tick \/ UserService \/ ZoneChanges \/ UNCHANGED vars => UNCHANGED <<clients, bucket>>
  BY DEF Tick, UserService, ZoneChanges, vars, limiter
<1> QED
  BY <1>1, <1>2, <1>3, <1>4, <1>5 DEF Next

LEMMA TypesBegin ==
  ASSUME Init
  PROVE  DataOK /\ OrderInv
<1>1. proc \in [Request -> Turn]
  <2>1. Idle \in Turn
    <3>1. 0 \in 0 .. MaxStale /\ 0 \in 0 .. Timeout /\ 0 \in Nat /\ "idle" \in Places
      BY DEF Places
    <3> QED
      BY <3>1 DEF Turn, Idle
  <2> QED
    BY <2>1 DEF Init
<1>2. \A r \in Request : ~At(r, "allow")
  BY DEF Init, At, Idle
<1>3. jwks \in [ver : Versions, up : BOOLEAN] /\ keys \in SUBSET UNION {JWKS[v] : v \in Versions}
  BY Answers DEF Init
<1>4. age \in 0 .. MaxStale /\ calm \in 0 .. TTL + Timeout /\ gone \in [Key -> 0 .. MaxStale + Timeout]
  BY DEF Init
<1>5. tokens \in [Bucket -> 0 .. Capacity] /\ aggregate \in 0 .. AggCapacity
  BY DEF Init
<1>6. zone \in Nat /\ index \in [fp : Nat, ver : Nat] /\ indexMu \in Request \cup {None}
  BY DEF Init
<1>7. /\ clients \in Seq(Client) /\ Len(clients) = 0 /\ DOMAIN clients = {}
      /\ bucket \in [Client -> Bucket \cup {None}] /\ \A c \in Client : bucket[c] = None
  BY DEF Init
<1>8. OrderInv
  BY <1>7 DEF OrderInv
<1> QED
  BY <1>1, <1>2, <1>3, <1>4, <1>5, <1>6, <1>8 DEF DataOK

LEMMA TypesHold == Spec => [](DataOK /\ OrderInv)
<1>1. DataOK /\ OrderInv /\ [Next]_vars => (DataOK /\ OrderInv)'
  BY DataStep, OrderStep
<1> QED
  BY TypesBegin, <1>1, PTL DEF Spec

\* The limiter never tracks more clients than maxTrackedClients, and the
\* clients it tracks are those with a bucket, each with one of its own; ages,
\* buckets and the deadline of a fetch keep to their bounds.
THEOREM GateTypeCorrect == Spec => []TypeOK
<1>1. ASSUME DataOK, OrderInv
      PROVE  TypeOK
  <2>1. \A r \in Request : proc[r].wait <= Timeout
    BY <1>1 DEF DataOK, Turn
  <2>2. ASSUME NEW c \in Client
        PROVE  bucket[c] \in {<<c, i>> : i \in 1 .. Cardinality(Request)} \cup {None}
    <3>1. bucket[c] = None \/ (bucket[c] \in Bucket /\ bucket[c][1] = c)
      BY <1>1 DEF OrderInv
    <3> QED
      BY <3>1 DEF Bucket
  <2>3. {clients[i] : i \in DOMAIN clients} = {c \in Client : bucket[c] # None}
    <3>1. \A i \in DOMAIN clients : clients[i] \in Client
      BY <1>1 DEF OrderInv
    <3> QED
      BY <1>1, <3>1 DEF OrderInv
  <2> QED
    BY <1>1, <2>1, <2>2, <2>3 DEF TypeOK, DataOK, OrderInv
<1> QED
  BY <1>1, TypesHold, PTL

-----------------------------------------------------------------------------
(* The index *)

\* What leaves a request's place and the index alone, be it another request's.
LEMMA IndexKept ==
  ASSUME IndexInv, DataOK, zone' \in Nat, zone <= zone', UNCHANGED <<index, indexMu>>,
         NEW r \in Request, UNCHANGED proc[r]
  PROVE  /\ proc'[r].pc \in {"compare", "build", "publish", "answer"} => proc'[r].since <= zone'
         /\ At(r, "publish")' => /\ indexMu' = r
                                 /\ proc'[r].since <= proc'[r].built /\ proc'[r].built <= zone'
                                 /\ index'.ver <= proc'[r].built
         /\ At(r, "answer")' => proc'[r].since <= index'.ver
<1>1. /\ proc[r].since \in Nat /\ proc[r].built \in Nat /\ zone \in Nat
      /\ index.ver \in Nat
  BY DEF DataOK, Turn
<1> QED
  BY <1>1 DEF IndexInv, At

LEMMA IndexStep ==
  ASSUME IndexInv, DataOK, OrderInv, [Next]_vars
  PROVE  IndexInv'
<1>0. /\ index.fp \in Nat /\ index.ver \in Nat /\ zone \in Nat
      /\ index.fp <= index.ver /\ index.ver <= zone
  BY DEF DataOK, IndexInv
<1>1. ASSUME NEW r \in Request, Others(r), UNCHANGED geo,
             proc'[r].pc \notin {"compare", "build", "publish", "answer"}
      PROVE  IndexInv'
  <2>1. UNCHANGED <<zone, index, indexMu>>
    BY <1>1 DEF geo
  <2>2. \A q \in Request \ {r} : UNCHANGED proc[q]
    BY <1>1 DEF Others
  <2> QED
    BY <1>0, <1>1, <2>1, <2>2, IndexKept DEF IndexInv, At
<1>2. ASSUME NEW r \in Request,
             Ask(r) \/ Compare(r) \/ Build(r) \/ Publish(r) \/ Answer(r)
      PROVE  IndexInv'
  <2>1. Others(r) /\ zone' = zone
    BY <1>2, LookupEffect
  <2>2. \A q \in Request \ {r} : UNCHANGED proc[q]
    BY <2>1 DEF Others
  <2>3. proc[r].since \in Nat /\ proc[r].built \in Nat
    BY DEF DataOK, Turn
  <2>4. CASE /\ At(r, "ask") /\ proc'[r].pc = "compare" /\ proc'[r].since = zone
             /\ UNCHANGED <<index, indexMu>>
    BY <1>0, <2>1, <2>2, <2>4, IndexKept DEF IndexInv, At
  <2>5. CASE /\ proc[r].pc \in {"compare", "build"} /\ proc'[r].pc = "answer"
             /\ indexMu = None /\ proc[r].since = index.fp /\ proc'[r].since = proc[r].since
             /\ UNCHANGED <<index, indexMu>>
    BY <1>0, <2>1, <2>2, <2>5, IndexKept DEF IndexInv, At
  <2>6. CASE /\ At(r, "compare") /\ proc'[r].pc = "build" /\ proc'[r].since = proc[r].since
             /\ UNCHANGED <<index, indexMu>>
    BY <1>0, <2>1, <2>2, <2>6, IndexKept DEF IndexInv, At
  <2>7. CASE /\ At(r, "build") /\ proc'[r].pc = "publish" /\ proc'[r].since = proc[r].since
             /\ indexMu = None /\ proc'[r].built = zone /\ indexMu' = r
             /\ UNCHANGED index
    <3>1. \A q \in Request : ~At(q, "publish")
      BY <2>7 DEF IndexInv
    <3>2. proc[r].since <= zone
      BY <2>7 DEF IndexInv, At
    <3>3. \A q \in Request \ {r} :
            /\ proc'[q].pc \in {"compare", "build", "publish", "answer"} => proc'[q].since <= zone'
            /\ ~At(q, "publish")'
            /\ At(q, "answer")' => proc'[q].since <= index'.ver
      BY <2>1, <2>2, <2>7, <3>1 DEF IndexInv, At
    <3> QED
      BY SMTT(30), <1>0, <2>1, <2>3, <2>7, <3>2, <3>3 DEF IndexInv, At
  <2>8. CASE /\ At(r, "publish") /\ proc'[r].pc = "answer" /\ proc'[r].since = proc[r].since
             /\ index' = [fp |-> proc[r].since, ver |-> proc[r].built] /\ indexMu' = None
    <3>1. /\ indexMu = r /\ proc[r].since <= proc[r].built /\ proc[r].built <= zone
          /\ index.ver <= proc[r].built
      BY <2>8 DEF IndexInv
    <3>2. index'.fp = proc[r].since /\ index'.ver = proc[r].built
      BY <2>8
    <3>3. \A q \in Request \ {r} : ~At(q, "publish")'
      BY <2>2, <3>1 DEF IndexInv, At
    <3>4. \A q \in Request \ {r} :
            /\ proc[q].since \in Nat
            /\ proc'[q].pc \in {"compare", "build", "publish", "answer"} => proc'[q].since <= zone'
            /\ At(q, "answer")' => proc'[q].since <= index.ver
      BY <2>1, <2>2 DEF IndexInv, At, DataOK, Turn
    <3>5. \A q \in Request \ {r} : At(q, "answer")' => proc'[q].since <= index'.ver
      <4> SUFFICES ASSUME NEW q \in Request \ {r}, At(q, "answer")'
                   PROVE  proc'[q].since <= index'.ver
        OBVIOUS
      <4>1. proc'[q].since <= index.ver /\ proc'[q].since \in Nat
        BY <2>2, <3>4
      <4> QED
        BY SMTT(30), <1>0, <2>3, <3>1, <3>2, <4>1
    <3>6. proc'[r].since <= zone' /\ proc'[r].since <= index'.ver
      BY <1>0, <2>1, <2>3, <2>8, <3>1, <3>2
    <3>7. proc'[r].pc = "answer" /\ "answer" # "publish"
      BY <2>8
    <3>8. index'.fp <= index'.ver /\ index'.ver <= zone'
      BY <2>1, <3>1, <3>2
    <3>9. \A q \in Request : ~At(q, "publish")'
      BY <3>3, <3>7 DEF At
    <3>10. \A q \in Request : proc'[q].pc \in {"compare", "build", "publish", "answer"} => proc'[q].since <= zone'
      BY <3>4, <3>6
    <3>11. \A q \in Request : At(q, "answer")' => proc'[q].since <= index'.ver
      BY <3>5, <3>6
    <3> QED
      BY <3>8, <3>9, <3>10, <3>11 DEF IndexInv
  <2>9. CASE /\ At(r, "answer") /\ proc'[r].pc = "idle"
             /\ UNCHANGED <<index, indexMu>>
    BY <1>0, <2>1, <2>2, <2>9, IndexKept DEF IndexInv, At
  <2> QED
    BY <1>2, <2>4, <2>5, <2>6, <2>7, <2>8, <2>9, LookupEffect
<1>3. ASSUME NEW r \in Request, NEW t \in Token, Arrive(r, t)
      PROVE  IndexInv'
  <2>1. Others(r) /\ proc'[r].pc = "session" /\ UNCHANGED geo
    BY <1>3, ArriveEffect DEF Arrive
  <2> QED
    BY <1>1, <2>1
<1>4. ASSUME NEW r \in Request,
             Session(r) \/ Fetch(r) \/ Store(r) \/ Reread(r) \/ FetchFails(r)
      PROVE  IndexInv'
  <2>1. /\ Others(r) /\ UNCHANGED geo
        /\ proc'[r].pc \notin {"compare", "build", "publish", "answer"}
    BY <1>4, SessionEffect
  <2> QED
    BY <1>1, <2>1
<1>5. ASSUME NEW r \in Request, NEW c \in Client, Track(r, c)
      PROVE  IndexInv'
  <2>1. Others(r) /\ UNCHANGED geo /\ proc'[r].pc = "allow"
    BY <1>5, TrackEffect
  <2> QED
    BY <1>1, <2>1
<1>6. ASSUME NEW r \in Request, Allow(r)
      PROVE  IndexInv'
  <2>1. Others(r) /\ UNCHANGED geo /\ proc'[r].pc \in {"idle", "ask"}
    BY <1>6, AllowEffect
  <2> QED
    BY <1>1, <2>1
<1>7. CASE Tick
  <2>1. \A r \in Request : proc'[r].pc \in {"idle", "fetch", "store"}
    BY <1>7, TickEffect DEF At, Fetching
  <2>2. UNCHANGED <<zone, index, indexMu>>
    BY <1>7 DEF Tick, geo
  <2> QED
    BY <1>0, <2>1, <2>2 DEF IndexInv, At
<1>8. ASSUME zone' \in Nat, zone <= zone', UNCHANGED <<index, indexMu, proc>>
      PROVE  IndexInv'
  <2>1. \A r \in Request : UNCHANGED proc[r]
    BY <1>8
  <2> QED
    BY <1>0, <1>8, <2>1, IndexKept DEF IndexInv
<1>9. CASE ZoneChanges
  <2>1. zone' = zone + 1 /\ UNCHANGED <<index, indexMu, proc>>
    BY <1>9 DEF ZoneChanges
  <2> QED
    BY <1>0, <1>8, <2>1
<1>10. CASE UserService \/ UNCHANGED vars
  <2>1. UNCHANGED <<zone, index, indexMu, proc>>
    BY <1>10 DEF UserService, vars, geo
  <2> QED
    BY <1>0, <1>8, <2>1
<1> QED
  BY <1>2, <1>3, <1>4, <1>5, <1>6, <1>7, <1>9, <1>10 DEF Next, Step

\* An answer of LookupBatch is no older than the zone files were when it was
\* asked for: whoever publishes took the fingerprint before it read the files,
\* and indexMu keeps an older reading from replacing a newer one.
THEOREM LookupsAreCurrent == Spec => []LookupIsCurrent
<1>1. Init => IndexInv
  <2>1. Init => /\ index.fp = 0 /\ index.ver = 0 /\ zone = 1
                /\ \A r \in Request : proc[r].pc = "idle"
    BY DEF Init, Idle
  <2> QED
    BY <2>1 DEF IndexInv, At
<1>2. IndexInv /\ (DataOK /\ OrderInv) /\ [Next]_vars => IndexInv'
  BY IndexStep
<1>3. IndexInv /\ (DataOK /\ OrderInv) => LookupIsCurrent
  <2>1. DataOK => index.ver \in Nat /\ \A r \in Request : proc[r].since \in Nat
    BY DEF DataOK, Turn
  <2> QED
    BY <2>1 DEF IndexInv, LookupIsCurrent
<1> QED
  BY <1>1, <1>2, <1>3, TypesHold, PTL DEF Spec

-----------------------------------------------------------------------------
(* The keys *)

\* Where a request is whose step has to do with keys, and what it knows.
LEMMA Numeric ==
  ASSUME DataOK
  PROVE  /\ age \in 0 .. MaxStale /\ calm \in 0 .. TTL + Timeout /\ jwks.ver \in Versions
         /\ \A k \in Key : gone[k] \in 0 .. MaxStale + Timeout
         /\ \A e \in keys : e.key \in Key
         /\ \A r \in Request : /\ proc[r].snapAge \in 0 .. MaxStale /\ proc[r].wait \in 0 .. Timeout
                               /\ \A e \in proc[r].snap : e.key \in Key
<1>1. /\ age \in 0 .. MaxStale /\ calm \in 0 .. TTL + Timeout /\ jwks.ver \in Versions
      /\ \A k \in Key : gone[k] \in 0 .. MaxStale + Timeout
      /\ keys \in SUBSET UNION {JWKS[v] : v \in Versions}
  BY DEF DataOK
<1>2. \A r \in Request : /\ proc[r].snapAge \in 0 .. MaxStale /\ proc[r].wait \in 0 .. Timeout
                         /\ proc[r].snap \in SUBSET UNION {JWKS[v] : v \in Versions}
  BY DEF DataOK, Turn
<1> QED
  BY <1>1, <1>2, Answers

\* What a request knows of the keys.
GoneAt(r) ==
  /\ At(r, "fetch") => \A e \in proc[r].snap : gone[e.key] <= proc[r].snapAge + Timeout
  /\ At(r, "store") => \A e \in proc[r].snap : gone[e.key] <= proc[r].wait
  /\ At(r, "reread") => age = 0
CalmAt(r) == At(r, "store") => proc[r].snap = JWKS[jwks.ver] \/ calm <= proc[r].wait

\* The requests that do nothing know what they knew, if keys are as young.
LEMMA KeysKept ==
  ASSUME GoneInv, CalmInv, UNCHANGED <<jwks, calm, gone>>, age' = age \/ age' = 0,
         NEW r \in Request, proc'[r] = proc[r]
  PROVE  GoneAt(r)' /\ CalmAt(r)'
BY DEF GoneInv, CalmInv, GoneAt, CalmAt, At

\* A step that leaves the keys alone and leads to no fetch.
LEMMA OtherwiseKept ==
  ASSUME GoneInv, CalmInv, DataOK, NEW r \in Request, Others(r),
         UNCHANGED auth, proc'[r].pc \notin {"fetch", "store", "reread"}
  PROVE  GoneInv' /\ CalmInv'
<1>1. UNCHANGED <<jwks, calm, gone, keys, age>>
  BY DEF auth
<1>2. GoneAt(r)' /\ CalmAt(r)'
  BY DEF GoneAt, CalmAt, At
<1>3. \A q \in Request \ {r} : GoneAt(q)' /\ CalmAt(q)'
  BY <1>1, KeysKept DEF Others
<1> QED
  BY <1>1, <1>2, <1>3 DEF GoneInv, CalmInv, GoneAt, CalmAt, Published

\* The steps of the session check.
LEMMA SessionKeeps ==
  ASSUME GoneInv, CalmInv, DataOK, NEW r \in Request,
         Session(r) \/ Fetch(r) \/ Store(r) \/ Reread(r) \/ FetchFails(r)
  PROVE  GoneInv' /\ CalmInv'
<1>1. Others(r) /\ UNCHANGED <<jwks, calm, gone>>
  BY SessionEffect
<1>2. ASSUME GoneAt(r)', CalmAt(r)', age' = age \/ age' = 0,
             \A e \in keys' : gone[e.key] <= age' + Timeout,
             keys' = {} \/ keys' = JWKS[jwks.ver] \/ calm <= age' + Timeout
      PROVE  GoneInv' /\ CalmInv'
  <2>1. \A q \in Request \ {r} : GoneAt(q)' /\ CalmAt(q)'
    BY <1>1, <1>2, KeysKept DEF Others
  <2>2. \A q \in Request : GoneAt(q)' /\ CalmAt(q)'
    BY <1>2, <2>1
  <2>3. (\A k \in Key : Published(k) => gone[k] = 0)' /\ (~jwks.up => calm = 0)'
    BY <1>1 DEF GoneInv, CalmInv, Published
  <2> QED
    BY <1>1, <1>2, <2>2, <2>3 DEF GoneInv, CalmInv, GoneAt, CalmAt
<1>3. CASE proc'[r].pc \in {"idle", "bucket"} /\ UNCHANGED <<keys, age>>
  <2>1. UNCHANGED auth
    BY <1>1, <1>3 DEF auth
  <2> QED
    BY <1>1, <1>3, <2>1, OtherwiseKept
<1>4. CASE /\ proc'[r].pc = "fetch" /\ proc'[r].snap = keys /\ proc'[r].snapAge = age
           /\ UNCHANGED <<keys, age>>
  BY <1>1, <1>2, <1>4 DEF GoneInv, CalmInv, GoneAt, CalmAt, At
<1>5. CASE /\ proc'[r].pc = "store"
           /\ proc'[r].snap = JWKS[jwks.ver] /\ proc'[r].wait = proc[r].wait
           /\ UNCHANGED <<keys, age>>
  <2>1. \A e \in JWKS[jwks.ver] : gone[e.key] = 0
    <3>1. jwks.ver \in Versions
      BY Numeric
    <3>2. \A e \in JWKS[jwks.ver] : e.key \in Key /\ Published(e.key)
      BY <3>1, Answers DEF Published
    <3> QED
      BY <3>2 DEF GoneInv
  <2>2. 0 <= proc[r].wait
    BY Numeric
  <2>3. GoneAt(r)' /\ CalmAt(r)'
    BY <1>1, <1>5, <2>1, <2>2 DEF GoneAt, CalmAt, At
  <2> QED
    BY <1>1, <1>2, <1>5, <2>3 DEF GoneInv, CalmInv
<1>6. CASE /\ At(r, "store") /\ proc'[r].pc = "reread" /\ keys' = proc[r].snap /\ age' = 0
  <2>1. GoneAt(r)' /\ CalmAt(r)'
    BY <1>6 DEF GoneAt, CalmAt, At
  <2>2. \A e \in proc[r].snap : gone[e.key] <= proc[r].wait /\ gone[e.key] \in Nat
    BY <1>6, Numeric DEF GoneInv
  <2>3. proc[r].wait \in 0 .. Timeout /\ calm \in Nat
    BY Numeric
  <2>4. \A e \in keys' : gone[e.key] <= age' + Timeout
    BY <1>6, <2>2, <2>3
  <2>5. keys' = JWKS[jwks.ver] \/ calm <= age' + Timeout
    BY <1>6, <2>3 DEF CalmInv
  <2> QED
    BY <1>2, <1>6, <2>1, <2>4, <2>5
<1> QED
  BY <1>3, <1>4, <1>5, <1>6, SessionEffect

\* What was bounded by an age is so when both are older.
LEMMA OlderTogether ==
  ASSUME NEW g \in Nat, NEW h \in Nat, NEW n \in 0 .. MaxStale,
         g <= n + Timeout, h <= g + 1, h <= MaxStale + Timeout
  PROVE  h <= Older(n, MaxStale) + Timeout
BY DEF Older

\* Time: what is older for the keys is older for their age.
LEMMA TickKeeps ==
  ASSUME GoneInv, CalmInv, DataOK, DataOK', Tick
  PROVE  GoneInv' /\ CalmInv'
<1>1. /\ jwks' = jwks /\ keys' = keys /\ age' = Older(age, MaxStale)
      /\ calm' = IF jwks.up THEN Older(calm, TTL + Timeout) ELSE 0
      /\ gone' = [k \in Key |-> IF Withdrawn(k) THEN Older(gone[k], MaxStale + Timeout) ELSE 0]
  BY DEF Tick
<1>2. \A k \in Key : /\ gone'[k] \in Nat /\ gone[k] \in Nat
                     /\ gone'[k] <= gone[k] + 1 /\ gone'[k] <= MaxStale + Timeout
  <2> SUFFICES ASSUME NEW k \in Key
               PROVE  /\ gone'[k] \in Nat /\ gone[k] \in Nat
                      /\ gone'[k] <= gone[k] + 1 /\ gone'[k] <= MaxStale + Timeout
    OBVIOUS
  <2>1. MaxStale + Timeout \in Nat /\ gone[k] \in 0 .. MaxStale + Timeout
    BY Numeric
  <2>2. gone'[k] = Older(gone[k], MaxStale + Timeout) \/ gone'[k] = 0
    BY <1>1
  <2>3. /\ Older(gone[k], MaxStale + Timeout) \in 0 .. MaxStale + Timeout
        /\ Older(gone[k], MaxStale + Timeout) <= gone[k] + 1
    BY <2>1, Bounded
  <2> QED
    BY SMTT(30), <2>1, <2>2, <2>3
<1>3. /\ calm' \in Nat /\ calm \in Nat
      /\ calm' <= calm + 1 /\ calm' <= MaxStale + Timeout /\ (~jwks.up => calm' = 0)
  <2>1. TTL + Timeout \in Nat /\ calm \in 0 .. TTL + Timeout
    BY Numeric
  <2>2. /\ Older(calm, TTL + Timeout) \in 0 .. TTL + Timeout
        /\ Older(calm, TTL + Timeout) <= calm + 1
    BY <2>1, Bounded
  <2> QED
    BY SMTT(30), <1>1, <2>1, <2>2
<1>5. \A k \in Key : Published(k) => gone'[k] = 0
  <2>1. \A k \in Key : Published(k) => ~Withdrawn(k)
    BY DEF Published, Withdrawn
  <2> QED
    BY <1>1, <2>1
<1>6. \A e \in keys : gone'[e.key] <= age' + Timeout
  <2> SUFFICES ASSUME NEW e \in keys PROVE gone'[e.key] <= age' + Timeout
    OBVIOUS
  <2>1. e.key \in Key /\ gone[e.key] <= age + Timeout /\ age \in 0 .. MaxStale
    BY Numeric DEF GoneInv
  <2> QED
    BY <1>1, <1>2, <2>1, OlderTogether
<1>7. keys = {} \/ keys = JWKS[jwks.ver] \/ calm' <= age' + Timeout
  <2>1. age \in 0 .. MaxStale
    BY Numeric
  <2>2. keys = {} \/ keys = JWKS[jwks.ver] \/ calm <= age + Timeout
    BY DEF CalmInv
  <2> QED
    BY <1>1, <1>3, <2>1, <2>2, OlderTogether
<1>8. ASSUME NEW r \in Request
      PROVE  GoneAt(r)' /\ CalmAt(r)'
  <2>1. /\ At(r, "idle") \/ Fetching(r)
        /\ proc'[r].pc = proc[r].pc /\ proc'[r].snap = proc[r].snap
        /\ Fetching(r) => /\ proc'[r].wait = proc[r].wait + 1
                          /\ proc'[r].snapAge = Older(proc[r].snapAge, MaxStale)
    BY TickEffect
  <2>2. /\ proc[r].snapAge \in 0 .. MaxStale /\ proc[r].wait \in 0 .. Timeout
        /\ \A e \in proc[r].snap : e.key \in Key
    BY Numeric
  <2>3. CASE At(r, "idle")
    BY <2>1, <2>3 DEF GoneAt, CalmAt, At
  <2>4. CASE At(r, "fetch")
    <3>1. \A e \in proc[r].snap : gone[e.key] <= proc[r].snapAge + Timeout
      BY <2>4 DEF GoneInv
    <3>2. proc'[r].snapAge = Older(proc[r].snapAge, MaxStale)
      BY <2>1, <2>4 DEF At, Fetching
    <3>3. \A e \in proc[r].snap : gone'[e.key] <= proc'[r].snapAge + Timeout
      BY <1>2, <2>2, <3>1, <3>2, OlderTogether
    <3> QED
      BY <2>1, <2>4, <3>3 DEF GoneAt, CalmAt, At
  <2>5. CASE At(r, "store")
    <3>1. \A e \in proc[r].snap : gone[e.key] <= proc[r].wait
      BY <2>5 DEF GoneInv
    <3>2. proc'[r].wait = proc[r].wait + 1
      BY <2>1, <2>5 DEF At, Fetching
    <3>3. \A e \in proc[r].snap : gone'[e.key] <= proc'[r].wait
      <4> SUFFICES ASSUME NEW e \in proc[r].snap PROVE gone'[e.key] <= proc'[r].wait
        OBVIOUS
      <4>1. /\ gone[e.key] <= proc[r].wait /\ proc[r].wait \in Nat
            /\ gone'[e.key] \in Nat /\ gone[e.key] \in Nat /\ gone'[e.key] <= gone[e.key] + 1
        BY SMTT(30), <1>2, <2>2, <3>1
      <4> QED
        BY SMTT(30), <3>2, <4>1
    <3>4. proc[r].snap = JWKS[jwks.ver] \/ calm' <= proc'[r].wait
      BY SMTT(30), <1>3, <2>2, <2>5, <3>2 DEF CalmInv
    <3> QED
      BY <1>1, <2>1, <2>5, <3>3, <3>4 DEF GoneAt, CalmAt, At
  <2> QED
    BY <2>1, <2>3, <2>4, <2>5 DEF Fetching, At
<1>9. (\A k \in Key : Published(k) => gone[k] = 0)'
  BY <1>1, <1>5 DEF Published
<1> QED
  BY <1>1, <1>3, <1>6, <1>7, <1>8, <1>9 DEF GoneInv, CalmInv, GoneAt, CalmAt

\* The user-service: what it publishes is not withdrawn, and all is calm anew.
LEMMA UserServiceKeeps ==
  ASSUME GoneInv, CalmInv, DataOK, DataOK', UserService
  PROVE  GoneInv' /\ CalmInv'
<1>1. /\ calm' = 0 /\ keys' = keys /\ age' = age /\ proc' = proc
      /\ gone' = [k \in Key |-> IF \E e \in JWKS[jwks'.ver] : e.key = k THEN 0 ELSE gone[k]]
  BY DEF UserService
<1>2. \A k \in Key : gone[k] \in Nat /\ (gone'[k] = 0 \/ gone'[k] = gone[k])
  BY <1>1, Numeric
<1>3. (\A k \in Key : Published(k) => gone[k] = 0)'
  BY <1>1 DEF Published
<1>4. age \in Nat /\ \A r \in Request : proc[r].snapAge \in Nat /\ proc[r].wait \in Nat
  BY Numeric
<1>5. \A e \in keys : gone'[e.key] <= age + Timeout
  <2> SUFFICES ASSUME NEW e \in keys PROVE gone'[e.key] <= age + Timeout
    OBVIOUS
  <2>1. e.key \in Key /\ gone[e.key] <= age + Timeout
    BY Numeric DEF GoneInv
  <2> QED
    BY <1>2, <1>4, <2>1
<1>6. ASSUME NEW r \in Request
      PROVE  GoneAt(r)' /\ CalmAt(r)'
  <2>1. \A e \in proc[r].snap : e.key \in Key
    BY Numeric
  <2>2. At(r, "fetch") => \A e \in proc[r].snap : gone'[e.key] <= proc[r].snapAge + Timeout
    <3> SUFFICES ASSUME At(r, "fetch"), NEW e \in proc[r].snap
                 PROVE  gone'[e.key] <= proc[r].snapAge + Timeout
      OBVIOUS
    <3>1. e.key \in Key /\ gone[e.key] <= proc[r].snapAge + Timeout
      BY <2>1 DEF GoneInv
    <3> QED
      BY SMTT(30), <1>2, <1>4, <3>1
  <2>3. At(r, "store") => \A e \in proc[r].snap : gone'[e.key] <= proc[r].wait
    BY <1>2, <1>4, <2>1 DEF GoneInv
  <2>4. At(r, "reread") => age = 0
    BY DEF GoneInv
  <2> QED
    <3>1. GoneAt(r)'
      BY <1>1, <2>2, <2>3, <2>4 DEF GoneAt, At
    <3>2. CalmAt(r)'
      <4>1. calm' <= proc[r].wait
        BY <1>1, <1>4
      <4> QED
        BY <1>1, <4>1 DEF CalmAt
    <3> QED
      BY <3>1, <3>2
<1>7. calm' <= age' + Timeout
  BY <1>1, <1>4
<1> QED
  BY <1>1, <1>3, <1>5, <1>6, <1>7 DEF GoneInv, CalmInv, GoneAt, CalmAt

LEMMA KeysStep ==
  ASSUME GoneInv, CalmInv, DataOK, OrderInv, [Next]_vars
  PROVE  GoneInv' /\ CalmInv'
<1>1. ASSUME NEW r \in Request, NEW t \in Token, Arrive(r, t)
      PROVE  GoneInv' /\ CalmInv'
  <2>1. Others(r) /\ proc'[r].pc = "session" /\ UNCHANGED auth
    BY <1>1, ArriveEffect DEF Arrive
  <2> QED
    BY <2>1, OtherwiseKept
<1>2. ASSUME NEW r \in Request, NEW c \in Client, Track(r, c)
      PROVE  GoneInv' /\ CalmInv'
  <2>1. Others(r) /\ proc'[r].pc = "allow" /\ UNCHANGED auth
    BY <1>2, TrackEffect
  <2> QED
    BY <2>1, OtherwiseKept
<1>3. ASSUME NEW r \in Request, Allow(r)
      PROVE  GoneInv' /\ CalmInv'
  <2>1. Others(r) /\ proc'[r].pc \in {"idle", "ask"} /\ UNCHANGED auth
    BY <1>3, AllowEffect
  <2> QED
    BY <2>1, OtherwiseKept
<1>4. ASSUME NEW r \in Request,
             Ask(r) \/ Compare(r) \/ Build(r) \/ Publish(r) \/ Answer(r)
      PROVE  GoneInv' /\ CalmInv'
  <2>1. /\ Others(r) /\ UNCHANGED auth
        /\ proc'[r].pc \in {"compare", "answer", "build", "publish", "idle"}
    BY <1>4, LookupEffect
  <2> QED
    BY <2>1, OtherwiseKept
<1>5. CASE ZoneChanges \/ UNCHANGED vars
  <2>1. UNCHANGED <<jwks, calm, gone, keys, age, proc>>
    BY <1>5 DEF ZoneChanges, vars, auth
  <2> QED
    BY <2>1 DEF GoneInv, CalmInv, At, Published
<1>6. DataOK'
  BY DataStep
<1> QED
  BY <1>1, <1>2, <1>3, <1>4, <1>5, <1>6, SessionKeeps, TickKeeps, UserServiceKeeps DEF Next, Step

\* A request that is let through was accepted under keys it may rely on.
LEMMA PassedUnderKeys ==
  ASSUME GoneInv, CalmInv, DataOK, OrderInv, [Next]_vars,
         NEW r \in Request, OutdatedPass(r)
  PROVE  gone[proc[r].token.key] < MaxStale + Timeout /\ calm < TTL + Timeout
<1>0. /\ proc[r].pc \in {"session", "fetch", "reread"} /\ proc'[r].pc = "bucket"
      /\ ~Published(proc[r].token.key)
  BY DEF OutdatedPass, Withdrawn, Published
<1>1. Session(r) \/ Fetch(r) \/ Store(r) \/ Reread(r) \/ FetchFails(r)
  <2>1. ASSUME NEW q \in Request, q # r, Others(q)
        PROVE  FALSE
    BY <1>0, <2>1 DEF Others
  <2>2. ~\E q \in Request, t \in Token : Arrive(q, t)
    BY <1>0, <2>1, ArriveEffect
  <2>3. ASSUME NEW q \in Request, NEW c \in Client, Track(q, c)
        PROVE  FALSE
    BY <1>0, <2>1, <2>3, TrackEffect
  <2>4. ASSUME NEW q \in Request, Allow(q)
        PROVE  FALSE
    BY <1>0, <2>1, <2>4, AllowEffect
  <2>5. ASSUME NEW q \in Request, Ask(q) \/ Compare(q) \/ Build(q) \/ Publish(q) \/ Answer(q)
        PROVE  FALSE
    <3>1. Others(q) /\ (proc'[q].pc \in {"compare", "answer", "build", "publish", "idle"})
      BY <2>5, LookupEffect
    <3> QED
      BY <1>0, <2>1, <3>1
  <2>6. ASSUME NEW q \in Request, q # r,
               Session(q) \/ Fetch(q) \/ Store(q) \/ Reread(q) \/ FetchFails(q)
        PROVE  FALSE
    BY <2>1, <2>6, SessionEffect
  <2>7. ~Tick
    BY <1>0, TickEffect
  <2>8. ~(UserService \/ ZoneChanges \/ UNCHANGED vars)
    BY <1>0 DEF UserService, ZoneChanges, vars
  <2> QED
    BY <2>2, <2>3, <2>4, <2>5, <2>6, <2>7, <2>8 DEF Next, Step
<1>2. ASSUME NEW ks, Accepts(ks, proc[r].token)
      PROVE  ks # {} /\ ks # JWKS[jwks.ver] /\ \E e \in ks : e.key = proc[r].token.key
  BY <1>0, <1>2 DEF Accepts, Published
<1>3. /\ age \in 0 .. MaxStale /\ calm \in Nat /\ \A k \in Key : gone[k] \in Nat
      /\ proc[r].snapAge \in 0 .. MaxStale
      /\ \A e \in keys : e.key \in Key
      /\ \A e \in proc[r].snap : e.key \in Key
  BY Numeric
<1>4. CASE At(r, "session")
  <2>1. age < TTL /\ Accepts(keys, proc[r].token)
    BY <1>0, <1>1, <1>4, SessionEffect DEF At
  <2>2. calm <= age + Timeout
    BY <1>2, <2>1 DEF CalmInv
  <2>3. gone[proc[r].token.key] <= age + Timeout /\ gone[proc[r].token.key] \in Nat
    BY <1>2, <1>3, <2>1 DEF GoneInv
  <2> QED
    BY <1>3, <2>1, <2>2, <2>3
<1>5. CASE At(r, "fetch")
  <2>1. ~jwks.up /\ proc[r].snapAge < MaxStale /\ Accepts(proc[r].snap, proc[r].token)
    BY <1>0, <1>1, <1>5, SessionEffect DEF At
  <2>2. calm = 0
    BY <2>1 DEF CalmInv
  <2>3. gone[proc[r].token.key] <= proc[r].snapAge + Timeout /\ gone[proc[r].token.key] \in Nat
    BY <1>2, <1>3, <1>5, <2>1 DEF GoneInv
  <2>4. gone[proc[r].token.key] < MaxStale + Timeout
    <3>1. ASSUME NEW g \in Nat, NEW n \in Nat, n < MaxStale, g <= n + Timeout
          PROVE  g < MaxStale + Timeout
      BY <3>1
    <3>2. proc[r].snapAge \in Nat
      BY <1>3
    <3> QED
      BY <2>1, <2>3, <3>1, <3>2
  <2> QED
    BY <2>2, <2>4
<1>6. CASE At(r, "reread")
  <2>1. age = 0 /\ Accepts(keys, proc[r].token)
    BY <1>0, <1>1, <1>6, SessionEffect DEF At, GoneInv
  <2>2. calm <= age + Timeout
    BY <1>2, <2>1 DEF CalmInv
  <2>3. gone[proc[r].token.key] <= age + Timeout /\ gone[proc[r].token.key] \in Nat
    BY <1>2, <1>3, <2>1 DEF GoneInv
  <2> QED
    BY SMTT(30), <1>3, <2>1, <2>2, <2>3
<1> QED
  BY <1>0, <1>4, <1>5, <1>6 DEF At

LEMMA KeysHold == Spec => [](GoneInv /\ CalmInv)
<1>1. Init => GoneInv /\ CalmInv
  <2> SUFFICES ASSUME Init PROVE GoneInv /\ CalmInv
    OBVIOUS
  <2>1. /\ jwks = [ver |-> 1, up |-> TRUE] /\ calm = 0 /\ age = 0 /\ keys \in {{}, JWKS[1]}
        /\ \A k \in Key : gone[k] = 0
        /\ \A r \in Request : proc[r].pc = "idle"
    BY DEF Init, Idle
  <2>2. \A e \in keys : gone[e.key] = 0
    BY <2>1, Answers
  <2> QED
    BY <2>1, <2>2 DEF GoneInv, CalmInv, At
<1>2. GoneInv /\ CalmInv /\ (DataOK /\ OrderInv) /\ [Next]_vars => (GoneInv /\ CalmInv)'
  BY KeysStep
<1> QED
  BY <1>1, <1>2, TypesHold, PTL DEF Spec

\* A session signed with a withdrawn key ends at the latest jwksMaxStale and
\* one fetch after that, whatever fails and whoever else fetches.
THEOREM WithdrawnKeysEnd == Spec => WithdrawnKeyEnds
<1>1. (GoneInv /\ CalmInv) /\ (DataOK /\ OrderInv) /\ [Next]_vars
        => [\A r \in Request : OutdatedPass(r) => gone[proc[r].token.key] < MaxStale + Timeout]_vars
  BY PassedUnderKeys
<1> QED
  BY <1>1, KeysHold, TypesHold, PTL DEF Spec, WithdrawnKeyEnds

\* It ends within jwksTTL and one fetch when the user-service answers, in
\* whichever order concurrent refreshes store what they got.
THEOREM RotationsAreFollowed == Spec => RotationIsFollowed
<1>1. (GoneInv /\ CalmInv) /\ (DataOK /\ OrderInv) /\ [Next]_vars
        => [\A r \in Request : OutdatedPass(r) => calm < TTL + Timeout]_vars
  BY PassedUnderKeys
<1> QED
  BY <1>1, KeysHold, TypesHold, PTL DEF Spec, RotationIsFollowed

-----------------------------------------------------------------------------
(* The limiter *)

\* Pairs of a client and one of n numbers.
LEMMA Pairs ==
  ASSUME NEW S, IsFiniteSet(S), NEW n \in Nat
  PROVE  /\ Cardinality(S) \in Nat
         /\ IsFiniteSet(S \X (1 .. n))
         /\ Cardinality(S \X (1 .. n)) = Cardinality(S) * n
<1>1. 1 \in Int /\ n \in Int
  OBVIOUS
<1>2. IsFiniteSet(1 .. n) /\ Cardinality(1 .. n) = IF 1 > n THEN 0 ELSE n - 1 + 1
  BY <1>1, FS_Interval
<1>3. Cardinality(1 .. n) = n
  BY <1>2
<1> QED
  BY <1>2, <1>3, FS_Product, FS_CardinalityType

\* What is no more grows no further.
LEMMA Products ==
  /\ \A m, n, k \in Nat : m <= n => m * k <= n * k
  /\ \A m, n \in Nat : \A k \in Nat \ {0} : m * k <= n * k => m <= n
<1>1. ASSUME NEW m \in Nat, NEW n \in Nat, NEW k \in Nat, m <= n
      PROVE  m * k <= n * k
  <2>1. n * k = m * k + (n - m) * k /\ (n - m) * k >= 0 /\ (n - m) * k \in Nat /\ m * k \in Nat
    BY <1>1
  <2> QED
    BY <2>1
<1>2. ASSUME NEW m \in Nat, NEW n \in Nat, NEW k \in Nat \ {0}, m * k <= n * k, ~(m <= n)
      PROVE  FALSE
  <2>1. (n + 1) * k <= m * k /\ n + 1 \in Nat /\ n + 1 <= m
    BY <1>1, <1>2
  <2>2. (n + 1) * k = n * k + k /\ n * k \in Nat /\ m * k \in Nat
    OBVIOUS
  <2> QED
    BY <1>2, <2>1, <2>2
<1> QED
  BY <1>1, <1>2

\* The missing tokens can be counted.
LEMMA SpentFinite ==
  ASSUME LimitInv
  PROVE  IsFiniteSet(Spent) /\ Cardinality(Spent) \in Nat
<1>1. IsFiniteSet(came \X (1 .. Capacity)) /\ Spent \in SUBSET (came \X (1 .. Capacity))
  BY Pairs DEF LimitInv, Spent
<1> QED
  BY <1>1, FS_Subset, FS_CardinalityType

\* Whoever has a token is admitted: fewer tokens than the aggregate has are missing.
LEMMA TokenIsGood ==
  ASSUME LimitInv, DataOK, Few, NEW r \in Request, At(r, "allow"), tokens[proc[r].own] >= 1
  PROVE  aggregate >= 1
<1> DEFINE All == came \X (1 .. Capacity)
           c == proc[r].own[1]
           last == <<c, Capacity>>
<1>1. /\ c \in came /\ bucket[c] = proc[r].own /\ proc[r].own \in Bucket
      /\ AggCapacity - aggregate <= Cardinality(Spent)
      /\ tokens[bucket[c]] \in 0 .. Capacity /\ tokens[bucket[c]] >= 1
  BY DEF LimitInv, DataOK, Turn
<1>2. /\ IsFiniteSet(All) /\ Cardinality(All) = Cardinality(came) * Capacity
      /\ Cardinality(came) \in Nat
  BY Pairs DEF LimitInv
<1>3. last \in All /\ last \notin Spent
  <2>1. Capacity \in 1 .. Capacity /\ ~(Capacity <= Capacity - tokens[bucket[c]])
    BY <1>1
  <2> QED
    BY <1>1, <2>1 DEF Spent
<1>4. Spent \in SUBSET (All \ {last})
  BY <1>3 DEF Spent
<1> HIDE DEF All, last
<1>5. /\ IsFiniteSet(All \ {last})
      /\ Cardinality(All \ {last}) = Cardinality(All) - 1
  BY <1>2, <1>3, FS_RemoveElement
<1>6. Cardinality(Spent) <= Cardinality(All) - 1
  BY <1>4, <1>5, FS_Subset
<1>7. Cardinality(All) <= AggCapacity /\ Cardinality(All) \in Nat /\ aggregate \in Nat /\ Cardinality(Spent) \in Nat
  BY <1>2, FS_CardinalityType, SpentFinite DEF Few, DataOK
<1> QED
  BY <1>1, <1>6, <1>7

\* Nothing happens to the limiter, and nobody comes to it.
LEMMA LimitKept ==
  ASSUME LimitInv, UNCHANGED limiter,
         \A r \in Request : At(r, "allow")' => proc'[r] = proc[r]
  PROVE  LimitInv'
<1>1. UNCHANGED <<clients, bucket, tokens, aggregate, came>>
  BY DEF limiter
<1>2. Few' = Few /\ Spent' = Spent
  BY <1>1 DEF Few, Spent
<1> QED
  BY <1>1, <1>2 DEF LimitInv, At

\* A token of the aggregate is one of the client's.
LEMMA AllowKeeps ==
  ASSUME LimitInv, DataOK, OrderInv, NEW r \in Request, Allow(r)
  PROVE  LimitInv'
<1> DEFINE own == proc[r].own
           c == proc[r].own[1]
<1>1. /\ Others(r) /\ At(r, "allow") /\ proc'[r].pc \in {"idle", "ask"}
      /\ UNCHANGED <<clients, bucket, came>>
      /\ \/ tokens[own] < 1 /\ UNCHANGED <<tokens, aggregate>>
         \/ /\ tokens[own] >= 1
            /\ tokens' = [tokens EXCEPT ![own] = @ - 1]
            /\ \/ aggregate < 1 /\ UNCHANGED aggregate
               \/ aggregate >= 1 /\ aggregate' = aggregate - 1
  BY AllowEffect
<1>2. \A q \in Request : At(q, "allow")' => proc'[q] = proc[q]
  BY <1>1 DEF Others, At
<1>3. CASE tokens[own] < 1 /\ UNCHANGED <<tokens, aggregate>>
  BY <1>1, <1>2, <1>3, LimitKept DEF limiter
<1>4. CASE /\ tokens[own] >= 1
           /\ tokens' = [tokens EXCEPT ![own] = @ - 1]
           /\ \/ aggregate < 1 /\ UNCHANGED aggregate
              \/ aggregate >= 1 /\ aggregate' = aggregate - 1
  <2>1. Few' = Few
    BY <1>1 DEF Few
  <2>2. ASSUME Few
        PROVE  AggCapacity - aggregate' <= Cardinality(Spent')
    <3>1. aggregate >= 1 /\ aggregate' = aggregate - 1
      <4>1. aggregate >= 1
        BY <1>1, <1>4, <2>2, TokenIsGood
      <4> QED
        BY <1>4, <4>1 DEF DataOK
    <3>2. c \in came /\ bucket[c] = own /\ own \in Bucket
      BY <1>1, <2>2 DEF LimitInv, DataOK, Turn
    <3>3. \A d \in came : bucket[d] \in Bucket /\ (d # c => bucket[d] # own)
      BY <2>2, <3>2 DEF LimitInv, OrderInv
    <3>4. tokens \in [Bucket -> 0 .. Capacity]
      BY DEF DataOK
    <3>5. /\ tokens[own] \in 0 .. Capacity /\ tokens'[own] = tokens[own] - 1
          /\ \A d \in came : d # c => tokens'[bucket[d]] = tokens[bucket[d]]
      BY <1>4, <3>2, <3>3, <3>4
    <3> DEFINE s == <<c, Capacity - tokens[own] + 1>>
    <3>6. s \in came \X (1 .. Capacity) /\ s \notin Spent
      <4>1. Capacity - tokens[own] + 1 \in 1 .. Capacity /\ ~(Capacity - tokens[own] + 1 <= Capacity - tokens[own])
        BY <1>4, <3>5
      <4> QED
        BY <3>2, <4>1 DEF Spent
    <3>7. Spent \cup {s} \subseteq Spent'
      <4>1. ASSUME NEW x \in came, NEW i \in 1 .. Capacity, i <= Capacity - tokens[bucket[x]]
            PROVE  i <= Capacity - tokens'[bucket[x]]
        <5>1. tokens[bucket[x]] \in 0 .. Capacity /\ tokens'[bucket[x]] <= tokens[bucket[x]] /\ tokens'[bucket[x]] \in Int
          <6>1. CASE x = c
            <7>1. tokens[bucket[x]] = tokens[own] /\ tokens'[bucket[x]] = tokens'[own]
              BY <3>2, <6>1
            <7> QED
              BY <3>5, <7>1
          <6>2. CASE x # c
            <7>1. tokens'[bucket[x]] = tokens[bucket[x]] /\ tokens[bucket[x]] \in 0 .. Capacity
              BY <3>3, <3>4, <3>5, <6>2
            <7> QED
              BY <7>1
          <6> QED
            BY <6>1, <6>2
        <5> QED
          BY <4>1, <5>1
      <4>2. Capacity - tokens[own] + 1 <= Capacity - tokens'[bucket[c]]
        BY <3>2, <3>5
      <4>3. s \in Spent'
        BY <1>1, <3>6, <4>2 DEF Spent
      <4>4. Spent \subseteq Spent'
        BY <1>1, <4>1 DEF Spent
      <4> QED
        BY <4>3, <4>4
    <3>8. /\ IsFiniteSet(Spent) /\ Cardinality(Spent) \in Nat
          /\ IsFiniteSet(Spent')
      <4>1. IsFiniteSet(came \X (1 .. Capacity)) /\ Spent' \in SUBSET (came \X (1 .. Capacity))
        BY <1>1, Pairs DEF LimitInv, Spent
      <4> QED
        BY <4>1, SpentFinite, FS_Subset
    <3>9. Cardinality(Spent \cup {s}) = Cardinality(Spent) + 1
      BY <3>6, <3>8, FS_AddElement
    <3>10. Cardinality(Spent \cup {s}) <= Cardinality(Spent')
      BY <3>7, <3>8, FS_Subset
    <3>11. Cardinality(Spent') \in Nat /\ aggregate \in Nat /\ AggCapacity - aggregate <= Cardinality(Spent)
      BY <2>2, <3>8, FS_CardinalityType DEF LimitInv, DataOK
    <3> QED
      BY <3>1, <3>8, <3>9, <3>10, <3>11
  <2> QED
    BY <1>1, <1>2, <2>1, <2>2 DEF LimitInv, At
<1> QED
  BY <1>1, <1>3, <1>4

\* A tick refills the aggregate by no less than the buckets of the clients.
LEMMA TickRefills ==
  ASSUME LimitInv, DataOK, DataOK', OrderInv, Tick
  PROVE  LimitInv'
<1>1. /\ UNCHANGED <<bucket, came>>
      /\ tokens' = [b \in Bucket |-> Refilled(tokens[b], Rate, Capacity)]
      /\ aggregate' = Refilled(aggregate, AggRate, AggCapacity)
  BY DEF Tick, Refill
<1>2. \A r \in Request : ~At(r, "allow")'
  BY TickEffect DEF At, Fetching
<1>3. Few' = Few
  BY <1>1 DEF Few
<1>4. ASSUME Few
      PROVE  AggCapacity - aggregate' <= Cardinality(Spent')
  <2> DEFINE missing(c) == Capacity - tokens'[bucket[c]]
             Back == Spent \ Spent'
             step == [s \in Back |-> <<s[1], s[2] - missing(s[1])>>]
  <2>1. ASSUME NEW c \in came
        PROVE  /\ tokens[bucket[c]] \in 0 .. Capacity /\ tokens'[bucket[c]] \in 0 .. Capacity
               /\ tokens'[bucket[c]] <= tokens[bucket[c]] + Rate
    <3>1. bucket[c] \in Bucket
      BY <1>4 DEF LimitInv, OrderInv
    <3>2. /\ tokens[bucket[c]] \in 0 .. Capacity
          /\ tokens'[bucket[c]] = Refilled(tokens[bucket[c]], Rate, Capacity)
      BY <1>1, <3>1 DEF DataOK
    <3>3. \A n \in 0 .. Capacity : Refilled(n, Rate, Capacity) \in 0 .. Capacity /\ Refilled(n, Rate, Capacity) <= n + Rate
      BY DEF Refilled
    <3> QED
      BY <3>2, <3>3
  <2>2. /\ Spent = {s \in came \X (1 .. Capacity) : s[2] <= Capacity - tokens[bucket[s[1]]]}
        /\ Spent' = {s \in came \X (1 .. Capacity) : s[2] <= missing(s[1])}
    BY <1>1 DEF Spent
  <2>3. ASSUME NEW s \in Back
        PROVE  s[1] \in came /\ s[2] - missing(s[1]) \in 1 .. Rate
    <3>1. /\ s[1] \in came /\ s[2] \in 1 .. Capacity
          /\ s[2] <= Capacity - tokens[bucket[s[1]]] /\ ~(s[2] <= missing(s[1]))
      BY <2>2, <2>3
    <3>2. /\ tokens[bucket[s[1]]] \in 0 .. Capacity /\ tokens'[bucket[s[1]]] \in 0 .. Capacity
          /\ tokens'[bucket[s[1]]] <= tokens[bucket[s[1]]] + Rate
      BY <2>1, <3>1
    <3>3. ASSUME NEW t \in 0 .. Capacity, NEW u \in 0 .. Capacity, NEW i \in 1 .. Capacity,
                 u <= t + Rate, i <= Capacity - t, ~(i <= Capacity - u)
          PROVE  i - (Capacity - u) \in 1 .. Rate
      BY <3>3
    <3> QED
      BY <3>1, <3>2, <3>3
  <2>4. ASSUME NEW s \in Back, NEW t \in Back, step[s] = step[t]
        PROVE  s = t
    <3>1. s[1] = t[1] /\ s[2] - missing(s[1]) = t[2] - missing(t[1])
      BY <2>4
    <3>2. /\ s = <<s[1], s[2]>> /\ t = <<t[1], t[2]>> /\ s[2] \in Int /\ t[2] \in Int
          /\ s[1] \in came
      BY <2>2
    <3>3. missing(s[1]) = missing(t[1]) /\ missing(s[1]) \in Int
      BY <2>1, <3>1, <3>2
    <3>4. s[2] = t[2]
      <4> HIDE DEF missing
      <4> QED
        BY <3>1, <3>2, <3>3
    <3> QED
      BY <3>1, <3>2, <3>4
  <2>5. step \in [Back -> came \X (1 .. Rate)]
    BY <2>3
  <2> HIDE DEF step
  <2>6. step \in Injection(Back, came \X (1 .. Rate))
    BY <2>4, <2>5 DEF Injection, IsInjective
  <2>7. /\ IsFiniteSet(came \X (1 .. Rate)) /\ Cardinality(came) \in Nat
        /\ Cardinality(came \X (1 .. Rate)) = Cardinality(came) * Rate
    BY Pairs DEF LimitInv
  <2>8. Cardinality(Back) <= Cardinality(came) * Rate
    BY <2>6, <2>7, FS_Injection
  <2>9. /\ IsFiniteSet(Spent) /\ Cardinality(Spent) \in Nat
        /\ IsFiniteSet(Spent')
    <3>1. IsFiniteSet(came \X (1 .. Capacity)) /\ Spent' \in SUBSET (came \X (1 .. Capacity))
      BY <2>2, Pairs DEF LimitInv
    <3> QED
      BY <3>1, SpentFinite, FS_Subset
  <2>10. /\ Cardinality(Back) = Cardinality(Spent) - Cardinality(Spent \cap Spent')
         /\ IsFiniteSet(Back)
    BY <2>9, FS_Difference
  <2>11. Cardinality(Spent \cap Spent') <= Cardinality(Spent')
    BY <2>9, FS_Intersection
  <2>12. /\ Cardinality(Spent \cap Spent') \in Nat /\ Cardinality(Spent') \in Nat
         /\ Cardinality(Back) \in Nat
    BY <2>9, <2>10, FS_Intersection, FS_CardinalityType
  <2>13. /\ Cardinality(came) * Rate <= AggRate /\ AggCapacity - aggregate <= Cardinality(Spent)
         /\ Cardinality(came) * Rate \in Nat /\ aggregate \in 0 .. AggCapacity
    <3>1. \A n \in Nat : n * Rate \in Nat
      OBVIOUS
    <3>2. Cardinality(came) * Rate \in Nat
      BY <2>7, <3>1
    <3> QED
      BY <1>4, <3>2 DEF Few, LimitInv, DataOK
  <2>14. aggregate' = AggCapacity \/ aggregate' = aggregate + AggRate
    BY <1>1 DEF Refilled
  <2> HIDE DEF Back
  <2> QED
    BY <2>8, <2>9, <2>10, <2>11, <2>12, <2>13, <2>14
<1> QED
  BY <1>1, <1>2, <1>3, <1>4 DEF LimitInv

\* As many clients as have a bucket are tracked.
LEMMA AllTracked ==
  ASSUME LimitInv, OrderInv, Few
  PROVE  Len(clients) = Cardinality(came) /\ Cardinality(came) \in Nat
<1>1. /\ Len(clients) \in Nat /\ DOMAIN clients = 1 .. Len(clients)
      /\ \A i \in DOMAIN clients : clients[i] \in Client
  BY DEF OrderInv
<1>2. \A c : c \in came <=> \E i \in DOMAIN clients : clients[i] = c
  <2>1. \A c \in Client : c \in came <=> bucket[c] # None
    BY DEF LimitInv
  <2>2. came \subseteq Client
    BY DEF LimitInv
  <2> QED
    BY <1>1, <2>1, <2>2 DEF OrderInv
<1> DEFINE f == [i \in 1 .. Len(clients) |-> clients[i]]
<1>3. f \in Surjection(1 .. Len(clients), came)
  BY <1>1, <1>2 DEF Surjection
<1>4. f \in Injection(1 .. Len(clients), came)
  <2>1. f \in [1 .. Len(clients) -> came]
    BY <1>1, <1>2
  <2>2. \A i, j \in 1 .. Len(clients) : f[i] = f[j] => i = j
    BY <1>1 DEF OrderInv
  <2> QED
    BY <2>1, <2>2 DEF Injection, IsInjective
<1> HIDE DEF f
<1>5. IsFiniteSet(1 .. Len(clients)) /\ Cardinality(1 .. Len(clients)) = Len(clients)
  <2>1. 1 \in Int /\ Len(clients) \in Int
    BY <1>1
  <2>2. /\ IsFiniteSet(1 .. Len(clients))
        /\ Cardinality(1 .. Len(clients)) = IF 1 > Len(clients) THEN 0 ELSE Len(clients) - 1 + 1
    BY <2>1, FS_Interval
  <2> QED
    BY <1>1, <2>2
<1>6. Cardinality(came) = Cardinality(1 .. Len(clients))
  BY <1>3, <1>4, <1>5, FS_Surjection
<1> QED
  BY <1>1, <1>5, <1>6

\* Nobody is evicted while few have come: the buckets of the others stay.
LEMMA TrackKeeps ==
  ASSUME LimitInv, DataOK, OrderInv, NEW r \in Request, NEW c \in Client, Track(r, c)
  PROVE  LimitInv'
<1>1. /\ Others(r) /\ proc'[r].pc = "allow"
      /\ proc'[r].own \in Bucket /\ proc'[r].own[1] = c /\ bucket'[c] = proc'[r].own
      /\ bucket[c] # None => bucket'[c] = bucket[c]
      /\ bucket' \in [Client -> Bucket \cup {None}]
      /\ \A d \in Client \ {c} :
           bucket'[d] = IF bucket[c] = None /\ Len(clients) >= MaxTracked /\ d = Head(clients)
                        THEN None ELSE bucket[d]
      /\ tokens' = [b \in Bucket |->
           IF (b = bucket'[b[1]] /\ b = bucket[b[1]]) \/ Held(r, b) THEN tokens[b] ELSE Capacity]
      /\ came' = came \cup {c} /\ aggregate' = aggregate
  BY TrackEffect
<1>2. /\ came' \in SUBSET Client /\ IsFiniteSet(came')
      /\ Cardinality(came') = IF c \in came THEN Cardinality(came) ELSE Cardinality(came) + 1
      /\ Cardinality(came) \in Nat /\ Cardinality(came') \in Nat
  <2>1. came \in SUBSET Client /\ IsFiniteSet(came)
    BY DEF LimitInv
  <2>2. /\ IsFiniteSet(came \cup {c})
        /\ Cardinality(came \cup {c}) = IF c \in came THEN Cardinality(came) ELSE Cardinality(came) + 1
    BY <2>1, FS_AddElement
  <2> QED
    BY <1>1, <2>1, <2>2, FS_CardinalityType
<1>3. \A d \in Client : bucket'[d] # None => d \in came'
  BY <1>1 DEF LimitInv
<1>4. ASSUME Few'
      PROVE  /\ \A d \in came' : bucket'[d] # None
             /\ \A q \in Request : At(q, "allow")' =>
                  proc'[q].own # None /\ proc'[q].own[1] \in came' /\ proc'[q].own = bucket'[proc'[q].own[1]]
             /\ AggCapacity - aggregate' <= Cardinality(Spent')
  <2>1. Few
    <3>1. Cardinality(came) <= Cardinality(came')
      BY <1>2
    <3>2. /\ Cardinality(came) * Capacity <= Cardinality(came') * Capacity
          /\ Cardinality(came) * Rate <= Cardinality(came') * Rate
      BY <1>2, <3>1, Products
    <3>3. Cardinality(came') * Capacity <= AggCapacity /\ Cardinality(came') * Rate <= AggRate
      BY <1>4 DEF Few
    <3>4. /\ Cardinality(came) * Capacity \in Nat /\ Cardinality(came') * Capacity \in Nat
          /\ Cardinality(came) * Rate \in Nat /\ Cardinality(came') * Rate \in Nat
      BY SMTT(30), <1>2
    <3> QED
      BY <3>2, <3>3, <3>4 DEF Few
  <2>2. Cardinality(came') <= MaxTracked
    <3>1. Cardinality(came') * Capacity <= AggCapacity
      BY <1>4 DEF Few
    <3>2. Cardinality(came') * Capacity \in Nat /\ MaxTracked * Capacity \in Nat
      BY <1>2
    <3>3. Cardinality(came') * Capacity <= MaxTracked * Capacity
      BY <3>1, <3>2
    <3> QED
      BY <1>2, <3>3, Products
  <2>3. bucket[c] = None => c \notin came /\ Len(clients) < MaxTracked
    <3>1. bucket[c] = None => c \notin came
      BY <2>1 DEF LimitInv
    <3>2. Len(clients) = Cardinality(came)
      BY <2>1, AllTracked
    <3> QED
      BY <1>2, <2>2, <3>1, <3>2
  <2>4. \A d \in Client : bucket[d] # None => bucket'[d] = bucket[d]
    <3>1. \A d \in Client \ {c} : bucket'[d] = bucket[d]
      <4>1. ~(bucket[c] = None /\ Len(clients) >= MaxTracked)
        <5>1. Len(clients) \in Nat
          BY DEF OrderInv
        <5> QED
          BY <2>3, <5>1
      <4> QED
        BY <1>1, <4>1
    <3> QED
      BY <1>1, <3>1
  <2>5. \A d \in came' : bucket'[d] # None
    <3>1. \A d \in came : d \in Client /\ bucket[d] # None
      BY <2>1 DEF LimitInv
    <3>2. bucket'[c] # None
      BY <1>1
    <3> QED
      BY <1>1, <2>4, <3>1, <3>2
  <2>6. ASSUME NEW q \in Request, At(q, "allow")'
        PROVE  proc'[q].own # None /\ proc'[q].own[1] \in came' /\ proc'[q].own = bucket'[proc'[q].own[1]]
    <3>1. CASE q = r
      BY <1>1, <3>1
    <3>2. CASE q # r
      <4>1. proc'[q] = proc[q] /\ At(q, "allow")
        BY <1>1, <2>6, <3>2 DEF Others, At
      <4>2. proc[q].own # None /\ proc[q].own[1] \in came /\ proc[q].own = bucket[proc[q].own[1]]
        BY <2>1, <4>1 DEF LimitInv
      <4>3. proc[q].own[1] \in Client
        BY <4>2 DEF LimitInv
      <4> QED
        BY <1>1, <2>4, <4>1, <4>2, <4>3
    <3> QED
      BY <3>1, <3>2
  <2>7. \A d \in came : bucket'[d] = bucket[d] /\ tokens'[bucket'[d]] = tokens[bucket[d]]
    <3> SUFFICES ASSUME NEW d \in came PROVE bucket'[d] = bucket[d] /\ tokens'[bucket'[d]] = tokens[bucket[d]]
      OBVIOUS
    <3>1. d \in Client /\ bucket[d] # None
      BY <2>1 DEF LimitInv
    <3>2. bucket[d] \in Bucket /\ bucket[d][1] = d /\ bucket'[d] = bucket[d]
      BY <2>4, <3>1 DEF OrderInv
    <3> QED
      BY <1>1, <3>2
  <2>8. Spent \subseteq Spent'
    BY <1>1, <2>7 DEF Spent
  <2>9. IsFiniteSet(Spent')
    <3>1. IsFiniteSet(came' \X (1 .. Capacity)) /\ Spent' \in SUBSET (came' \X (1 .. Capacity))
      BY <1>2, Pairs DEF Spent
    <3> QED
      BY <3>1, FS_Subset
  <2>10. /\ Cardinality(Spent) <= Cardinality(Spent')
         /\ Cardinality(Spent) \in Nat /\ Cardinality(Spent') \in Nat
    BY <2>8, <2>9, SpentFinite, FS_Subset, FS_CardinalityType
  <2>11. AggCapacity - aggregate <= Cardinality(Spent) /\ aggregate \in Nat
    BY <2>1 DEF LimitInv, DataOK
  <2>12. AggCapacity - aggregate' <= Cardinality(Spent')
    BY <1>1, <2>10, <2>11
  <2> QED
    BY <2>5, <2>6, <2>12
<1> QED
  BY <1>2, <1>3, <1>4 DEF LimitInv

LEMMA LimitStep ==
  ASSUME LimitInv, DataOK, OrderInv, [Next]_vars
  PROVE  LimitInv'
<1>1. ASSUME NEW r \in Request, Others(r), proc'[r].pc # "allow", UNCHANGED limiter
      PROVE  LimitInv'
  <2>1. \A q \in Request : At(q, "allow")' => proc'[q] = proc[q]
    BY <1>1 DEF Others, At
  <2> QED
    BY <1>1, <2>1, LimitKept
<1>2. ASSUME NEW r \in Request, NEW t \in Token, Arrive(r, t)
      PROVE  LimitInv'
  <2>1. Others(r) /\ proc'[r].pc = "session" /\ UNCHANGED limiter
    BY <1>2, ArriveEffect DEF Arrive
  <2> QED
    BY <1>1, <2>1
<1>3. ASSUME NEW r \in Request,
             Session(r) \/ Fetch(r) \/ Store(r) \/ Reread(r) \/ FetchFails(r)
      PROVE  LimitInv'
  <2>1. Others(r) /\ proc'[r].pc # "allow" /\ UNCHANGED limiter
    BY <1>3, SessionEffect
  <2> QED
    BY <1>1, <2>1
<1>4. ASSUME NEW r \in Request,
             Ask(r) \/ Compare(r) \/ Build(r) \/ Publish(r) \/ Answer(r)
      PROVE  LimitInv'
  <2>1. Others(r) /\ proc'[r].pc # "allow" /\ UNCHANGED limiter
    BY <1>4, LookupEffect
  <2> QED
    BY <1>1, <2>1
<1>5. CASE UserService \/ ZoneChanges \/ UNCHANGED vars
  <2>1. UNCHANGED limiter /\ proc' = proc
    BY <1>5 DEF UserService, ZoneChanges, vars
  <2> QED
    BY <2>1, LimitKept
<1>6. DataOK'
  BY DataStep
<1> QED
  BY <1>2, <1>3, <1>4, <1>5, <1>6, TrackKeeps, AllowKeeps, TickRefills DEF Next, Step

\* A noisy client costs the others nothing as long as no more clients have come
\* than the aggregate has capacities for: then nobody has been evicted, because
\* LimitAssumption tracks as many clients as that, and the aggregate misses no
\* more tokens than the clients' own buckets do.  Beyond that number, and after
\* an eviction, from which a client comes back with a full bucket, the code
\* promises less, and the theorem says nothing.
THEOREM NoisyPaysForItself == Spec => []NoisyPaysAlone
<1>1. Init => LimitInv
  <2> SUFFICES ASSUME Init PROVE LimitInv
    OBVIOUS
  <2>1. /\ came = {} /\ aggregate = AggCapacity
        /\ \A c \in Client : bucket[c] = None
        /\ \A r \in Request : proc[r].pc = "idle"
    BY DEF Init, Idle
  <2>2. Spent = {}
    BY <2>1 DEF Spent
  <2>3. AggCapacity - aggregate <= Cardinality(Spent)
    BY <2>1, <2>2, FS_EmptySet
  <2>4. came \in SUBSET Client /\ IsFiniteSet(came)
    BY <2>1, FS_EmptySet
  <2> QED
    BY <2>1, <2>3, <2>4 DEF LimitInv, At
<1>2. LimitInv /\ (DataOK /\ OrderInv) /\ [Next]_vars => LimitInv'
  BY LimitStep
<1>3. LimitInv /\ (DataOK /\ OrderInv) => NoisyPaysAlone
  BY TokenIsGood DEF NoisyPaysAlone, Few
<1> QED
  BY <1>1, <1>2, <1>3, TypesHold, PTL DEF Spec
=============================================================================
