------------------------------ MODULE Fetcher -------------------------------
(***************************************************************************)
(* The fetcher service: preload (ensure_url behind PilotCache) and cached  *)
(* reads, as jobs that run in threads and talk to the asset store and to   *)
(* an origin by HTTP.  Every call is a step of its own, so that another    *)
(* job, an administrator, the lifecycle worker, a change at the origin or  *)
(* a restart of the asset store may come between any two.  The asset store *)
(* is seen through the answers client.py distinguishes: an alias is free,  *)
(* or bound to an asset that is pending, available, expired or deleted,    *)
(* and stays bound whatever becomes of the asset until it is detached.     *)
(* Bytes are abstract contents; equal contents have equal size and         *)
(* checksum.                                                               *)
(***************************************************************************)
EXTENDS Integers, FiniteSets

CONSTANTS
  Urls,         \* approved targets, one canonical alias each
  Contents,     \* what an origin can serve
  Images,       \* those within the byte limit and of an image type
  Jobs,         \* worker threads
  Kinds,        \* requests made: "preload", "refetch" (with no_cache), "read",
                \* and "ensure", the route without PilotCache
  MaxInflight,  \* FETCHER_MAX_INFLIGHT_JOBS
  MaxAssets,    \* bound on the assets an alias is ever given, hence on detaches
  MaxMishaps,   \* bound: times the store forgets its capabilities, or the answer
                \* to a mint never arrives
  Disturb,      \* what others do: "origin", "import", "expire", "detach", "outage"
  None

ASSUME FetcherAssumption ==
  /\ Images \subseteq Contents /\ IsFiniteSet(Jobs)
  /\ Kinds \subseteq {"preload", "refetch", "ensure", "read"}
  /\ MaxInflight \in Nat \ {0} /\ MaxAssets \in Nat \ {0} /\ MaxMishaps \in Nat
  /\ None \notin Nat \cup Contents \cup Jobs \cup Urls

VARIABLES
  origin,   \* what each origin serves now
  alias,    \* alias[u]: "free" or the state of the asset it is bound to
  id,       \* id[u]: that asset; assets of an alias are numbered in order
  content,  \* content[u][n]: the committed bytes of asset n, None before
  valid,    \* read capabilities the asset store honours
  outages,  \* times it has forgotten them
  read_capability, \* PilotCache: the token in use
  minted, lost,    \* tokens the asset store has granted, and answers that got lost
  token_lock,               \* PilotCache._lock
  pc, kind, url,            \* of a job
  found,    \* the asset id its lookup returned
  body,     \* the bytes it has fetched or read
  token, retried,           \* the token it presents, and after one 403
  hit       \* cache_hit of its answer

store == <<alias, id, content>>
tokens == <<read_capability, minted, lost, token_lock>>
request == <<kind, url>>
fetcherVars == <<origin, store, valid, outages, tokens, pc, request, found, body, token,
                 retried, hit>>
world == <<origin, valid, outages>>

Goto(j, next) == pc' = [pc EXCEPT ![j] = next]
\* What a job has learned is dropped with it.
Forget(j) ==
  /\ found' = [found EXCEPT ![j] = None] /\ body' = [body EXCEPT ![j] = None]
  /\ token' = [token EXCEPT ![j] = None] /\ retried' = retried \ {j} /\ hit' = hit \ {j}
\* The job raises, and the request is answered with an error status: 404 for a
\* miss, 409, 413, 502 or 503 (_backend_error); no property tells them apart.
Fail(j) == Goto(j, "failed") /\ Forget(j)
Finished == {"stored", "read", "failed"}

-----------------------------------------------------------------------------
(* Requests *)

\* WorkAdmission: a slot for the whole job, or 503 at once.
Start(j, k, u) ==
  /\ pc[j] = "idle" /\ k \in Kinds
  /\ Cardinality({i \in Jobs : pc[i] \notin {"idle"} \cup Finished}) < MaxInflight
  /\ Goto(j, "resolve")
  /\ kind' = [kind EXCEPT ![j] = k] /\ url' = [url EXCEPT ![j] = u]
  /\ UNCHANGED <<world, store, tokens, found, body, token, retried, hit>>

\* The response is sent.
Respond(j) ==
  /\ pc[j] \in Finished /\ Goto(j, "idle")
  /\ kind' = [kind EXCEPT ![j] = None] /\ url' = [url EXCEPT ![j] = None]
  /\ Forget(j) /\ UNCHANGED <<world, store, tokens>>

\* GET /resolve: the asset, None (404), or an error status.
Lookup(u) ==
  CASE alias[u] = "available" -> "200"
    [] alias[u] \in {"free", "deleted"} -> "404"
    [] alias[u] = "expired" -> "410"
    [] alias[u] = "pending" -> "409"

\* Any other error of a call: rate, capacity and connection (503), quota (413),
\* a write capability that is gone or a failing store (502).
Refused(j) ==
  /\ pc[j] \in {"resolve", "mint_write", "put", "reresolve", "get"}
  /\ Fail(j)
  /\ UNCHANGED <<world, store, tokens, request>>

\* A conflict on the alias; PilotCache looks again, the plain route gives up.
Conflict(j) ==
  IF kind[j] = "ensure" THEN Fail(j)
  ELSE Goto(j, "reresolve") /\ UNCHANGED <<found, body, token, retried, hit>>

-----------------------------------------------------------------------------
(* preload: ensure_url, and the recovery from 409 *)

\* The first lookup: a hit ends a plain preload.
Resolve(j) ==
  LET u == url[j] IN
  /\ pc[j] = "resolve" /\ kind[j] # "read"
  /\ CASE Lookup(u) = "200" ->
            /\ found' = [found EXCEPT ![j] = id[u]]
            /\ IF kind[j] = "refetch" THEN Goto(j, "fetch") /\ UNCHANGED hit
               ELSE Goto(j, "stored") /\ hit' = hit \cup {j}
            /\ UNCHANGED <<body, token, retried>>
       [] Lookup(u) = "404" -> Goto(j, "fetch") /\ UNCHANGED <<found, body, token, retried, hit>>
       [] Lookup(u) = "409" -> Conflict(j)
       [] OTHER -> Fail(j)
  /\ UNCHANGED <<world, store, tokens, request>>

\* The origin answers, with what it serves at that moment; the pilot takes images.
Fetch(j) ==
  LET c == origin[url[j]] IN
  /\ pc[j] = "fetch"
  /\ IF c \in Images \/ kind[j] = "ensure"
     THEN /\ body' = [body EXCEPT ![j] = c]
          /\ Goto(j, IF found[j] # None THEN "compare" ELSE "mint_write")
          /\ UNCHANGED <<found, token, retried, hit>>
     ELSE Fail(j)
  /\ UNCHANGED <<world, store, tokens, request>>
FetchFails(j) ==
  /\ pc[j] = "fetch" /\ Fail(j)
  /\ UNCHANGED <<world, store, tokens, request>>

\* Forced refetch: the checksum registered at lookup against the fresh bytes.
Compare(j) ==
  /\ pc[j] = "compare"
  /\ IF body[j] = content[url[j]][found[j]]
     THEN Goto(j, "stored") /\ UNCHANGED <<found, body, token, retried, hit>>
     ELSE Fail(j)
  /\ UNCHANGED <<world, store, tokens, request>>

MintWrite(j) ==
  /\ pc[j] = "mint_write" /\ Goto(j, "put")
  /\ UNCHANGED <<world, store, tokens, request, found, body, token, retried, hit>>

\* PUT /objects, in the asset store: the alias is reserved ...
PutReserve(j) ==
  LET u == url[j] IN
  /\ pc[j] = "put"
  /\ IF alias[u] = "free"
     THEN /\ alias' = [alias EXCEPT ![u] = "pending"] /\ id' = [id EXCEPT ![u] = @ + 1]
          /\ found' = [found EXCEPT ![j] = id'[u]]
          /\ Goto(j, "writing") /\ UNCHANGED <<content, body, token, retried, hit>>
     ELSE Conflict(j) /\ UNCHANGED store
  /\ UNCHANGED <<world, tokens, request>>

\* ... and bytes and row committed; the answer may get lost on its way back.
PutCommit(j, delivered) ==
  LET u == url[j] IN
  /\ pc[j] = "writing" /\ id[u] = found[j] /\ alias[u] = "pending"
  /\ alias' = [alias EXCEPT ![u] = "available"]
  /\ content' = [content EXCEPT ![u][found[j]] = body[j]]
  /\ IF delivered THEN Goto(j, "stored") /\ UNCHANGED <<found, body, token, retried, hit>>
     ELSE Fail(j)
  /\ UNCHANGED <<world, id, tokens, request>>

\* ... or the upload fails, and its clean-up leaves the alias on a deleted asset.
PutFails(j) ==
  LET u == url[j] IN
  /\ pc[j] = "writing"
  /\ alias' = IF id[u] = found[j] /\ alias[u] = "pending"
              THEN [alias EXCEPT ![u] = "deleted"] ELSE alias
  /\ Fail(j)
  /\ UNCHANGED <<world, id, content, tokens, request>>

\* Mutant: any asset the alias is bound to is taken for the winner.
Reresolve_AnyState(j) ==
  LET u == url[j] IN
  /\ pc[j] = "reresolve"
  /\ IF alias[u] # "free"
     THEN /\ found' = [found EXCEPT ![j] = id[u]]
          /\ Goto(j, "stored") /\ hit' = hit \cup {j}
          /\ UNCHANGED <<body, token, retried>>
     ELSE Fail(j)
  /\ UNCHANGED <<world, store, tokens, request>>

\* After a 409: a concurrent writer may have committed.
Reresolve(j) ==
  LET u == url[j] IN
  /\ pc[j] = "reresolve"
  /\ IF Lookup(u) = "200"
     THEN /\ found' = [found EXCEPT ![j] = id[u]]
          /\ Goto(j, "stored") /\ hit' = hit \cup {j}
          /\ UNCHANGED <<body, token, retried>>
     ELSE Fail(j)
  /\ UNCHANGED <<world, store, tokens, request>>

-----------------------------------------------------------------------------
(* Cached reads *)

\* The registered metadata: size within the limit, an image type.
ReadResolve(j) ==
  LET u == url[j] IN
  /\ pc[j] = "resolve" /\ kind[j] = "read"
  /\ IF Lookup(u) = "200" /\ content[u][id[u]] \in Images
     THEN /\ found' = [found EXCEPT ![j] = id[u]] /\ Goto(j, "token")
          /\ UNCHANGED <<body, token, retried, hit>>
     ELSE Fail(j)
  /\ UNCHANGED <<world, store, tokens, request>>

\* Mutant: the stale token is not compared with the one in use.
NeedsMint_Always(j) == read_capability = None \/ j \in retried

NeedsMint(j) == read_capability = None \/ (j \in retried /\ read_capability = token[j])

\* _read_token takes the lock, and keeps it while it mints.
ReadToken(j) ==
  /\ pc[j] = "token" /\ token_lock = None
  /\ IF NeedsMint(j)
     THEN token_lock' = j /\ Goto(j, "mint_read") /\ UNCHANGED token
     ELSE /\ token' = [token EXCEPT ![j] = read_capability]
          /\ Goto(j, "get") /\ UNCHANGED token_lock
  /\ UNCHANGED <<world, store, read_capability, minted, lost, request, found, body, retried, hit>>

MintRead(j) ==
  /\ pc[j] = "mint_read" /\ Goto(j, "get")
  /\ minted' = minted + 1 /\ read_capability' = minted' /\ valid' = valid \cup {minted'}
  /\ token' = [token EXCEPT ![j] = minted'] /\ token_lock' = None
  /\ UNCHANGED <<origin, outages, store, lost, request, found, body, retried, hit>>

\* The store grants the capability, and the answer is lost or comes too late: it
\* counts there, and this service never learns the token.
MintReadLost(j) ==
  /\ pc[j] = "mint_read" /\ outages + lost < MaxMishaps /\ Fail(j) /\ token_lock' = None
  /\ minted' = minted + 1 /\ valid' = valid \cup {minted'} /\ lost' = lost + 1
  /\ UNCHANGED <<origin, outages, store, read_capability, request>>

\* Mutant: the lock is not released on an exception.
MintReadFails_KeepsLock(j) ==
  /\ pc[j] = "mint_read" /\ Fail(j)
  /\ UNCHANGED <<world, store, tokens, request>>

\* The mint is refused, for rate or capacity, or never gets there: the exception
\* leaves the with block.
MintReadFails(j) ==
  /\ pc[j] = "mint_read" /\ Fail(j) /\ token_lock' = None
  /\ UNCHANGED <<world, store, read_capability, minted, lost, request>>

\* GET /objects: an unknown or expired token is 403, renewed once.
ReadObject(j) ==
  LET u == url[j] IN
  /\ pc[j] = "get"
  /\ IF token[j] \notin valid
     THEN IF j \in retried THEN Fail(j)
          ELSE /\ Goto(j, "token") /\ retried' = retried \cup {j}
               /\ UNCHANGED <<found, body, token, hit>>
     ELSE IF Lookup(u) = "200"
     THEN /\ body' = [body EXCEPT ![j] = content[u][id[u]]] /\ Goto(j, "verify")
          /\ token' = [token EXCEPT ![j] = None] /\ retried' = retried \ {j}
          /\ UNCHANGED <<found, hit>>
     ELSE Fail(j)
  /\ UNCHANGED <<world, store, tokens, request>>

\* Mutant: the bytes are passed on as they come.
Verify_Trusting(j) ==
  /\ pc[j] = "verify" /\ Goto(j, "read")
  /\ UNCHANGED <<world, store, tokens, request, found, body, token, retried, hit>>

\* Size and checksum against what the lookup returned.
Verify(j) ==
  /\ pc[j] = "verify"
  /\ IF body[j] = content[url[j]][found[j]]
     THEN Goto(j, "read") /\ UNCHANGED <<found, body, token, retried, hit>>
     ELSE Fail(j)
  /\ UNCHANGED <<world, store, tokens, request>>

-----------------------------------------------------------------------------
(* Everyone else *)

Others == <<tokens, pc, request, found, body, token, retried, hit>>

OriginChanges(u, c) ==
  /\ "origin" \in Disturb /\ origin' = [origin EXCEPT ![u] = c]
  /\ UNCHANGED <<valid, outages, store, Others>>

\* Another client of the asset store writes under the alias.
Import(u, c) ==
  /\ "import" \in Disturb /\ alias[u] = "free"
  /\ alias' = [alias EXCEPT ![u] = "available"] /\ id' = [id EXCEPT ![u] = @ + 1]
  /\ content' = [content EXCEPT ![u][id'[u]] = c]
  /\ UNCHANGED <<world, Others>>

\* The asset expires, or is deleted, or the worker gives up on a reservation.
Retire(u, s) ==
  /\ "expire" \in Disturb
  /\ \/ alias[u] = "available" /\ s = "expired"
     \/ alias[u] \in {"available", "expired", "pending"} /\ s = "deleted"
  /\ alias' = [alias EXCEPT ![u] = s]
  /\ UNCHANGED <<world, id, content, Others>>

\* An administrator detaches the alias; the name is free after its grace period.
Detach(u) ==
  /\ "detach" \in Disturb /\ alias[u] # "free" /\ id[u] < MaxAssets
  /\ alias' = [alias EXCEPT ![u] = "free"]
  /\ UNCHANGED <<world, id, content, Others>>

\* The store restarts, or its read capabilities expire.
Outage ==
  /\ "outage" \in Disturb /\ outages + lost < MaxMishaps /\ valid # {}
  /\ valid' = {} /\ outages' = outages + 1
  /\ UNCHANGED <<origin, store, Others>>

-----------------------------------------------------------------------------
FetcherInit ==
  /\ origin \in [Urls -> Images]
  /\ alias = [u \in Urls |-> "free"] /\ id = [u \in Urls |-> 0]
  /\ content = [u \in Urls |-> [n \in 1..MaxAssets |-> None]]
  /\ valid = {} /\ outages = 0
  /\ read_capability = None /\ minted = 0 /\ lost = 0 /\ token_lock = None
  /\ pc = [j \in Jobs |-> "idle"]
  /\ kind = [j \in Jobs |-> None] /\ url = [j \in Jobs |-> None]
  /\ found = [j \in Jobs |-> None] /\ body = [j \in Jobs |-> None]
  /\ token = [j \in Jobs |-> None] /\ retried = {} /\ hit = {}

\* A job's next step; the ones that only fail are not needed for progress.
Work(j) ==
  \/ Resolve(j) \/ Fetch(j) \/ Compare(j) \/ MintWrite(j) \/ PutReserve(j)
  \/ PutCommit(j, TRUE) \/ PutFails(j) \/ Reresolve(j)
  \/ ReadResolve(j) \/ ReadToken(j) \/ MintRead(j) \/ MintReadFails(j)
  \/ ReadObject(j) \/ Verify(j) \/ Respond(j)
Faults(j) == Refused(j) \/ FetchFails(j) \/ PutCommit(j, FALSE) \/ MintReadLost(j)

FetcherNext ==
  \/ \E j \in Jobs, k \in Kinds, u \in Urls : Start(j, k, u)
  \/ \E j \in Jobs : Work(j) \/ Faults(j)
  \/ \E u \in Urls, c \in Contents : OriginChanges(u, c) \/ Import(u, c)
  \/ \E u \in Urls : Detach(u) \/ \E s \in {"expired", "deleted"} : Retire(u, s)
  \/ Outage

FetcherSpec == FetcherInit /\ [][FetcherNext]_fetcherVars

\* Threads run, HTTP calls end (with an answer or by timeout), and the token lock
\* reaches each of the waiting threads.
FetcherFairSpec == FetcherSpec /\ \A j \in Jobs : SF_fetcherVars(Work(j))

\* A caller follows the advice of a miss as often as it takes: it preloads each
\* URL again and again, and every call of the preload is answered.
Persistent ==
  \A j \in Jobs :
     /\ \A u \in Urls : SF_fetcherVars(Start(j, "preload", u))
     /\ SF_fetcherVars(Resolve(j)) /\ SF_fetcherVars(Fetch(j)) /\ SF_fetcherVars(MintWrite(j))
     /\ SF_fetcherVars(PutReserve(j)) /\ SF_fetcherVars(PutCommit(j, TRUE))
     /\ SF_fetcherVars(Reresolve(j))
RemedySpec == FetcherFairSpec /\ Persistent

-----------------------------------------------------------------------------
(* Properties *)

\* A cached read returns the bytes of the asset its lookup named, whatever was
\* detached, expired or stored again between the lookup and the GET: never the
\* type and checksum of one asset with the bytes of another.
ReadMatchesAsset ==
  \A j \in Jobs : pc[j] = "read" =>
     body[j] # None /\ body[j] = content[url[j]][found[j]] /\ body[j] \in Images

\* A preload names a committed asset, never another job's reservation, which may
\* still fail; and with cache_hit false it vouches for the origin: the bytes it
\* fetched are the bytes of the asset it names, also when other jobs preload the
\* same URL and the origin changes meanwhile (B-020).
StoredMeansFetched ==
  \A j \in Jobs : pc[j] = "stored" =>
    LET stored == content[url[j]][found[j]] IN
    stored # None /\ (j \notin hit => body[j] = stored)

\* However many reads meet a 403 together, the asset store is made to grant (and
\* to charge, and to keep) one read capability more only for every time it forgot
\* them and for every answer that got lost: readers do not mint beside each other.
MintedOnce == minted <= outages + lost + 1

\* Every job ends: no failure leaves the token lock held.
JobsEnd == \A j \in Jobs : pc[j] # "idle" ~> pc[j] = "idle"

\* A read of what is not cached answers "image is not cached; preload it first":
\* a caller that keeps preloading gets the image cached.
MissRemediable == \A u \in Urls : alias[u] # "available" ~> alias[u] = "available"
=============================================================================
