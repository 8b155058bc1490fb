# TLA+ verification of the asset store and its fetcher

This directory models the two services of the repository: the asset store
(`src/asset_store_core`: registry, quotas, storage guard, object store, lifecycle
worker, HTTP gateway) and the fetcher (`src/fetcher_service`), the client that
fills the `cache` space from the web, and the batch clients under `tools/`. TLC
checks the models on small instances; TLAPS proves the theorems of the eight
`*Proofs` modules for every value of the constants. `PROJECT.json` is the index:
components, runs, mutants, the map from definitions to source lines, findings,
hazards and theorems.

    tlc -workers 2 -config Registry.cfg MCRegistry          # a run
    tlapm AssetStoreProofs.tla                              # the proofs of a module

## 1. The system

| Part | State | Operations | Talks to |
|---|---|---|---|
| Registry (`registry.py`, `pg_registry.py`) | assets with state `pending / available / expired / deleted`, aliases (mutable or not), tombstones of detached names, quota limits and usage counters | reserve, commit, attach, detach, rebind, expire, delete, set TTL (also restore), lifecycle_update, set quotas | in memory, or PostgreSQL transactions at READ COMMITTED |
| Storage guard (`guard.py`) | none of its own | write_object (reserve, PUT, commit, clean-up on failure), read_bytes, presign_read | registry, object store, capabilities |
| Object store (`object_store.py`, `s3_object_store.py`) | bytes by storage key | put, get, delete, presign | disk or S3 |
| Lifecycle worker (`lifecycle.py`) | the plan of the running sweep | snapshot, recheck under the row lock, expire or fence, delete bytes, mark purged | registry, object store |
| Gateway (`api/app.py`, `capabilities.py`, `issuance_rate.py`, `admission.py`) | bearer store, single-use ledger, token buckets, leases; all lost on restart | mint, PUT, GET (proxy or presigned), cancel | guard, audit log |
| Fetcher (`service.py`, `pilot.py`, `client.py`) | one shared read capability under a lock, admission of jobs | ensure-url, preload, refetch, cached read | asset store by HTTP, origins |
| Bulk loader and worker (`tools/bulk-loader`, `tools/worker-sim`) | row or input, attempt, report | mint, PUT with retries, read and check inputs, publish a manifest | asset store by HTTP |
| Outbound fetch (`fetcher.py`, `transport.py`) | connection pool | redirects, policy, name lookup, dialling | name service, origins |

Requests run in threads; the worker is another process; each talks to the
database in transactions and to the object store outside any transaction's
control. What is hard follows from that:

* bytes and rows live in two stores and cannot be changed together, and a process
  can die between any two calls;
* the worker decides on a snapshot and acts later;
* the Postgres registry reads without locks in several places and relies on the
  order of its statements;
* counters (usage, tokens, leases) are adjusted by hand in many operations;
* a checked fact (single use, availability of a name, remaining lifetime, the
  addresses of a host) is used some time after it was checked;
* several reads or preloads of the same thing meet at the same moment;
* a request given up by its sender may still take effect, and an answer may be lost
  after it did.

The hazard list in `PROJECT.json` puts each of these at its line with the
properties that watch it.

### What makes each part correct

* **Registry**: the two copies of the alias relation agree; names stay under their
  partition; counters are exactly what is available; ceilings hold for every
  admission; the lifecycle only moves forward; grace periods are kept; the last
  detach retires the asset.
* **Asset store as a whole**: a committed payload is there, unchanged, as long as
  it can be served or restored; bytes are erased only behind a durable fence; no
  bytes are forgotten; a failed upload or sweep finishes later.
* **Postgres registry**: the same under interleaved transactions; deadlocks only of the
  known kinds, which PostgreSQL breaks; every transaction gives its connection back.
* **Lifecycle worker**: a pass makes room or reports that it cannot; nothing is
  evicted without need, however old the plan is; a bucket that has been settled is
  left alone while its expired bytes wait for the end of their grace.
* **Clients**: what a report or a manifest says is true, and every run ends.
* **Gateway**: mint rate, capacity and audit; upload slots; single use.
* **Fetcher**: answers are true of what is stored; reads never mix two assets; one
  lost capability, or one lost answer, costs one mint; jobs end; outbound connections go only where the
  policy allows.

## 2. The modules

| Module | Models | Notes |
|---|---|---|
| `Registry` | `InMemoryAssetRegistry` | one atomic action per operation; a rejected call is no step |
| `AssetLife` | what clients are promised of a payload | abstract specification |
| `AssetStore` (extends `Registry`) | guard, object store, worker and administrative routes over the registry | a step per transaction or store call; row locks held across store calls; deaths anywhere |
| `Gateway` | minting, capabilities, ledger, leases | a step per critical section and per reading of the clock |
| `Eviction` | `plan_sweep` and the rechecks of `run_sweep`, with uploads, reads and limits that change meanwhile | the plan is one step, the recheck and the write of each action two more |
| `PgAliases` | alias operations of `PostgresAssetRegistry`, raw reservations, the admin mutation route, the connection pool | a step per SQL statement |
| `PgQuota` | quota admission of `PostgresAssetRegistry` | a step per SQL statement |
| `Fetcher` | preload, refetch and read jobs | a step per HTTP call |
| `Clients` | bulk loader and worker over an unreliable network | a step per request, answer, loss and time-out; the server's write in two |
| `Outbound` | one outbound fetch and its connection pool | a step per lookup, connection attempt and response |
| `AssetStoreProofs` | theorems about `Registry` and `AssetStore` | see section 5 |
| `GatewayProofs`, `EvictionProofs`, `PgAliasesProofs`, `PgQuotaProofs`, `FetcherProofs`, `ClientsProofs`, `OutboundProofs` | theorems about the module each is named after | see section 5 |
| `MC*` | the constants of the small instances, symmetry | |

**Registry.** The variables are the fields of `Asset`, `AliasBinding`,
`PartitionQuota` and `BucketQuota` that some operation reads back, as functions on
asset ids, names, partitions and spaces. The 105 % and 95 % ceilings are compared
in hundredths of a byte, so no fraction is rounded. `Under[p]` is what
`_alias_under_partition` accepts; partitions may nest (`p1` and `p1/x`), so a name
may lie under two. `Total` counts (asset, unit) pairs instead of adding up a
recursion, which is what makes the accounting provable; `MCRegistry` asserts that
it is the usual sum. Time is needed only for tombstones. Audit events,
annotations, MIME types and read counters are never consulted and are left out.

**AssetStore.** Time is abstracted to `due`, the set of assets whose deadline,
pending timeout or grace period is over; the plan may also hold assets picked
for eviction, and any asset may be picked: what is shown here does not depend on the
choice, which `Eviction` models. `stale` holds the planned assets whose row is no
longer what the snapshot showed, which is the `current != asset` comparison of
`run_sweep`. A PUT may fail with or without its bytes in the store, and in the
second case (`late`) the bytes may still arrive at any later moment; the death of an
uploader or of the worker frees the row and keeps the bytes.

**Eviction.** `Plan` is `plan_sweep` in its order: deadlines, pending timeouts and
purges by age; then each partition over its trigger, in order, down to its target; then
each bucket whose projected occupancy is over its trigger. Victims go by score (days
since the last read times size), then id, and a pass never selects an asset twice.
Percentages are compared in hundredths. An action is `Recheck`, which locks the asset's
row and reads the quota rows without locking them, and `Apply`, which writes; while
`checked` holds, nobody else writes that row, but everybody else goes on, and `gone` and
`relimited` remember what they took out of service and whose limits they changed. An
action that raises (`ActionFails`) is rolled back and left to the next pass. `calm`
records that since the snapshot nobody added to the store or changed a limit, a policy
or a deadline, that nobody read a planned asset or retired one while the pass ran, and
that no action failed, which is what "settled" means. A pending row may be retired too:
`void` is expired without ever having been committed. Bytes are counted in (asset, unit)
pairs, as in `Registry`; `MCEviction` and `MCPgQuota` assert that this is the usual sum.
A purge is one step that succeeds or leaves the asset deleted; its two transactions are
in `AssetStore`.

**Clients.** The server's side of PUT is reservation and commit as two steps, so a name
can be taken by an upload that later fails, which is what the code leaves behind. A
request in `wire` may be lost, or served after its client has timed out. Clients see
only status codes. A manifest with a header and no rows is reported as a success at
once; the run's manifests have rows, the proof covers both. A payload is one of two
values with distinct checksums.

**Gateway.** One capability is presented for its own alias, so scopes are left out. The
guard looks at a capability twice, at the grant (`Capability.require`) and at the ledger
(`assert_unused`), each with its own reading of the clock; the two are steps of their
own in the PUT handler, in the worker thread and in a read, and the clock may tick
between them. PUT handlers run on the event loop, so none of them is interrupted between
its authorization and its lease by another (`LoopFree`), while threads go on beside
them. `limit` is any of `Limits`, chosen at the start. Presigned reads change nothing
here: they end without a use being recorded. Tokens are counted in sixtieths, so the
refill is integral. `since[i][s]` is a history variable: mints of `i` admitted since
time `s`.

**PgAliases, PgQuota.** A plain SELECT reads committed tables, an UPDATE, DELETE
or FOR UPDATE waits for the row and keeps it to the end, an INSERT waits for a
transaction that is inserting or deleting the same key. Writes appear at commit.
`PgAliases` has the deadlock detector as an action and the pool as a counter: a unit
of work begins when a connection is free and gives it back at its end, and the
detach nested in the admin route runs on its thread's own. In `PgQuota` a detach has
the row of its name before it takes asset, partition and bucket, the other way round than
a sized reservation, so the two can deadlock; assets there have one name, and the admin
route and assets of several names are the business of `PgAliases`. A transaction of
`PgQuota` may be rolled back at any point, which is also how a deadlock ends.

**Fetcher.** The asset store is what `client.py` can tell apart: the alias is free
or bound to a pending, available, expired or deleted asset. Bytes are abstract
contents, equal contents have equal checksum. A mint may be refused, or granted with
the answer lost on its way: then the store has one grant more and this service no token.

**Outbound.** A name's answer may change between the preflight lookup and the
connection and while a connection is kept alive.

## 3. The runs

| Run | Instance | Shows |
|---|---|---|
| `registry` | 2 assets, 2 nested partitions, 2 names, grace 1, 1 tick; sizes 10 and 11, quotas 20 and 21, a count of 1, capacity 22 | names, counters, lifecycle, grace, last name, ceilings |
| `store_races` | 2 assets, 2 names, 1 uploader, 1 reader, administrators, worker, 1 fault, late PUTs | all safety of `AssetStore`, what the reader gets, and the refinement of `AssetLife` |
| `store_progress` | 2 assets, 1 name, 1 uploader, worker, 1 fault | uploads return, payloads are reclaimed, reservations resolve |
| `gateway` | 1 identity, 2 capabilities, capacity 1, burst 1, 2 requests, 1 or 2 upload slots, 2 s, 1 restart | rate, capacity, audit, slots, single use; slots are given back |
| `pg_aliases` | 2 transactions, a pool of 2, 5 assets (3 of them reserved raw, two with the same two names in opposite orders, one with a name of its own that can be detached), 6 names, six operations | last detach, no name taken over, deadlocks only of the known kinds, pool |
| `pg_quota` | 3 transactions, 2 assets, 2 partitions, 2 sizes, all operations | ceilings, counters, no circular wait but of a reservation with a detach |
| `fetcher` | 2 jobs of every kind, 1 URL, an image and a page, 2 generations of the asset, 1 mishap (an outage or a lost answer) | truth of answers and reads, minting, jobs end |
| `eviction` | 3 assets of 3, 5 and 10 bytes in 2 partitions of a bucket of 20, quota 8 or none, 1 day, 1 touch | relief or report, settled buckets, no eviction that was not needed at its recheck, over-quota partitions relieved |
| `clients` | a load of 2 rows for one name, 1 retry; 2 attempts at a task of 2 inputs under one prefix | truth of reports and manifests, runs end |
| `outbound` | 2 hosts, 3 addresses, 3 URLs, 1 redirect | peers, hops, termination |

The remaining runs (`pg_rebind`, `fetcher_remedy`) end in
a counterexample; section 6 explains them.

*Why the bounds are enough to be interesting.* Two assets allow one to be charged while
the other is released and a name to move between them; one tick is enough for a name
detached at the start to leave its grace period of one and be used again. The sizes of
`registry` sit at the edges: 10 + 11 = 21 equals the partition's hard ceiling of 105 %
of 20 and the bucket's quota, and exceeds 95 % of the capacity of 22. Two detaching
transactions race for the last name of an asset with two; two transactions also suffice
for both deadlocks, and fill the pool of two. Three transactions in `pg_quota` allow a
cycle longer than two. One fault is enough to separate fence, deletion and mark, and a
second sweep then meets the rest. With capacity 1 and a lifetime of 2 s the second
capability meets a full store, and a store full of expired entries; the clock stops when
the first capability has expired, which may be between the two checks of any request.
With one slot a cancelled upload is all it takes to admit one too many; with two, two
uploads share a capability. An image and a page differ in bytes and type, which is what
a stale or mixed answer needs, and the alias can be detached and given a second asset
between any two calls. The policy of the one identity of `gateway` allows both
operations, and with a credit a second an attempt is refused only within the second of
the one before; mints that the policy refuses, which keep their charge, and refusals
that keep part of a refill are covered by the proof of `RateSafe`. In `eviction` all 18
bytes are at the trigger of 90 % of 20 and under the 95 % at which uploads are refused,
and the two assets of partition 1 fill its quota of 8. The mark of 70 % lies between
what is left when the larger of these two has gone and when the smaller has, so that a
retirement during a pass can make a planned eviction needless, or take away the room the
pass counted on. One day and one touch are enough for a score to change, a row to be
restored or a limit to be lifted between snapshot and action. In `clients` the second
row meets the first one's name with other bytes, the retry meets the first try's, and
each worker may lose any of its names to the other at any stage. Deadlock checking is
off where the instance may really run out (all ids used, clock at its bound, nothing
left to do).

Every property of a passing run has a mutant: a changed form of one mapped
definition, written beside it, under which TLC finds the property violated.

## 4. Fairness

* `AssetStore`: weak fairness of each upload step, of the worker and of time.
  Threads run, `--interval` brings the worker round again, row locks are held only
  across steps that themselves are fair. Faults and edits of annotations are bounded by
  `MaxFaults`. An endless attach and detach of a second name would make every sweep skip
  the asset, and nothing in the worker prevents it; the instance of `store_progress` has
  one name, so there this cannot happen, and its properties say nothing about it.
* `Gateway`: strong fairness of a worker thread and of its request's return, weak
  fairness of a PUT handler up to its next await. Threads run, and the event loop gets to
  every callback that is ready; a return is disabled only while another handler runs.
  Nothing is asked of clients.
* `Eviction`: weak fairness of the worker's next step, for the reason above; touches
  are bounded by `MaxTouches`.
* `Clients`: weak fairness of each client's next step: its HTTP library times out.
  Nothing is asked of the network or of the server.
* `PgAliases`: strong fairness of a transaction's next step, since PostgreSQL
  queues waiters for a row, and its deadlock detector is part of that step.
* `Fetcher`: strong fairness of a job's next step: HTTP calls end with an answer or
  a timeout, and the token lock reaches each waiting thread. `RemedySpec` adds a
  caller that preloads again and again and an asset store that keeps answering.
* `Outbound`: weak fairness of the fetching thread; sockets answer or time out.

## 5. The proofs

Every safety property that a passing run checks (31 of 40) is also a theorem, for any constants
that satisfy the `ASSUME` of the module. Each follows from an inductive invariant; a
lemma per part of it has one case per action. The sums and cardinalities the counters
are compared with get lemmas of their own (`TotalAdd`, `SumAdd`, `BytesLeft`, ...:
what adding or removing one member does).

**Registry** (`AssetStoreProofs`). The invariant is `StructInv`: types, agreement of
the alias index with the assets' lists, partition of names, and what the byte fields
say about the state. None of the four is inductive alone: an operation that changes
an asset through `binding[k]` needs to know that the asset exists and lists `k`,
and commit needs to know that a pending asset has no size. `StructureSafe` proves
it; `TypeCorrect` and `NamesSafe` are corollaries. `AccountingSafe` adds the counters:
`UsageUnmoved`, `UsageEnter` and `UsageLeave` say what an operation does to every
partition and bucket when no asset, one entering or one leaving asset is involved, and
`UsageStep` assigns each operation to one of the three. The decrement's clamp at zero
is harmless because a counter is at least the size of any available asset.
`CeilingsSafe` compares what is promised and held before and after a step: no
operation but the three admissions adds to it (`NoMorePromised`, `NoMoreHeld`), and an
admission adds exactly what it tested (`PromisedAfter`, `HeldAfter`). `LifecycleSafe`,
`GraceSafe` and `LastNameSafe` are action properties that follow from `StructInv`.

**Asset store** (`AssetStoreProofs`). Every action of the store conjoins one of the
registry or leaves it alone, so `StructInv` is available here by construction
(`RegistryStep`). `StoreInv` adds to it who owns the bytes: an upload between PUT and
commit has locked a pending row and the object is the payload it reserved room for
(`UploadsOwned`); a clean-up or a sweep that has erased the object still holds the row,
which is deleted and not yet marked (`Erased`, `SweepOwned`); what may still arrive late
is the payload of its own row (`LateIsPayload`); and `PayloadKept` and `BytesTracked`
themselves. `SettledStep` collects what both need when one row moves and the bytes stay,
`ByteSteps` the steps that change bytes. `BytesSafe` is a corollary and `FenceSafe` an
action property from it. `PayloadSafe` adds the readers, who hold no lock: the asset a
reader has found was committed, so its row only moves on (`LifecycleKept`), its bytes go
only when it is deleted (`FenceKept`), and no PUT, however late, puts other bytes in
their place (`ReadersKept`). `DecisionsSafe` rests on `PlanInv`: a planned asset whose
row has not changed since the snapshot still has the reason it was planned for.
`PromiseKept` is the refinement of `AssetLife`: `OneAssetMoves` says that a step moves
at most one asset, and `PromiseStep` maps that move to an abstract step.

**Gateway**. `RateSafe`: for every start `s` of a window, credit spent since
`s` plus credit left is at most a burst plus the refill from `s` to the last update
(`Account`). The bound on spending alone is not inductive, since it forgets the
credit still there. `AdmissionSafe`: a lease is held exactly in the program
locations from admission to return (`AdmInv`), hence threads are no more than
leases. `BearersSafe`: capacity and audit of the bearer store (`BearerInv`), with
the audit written in the critical section that publishes the grant. `SingleUseSafe`
needs `UseInv`: what is written with a capability, and the uploads that hold a slot and
may still write with it, together fit the slots; until a use is recorded, each write is of
a thread that has still to record it; and while a handler has cleared an upload and has no
slot yet, each write is of a thread that still holds one (`Uses`). An upload cleared after
a use was recorded came through because the capability had expired, and `write_object`
refuses its grant (`Late`): so only those `ahead` of the recording may still pass.
`SpentSafe` follows.

**Eviction**. `EvictionInv` says of a calm pass that no planned row is stale, that
each planned action is needed after the ones before it (`Needed(i)`, with `Prior(i)`
gone), and that what the pass leaves is below the target or was reported (`Relief`).
Of every pass, calm or not, it says that a checked action is on a row nobody has changed
since the snapshot, and was needed when what has `gone` since is counted back (`Window`).
For the plan itself, `EvictedEnough` and `EvictedNeeded` argue from the first remaining
asset in the order of victims, which is well founded on a finite set, and `PlanShape`
says where in the plan each kind of action stands. `ReliefSafe`, `SettledSafe` and
`NeedSafe` are the three properties.

**Postgres registry**. `NamesKept` and `LastNameMarks` start from `LocksInv`, which
locks a transaction holds at each program location; `MarksInv` adds what is still true
of what it has read (`Seen`), and that the count of remaining names, taken under the
asset's lock, is still right when the transaction commits (`Counted`). `DeadlocksKnown`:
from the locks held at each location (`HoldsInv`), whoever waits while others wait for
its alias row is a detach or rebind that waits for its asset, or a reservation; whoever
waits while others wait for its asset row is the admin route or an attach (`WaitKinds`).
A circle without the latter consists of reservations. `WaitsEnd`: all but a detach take
rows in the order asset, partition, bucket, name, so a circle of any length needs a
reservation waiting for the name a detach has (`AccessInv`, `TxnLocks`).
`CountersExact`: counters are written under those locks. `CeilingsKept` needs
`Admitted`: while the quota rows are locked, the sums that were checked can only have
shrunk.

**Fetcher**. `ReadsMatch` and `PreloadsVouch`: committed bytes are never overwritten, so
what a job has learnt about the asset it found stays true (`Claim`). `MintsBounded`:
mints are at most the outages and the lost answers, plus one when the current token is
valid; a job that is about to mint holds the lock, and the current token is not valid
(`TokensInv`).

**Clients**. `ClientsInv` relates the three places a fact can be: a request in flight was
made by the client at its present or an earlier row or stage (`Made`), an answer stands
for a name committed with those bytes (`Committed`), and the report lists only such
names. `ReportsTrue` and `ManifestsVouch` follow, with any loss, delay and reordering.

**Outbound**. `EgressSafe`: an address reaches a connection only together with the check
it passed, also when the connection is kept alive and used for a later hop.

*What the proofs assume of the constants* is what the code gives: finite sets of ids,
markers such as `None` that are no value of the program, uploads, readers and the worker
being different actors, capacities that are positive when they are given, worker tasks
with an input.

*What proving changed.* `LastDetachMarks` as first stated is false with three
transactions (section 6). A pass of the worker may be disturbed by a retirement, which
the first, more regular instance of `Eviction` could not show: `calm` now says so, and
the instance has sizes for which it matters. A manifest without rows ends without
sending anything. With the two readings of the clock apart, `SpentStaysSpent` is false of
a capability that expires in between, and with recheck and write apart, `EvictsOnlyForNeed`
is false of what happens in between: both now say so.

*Only model-checked:* the liveness properties, `UploadReturns`, `DeletedIsPurged`,
`PendingResolved`, `LeaseReturned`, `PoolFrees`, `JobsEnd`,
`FetchEnds`, `OverQuotaRelieved` and `ClientsEnd`: fairness and `ENABLED` are outside
what this prover handles. That the counted sums are the usual recursive ones is
asserted on the instances, since induction over data is outside too.

## 6. Where code and documents differ

| Run | Documents say | The code does |
|---|---|---|
| `pg_rebind` | FR-003: an asset with no alias left is marked for collection | `detach_mutable_alias` unbinds by name what it read without a lock: if the name was meanwhile detached and rebound, the asset that has it now loses it, and only the old one is looked at for orphans |
| `fetcher_remedy` | a miss says "preload it first", a 409 "retry explicitly" | after a failed upload the alias stays on a deleted asset and every preload ends in 409 |

`LastDetachMarks` is therefore stated for the `Steady` assets: no rebind or attach
names them, and if one was reserved raw, its names are `Contested` by nobody (they are
neither mutable nor attachable nor part of another reservation). Such an asset only
loses names, and the order of the statements in detach is then enough. The condition on
reserved names is needed, although two transactions do not show it: with three, a
detach that has read the binding of one asset can delete the row that another request
has meanwhile reserved for a second asset, and mark the first. `OrphansMarked` says the
same of all assets and fails.

Other observations have no run of their own:

* `attach_alias` (`pg_registry.py:1497`) checks the tombstone before it waits for the
  key of the alias. When the transaction it waits for is a detach, the name is bound
  again although its grace period (`02_REQUIREMENTS.md:28`) has just begun.
* `reserve_asset` (`pg_registry.py:437`) does not map the unique violation of its
  insert, so the second of two concurrent reservations of a name is answered 500,
  where `02_REQUIREMENTS.md:26` says 409. `attach_alias` maps it. What both keep is
  `NoNameStolen`.
* The admin route's comment "never another asset" (`api/admin.py:165`) rests on the
  list of names read under the asset's lock; the nested detach reads the binding
  again, and `rebind_alias` moves a name without that lock.
* The bulk loader says that running a manifest again "only re-creates missing rows"
  (`bulk_loader.py:18-20`). A row that exists is answered 409 and reported failed,
  and a name whose upload failed stays bound, so such a row is not re-created
  either. `ReportTrue` is what does hold: no row is reported that is not there.
* `lifecycle-worker.md:52` says pending bytes are not in the occupancy estimate;
  `plan_sweep` counts `reserved_bytes` of pending rows (`lifecycle.py:184-194`).
  `Eviction` follows the code.
* A PUT that lands after its asset was purged leaves an object no row leads to.
  `BytesTracked` makes exactly this exception.
* A single-use capability is checked before the upload and recorded after it, so
  several PUTs in flight may succeed with one (the requirements call this open).
  What the code does guarantee is `SingleUseWithinSlots`: never more than there are
  upload slots, and `SpentStaysSpent`. The latter has one exception: the guard reads the
  clock for the grant and again for the ledger (`guard.py:217-218`), and a capability that
  expires in between has left the ledger, so that a write authorized before the use was
  recorded, or a read, passes although the capability is spent.
* The sweep's recheck of usage reads the quota rows without a lock
  (`lifecycle.py:239-253`), so one action may still expire an asset after a deletion has
  brought its partition or bucket to the low-water mark. `EvictsOnlyForNeed` makes
  this exception, for what happens between one recheck and its write.
* A detach of an asset's last name (alias, asset, partition, bucket) and a reservation with
  a size (partition, bucket, alias) of that name take their rows in opposite orders.
  PostgreSQL aborts one of them; `OnlyDetachDeadlocks` says there is no other kind.
* `presign_read` computes the capability's remaining lifetime and counts it from a
  later reading of the clock, so the URL outlives the grant by the delay between.
* `set_asset_ttl` restores an expired asset that has no alias left.
* An upload takes its slot before its body is read (`api/app.py:508`), so a client
  that stalls keeps it; `LeaseReturned` starts where the work does.

## 7. Not modelled

* Strings: paths (`paths.py`), partitions, URL normalization (`normalize.py`) and
  rewrite rules (`rules.py`). The modules take the resulting relation (a name's
  partition, a URL's alias) as a constant.
* Multipart transfer and the retries inside the S3 client, schemas and request
  parsing, metrics, listing and pagination, the browser console, configuration,
  service identities, deployment checks: I/O or stateless checks.
* The acceptance tools of the pilot, which only drive the services.

## 8. Plan

Done, in this order: `Registry` and its proofs; `AssetLife` and `AssetStore`; `Gateway`
and its proofs; `PgAliases`; `PgQuota`; `Fetcher`; `Outbound`; `Eviction`; late PUTs in
`AssetStore`; raw reservations, the admin route and the pool in `PgAliases`; `Clients`;
the proofs of every safety property of a passing run; the two readings of the clock in
`Gateway`, recheck and write in `Eviction`, the detach in `PgQuota`, lost answers of a
mint in `Fetcher`, and what a reader gets in `AssetStore`, with their proofs.

Next:

1. Safety facts behind the liveness properties that can be stated without fairness,
   such as how many steps of a pass, a job or a fetch are left.
2. The correspondence of `PgQuota` with the admission operations of `Registry`, as a
   refinement of its counters.
