----------------------------- MODULE AssetStore -----------------------------
(***************************************************************************)
(* Registry rows and object bytes kept in step: guarded uploads            *)
(* (guard.py), the two-phase commit endpoint and the administrative        *)
(* operations (api/app.py, api/admin.py), readers, and the lifecycle       *)
(* worker (lifecycle.py) run concurrently over Registry and the object     *)
(* store.  A registry transaction is one step when it makes no call to the *)
(* object store; asset_lock (SELECT ... FOR UPDATE) is held across the     *)
(* steps of a transaction that does.  Processes may die between any two    *)
(* steps; PostgreSQL then rolls the open transaction back and frees the    *)
(* row, and the object store keeps what it has done.  A PUT whose answer   *)
(* never came may still be under way (or a retry of it): it lands at any   *)
(* later time, or never.                                                   *)
(***************************************************************************)
EXTENDS Registry

CONSTANTS
  Uploaders,   \* threads running Guard.write_object
  Readers,     \* threads running Guard.read_bytes
  Worker,      \* the lifecycle worker, as an owner of row locks
  MaxFaults    \* bound on store failures, process deaths and row touches

ASSUME ActorsAssumption ==
  /\ None \notin Uploaders /\ Worker # None /\ Worker \notin Uploaders
  /\ Uploaders \cap Readers = {}
  /\ MaxFaults \in Nat

VARIABLES
  store,     \* store[a]: size of the object under a's storage key, or None
  late,      \* late[a]: payload of a PUT given up on that may still land, or None
  lock,      \* the owner of a's row lock
  upload,    \* upload[u]: the step write_object has reached
  job,       \* the asset an uploader or a reader works on
  due,       \* assets whose deadline, pending timeout or grace period is over
  plan,      \* the worker's remaining actions: assets of the planned snapshot
  evictions, \* those selected to relieve quota or capacity, not by age
  stale,     \* those whose row has changed since that snapshot
  sweep,     \* the step run_sweep has reached with its current action
  target,    \* the asset of that action
  faults     \* faults so far

procVars == <<upload, job, plan, evictions, sweep, target>>
allVars == <<state, partition, size, reserved, purged, aliases, registered, mutable,
             binding, tombstones, quota_bytes, quota_asset_count, bucket_limit,
             used_bytes, used_asset_count, bucket_used, now,
             store, late, lock, upload, job, due, plan, evictions, stale, sweep, target, faults>>

Free(a) == lock[a] = None
Acquire(a, owner) == lock[a] = None /\ lock' = [lock EXCEPT ![a] = owner]
Release(a) == lock' = [lock EXCEPT ![a] = None]

\* A write to a's row: a planned snapshot of it no longer matches, and a new
\* state starts its own waiting period.
Touch(a) == stale' = stale \cup ({a} \cap plan)
RowWritten(a) ==
  /\ Touch(a)
  /\ due' = IF state'[a] = state[a] THEN due ELSE due \ {a}

Fault == faults < MaxFaults /\ faults' = faults + 1

-----------------------------------------------------------------------------
(* Guard.write_object *)

\* reserve_asset, in a transaction of its own.
UploadReserve(u, a, p, k, mut, n) ==
  /\ upload[u] = "idle"
  /\ ReserveAsset(a, p, {k}, mut, n)
  /\ upload' = [upload EXCEPT ![u] = "reserved"]
  /\ job' = [job EXCEPT ![u] = a]
  /\ RowWritten(a)
  /\ UNCHANGED <<store, late, lock, plan, evictions, sweep, target, faults>>

\* Mutant: the row is read, not locked.
UploadLock_NoLock(u) ==
  LET a == job[u] IN
  /\ upload[u] = "reserved" /\ Free(a)
  /\ upload' = [upload EXCEPT ![u] = IF state[a] = "pending" THEN "locked" ELSE "failed"]
  /\ UNCHANGED <<vars, late, store, lock, job, due, plan, evictions, stale, sweep, target, faults>>

\* asset_lock, then the reservation must still be pending.
UploadLock(u) ==
  LET a == job[u] IN
  /\ upload[u] = "reserved"
  /\ IF state[a] = "pending"
     THEN Acquire(a, u) /\ upload' = [upload EXCEPT ![u] = "locked"]
     ELSE Free(a) /\ upload' = [upload EXCEPT ![u] = "failed"] /\ UNCHANGED lock
  /\ UNCHANGED <<vars, late, store, job, due, plan, evictions, stale, sweep, target, faults>>

UploadPut(u) ==
  /\ upload[u] = "locked"
  /\ store' = [store EXCEPT ![job[u]] = reserved[job[u]]]
  /\ upload' = [upload EXCEPT ![u] = "stored"]
  /\ UNCHANGED <<vars, late, lock, job, due, plan, evictions, stale, sweep, target, faults>>

\* Mutant: the transaction is left open.
UploadPutFails_KeepsLock(u) ==
  LET a == job[u] IN
  /\ upload[u] = "locked" /\ Fault
  /\ store' \in {store, [store EXCEPT ![a] = reserved[a]]}
  /\ upload' = [upload EXCEPT ![u] = "failed"]
  /\ UNCHANGED <<vars, late, lock, job, due, plan, evictions, stale, sweep, target>>

\* put_object raises: the object was refused, it was stored all the same, or the
\* connection timed out with the request still on its way.
UploadPutFails(u) ==
  LET a == job[u] IN
  /\ upload[u] = "locked" /\ Fault
  /\ \/ store' \in {store, [store EXCEPT ![a] = reserved[a]]} /\ UNCHANGED late
     \/ late' = [late EXCEPT ![a] = reserved[a]] /\ UNCHANGED store
  /\ Release(a)
  /\ upload' = [upload EXCEPT ![u] = "failed"]
  /\ UNCHANGED <<vars, job, due, plan, evictions, stale, sweep, target>>

UploadCommit(u) ==
  LET a == job[u] IN
  /\ upload[u] = "stored"
  /\ CommitAsset(a, store[a])
  /\ Release(a)
  /\ upload' = [upload EXCEPT ![u] = "idle"]
  /\ job' = [job EXCEPT ![u] = None]
  /\ RowWritten(a)
  /\ UNCHANGED <<store, late, plan, evictions, sweep, target, faults>>

\* commit_asset raises: the checksum the client expected differs, or a limit
\* lowered since the reservation refuses the bytes.
UploadCommitRefused(u) ==
  /\ upload[u] = "stored"
  /\ Release(job[u])
  /\ upload' = [upload EXCEPT ![u] = "failed"]
  /\ UNCHANGED <<vars, late, store, job, due, plan, evictions, stale, sweep, target, faults>>

UploadDone(u) ==
  /\ upload' = [upload EXCEPT ![u] = "idle"]
  /\ job' = [job EXCEPT ![u] = None]

\* First transaction of _cleanup_failed_upload.
CleanupFence(u) ==
  LET a == job[u] IN
  /\ upload[u] = "failed" /\ Free(a)
  /\ \/ /\ state[a] = "pending"
        /\ LifecycleUpdate(a, "deleted", FALSE)
        /\ RowWritten(a)
        /\ upload' = [upload EXCEPT ![u] = "fenced"] /\ UNCHANGED job
     \/ /\ state[a] = "deleted"
        /\ upload' = [upload EXCEPT ![u] = "fenced"]
        /\ UNCHANGED <<vars, job, stale, due>>
     \/ /\ state[a] \notin {"pending", "deleted"}   \* preserved
        /\ UploadDone(u)
        /\ UNCHANGED <<vars, stale, due>>
  /\ UNCHANGED <<store, late, lock, plan, evictions, sweep, target, faults>>

\* Mutant: the bytes are deleted whatever the row says, fenced or not.
CleanupDelete_Unfenced(u) ==
  LET a == job[u] IN
  /\ upload[u] \in {"failed", "fenced"} /\ Acquire(a, u)
  /\ store' = [store EXCEPT ![a] = None]
  /\ upload' = [upload EXCEPT ![u] = "erased"]
  /\ UNCHANGED <<vars, late, job, due, plan, evictions, stale, sweep, target, faults>>

\* Second transaction: delete_object under the row lock.
CleanupDelete(u) ==
  LET a == job[u] IN
  /\ upload[u] = "fenced" /\ Free(a)
  /\ IF a \in purged \/ state[a] # "deleted"
     THEN UploadDone(u) /\ UNCHANGED <<store, lock>>
     ELSE /\ Acquire(a, u)
          /\ store' = [store EXCEPT ![a] = None]
          /\ upload' = [upload EXCEPT ![u] = "erased"]
          /\ UNCHANGED job
  /\ UNCHANGED <<vars, late, due, plan, evictions, stale, sweep, target, faults>>

\* delete_object raises: cleanup is deferred to the worker.
CleanupDeleteFails(u) ==
  LET a == job[u] IN
  /\ upload[u] = "fenced" /\ Free(a) /\ a \notin purged /\ state[a] = "deleted"
  /\ Fault
  /\ store' \in {store, [store EXCEPT ![a] = None]}
  /\ UploadDone(u)
  /\ UNCHANGED <<vars, late, lock, due, plan, evictions, stale, sweep, target>>

CleanupMark(u) ==
  LET a == job[u] IN
  /\ upload[u] = "erased"
  /\ LifecycleUpdate(a, "deleted", TRUE)
  /\ RowWritten(a)
  /\ Release(a)
  /\ UploadDone(u)
  /\ UNCHANGED <<store, late, plan, evictions, sweep, target, faults>>

\* The server process dies: its open transaction rolls back, nothing cleans up,
\* and a PUT it was waiting for goes on in the network.
UploaderDies(u) ==
  /\ upload[u] # "idle" /\ Fault
  /\ lock' = [a \in AssetIds |-> IF lock[a] = u THEN None ELSE lock[a]]
  /\ late' = IF upload[u] = "locked" THEN [late EXCEPT ![job[u]] = reserved[job[u]]] ELSE late
  /\ UploadDone(u)
  /\ UNCHANGED <<vars, store, due, plan, evictions, stale, sweep, target>>

\* A PUT nobody waits for reaches the bucket.
LandLate(a) ==
  /\ late[a] # None
  /\ store' = [store EXCEPT ![a] = late[a]]
  /\ UNCHANGED <<vars, late, lock, due, stale, faults, procVars>>

-----------------------------------------------------------------------------
(* Two-phase upload and administration *)

\* POST /assets: no bytes are reserved.
Reserve(a, p, k, mut) ==
  /\ ReserveAsset(a, p, {k}, mut, None)
  /\ RowWritten(a)
  /\ UNCHANGED <<store, late, lock, faults, procVars>>

\* The client stores the payload of its reservation under the storage key.
ClientPut(a, n) ==
  /\ state[a] = "pending" /\ reserved[a] = None
  /\ store' = [store EXCEPT ![a] = n]
  /\ UNCHANGED <<vars, late, lock, due, stale, faults, procVars>>

\* POST /assets/{id}/commit: the stored object must exist and match.
Commit(a) ==
  /\ Free(a) /\ store[a] # None
  /\ CommitAsset(a, store[a])
  /\ RowWritten(a)
  /\ UNCHANGED <<store, late, lock, faults, procVars>>

Attach(a, k, mut) ==
  /\ Free(a)
  /\ AttachAlias(a, k, mut)
  /\ RowWritten(a)
  /\ UNCHANGED <<store, late, lock, faults, procVars>>

Detach(k) ==
  /\ binding[k] # None /\ Free(binding[k])
  /\ DetachAlias(k) \/ DetachMutableAlias(k)
  /\ RowWritten(binding[k])
  /\ UNCHANGED <<store, late, lock, faults, procVars>>

Rebind(k, a) ==
  /\ Free(a)
  /\ RebindAlias(k, a)
  /\ RowWritten(a)
  /\ UNCHANGED <<store, late, lock, faults, procVars>>

\* POST /assets/{id}/expire and /delete.
Retire(a) ==
  /\ Free(a)
  /\ ExpireAsset(a) \/ DeleteAsset(a)
  /\ RowWritten(a)
  /\ UNCHANGED <<store, late, lock, faults, procVars>>

\* The new deadline lies ahead.
SetTtl(a) ==
  /\ Free(a)
  /\ SetAssetTtl(a)
  /\ Touch(a) /\ due' = due \ {a}
  /\ UNCHANGED <<store, late, lock, faults, procVars>>

\* update_annotations and set_eviction_policy.
Annotate(a) ==
  /\ Free(a) /\ Exists(a) /\ state[a] # "deleted" /\ Fault
  /\ Touch(a)
  /\ UNCHANGED <<vars, due, store, late, lock, procVars>>

-----------------------------------------------------------------------------
(* Guard.read_bytes *)

\* resolve_alias, require_live included; no lock is taken.
Resolvable(k) ==
  binding[k] # None /\ state[binding[k]] = "available" /\ binding[k] \notin due

ReadResolve(r, k) ==
  /\ job[r] = None /\ Resolvable(k)
  /\ job' = [job EXCEPT ![r] = binding[k]]
  /\ UNCHANGED <<vars, late, store, lock, upload, due, plan, evictions, stale, sweep, target, faults>>

\* get_object, then record_read if the object was there.
ReadGet(r) ==
  LET a == job[r] IN
  /\ a # None
  /\ job' = [job EXCEPT ![r] = None]
  /\ IF store[a] # None /\ state[a] = "available" THEN Touch(a) ELSE UNCHANGED stale
  /\ UNCHANGED <<vars, late, store, lock, upload, due, plan, evictions, sweep, target, faults>>

-----------------------------------------------------------------------------
(* lifecycle.run_sweep *)

\* The asset's waiting period ends (a TTL, pending_seconds or grace_seconds).
Age(a) ==
  /\ state[a] \in {"pending", "available", "expired"} /\ a \notin due
  /\ due' = due \cup {a}
  /\ UNCHANGED <<vars, late, store, lock, stale, faults, procVars>>

\* Mutant: deleted assets are taken to have no payload left.
Candidates_DueOnly == {a \in due : Exists(a) /\ state[a] # "deleted"}

\* Mutant: reservations that were never committed are not selected.
Candidates_CommittedOnly == {a \in AssetIds : Exists(a) /\ a \notin purged
  /\ state[a] # "pending" /\ (state[a] = "deleted" \/ a \in due)}

\* Selected by plan_sweep: overdue assets and deleted ones not yet purged.
Candidates == {a \in AssetIds : Exists(a) /\ a \notin purged
                                /\ (state[a] = "deleted" \/ a \in due)}

\* plan_sweep: besides the candidates, any assets in service that evict picks
\* for their score (which ones is not modelled here).
SweepPlan ==
  /\ sweep = "idle" /\ plan = {}
  /\ \E E \in SUBSET {a \in AssetIds \ Candidates : state[a] = "available"} :
       plan' = Candidates \cup E /\ evictions' = E
  /\ plan' # {}
  /\ stale' = {}
  /\ UNCHANGED <<vars, late, store, lock, due, upload, job, sweep, target, faults>>

\* What an action does to the row of asset a once it is not skipped.
SweepAct(a) ==
  /\ \/ /\ state[a] = "available"
        /\ LifecycleUpdate(a, "expired", FALSE)
        /\ UNCHANGED <<sweep, target>>
     \/ /\ state[a] \in {"pending", "expired"}
        /\ LifecycleUpdate(a, "deleted", FALSE)
        /\ sweep' = "fenced" /\ target' = a
     \/ /\ state[a] = "deleted" /\ UNCHANGED vars
        /\ sweep' = "fenced" /\ target' = a
  /\ due' = due \ {a}

\* Mutant: the snapshot is not compared with the locked row.
SweepApply_Unchecked(a) ==
  /\ sweep = "idle" /\ a \in plan /\ Free(a)
  /\ plan' = plan \ {a} /\ stale' = stale \ {a} /\ evictions' = evictions \ {a}
  /\ SweepAct(a)
  /\ UNCHANGED <<store, late, lock, upload, job, faults>>

\* First transaction of an action: skip if the row is no longer the snapshot or
\* an eviction has become needless (quota_target, pressure_target reached),
\* otherwise expire it, or fence it when its payload is to be purged.
SweepApply(a) ==
  /\ sweep = "idle" /\ a \in plan /\ Free(a)
  /\ plan' = plan \ {a} /\ stale' = stale \ {a} /\ evictions' = evictions \ {a}
  /\ \/ a \in stale \cup evictions /\ UNCHANGED <<vars, due, sweep, target>>
     \/ a \notin stale /\ SweepAct(a)
  /\ UNCHANGED <<store, late, lock, upload, job, faults>>

SweepDone == sweep' = "idle" /\ target' = None

\* Second transaction: delete_object under the row lock, unless already purged.
SweepDelete ==
  /\ sweep = "fenced" /\ Free(target)
  /\ IF target \in purged \/ state[target] # "deleted"
     THEN SweepDone /\ UNCHANGED <<store, lock>>
     ELSE /\ Acquire(target, Worker)
          /\ store' = [store EXCEPT ![target] = None]
          /\ sweep' = "erased" /\ UNCHANGED target
  /\ UNCHANGED <<vars, late, due, plan, evictions, stale, upload, job, faults>>

\* delete_object raises: counted, retried by the next pass.
SweepDeleteFails ==
  /\ sweep = "fenced" /\ Free(target) /\ target \notin purged /\ state[target] = "deleted"
  /\ Fault
  /\ store' \in {store, [store EXCEPT ![target] = None]}
  /\ SweepDone
  /\ UNCHANGED <<vars, late, lock, due, plan, evictions, stale, upload, job>>

SweepMark ==
  /\ sweep = "erased"
  /\ LifecycleUpdate(target, "deleted", TRUE)
  /\ RowWritten(target)
  /\ Release(target)
  /\ SweepDone
  /\ UNCHANGED <<store, late, plan, evictions, upload, job, faults>>

WorkerDies ==
  /\ (sweep # "idle" \/ plan # {}) /\ Fault
  /\ lock' = [a \in AssetIds |-> IF lock[a] = Worker THEN None ELSE lock[a]]
  /\ plan' = {} /\ evictions' = {} /\ stale' = {} /\ SweepDone
  /\ UNCHANGED <<vars, store, late, due, upload, job>>

-----------------------------------------------------------------------------
StoreInit ==
  /\ Init
  /\ store = [a \in AssetIds |-> None] /\ late = [a \in AssetIds |-> None]
  /\ lock = [a \in AssetIds |-> None]
  /\ upload = [u \in Uploaders |-> "idle"]
  /\ job = [x \in Uploaders \cup Readers |-> None]
  /\ due = {} /\ plan = {} /\ evictions = {} /\ stale = {}
  /\ sweep = "idle" /\ target = None
  /\ faults = 0

UploadStep(u) ==
  \/ UploadLock(u) \/ UploadPut(u) \/ UploadCommit(u) \/ UploadCommitRefused(u)
  \/ CleanupFence(u) \/ CleanupDelete(u) \/ CleanupMark(u)

SweepStep ==
  SweepPlan \/ (\E a \in AssetIds : SweepApply(a)) \/ SweepDelete \/ SweepMark

StoreNext ==
  \/ \E u \in Uploaders, a \in AssetIds, p \in Partitions, n \in ByteSizes :
       \E k \in Under[p] : \E mut \in SUBSET {k} : UploadReserve(u, a, p, k, mut, n)
  \/ \E u \in Uploaders : UploadStep(u) \/ UploadPutFails(u) \/ CleanupDeleteFails(u)
                          \/ UploaderDies(u)
  \/ \E a \in AssetIds, p \in Partitions : \E k \in Under[p] :
       \E mut \in SUBSET {k} : Reserve(a, p, k, mut)
  \/ \E a \in AssetIds, n \in ByteSizes : ClientPut(a, n)
  \/ \E a \in AssetIds, k \in Aliases : \E mut \in SUBSET {k} : Attach(a, k, mut)
  \/ \E k \in Aliases : Detach(k)
  \/ \E k \in Aliases, a \in AssetIds : Rebind(k, a)
  \/ \E a \in AssetIds : Commit(a) \/ Retire(a) \/ SetTtl(a) \/ Annotate(a) \/ Age(a)
                         \/ LandLate(a)
  \/ \E r \in Readers : ReadGet(r) \/ \E k \in Aliases : ReadResolve(r, k)
  \/ SweepStep \/ SweepDeleteFails \/ WorkerDies

StoreSpec == StoreInit /\ [][StoreNext]_allVars

\* Request threads run on, the worker's loop (--interval) comes round again, and
\* time passes; faults are bounded by MaxFaults.
Fairness ==
  /\ \A u \in Uploaders : WF_allVars(UploadStep(u))
  /\ WF_allVars(SweepStep)
  /\ \A a \in AssetIds : WF_allVars(Age(a))

LiveSpec == StoreSpec /\ Fairness
-----------------------------------------------------------------------------
(* What the asset store promises: AssetLife *)

\* An expired asset without a size had its last name detached before its payload
\* was committed; SetAssetTtl refuses it, so it can only be condemned.
LifeOf(a) ==
  CASE state[a] = "absent" -> "unborn"
    [] state[a] = "pending" -> "reserved"
    [] state[a] = "available" -> "served"
    [] state[a] = "expired" -> IF size[a] # None THEN "retired" ELSE "condemned"
    [] state[a] = "deleted" -> IF a \in purged THEN "erased" ELSE "condemned"

Promise == INSTANCE AssetLife WITH
  Assets <- AssetIds, Payloads <- ByteSizes, Missing <- None,
  life <- [a \in AssetIds |-> LifeOf(a)],
  content <- [a \in AssetIds |->
                IF LifeOf(a) \in {"served", "retired"} THEN store[a] ELSE None]

\* Uploads, readers, administrators and the worker together keep the promise of
\* AssetLife: the object under a served or restorable asset's key is the payload
\* that was committed, and never changes, whatever fails or races.
KeepsPromise == Promise!LifeSpec

-----------------------------------------------------------------------------
(* Properties *)

PayloadKept ==
  \A a \in AssetIds :
    state[a] \in {"available", "expired"} /\ size[a] # None => store[a] = size[a]

\* What a reader who has resolved its alias is about to get.
ReadersServed ==
  \A r \in Readers :
    LET a == job[r] IN
    a # None => /\ size[a] # None
                /\ store[a] = size[a] \/ (store[a] = None /\ state[a] = "deleted")

\* A committed payload that can still be served or restored is in the object
\* store, with the size the registry charges for it.  A reader, who holds no lock
\* between lookup and GET, gets the payload the lookup named, whole, or nothing, and
\* nothing only if the asset has been deleted since.
PayloadIntact == PayloadKept /\ ReadersServed

\* Every object belongs to a row that list_assets still returns: once an asset is
\* marked purged no sweep looks at it again, so bytes left behind would leak.  The
\* one exception is a PUT that write_object gave up on: nothing the registry does
\* stops it from landing after the purge.
BytesTracked ==
  \A a \in AssetIds : store[a] # None => Exists(a) /\ (a \in purged => late[a] # None)

\* What FenceBeforeErase says of one step.
FenceStep ==
  \A a \in AssetIds : store[a] # None /\ store'[a] = None =>
    state[a] = "deleted" /\ state'[a] = "deleted"

\* "Commit the terminal state BEFORE deleting bytes": an object is only ever
\* deleted under a row that an earlier transaction has made deleted.
FenceBeforeErase == [][FenceStep]_allVars

\* What DecisionsRechecked says of one step of the worker.
WorkerStep ==
  \A a \in AssetIds :
    a \in plan \ plan' /\ state'[a] # state[a] =>
      \/ a \in due
      \/ a \in evictions /\ state[a] = "available" /\ state'[a] = "expired"

\* What it says of one step of a failed upload.
CleanupStep ==
  \A u \in Uploaders :
    LET a == job[u] IN
    upload[u] = "failed" /\ upload'[u] # "failed" /\ size[a] # None =>
      state'[a] = state[a] /\ store'[a] = store[a]

\* What was decided earlier is looked at again under the row lock.  An asset whose
\* deadline was extended, which was restored, or which entered a new state since
\* the worker's snapshot is not expired or deleted on the strength of it; and the
\* cleanup of an upload that failed late leaves the asset alone when the commit
\* endpoint has committed its payload in the meantime ("preserved").
DecisionsRechecked == [][WorkerStep /\ CleanupStep]_allVars

\* Every upload returns: no failure, row lock or race leaves write_object waiting.
UploadReturns == \A u \in Uploaders : upload[u] # "idle" ~> upload[u] = "idle"

\* The bytes of a deleted asset are eventually gone and its row marked, whichever
\* process died between the fence, the deletion and the mark.
DeletedIsPurged == \A a \in AssetIds : state[a] = "deleted" ~> a \in purged

\* A reservation never stays pending for ever: it is committed, loses its last
\* name, is cleaned up, or the worker removes it after pending_seconds.
PendingResolved == \A a \in AssetIds : state[a] = "pending" ~> state[a] # "pending"
=============================================================================
