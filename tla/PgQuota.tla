------------------------------ MODULE PgQuota -------------------------------
(***************************************************************************)
(* Quota admission of PostgresAssetRegistry, statement by statement, for   *)
(* one space.  An admission reads usage counters, sums over the rows of    *)
(* other assets and limits, decides, and writes at its commit; nothing but *)
(* the locks on the partition's and the bucket's quota rows keeps two      *)
(* admissions from deciding on the same reading.  Transactions run at READ *)
(* COMMITTED, as in PgAliases: a plain SELECT sees committed rows, and a   *)
(* row lock is held to the end.  A quota row that does not exist yet is    *)
(* inserted before it is locked, so it has its lock from the start.  Raw   *)
(* reservations carry no size and pass no admission until their commit.    *)
(* An asset has the one name it was reserved with, an immutable one, whose *)
(* grace period has lapsed when it is reserved again; several names, and   *)
(* the routes that lock the asset before its name, are PgAliases' part.    *)
(***************************************************************************)
EXTENDS Integers, FiniteSets

CONSTANTS
  AssetIds, Partitions, Names, Txns,
  Sizes,     \* payload sizes
  Ceilings,  \* byte ceilings (quota times hard ratio) a bucket can be configured with
  PartitionLimits,  \* byte ceilings and asset-count limits of a partition, as pairs
  Capacity,  \* physical ceiling of the space, or None
  Bucket,    \* the bucket's quota row
  Ops,       \* the operations that run
  None

ASSUME PgQuotaAssumption ==
  /\ IsFiniteSet(AssetIds) /\ IsFiniteSet(Txns)
  /\ Sizes \subseteq Nat /\ Ceilings \subseteq Nat \cup {None}
  /\ PartitionLimits \subseteq (Nat \cup {None}) \X (Nat \cup {None})
  /\ Capacity \in Nat \cup {None}
  /\ Ops \subseteq {"reserve", "raw", "commit", "release", "detach", "restore", "cleanup",
             "limits"}
  /\ None \notin Nat \cup AssetIds \cup Partitions \cup Names \cup Txns
  /\ Bucket \notin AssetIds \cup Partitions \cup Names
  /\ AssetIds \cap Partitions = {} /\ AssetIds \cap Names = {} /\ Partitions \cap Names = {}

VARIABLES
  state, partition, reserved, size,  \* columns of assets; "absent": no row
  purged,                \* assets with payload_deleted_at
  used, used_count,      \* partition_quotas: usage
  quota, quota_count,    \* partition_quotas: limits, None when unset
  bucket_used, bucket_quota,
  bound,                 \* aliases: the asset of a name, None where it has no row
  locked,                \* the transaction holding a row or a key
  pc, op, asset, bytes, alias, home  \* a transaction: next statement, its
                         \* operation, asset, size, name and partition

assetRows == <<state, partition, reserved, size, purged>>
usage == <<used, used_count, bucket_used>>
limits == <<quota, quota_count, bucket_quota>>
tables == <<assetRows, usage, limits, bound>>
local == <<op, asset, bytes, alias, home>>
quotaVars == <<tables, locked, pc, local>>

Grab(t, row) == locked[row] \in {None, t} /\ locked' = [locked EXCEPT ![row] = t]
End(t) ==
  /\ pc' = [pc EXCEPT ![t] = "idle"]
  /\ locked' = [row \in DOMAIN locked |-> IF locked[row] = t THEN None ELSE locked[row]]
  /\ op' = [op EXCEPT ![t] = None] /\ asset' = [asset EXCEPT ![t] = None]
  /\ bytes' = [bytes EXCEPT ![t] = None] /\ alias' = [alias EXCEPT ![t] = None]
  /\ home' = [home EXCEPT ![t] = None]
Begin(t, o, a, n, k, p, next) ==
  /\ op' = [op EXCEPT ![t] = o] /\ asset' = [asset EXCEPT ![t] = a]
  /\ bytes' = [bytes EXCEPT ![t] = n] /\ alias' = [alias EXCEPT ![t] = k]
  /\ home' = [home EXCEPT ![t] = p]
  /\ pc' = [pc EXCEPT ![t] = next]
Idle(t, o) == pc[t] = "idle" /\ o \in Ops
Named(k) == bound[k] # None
Goto(t, from, to) == pc[t] = from /\ pc' = [pc EXCEPT ![t] = to]

-----------------------------------------------------------------------------
(* The first statement of each operation *)

\* reserve_asset: the name is looked up, unlocked; n is None for a raw one.
Reserve(t, a, p, k, n) ==
  /\ Idle(t, IF n = None THEN "raw" ELSE "reserve")
  /\ state[a] = "absent" /\ \A u \in Txns : asset[u] # a
  /\ IF Named(k) THEN End(t)
     ELSE /\ Begin(t, "reserve", a, n, k, p, IF n = None THEN "insert" ELSE "partition")
          /\ UNCHANGED locked
  /\ UNCHANGED tables

\* Mutant: the row is read without FOR UPDATE.
LockAsset_Unlocked(t, o, a, n, k) ==
  Begin(t, o, a, n, k, partition[a], "partition") /\ UNCHANGED locked

\* SELECT ... FOR UPDATE of the asset row, then its quota rows.
LockAsset(t, o, a, n, k) == Grab(t, a) /\ Begin(t, o, a, n, k, partition[a], "partition")

\* commit_asset: from pending, with the reserved size where there is one.
Commit(t, a, n) ==
  /\ Idle(t, "commit") /\ state[a] = "pending" /\ reserved[a] \in {None, n}
  /\ LockAsset(t, "commit", a, n, None)
  /\ UNCHANGED tables

\* An available asset expires or is deleted.
Release(t, a) ==
  /\ Idle(t, "release") /\ state[a] = "available"
  /\ LockAsset(t, "release", a, size[a], None)
  /\ UNCHANGED tables

\* set_asset_ttl of an expired, committed asset.
Restore(t, a) ==
  /\ Idle(t, "restore") /\ state[a] = "expired" /\ size[a] # None
  /\ LockAsset(t, "restore", a, size[a], None)
  /\ UNCHANGED tables

\* detach_alias: a is what k was bound to when the binding was read, unlocked; it may
\* have lost the name since.  DELETE of the row by name, which matches whatever k is
\* bound to now, and nothing if it is gone.
Detach(t, k, a) ==
  /\ Idle(t, "detach") /\ state[a] # "absent" /\ \A j \in Names \ {k} : bound[j] # a
  /\ Begin(t, "detach", a, None, k, None, "update")
  /\ IF Named(k) THEN Grab(t, k) ELSE UNCHANGED locked
  /\ UNCHANGED tables

\* The row of its name is deleted with its commit, if the DELETE has matched it.
Unbind(t) ==
  bound' = IF locked[alias[t]] = t THEN [bound EXCEPT ![alias[t]] = None] ELSE bound

\* UPDATE assets, then _mark_for_gc_if_orphaned: no name is left.  A pending asset
\* expires, an available one is released from usage first.
MarkUnused(t) ==
  LET a == asset[t] IN
  /\ pc[t] = "update" /\ locked[a] \in {None, t}
  /\ \/ /\ state[a] = "available"
        /\ LockAsset(t, "detach", a, size[a], alias[t])
        /\ UNCHANGED tables
     \/ /\ state[a] # "available"
        /\ state' = IF state[a] = "pending" THEN [state EXCEPT ![a] = "expired"] ELSE state
        /\ Unbind(t) /\ End(t)
        /\ UNCHANGED <<partition, reserved, size, purged, usage, limits>>

-----------------------------------------------------------------------------
(* Locks, sums and checks *)

Releasing(t) == op[t] \in {"release", "detach"}

\* Mutant: the quota rows are locked bucket first on release.
LockOrder_BucketFirst(t) == IF Releasing(t) THEN <<Bucket, home[t]>> ELSE <<home[t], Bucket>>

\* _enforce_quota and _release_quota take the partition's row, then the bucket's.
LockOrder(t) == <<home[t], Bucket>>

LockPartition(t) ==
  /\ Goto(t, "partition", "bucket") /\ Grab(t, LockOrder(t)[1])
  /\ UNCHANGED <<tables, local>>

\* Mutant: the bucket's row is read without FOR UPDATE.
LockBucket_Unlocked(t) ==
  /\ Goto(t, "bucket", IF Releasing(t) THEN "write" ELSE "sums")
  /\ UNCHANGED <<tables, local, locked>>

LockBucket(t) ==
  /\ Goto(t, "bucket", IF Releasing(t) THEN "write" ELSE "sums")
  /\ Grab(t, LockOrder(t)[2])
  /\ UNCHANGED <<tables, local>>

\* Sum of f over the assets of s, by counting units; a NULL column counts as zero.
Units(f, s) == UNION {{a} \X (1..f[a]) : a \in {b \in s : f[b] # None}}
SumOf(f, s) == Cardinality(Units(f, s))

\* Pending rows with a known size, other than the one being admitted.
Pending(x) == {a \in AssetIds \ {x} : state[a] = "pending" /\ reserved[a] # None}
PendingIn(x, p) == {a \in Pending(x) : partition[a] = p}
Below(total, ceiling) == ceiling = None \/ total < ceiling

\* SELECT of the pending sums; the partition's byte and count limits (413).
CheckPartition(t) ==
  LET p == home[t]  pending == PendingIn(asset[t], p)
      fits == /\ Below(used[p] + SumOf(reserved, pending) + bytes[t], quota[p])
              /\ quota_count[p] = None
                 \/ used_count[p] + Cardinality(pending) + 1 <= quota_count[p]
  IN
  /\ pc[t] = "sums"
  /\ IF fits THEN Goto(t, "sums", "capacity") /\ UNCHANGED <<locked, local>> ELSE End(t)
  /\ UNCHANGED tables

\* Bytes the object store may hold: COALESCE(size_bytes, reserved_bytes) of the
\* rows whose payload is not purged.
Physical(x) ==
  LET held == {a \in AssetIds \ ({x} \cup purged) : state[a] # "absent"} IN
  SumOf([a \in AssetIds |-> IF size[a] # None THEN size[a] ELSE reserved[a]], held)

\* SELECT of the physical sum and the capacity gate (503), then the bucket's limit (413).
CheckCapacity(t) ==
  LET n == bytes[t] IN
  /\ pc[t] = "capacity"
  /\ IF /\ Below(Physical(asset[t]) + n, Capacity)
        /\ Below(bucket_used + SumOf(reserved, Pending(asset[t])) + n, bucket_quota)
     THEN /\ Goto(t, "capacity", IF op[t] = "reserve" THEN "insert" ELSE "write")
          /\ UNCHANGED <<locked, local>>
     ELSE End(t)
  /\ UNCHANGED tables

\* INSERT INTO aliases: it waits for a transaction inserting or deleting the key, and
\* fails with UniqueViolation when the key is there; nothing maps that error.
InsertName(t) ==
  /\ pc[t] = "insert" /\ locked[alias[t]] = None
  /\ IF Named(alias[t]) THEN End(t)
     ELSE Goto(t, "insert", "write") /\ Grab(t, alias[t]) /\ UNCHANGED local
  /\ UNCHANGED tables

-----------------------------------------------------------------------------
(* Writes, which appear with the transaction's commit *)

Monus(x, y) == IF x > y THEN x - y ELSE 0

\* _acquire_quota
Acquire(p, n) ==
  /\ used' = [used EXCEPT ![p] = @ + n] /\ used_count' = [used_count EXCEPT ![p] = @ + 1]
  /\ bucket_used' = bucket_used + n

WriteReserve(t) ==
  LET a == asset[t] IN
  /\ pc[t] = "write" /\ op[t] = "reserve"
  /\ state' = [state EXCEPT ![a] = "pending"]
  /\ partition' = [partition EXCEPT ![a] = home[t]]
  /\ reserved' = [reserved EXCEPT ![a] = bytes[t]]
  /\ bound' = [bound EXCEPT ![alias[t]] = a]
  /\ End(t) /\ UNCHANGED <<size, purged, usage, limits>>

WriteCommit(t) ==
  LET a == asset[t] IN
  /\ pc[t] = "write" /\ op[t] = "commit"
  /\ state' = [state EXCEPT ![a] = "available"]
  /\ size' = [size EXCEPT ![a] = bytes[t]]
  /\ reserved' = [reserved EXCEPT ![a] = None]
  /\ Acquire(home[t], bytes[t])
  /\ End(t) /\ UNCHANGED <<partition, purged, limits, bound>>

\* _release_quota, clamped at zero.
WriteRelease(t) ==
  LET p == home[t] IN
  /\ pc[t] = "write" /\ Releasing(t)
  /\ state' = [state EXCEPT ![asset[t]] = "expired"]
  /\ used' = [used EXCEPT ![p] = Monus(@, bytes[t])]
  /\ used_count' = [used_count EXCEPT ![p] = Monus(@, 1)]
  /\ bucket_used' = Monus(bucket_used, bytes[t])
  /\ IF op[t] = "detach" THEN Unbind(t) ELSE UNCHANGED bound
  /\ End(t) /\ UNCHANGED <<partition, reserved, size, purged, limits>>

WriteRestore(t) ==
  /\ pc[t] = "write" /\ op[t] = "restore"
  /\ state' = [state EXCEPT ![asset[t]] = "available"]
  /\ Acquire(home[t], bytes[t])
  /\ End(t) /\ UNCHANGED <<partition, reserved, size, purged, limits, bound>>

\* The process goes away before the commit, or PostgreSQL picks the transaction to
\* break a deadlock: nothing is written.
Rollback(t) == pc[t] # "idle" /\ End(t) /\ UNCHANGED tables

-----------------------------------------------------------------------------
(* Transactions that lock a single row *)

\* The limits of a partition or of the bucket change; usage is preserved.
SetPartitionQuota(p, l) ==
  /\ "limits" \in Ops /\ locked[p] = None
  /\ quota' = [quota EXCEPT ![p] = l[1]] /\ quota_count' = [quota_count EXCEPT ![p] = l[2]]
  /\ UNCHANGED <<assetRows, usage, bucket_quota, bound, locked, pc, local>>
SetBucketQuota(c) ==
  /\ "limits" \in Ops /\ locked[Bucket] = None
  /\ bucket_quota' = c
  /\ UNCHANGED <<assetRows, usage, quota, quota_count, bound, locked, pc, local>>

\* A pending asset times out, an expired one is deleted.
Retire(a) ==
  /\ "cleanup" \in Ops /\ locked[a] = None /\ state[a] \in {"pending", "expired"}
  /\ state' = [state EXCEPT ![a] = "deleted"]
  /\ UNCHANGED <<partition, reserved, size, purged, usage, limits, bound, locked, pc, local>>
Purge(a) ==
  /\ "cleanup" \in Ops /\ locked[a] = None /\ state[a] = "deleted"
  /\ purged' = purged \cup {a}
  /\ UNCHANGED <<state, partition, reserved, size, usage, limits, bound, locked, pc, local>>

-----------------------------------------------------------------------------
QuotaInit ==
  /\ state = [a \in AssetIds |-> "absent"] /\ partition = [a \in AssetIds |-> None]
  /\ reserved = [a \in AssetIds |-> None] /\ size = [a \in AssetIds |-> None] /\ purged = {}
  /\ used = [p \in Partitions |-> 0] /\ used_count = [p \in Partitions |-> 0]
  /\ \E l \in [Partitions -> PartitionLimits] : /\ quota = [p \in Partitions |-> l[p][1]]
                                                /\ quota_count = [p \in Partitions |-> l[p][2]]
  /\ bucket_used = 0 /\ bucket_quota \in Ceilings
  /\ bound = [k \in Names |-> None]
  /\ locked = [row \in AssetIds \cup Partitions \cup Names \cup {Bucket} |-> None]
  /\ pc = [t \in Txns |-> "idle"]
  /\ op = [t \in Txns |-> None] /\ asset = [t \in Txns |-> None]
  /\ bytes = [t \in Txns |-> None] /\ alias = [t \in Txns |-> None]
  /\ home = [t \in Txns |-> None]

QuotaNext ==
  \/ \E t \in Txns, a \in AssetIds, p \in Partitions, k \in Names, n \in Sizes \cup {None} :
        Reserve(t, a, p, k, n)
  \/ \E t \in Txns, a \in AssetIds :
        (\E n \in Sizes : Commit(t, a, n)) \/ Release(t, a) \/ Restore(t, a)
  \/ \E t \in Txns, a \in AssetIds, k \in Names : Detach(t, k, a)
  \/ \E t \in Txns :
        \/ MarkUnused(t) \/ LockPartition(t) \/ LockBucket(t) \/ CheckPartition(t) \/ CheckCapacity(t)
        \/ InsertName(t) \/ WriteReserve(t) \/ WriteCommit(t) \/ WriteRelease(t)
        \/ WriteRestore(t) \/ Rollback(t)
  \/ \E p \in Partitions, l \in PartitionLimits : SetPartitionQuota(p, l)
  \/ \E c \in Ceilings : SetBucketQuota(c)
  \/ \E a \in AssetIds : Purge(a) \/ Retire(a)

QuotaSpec == QuotaInit /\ [][QuotaNext]_quotaVars

-----------------------------------------------------------------------------
(* Properties *)

\* The counters are exact in every committed state: no two transactions charge or
\* release the same asset twice (_transition_out_of_available, commit_asset and
\* set_asset_ttl check the state only once the row is theirs).
UsageExact ==
  LET available == {a \in AssetIds : state[a] = "available"}
      inside(p) == {a \in available : partition[a] = p} IN
  /\ \A p \in Partitions : used[p] = SumOf(size, inside(p)) /\ used_count[p] = Cardinality(inside(p))
  /\ bucket_used = SumOf(size, available)

\* What an admission is charged against: bytes and slots of a partition, of the
\* bucket, and bytes on disk.
Charged(p) == used[p] + SumOf(reserved, PendingIn(None, p))
Slots(p) == used_count[p] + Cardinality(PendingIn(None, p))
BucketCharged == bucket_used + SumOf(reserved, Pending(None))

\* ADR-029, "Postgres admission is serialized even for initially absent quota
\* rows": a step that adds to a sum leaves it below the limit then in force,
\* whatever other admissions, releases and changes of limits ran meanwhile.
CeilingsHeld ==
  [][/\ \A p \in Partitions :
           /\ Charged(p)' > Charged(p) => Below(Charged(p)', quota'[p])
           /\ Slots(p)' > Slots(p) => quota_count'[p] = None \/ Slots(p)' <= quota_count'[p]
     /\ BucketCharged' > BucketCharged => Below(BucketCharged', bucket_quota')
     /\ Physical(None)' > Physical(None) => Below(Physical(None)', Capacity)]_quotaVars

\* The row a transaction is about to lock.
Wants(t) ==
  CASE pc[t] = "partition" -> LockOrder(t)[1]
    [] pc[t] = "bucket" -> LockOrder(t)[2]
    [] pc[t] = "insert" -> alias[t]
    [] pc[t] = "update" -> asset[t]
    [] OTHER -> None

\* Admissions, releases and restores lock asset, partition, bucket and name in this
\* order and never wait for each other in a circle.  A detach has its name locked
\* first: every deadlock has a reservation in it that waits to insert a name which a
\* detach is deleting, while that waits for the quota rows.
OnlyDetachDeadlocks ==
  \A set \in (SUBSET Txns) \ {{}} :
     \/ \E t \in set : Wants(t) = None \/ locked[Wants(t)] \notin set \ {t}
     \/ \E t, u \in set : pc[t] = "insert" /\ locked[alias[t]] = u /\ op[u] = "detach"

=============================================================================
