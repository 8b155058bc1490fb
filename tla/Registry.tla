------------------------------ MODULE Registry ------------------------------
(***************************************************************************)
(* The asset registry: assets, aliases, tombstones and quota counters, as  *)
(* InMemoryAssetRegistry (registry.py) keeps them.  Every operation is one *)
(* atomic step; an operation the code rejects with an exception leaves the *)
(* state alone and is therefore no step (RejectedReserve is the exception  *)
(* to that).  The audit log, annotations, MIME types, timestamps other     *)
(* than the tombstones' and read counters are never consulted by these     *)
(* operations and are left out.                                            *)
(***************************************************************************)
EXTENDS Integers, FiniteSets

CONSTANTS
  AssetIds,      \* the asset ids new_asset_id may return
  Spaces,        \* storage buckets
  Partitions,    \* (bucket, partition_id) pairs
  SpaceOf,       \* the bucket of a partition
  Aliases,       \* qualified alias names
  Under,         \* Under[p]: the names _alias_under_partition puts under p
  FirstSegment,  \* FirstSegment[k]: the partition k's first path segment names
  MaxBytes,      \* largest payload
  ByteSizes,     \* payload sizes callers use
  PartitionQuotas, CountQuotas, BucketQuotas, \* limits operators may set
  HardCeilings,  \* bucket hard_ceiling values, in percent
  Capacity,      \* Capacity[s]: ASSET_STORE_CAPACITY_BYTES, or None
  Grace,         \* alias_name_grace_period
  MaxTime,       \* bound on the clock
  None           \* Python's None

ASSUME ConstantsAssumption ==
  /\ IsFiniteSet(AssetIds) /\ None \notin AssetIds
  /\ SpaceOf \in [Partitions -> Spaces] /\ None \notin Partitions
  /\ Under \in [Partitions -> SUBSET Aliases]
  /\ FirstSegment \in [Aliases -> Partitions]
  /\ \A k \in Aliases : k \in Under[FirstSegment[k]]
  /\ MaxBytes \in Nat /\ ByteSizes \subseteq 0..MaxBytes
  /\ None \notin Nat
  /\ PartitionQuotas \subseteq Nat \cup {None}
  /\ CountQuotas \subseteq Nat \cup {None}
  /\ BucketQuotas \subseteq Nat \cup {None}
  /\ HardCeilings \subseteq Nat
  /\ Capacity \in [Spaces -> Nat \cup {None}]
  /\ Grace \in Nat /\ MaxTime \in Nat

VARIABLES
  state,          \* Asset.state, "absent" for an id not yet issued
  partition,      \* Asset.space and Asset.partition_id
  size,           \* Asset.size_bytes
  reserved,       \* Asset.reserved_bytes
  aliases,        \* Asset.aliases
  purged,         \* the assets whose payload_deleted_at is set
  registered,     \* the keys of _aliases
  mutable,        \* the registered names whose binding is mutable
  binding,        \* AliasBinding.asset_id; None once a mutable name is detached
  tombstones,     \* _tombstones: end of the grace period of a detached name
  quota_bytes, quota_asset_count,  \* PartitionQuota limits
  used_bytes, used_asset_count,    \* PartitionQuota counters
  bucket_limit,   \* BucketQuota.quota_bytes * hard_ceiling, in hundredths of a byte
  bucket_used,    \* BucketQuota.used_bytes
  now             \* utcnow()

assetVars == <<state, partition, size, reserved, purged>>
aliasVars == <<aliases, registered, mutable, binding>>
limitVars == <<quota_bytes, quota_asset_count, bucket_limit>>
usageVars == <<used_bytes, used_asset_count, bucket_used>>
vars == <<state, partition, size, reserved, purged, aliases, registered, mutable,
          binding, tombstones, quota_bytes, quota_asset_count, bucket_limit,
          used_bytes, used_asset_count, bucket_used, now>>

AssetState == {"absent", "pending", "available", "expired", "deleted"}

(***************************************************************************)
(* Byte totals.  A set of assets weighs as many units as there are pairs   *)
(* (asset, i) with i at most the asset's weight; counting the pairs is     *)
(* summing the weights, and a cardinality is what the provers know about.  *)
(***************************************************************************)
Units(S, w) == {u \in S \X (1..MaxBytes) : u[2] <= w[u[1]]}
Total(S, w) == Cardinality(Units(S, w))

Or0(n) == IF n = None THEN 0 ELSE n
SizeOf == [a \in AssetIds |-> Or0(size[a])]
ReservedOf == [a \in AssetIds |-> Or0(reserved[a])]
PhysicalOf == [a \in AssetIds |->
                 IF size[a] # None THEN size[a] ELSE Or0(reserved[a])]

Exists(a) == state[a] # "absent"
Available(p) == {a \in AssetIds : state[a] = "available" /\ partition[a] = p}
AvailableIn(s) ==
  {a \in AssetIds : state[a] = "available" /\ SpaceOf[partition[a]] = s}
Reserving(p) ==
  {a \in AssetIds : state[a] = "pending" /\ reserved[a] # None /\ partition[a] = p}
ReservingIn(s) ==
  {a \in AssetIds : /\ state[a] = "pending" /\ reserved[a] # None
                    /\ SpaceOf[partition[a]] = s}
StoredIn(s) ==
  {a \in AssetIds : Exists(a) /\ a \notin purged /\ SpaceOf[partition[a]] = s}

-----------------------------------------------------------------------------
(* Quota *)

\* Mutant: pending reservations are not counted.
EnforceQuota_UsedOnly(p, n, excluded) ==
  LET s == SpaceOf[p] IN
  /\ quota_bytes[p] # None => 100 * (used_bytes[p] + n) < 105 * quota_bytes[p]
  /\ quota_asset_count[p] # None => used_asset_count[p] + 1 <= quota_asset_count[p]
  /\ bucket_limit[s] # None => 100 * (bucket_used[s] + n) < bucket_limit[s]

\* _enforce_quota: the request for n bytes in p by an asset outside the sums is admitted.
EnforceQuota(p, n, excluded) ==
  LET s == SpaceOf[p] IN
  /\ quota_bytes[p] # None =>
       100 * (used_bytes[p] + Total(Reserving(p) \ excluded, ReservedOf) + n)
         < 105 * quota_bytes[p]
  /\ quota_asset_count[p] # None =>
       used_asset_count[p] + Cardinality(Reserving(p) \ excluded) + 1
         <= quota_asset_count[p]
  /\ Capacity[s] # None =>
       100 * (Total(StoredIn(s) \ excluded, PhysicalOf) + n) < 95 * Capacity[s]
  /\ bucket_limit[s] # None =>
       100 * (bucket_used[s] + Total(ReservingIn(s) \ excluded, ReservedOf) + n)
         < bucket_limit[s]

AcquireQuota(p, n) ==
  /\ used_bytes' = [used_bytes EXCEPT ![p] = @ + n]
  /\ used_asset_count' = [used_asset_count EXCEPT ![p] = @ + 1]
  /\ bucket_used' = [bucket_used EXCEPT ![SpaceOf[p]] = @ + n]

Minus(m, n) == IF m >= n THEN m - n ELSE 0

\* _release_quota: only an asset that was available is charged.
ReleaseQuota(a) ==
  LET p == partition[a] IN
  IF state[a] = "available"
  THEN /\ used_bytes' = [used_bytes EXCEPT ![p] = Minus(@, Or0(size[a]))]
       /\ used_asset_count' = [used_asset_count EXCEPT ![p] = Minus(@, 1)]
       /\ bucket_used' = [bucket_used EXCEPT ![SpaceOf[p]] = Minus(@, Or0(size[a]))]
  ELSE UNCHANGED usageVars

-----------------------------------------------------------------------------
(* Alias names *)

InGrace(k) == tombstones[k] # None /\ now < tombstones[k]
\* Mutant: the tombstone is not looked at.
NameAvailable_IgnoresGrace(k) == k \notin registered

NameAvailable(k) == k \notin registered /\ ~InGrace(k)
ClearTombstones(K) ==
  tombstones' = [k \in Aliases |-> IF k \in K THEN None ELSE tombstones[k]]

Register(K, mut, a) ==
  /\ registered' = registered \cup K
  /\ mutable' = (mutable \ K) \cup mut
  /\ binding' = [k \in Aliases |-> IF k \in K THEN a ELSE binding[k]]
  /\ aliases' = [aliases EXCEPT ![a] = @ \cup K]
  /\ ClearTombstones(K)

\* Mutant: the remaining names are counted before k is removed.
MarkForGcIfOrphaned_CountsRemoved(a, k) ==
  IF aliases[a] = {} /\ state[a] \notin {"expired", "deleted"}
  THEN state' = [state EXCEPT ![a] = "expired"] /\ ReleaseQuota(a)
  ELSE UNCHANGED <<state, usageVars>>

\* _mark_for_gc_if_orphaned after alias k has left asset a.
MarkForGcIfOrphaned(a, k) ==
  IF aliases[a] \ {k} = {} /\ state[a] \notin {"expired", "deleted"}
  THEN state' = [state EXCEPT ![a] = "expired"] /\ ReleaseQuota(a)
  ELSE UNCHANGED <<state, usageVars>>

-----------------------------------------------------------------------------
(* Operations *)

\* bytes is None for the two-phase reservation of POST /assets.
ReserveAsset(a, p, K, mut, bytes) ==
  /\ ~Exists(a)
  /\ K # {} /\ \A k \in K : NameAvailable(k)
  /\ bytes # None => EnforceQuota(p, bytes, {})
  /\ state' = [state EXCEPT ![a] = "pending"]
  /\ partition' = [partition EXCEPT ![a] = p]
  /\ reserved' = [reserved EXCEPT ![a] = bytes]
  /\ Register(K, mut, a)
  /\ UNCHANGED <<size, purged, limitVars, usageVars, now>>

\* A reservation refused after the name check has still dropped the elapsed
\* tombstone it looked at.
RejectedReserve(k) ==
  /\ k \notin registered /\ tombstones[k] # None /\ ~InGrace(k)
  /\ ClearTombstones({k})
  /\ UNCHANGED <<assetVars, aliasVars, limitVars, usageVars, now>>

AttachAlias(a, k, mut) ==
  /\ Exists(a) /\ state[a] # "deleted"
  /\ k \in Under[partition[a]] /\ NameAvailable(k)
  /\ Register({k}, mut, a)
  /\ UNCHANGED <<assetVars, limitVars, usageVars, now>>

CommitAsset(a, n) ==
  /\ state[a] = "pending"
  /\ reserved[a] # None => reserved[a] = n
  /\ EnforceQuota(partition[a], n, {a})
  /\ state' = [state EXCEPT ![a] = "available"]
  /\ size' = [size EXCEPT ![a] = n]
  /\ reserved' = [reserved EXCEPT ![a] = None]
  /\ AcquireQuota(partition[a], n)
  /\ UNCHANGED <<partition, purged, aliasVars, tombstones, limitVars, now>>

DetachAlias(k) ==
  LET a == binding[k] IN
  /\ k \in registered \ mutable /\ a # None
  /\ registered' = registered \ {k}
  /\ binding' = [binding EXCEPT ![k] = None]
  /\ aliases' = [aliases EXCEPT ![a] = @ \ {k}]
  /\ tombstones' = IF Grace > 0 THEN [tombstones EXCEPT ![k] = now + Grace]
                                ELSE tombstones
  /\ MarkForGcIfOrphaned(a, k)
  /\ UNCHANGED <<partition, size, reserved, purged, mutable, limitVars, now>>

\* Mutant: the asset still lists the detached name.
DetachMutableAlias_KeepsListed(k) ==
  LET a == binding[k] IN
  /\ k \in mutable /\ a # None
  /\ binding' = [binding EXCEPT ![k] = None]
  /\ MarkForGcIfOrphaned(a, k)
  /\ UNCHANGED <<partition, size, reserved, purged, aliases, registered, mutable,
                 tombstones, limitVars, now>>

DetachMutableAlias(k) ==
  LET a == binding[k] IN
  /\ k \in mutable /\ a # None
  /\ binding' = [binding EXCEPT ![k] = None]
  /\ aliases' = [aliases EXCEPT ![a] = @ \ {k}]
  /\ MarkForGcIfOrphaned(a, k)
  /\ UNCHANGED <<partition, size, reserved, purged, registered, mutable,
                 tombstones, limitVars, now>>

RebindAlias(k, a) ==
  /\ k \in mutable /\ binding[k] = None
  /\ state[a] = "available" /\ partition[a] = FirstSegment[k]
  /\ binding' = [binding EXCEPT ![k] = a]
  /\ aliases' = [aliases EXCEPT ![a] = @ \cup {k}]
  /\ UNCHANGED <<assetVars, registered, mutable, tombstones, limitVars, usageVars, now>>

ExpireAsset(a) ==
  /\ state[a] = "available"
  /\ state' = [state EXCEPT ![a] = "expired"]
  /\ ReleaseQuota(a)
  /\ UNCHANGED <<partition, size, reserved, purged, aliasVars, tombstones, limitVars, now>>

DeleteAsset(a) ==
  /\ state[a] \in {"available", "expired"}
  /\ state' = [state EXCEPT ![a] = "deleted"]
  /\ ReleaseQuota(a)
  /\ UNCHANGED <<partition, size, reserved, purged, aliasVars, tombstones, limitVars, now>>

\* Mutant: a restored asset is not charged again.
SetAssetTtl_Uncharged(a) ==
  /\ state[a] \in {"available", "expired"} /\ size[a] # None
  /\ state[a] = "expired" => EnforceQuota(partition[a], size[a], {a})
  /\ state' = [state EXCEPT ![a] = "available"]
  /\ UNCHANGED <<partition, size, reserved, purged, aliasVars, tombstones,
                 limitVars, usageVars, now>>

SetAssetTtl(a) ==
  /\ state[a] \in {"available", "expired"} /\ size[a] # None
  /\ IF state[a] = "expired"
     THEN /\ EnforceQuota(partition[a], size[a], {a})
          /\ AcquireQuota(partition[a], size[a])
     ELSE UNCHANGED usageVars
  /\ state' = [state EXCEPT ![a] = "available"]
  /\ UNCHANGED <<partition, size, reserved, purged, aliasVars, tombstones, limitVars, now>>

\* Mutant: a payload may be purged without an earlier fence.
ValidCleanup_Unfenced(a, st, payload_deleted) ==
  /\ \/ st = "expired" /\ state[a] = "available" /\ ~payload_deleted
     \/ st = "deleted" /\ state[a] \in {"pending", "expired", "deleted"}
  /\ a \notin purged

\* retention.validate_cleanup_transition
ValidCleanup(a, st, payload_deleted) ==
  /\ \/ st = "expired" /\ state[a] = "available" /\ ~payload_deleted
     \/ /\ st = "deleted" /\ state[a] \in {"pending", "expired", "deleted"}
        /\ payload_deleted => state[a] = "deleted"
  /\ a \notin purged

LifecycleUpdate(a, st, payload_deleted) ==
  /\ ValidCleanup(a, st, payload_deleted)
  /\ state' = [state EXCEPT ![a] = st]
  /\ purged' = IF payload_deleted THEN purged \cup {a} ELSE purged
  /\ ReleaseQuota(a)
  /\ UNCHANGED <<partition, size, reserved, aliasVars, tombstones, limitVars, now>>

SetPartitionQuota(p, q, c) ==
  /\ quota_bytes' = [quota_bytes EXCEPT ![p] = q]
  /\ quota_asset_count' = [quota_asset_count EXCEPT ![p] = c]
  /\ UNCHANGED <<assetVars, aliasVars, tombstones, bucket_limit, usageVars, now>>

SetBucketQuota(s, q, ceiling) ==
  /\ bucket_limit' = [bucket_limit EXCEPT ![s] = IF q = None THEN None ELSE q * ceiling]
  /\ UNCHANGED <<assetVars, aliasVars, tombstones, quota_bytes, quota_asset_count,
                 usageVars, now>>

Tick ==
  /\ now < MaxTime
  /\ now' = now + 1
  /\ UNCHANGED <<assetVars, aliasVars, tombstones, limitVars, usageVars>>

-----------------------------------------------------------------------------
Init ==
  /\ state = [a \in AssetIds |-> "absent"]
  /\ partition = [a \in AssetIds |-> None]
  /\ size = [a \in AssetIds |-> None]
  /\ reserved = [a \in AssetIds |-> None]
  /\ aliases = [a \in AssetIds |-> {}]
  /\ purged = {} /\ registered = {} /\ mutable = {}
  /\ binding = [k \in Aliases |-> None]
  /\ tombstones = [k \in Aliases |-> None]
  /\ quota_bytes = [p \in Partitions |-> None]
  /\ quota_asset_count = [p \in Partitions |-> None]
  /\ used_bytes = [p \in Partitions |-> 0]
  /\ used_asset_count = [p \in Partitions |-> 0]
  /\ bucket_limit = [s \in Spaces |-> None]
  /\ bucket_used = [s \in Spaces |-> 0]
  /\ now = 0

Next ==
  \/ \E a \in AssetIds, p \in Partitions, bytes \in ByteSizes \cup {None} :
       \E K \in SUBSET Under[p] : \E mut \in SUBSET K : ReserveAsset(a, p, K, mut, bytes)
  \/ \E k \in Aliases : RejectedReserve(k)
  \/ \E a \in AssetIds, k \in Aliases : \E mut \in SUBSET {k} : AttachAlias(a, k, mut)
  \/ \E a \in AssetIds, n \in ByteSizes : CommitAsset(a, n)
  \/ \E k \in Aliases : DetachAlias(k)
  \/ \E k \in Aliases : DetachMutableAlias(k)
  \/ \E k \in Aliases, a \in AssetIds : RebindAlias(k, a)
  \/ \E a \in AssetIds : ExpireAsset(a)
  \/ \E a \in AssetIds : DeleteAsset(a)
  \/ \E a \in AssetIds : SetAssetTtl(a)
  \/ \E a \in AssetIds, st \in {"expired", "deleted"}, pd \in BOOLEAN :
       LifecycleUpdate(a, st, pd)
  \/ \E p \in Partitions, q \in PartitionQuotas, c \in CountQuotas :
       SetPartitionQuota(p, q, c)
  \/ \E s \in Spaces, q \in BucketQuotas, h \in HardCeilings : SetBucketQuota(s, q, h)
  \/ Tick

Spec == Init /\ [][Next]_vars

-----------------------------------------------------------------------------
(* Properties *)

\* Every field of the registry has the type its Python annotation gives it, and
\* an asset that exists has a partition (models.py, Asset and AliasBinding).
TypeOK ==
  /\ state \in [AssetIds -> AssetState]
  /\ partition \in [AssetIds -> Partitions \cup {None}]
  /\ \A a \in AssetIds : Exists(a) => partition[a] \in Partitions
  /\ size \in [AssetIds -> (0..MaxBytes) \cup {None}]
  /\ reserved \in [AssetIds -> (0..MaxBytes) \cup {None}]
  /\ aliases \in [AssetIds -> SUBSET Aliases]
  /\ purged \subseteq AssetIds
  /\ registered \subseteq Aliases
  /\ mutable \subseteq Aliases
  /\ binding \in [Aliases -> AssetIds \cup {None}]
  /\ tombstones \in [Aliases -> Nat \cup {None}]
  /\ quota_bytes \in [Partitions -> Nat \cup {None}]
  /\ quota_asset_count \in [Partitions -> Nat \cup {None}]
  /\ used_bytes \in [Partitions -> Nat]
  /\ used_asset_count \in [Partitions -> Nat]
  /\ bucket_limit \in [Spaces -> Nat \cup {None}]
  /\ bucket_used \in [Spaces -> Nat]
  /\ now \in Nat

\* The two copies of the alias relation agree: asset a lists name k exactly when
\* the alias index binds k to a; only a mutable name may stay registered while
\* bound to nothing; a name in its grace period is not registered.
AliasIndexConsistent ==
  /\ \A a \in AssetIds, k \in Aliases : k \in aliases[a] <=> binding[k] = a
  /\ \A k \in Aliases : binding[k] # None => k \in registered
  /\ \A k \in registered : binding[k] = None => k \in mutable
  /\ mutable \subseteq registered
  /\ \A k \in registered : tombstones[k] = None

\* A name only ever points at an asset of a partition it lies under, in the same
\* bucket, whatever sequence of reserve, attach, detach and rebind produced it.
AliasUnderPartition ==
  \A k \in Aliases : binding[k] # None =>
    Exists(binding[k]) /\ k \in Under[partition[binding[k]]]

\* Names are sound after any sequence of reserve, attach, detach, rebind and
\* expiry of a grace period: what the alias index and the assets say of them
\* agrees, and no name leads outside its partition.
NamesConsistent == AliasIndexConsistent /\ AliasUnderPartition

\* "track only available assets" (PartitionQuota) and "mirrors the sum of the
\* space's PartitionQuota.used_bytes" (BucketQuota): the counters, which commit,
\* expiry, deletion, gc marking, maintenance and TTL restore each adjust by hand,
\* are the bytes and the number of the assets now available.
UsageMatchesAvailable ==
  /\ \A p \in Partitions :
       /\ used_bytes[p] = Total(Available(p), SizeOf)
       /\ used_asset_count[p] = Cardinality(Available(p))
  /\ \A s \in Spaces : bucket_used[s] = Total(AvailableIn(s), SizeOf)

\* What an asset's byte fields say of its life: an available asset has its size, a
\* committed payload has no reservation left to be counted a second time, an asset
\* awaiting upload has no size, an asset marked purged is deleted.
FieldsMatchState ==
  \A a \in AssetIds :
    /\ state[a] = "available" => size[a] # None
    /\ size[a] # None => reserved[a] = None
    /\ state[a] \in {"absent", "pending"} => size[a] = None
    /\ state[a] = "absent" => reserved[a] = None /\ partition[a] = None
    /\ a \in purged => state[a] = "deleted"

\* Bytes promised in a partition or bucket: stored and available, or reserved.
Committed(p) == used_bytes[p] + Total(Reserving(p), ReservedOf)
CommittedIn(s) == bucket_used[s] + Total(ReservingIn(s), ReservedOf)
Physical(s) == Total(StoredIn(s), PhysicalOf)

\* What a partition and a bucket have promised: 105% of the partition quota, the
\* bucket quota times its ceiling.
LogicalStep ==
  /\ \A p \in Partitions :
       Committed(p)' > Committed(p) =>
         quota_bytes[p] = None \/ 100 * Committed(p)' < 105 * quota_bytes[p]
  /\ \A s \in Spaces :
       CommittedIn(s)' > CommittedIn(s) =>
         bucket_limit[s] = None \/ 100 * CommittedIn(s)' < bucket_limit[s]

\* Bytes held or promised in a bucket: 95% of its capacity (enforce_capacity).
PhysicalStep ==
  \A s \in Spaces : Physical(s)' > Physical(s) =>
    Capacity[s] = None \/ 100 * Physical(s)' < 95 * Capacity[s]

\* Assets that hold a slot of a partition's asset-count quota.
Slots(p) == used_asset_count[p] + Cardinality(Reserving(p))
CountStep ==
  \A p \in Partitions : Slots(p)' > Slots(p) =>
    quota_asset_count[p] = None \/ Slots(p)' <= quota_asset_count[p]

\* Whatever mixture of reservations, two-phase commits and TTL restores is in
\* flight, no step that raises the bytes or the slots a partition has promised, or
\* the bytes a bucket has promised or physically holds, ends beyond the ceiling
\* in force; lowering a quota never makes a later step overshoot.
AdmissionCeilings == [][LogicalStep /\ PhysicalStep /\ CountStep]_vars

\* What LifecycleOrder says of one step.
LifecycleStep ==
  \A a \in AssetIds :
    /\ <<state[a], state'[a]>> \in
         {<<"absent", "pending">>, <<"pending", "available">>,
          <<"pending", "expired">>, <<"pending", "deleted">>,
          <<"available", "expired">>, <<"available", "deleted">>,
          <<"expired", "available">>, <<"expired", "deleted">>}
       \/ state'[a] = state[a]
    /\ state[a] = "expired" /\ state'[a] = "available" => size[a] # None
    /\ size[a] # None => size'[a] = size[a]
    /\ Exists(a) => partition'[a] = partition[a]
    /\ a \in purged => a \in purged'
    /\ a \in purged' \ purged => state[a] = "deleted"

\* The lifecycle: an asset is created pending, its payload is written once and its
\* size never changes again, only an asset with a committed payload can come
\* back from expired, deleted is final, and bytes are given up only for an asset
\* an earlier step has already made deleted (the durable fence).
LifecycleOrder == [][LifecycleStep]_vars

\* What LastNameRetires says of one step.
LastNameStep ==
  \A a \in AssetIds : aliases[a] # {} /\ aliases'[a] = {} =>
    state'[a] \in {"expired", "deleted"}

\* FR-003: the step that takes an asset's last name away leaves it out of service.
LastNameRetires == [][LastNameStep]_vars

\* What GraceHolds says of one step.
GraceStep ==
  \A k \in Aliases : InGrace(k) =>
    tombstones'[k] = tombstones[k] /\ k \notin registered'

\* FR-003: a name detached from an immutable binding is not bound again before
\* its grace period has run out, by any operation.
GraceHolds == [][GraceStep]_vars
=============================================================================
