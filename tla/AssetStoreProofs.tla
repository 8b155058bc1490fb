-------------------------- MODULE AssetStoreProofs --------------------------
(***************************************************************************)
(* Theorems about Registry, and about AssetStore, which extends it, for    *)
(* any number of assets, names, uploaders and faults.  The first part is   *)
(* about the registry alone: its statements are of Spec.                   *)
(***************************************************************************)
EXTENDS AssetStore, FiniteSetTheorems, TLAPS

-----------------------------------------------------------------------------
(* Byte totals *)

\* The units of a set of assets are finitely many, so their number is a natural.
LEMMA TotalType ==
  ASSUME NEW S \in SUBSET AssetIds, NEW w
  PROVE  IsFiniteSet(Units(S, w)) /\ Total(S, w) \in Nat
<1>1. IsFiniteSet(S)
  BY FS_Subset, ConstantsAssumption
<1>2. IsFiniteSet(1..MaxBytes)
  BY FS_Interval, ConstantsAssumption
<1>3. IsFiniteSet(S \X (1..MaxBytes))
  BY <1>1, <1>2, FS_Product
<1>4. Units(S, w) \in SUBSET (S \X (1..MaxBytes))
  BY DEF Units
<1>5. IsFiniteSet(Units(S, w))
  BY <1>3, <1>4, FS_Subset
<1> QED
  BY <1>5, FS_CardinalityType DEF Total

\* A total only depends on the weights of the members.
LEMMA TotalAgree ==
  ASSUME NEW S \in SUBSET AssetIds, NEW w, NEW v, \A a \in S : w[a] = v[a]
  PROVE  Total(S, w) = Total(S, v)
<1>1. Units(S, w) = Units(S, v)
  BY DEF Units
<1> QED
  BY <1>1 DEF Total

\* Counting up to n is n.
LEMMA IntervalCount ==
  ASSUME NEW n \in Nat
  PROVE  IsFiniteSet(1..n) /\ Cardinality(1..n) = n
<1>1. n \in Int /\ 1 \in Int
  OBVIOUS
<1>2. IsFiniteSet(1..n) /\ Cardinality(1..n) = IF 1 > n THEN 0 ELSE n - 1 + 1
  BY ONLY <1>1, FS_Interval
<1> QED
  BY <1>2

\* Disjoint finite sets: cardinalities add up.
LEMMA DisjointUnionCount ==
  ASSUME NEW S, NEW T, IsFiniteSet(S), IsFiniteSet(T), S \cap T = {}
  PROVE  Cardinality(S \cup T) = Cardinality(S) + Cardinality(T)
<1>1. Cardinality(S \cup T) = Cardinality(S) + Cardinality(T) - Cardinality(S \cap T)
  BY FS_Union
<1>2. Cardinality(S \cap T) = 0
  BY FS_EmptySet
<1>3. Cardinality(S) \in Nat /\ Cardinality(T) \in Nat
  BY FS_CardinalityType
<1> QED
  BY <1>1, <1>2, <1>3

\* A new member adds its weight.
LEMMA TotalAdd ==
  ASSUME NEW S \in SUBSET AssetIds, NEW w, NEW a \in AssetIds \ S,
         w[a] \in 0..MaxBytes
  PROVE  Total(S \cup {a}, w) = Total(S, w) + w[a]
<1> DEFINE own == {a} \X (1..w[a])
<1>0. w[a] \in Nat /\ w[a] <= MaxBytes /\ MaxBytes \in Nat
  BY ConstantsAssumption
<1>1. Units(S \cup {a}, w) = Units(S, w) \cup own
  BY ConstantsAssumption DEF Units
<1>2. Units(S, w) \cap own = {}
  BY DEF Units
<1>3. IsFiniteSet(own) /\ Cardinality(own) = w[a]
  <2>1. IsFiniteSet({a}) /\ Cardinality({a}) = 1
    BY FS_Singleton
  <2>2. IsFiniteSet(1..w[a]) /\ Cardinality(1..w[a]) = w[a]
    BY <1>0, IntervalCount
  <2>3. IsFiniteSet(own) /\ Cardinality(own) = 1 * w[a]
    BY <2>1, <2>2, FS_Product
  <2> HIDE DEF own
  <2> QED
    BY <1>0, <2>3
<1>4. IsFiniteSet(Units(S, w)) /\ Cardinality(Units(S, w)) \in Nat
  BY TotalType DEF Total
<1> HIDE DEF own
<1>5. Cardinality(Units(S, w) \cup own) = Cardinality(Units(S, w)) + Cardinality(own)
  BY <1>2, <1>3, <1>4, DisjointUnionCount
<1> QED
  BY <1>1, <1>3, <1>5 DEF Total

\* A member that leaves takes its weight away.
LEMMA TotalRemove ==
  ASSUME NEW S \in SUBSET AssetIds, NEW w, NEW a \in S, w[a] \in 0..MaxBytes
  PROVE  Total(S \ {a}, w) = Total(S, w) - w[a] /\ w[a] <= Total(S, w)
<1>1. Total((S \ {a}) \cup {a}, w) = Total(S \ {a}, w) + w[a]
  BY TotalAdd
<1>2. (S \ {a}) \cup {a} = S
  OBVIOUS
<1>3. Total(S \ {a}, w) \in Nat
  BY TotalType
<1>4. w[a] \in Nat
  BY ConstantsAssumption
<1>5. Total(S, w) = Total(S \ {a}, w) + w[a]
  BY <1>1, <1>2
<1> QED
  BY <1>3, <1>4, <1>5

-----------------------------------------------------------------------------
(* Type correctness *)

UsageType ==
  /\ used_bytes \in [Partitions -> Nat]
  /\ used_asset_count \in [Partitions -> Nat]
  /\ bucket_used \in [Spaces -> Nat]

\* Charging a partition keeps the counters natural.
LEMMA AcquireType ==
  ASSUME UsageType, NEW p \in Partitions, NEW n \in Nat, AcquireQuota(p, n)
  PROVE  UsageType'
<1>1. SpaceOf[p] \in Spaces
  BY ConstantsAssumption
<1> QED
  BY <1>1 DEF UsageType, AcquireQuota

\* So does releasing one.
LEMMA ReleaseType ==
  ASSUME TypeOK, NEW a \in AssetIds, ReleaseQuota(a)
  PROVE  UsageType'
<1>1. CASE state[a] # "available"
  BY <1>1 DEF TypeOK, ReleaseQuota, UsageType, usageVars
<1>2. CASE state[a] = "available"
  <2>1. partition[a] \in Partitions /\ SpaceOf[partition[a]] \in Spaces
    BY <1>2, ConstantsAssumption DEF TypeOK, Exists
  <2>2. Or0(size[a]) \in Nat
    BY ConstantsAssumption DEF TypeOK, Or0
  <2>3. \A m \in Nat, n \in Nat : Minus(m, n) \in Nat
    BY DEF Minus
  <2> DEFINE n == Or0(size[a])  p == partition[a]
  <2>4. used_bytes' = [used_bytes EXCEPT ![p] = Minus(used_bytes[p], n)]
    BY <1>2 DEF ReleaseQuota
  <2>5. used_asset_count' = [used_asset_count EXCEPT ![p] = Minus(used_asset_count[p], 1)]
    BY <1>2 DEF ReleaseQuota
  <2>6. bucket_used' = [bucket_used EXCEPT ![SpaceOf[p]] = Minus(bucket_used[SpaceOf[p]], n)]
    BY <1>2 DEF ReleaseQuota
  <2> QED
    BY <2>1, <2>2, <2>3, <2>4, <2>5, <2>6 DEF TypeOK, UsageType
<1> QED
  BY <1>1, <1>2

\* The structural invariant: neither types, names nor byte fields are inductive alone
\* (a gc mark types only because a bound name's asset exists).
StructInv == TypeOK /\ AliasIndexConsistent /\ AliasUnderPartition /\ FieldsMatchState

\* Every operation of the registry keeps every field within its type.
LEMMA TypeStep ==
  ASSUME StructInv, [Next]_vars
  PROVE  TypeOK'
<1>0. TypeOK
  BY DEF StructInv
<1> USE <1>0 DEF assetVars, aliasVars, limitVars, usageVars, UsageType
<1>1. ASSUME NEW a \in AssetIds, NEW p \in Partitions, NEW bytes \in ByteSizes \cup {None},
             NEW K \in SUBSET Under[p], NEW mut \in SUBSET K,
             ReserveAsset(a, p, K, mut, bytes)
      PROVE  TypeOK'
  <2>1. K \subseteq Aliases /\ bytes \in (0..MaxBytes) \cup {None}
    BY ConstantsAssumption
  <2> QED
    BY <1>1, <2>1 DEF TypeOK, ReserveAsset, Register, ClearTombstones, Exists, AssetState
<1>2. ASSUME NEW k \in Aliases, RejectedReserve(k)
      PROVE  TypeOK'
  BY <1>2 DEF TypeOK, RejectedReserve, ClearTombstones, Exists
<1>3. ASSUME NEW a \in AssetIds, NEW k \in Aliases, NEW mut \in SUBSET {k},
             AttachAlias(a, k, mut)
      PROVE  TypeOK'
  BY <1>3 DEF TypeOK, AttachAlias, Register, ClearTombstones, Exists
<1>4. ASSUME NEW a \in AssetIds, NEW n \in ByteSizes, CommitAsset(a, n)
      PROVE  TypeOK'
  <2>1. n \in 0..MaxBytes /\ n \in Nat
    BY ConstantsAssumption
  <2>2. partition[a] \in Partitions
    BY <1>4 DEF CommitAsset, TypeOK, Exists
  <2>3. UsageType'
    BY <1>4, <2>1, <2>2, AcquireType DEF CommitAsset, TypeOK
  <2> QED
    BY <1>4, <2>1, <2>3 DEF TypeOK, CommitAsset, Exists, AssetState
<1>5. ASSUME NEW a \in AssetIds, NEW k \in Aliases, MarkForGcIfOrphaned(a, k), Exists(a)
      PROVE  /\ UsageType' /\ state' \in [AssetIds -> AssetState]
             /\ \A b \in AssetIds : Exists(b)' <=> Exists(b)
  <2>1. UsageType'
    BY <1>5, ReleaseType DEF MarkForGcIfOrphaned, TypeOK
  <2> QED
    BY <1>5, <2>1 DEF MarkForGcIfOrphaned, TypeOK, AssetState, Exists
<1>6. ASSUME NEW k \in Aliases, DetachAlias(k)
      PROVE  TypeOK'
  <2>1. binding[k] \in AssetIds /\ Exists(binding[k])
    BY <1>6 DEF DetachAlias, StructInv, AliasUnderPartition, TypeOK
  <2>2. MarkForGcIfOrphaned(binding[k], k)
    BY <1>6 DEF DetachAlias
  <2>3. /\ UsageType' /\ state' \in [AssetIds -> AssetState]
        /\ \A b \in AssetIds : Exists(b)' <=> Exists(b)
    BY <1>5, <2>1, <2>2
  <2>4. now + Grace \in Nat
    BY ConstantsAssumption DEF TypeOK
  <2> QED
    BY <1>6, <2>1, <2>3, <2>4 DEF TypeOK, DetachAlias
<1>7. ASSUME NEW k \in Aliases, DetachMutableAlias(k)
      PROVE  TypeOK'
  <2>1. binding[k] \in AssetIds /\ Exists(binding[k])
    BY <1>7 DEF DetachMutableAlias, StructInv, AliasUnderPartition, TypeOK
  <2>2. MarkForGcIfOrphaned(binding[k], k)
    BY <1>7 DEF DetachMutableAlias
  <2>3. /\ UsageType' /\ state' \in [AssetIds -> AssetState]
        /\ \A b \in AssetIds : Exists(b)' <=> Exists(b)
    BY <1>5, <2>1, <2>2
  <2> QED
    BY <1>7, <2>1, <2>3 DEF TypeOK, DetachMutableAlias
<1>8. ASSUME NEW k \in Aliases, NEW a \in AssetIds, RebindAlias(k, a)
      PROVE  TypeOK'
  BY <1>8 DEF TypeOK, RebindAlias, Exists
<1>9. ASSUME NEW a \in AssetIds, ExpireAsset(a)
      PROVE  TypeOK'
  <2>1. UsageType'
    BY <1>9, ReleaseType DEF ExpireAsset
  <2> QED
    BY <1>9, <2>1 DEF TypeOK, ExpireAsset, Exists, AssetState
<1>10. ASSUME NEW a \in AssetIds, DeleteAsset(a)
       PROVE  TypeOK'
  <2>1. UsageType'
    BY <1>10, ReleaseType DEF DeleteAsset
  <2> QED
    BY <1>10, <2>1 DEF TypeOK, DeleteAsset, Exists, AssetState
<1>11. ASSUME NEW a \in AssetIds, SetAssetTtl(a)
       PROVE  TypeOK'
  <2>1. partition[a] \in Partitions /\ size[a] \in Nat
    BY <1>11, ConstantsAssumption DEF SetAssetTtl, TypeOK, Exists
  <2>2. UsageType'
    BY <1>11, <2>1, AcquireType DEF SetAssetTtl, TypeOK
  <2> QED
    BY <1>11, <2>2 DEF TypeOK, SetAssetTtl, Exists, AssetState
<1>12. ASSUME NEW a \in AssetIds, NEW st \in {"expired", "deleted"}, NEW pd \in BOOLEAN,
              LifecycleUpdate(a, st, pd)
       PROVE  TypeOK'
  <2>1. UsageType'
    BY <1>12, ReleaseType DEF LifecycleUpdate
  <2>2. Exists(a)
    BY <1>12 DEF LifecycleUpdate, ValidCleanup, Exists
  <2>3. purged' \subseteq AssetIds
    BY <1>12 DEF LifecycleUpdate, TypeOK
  <2> QED
    BY <1>12, <2>1, <2>2, <2>3 DEF TypeOK, LifecycleUpdate, Exists, AssetState
<1>13. ASSUME NEW p \in Partitions, NEW q \in PartitionQuotas, NEW c \in CountQuotas,
              SetPartitionQuota(p, q, c)
       PROVE  TypeOK'
  BY <1>13, ConstantsAssumption DEF TypeOK, SetPartitionQuota, Exists
<1>14. ASSUME NEW s \in Spaces, NEW q \in BucketQuotas, NEW h \in HardCeilings,
              SetBucketQuota(s, q, h)
       PROVE  TypeOK'
  <2>1. (IF q = None THEN None ELSE q * h) \in Nat \cup {None}
    BY ConstantsAssumption
  <2> QED
    BY <1>14, <2>1 DEF TypeOK, SetBucketQuota, Exists
<1>15. CASE Tick
  BY <1>15 DEF TypeOK, Tick, Exists
<1>16. CASE UNCHANGED vars
  BY <1>16 DEF TypeOK, vars, Exists
<1> QED
  BY <1>1, <1>2, <1>3, <1>4, <1>6, <1>7, <1>8, <1>9, <1>10, <1>11, <1>12, <1>13,
     <1>14, <1>15, <1>16 DEF Next

-----------------------------------------------------------------------------
(* Names *)

\* Every operation keeps the asset's list of names and the alias index in step,
\* and every binding inside a partition the name lies under.
LEMMA NamesStep ==
  ASSUME StructInv, [Next]_vars
  PROVE  AliasIndexConsistent' /\ AliasUnderPartition'
<1>0. TypeOK /\ AliasIndexConsistent /\ AliasUnderPartition
  BY DEF StructInv
<1> USE <1>0 DEF assetVars, aliasVars, limitVars, usageVars
<1>a. ASSUME UNCHANGED <<aliases, registered, mutable, binding, partition>>,
             \A k \in registered : tombstones[k] = None => tombstones'[k] = None,
             \A a \in AssetIds : Exists(a) => Exists(a)'
      PROVE  AliasIndexConsistent' /\ AliasUnderPartition'
  BY <1>a DEF TypeOK, AliasIndexConsistent, AliasUnderPartition, Exists
<1>1. ASSUME NEW a \in AssetIds, NEW p \in Partitions, NEW bytes \in ByteSizes \cup {None},
             NEW K \in SUBSET Under[p], NEW mut \in SUBSET K,
             ReserveAsset(a, p, K, mut, bytes)
      PROVE  AliasIndexConsistent' /\ AliasUnderPartition'
  <2>1. K \subseteq Aliases /\ None \notin AssetIds
    BY ConstantsAssumption
  <2>2. aliases[a] = {}
    <3>1. \A k \in Aliases : binding[k] # a
      BY <1>1, <2>1 DEF ReserveAsset, AliasUnderPartition
    <3> QED
      BY <3>1 DEF AliasIndexConsistent, TypeOK
  <2>3. \A k \in K : k \notin registered /\ binding[k] = None
    BY <1>1, <2>1 DEF ReserveAsset, NameAvailable, AliasIndexConsistent
  <2>4. AliasIndexConsistent'
    BY <1>1, <2>1, <2>2, <2>3
       DEF TypeOK, AliasIndexConsistent, ReserveAsset, Register, ClearTombstones
  <2>5. AliasUnderPartition'
    BY <1>1, <2>1 DEF TypeOK, AliasUnderPartition, ReserveAsset, Register, Exists
  <2> QED
    BY <2>4, <2>5
<1>2. ASSUME NEW k \in Aliases, RejectedReserve(k)
      PROVE  AliasIndexConsistent' /\ AliasUnderPartition'
  BY <1>2, <1>a DEF RejectedReserve, ClearTombstones, Exists, TypeOK
<1>3. ASSUME NEW a \in AssetIds, NEW k \in Aliases, NEW mut \in SUBSET {k},
             AttachAlias(a, k, mut)
      PROVE  AliasIndexConsistent' /\ AliasUnderPartition'
  <2>1. None \notin AssetIds
    BY ConstantsAssumption
  <2>2. k \notin registered /\ binding[k] = None
    BY <1>3 DEF AttachAlias, NameAvailable, AliasIndexConsistent
  <2>3. AliasIndexConsistent'
    BY <1>3, <2>1, <2>2
       DEF TypeOK, AliasIndexConsistent, AttachAlias, Register, ClearTombstones
  <2>4. AliasUnderPartition'
    BY <1>3, <2>1 DEF TypeOK, AliasUnderPartition, AttachAlias, Register, Exists
  <2> QED
    BY <2>3, <2>4
<1>4. ASSUME NEW a \in AssetIds, NEW n \in ByteSizes, CommitAsset(a, n)
      PROVE  AliasIndexConsistent' /\ AliasUnderPartition'
  BY <1>4, <1>a DEF CommitAsset, Exists, TypeOK
<1>5. ASSUME NEW a \in AssetIds, NEW k \in Aliases, MarkForGcIfOrphaned(a, k)
      PROVE  \A b \in AssetIds : Exists(b) => Exists(b)'
  BY <1>5 DEF MarkForGcIfOrphaned, TypeOK, Exists
<1>6. ASSUME NEW k \in Aliases, DetachAlias(k)
      PROVE  AliasIndexConsistent' /\ AliasUnderPartition'
  <2>1. binding[k] \in AssetIds /\ None \notin AssetIds
    BY <1>6, ConstantsAssumption DEF DetachAlias, TypeOK
  <2>2. \A b \in AssetIds : Exists(b) => Exists(b)'
    BY <1>5, <1>6, <2>1 DEF DetachAlias
  <2>3. AliasIndexConsistent'
    BY <1>6, <2>1 DEF TypeOK, AliasIndexConsistent, DetachAlias
  <2>4. AliasUnderPartition'
    BY <1>6, <2>1, <2>2 DEF TypeOK, AliasUnderPartition, DetachAlias
  <2> QED
    BY <2>3, <2>4
<1>7. ASSUME NEW k \in Aliases, DetachMutableAlias(k)
      PROVE  AliasIndexConsistent' /\ AliasUnderPartition'
  <2>1. binding[k] \in AssetIds /\ None \notin AssetIds
    BY <1>7, ConstantsAssumption DEF DetachMutableAlias, TypeOK
  <2>2. \A b \in AssetIds : Exists(b) => Exists(b)'
    BY <1>5, <1>7, <2>1 DEF DetachMutableAlias
  <2>3. AliasIndexConsistent'
    BY <1>7, <2>1 DEF TypeOK, AliasIndexConsistent, DetachMutableAlias
  <2>4. AliasUnderPartition'
    BY <1>7, <2>1, <2>2 DEF TypeOK, AliasUnderPartition, DetachMutableAlias
  <2> QED
    BY <2>3, <2>4
<1>8. ASSUME NEW k \in Aliases, NEW a \in AssetIds, RebindAlias(k, a)
      PROVE  AliasIndexConsistent' /\ AliasUnderPartition'
  <2>1. None \notin AssetIds /\ k \in Under[FirstSegment[k]]
    BY ConstantsAssumption
  <2>2. AliasIndexConsistent'
    BY <1>8, <2>1 DEF TypeOK, AliasIndexConsistent, RebindAlias
  <2>3. AliasUnderPartition'
    BY <1>8, <2>1 DEF TypeOK, AliasUnderPartition, RebindAlias, Exists
  <2> QED
    BY <2>2, <2>3
<1>9. ASSUME NEW a \in AssetIds, ExpireAsset(a)
      PROVE  AliasIndexConsistent' /\ AliasUnderPartition'
  BY <1>9, <1>a DEF ExpireAsset, Exists, TypeOK
<1>10. ASSUME NEW a \in AssetIds, DeleteAsset(a)
       PROVE  AliasIndexConsistent' /\ AliasUnderPartition'
  BY <1>10, <1>a DEF DeleteAsset, Exists, TypeOK
<1>11. ASSUME NEW a \in AssetIds, SetAssetTtl(a)
       PROVE  AliasIndexConsistent' /\ AliasUnderPartition'
  BY <1>11, <1>a DEF SetAssetTtl, Exists, TypeOK
<1>12. ASSUME NEW a \in AssetIds, NEW st \in {"expired", "deleted"}, NEW pd \in BOOLEAN,
              LifecycleUpdate(a, st, pd)
       PROVE  AliasIndexConsistent' /\ AliasUnderPartition'
  BY <1>12, <1>a DEF LifecycleUpdate, Exists, TypeOK
<1>13. CASE UNCHANGED <<state, aliases, registered, mutable, binding, partition, tombstones>>
  BY <1>13, <1>a DEF Exists
<1>14. ASSUME NEW p \in Partitions, NEW q \in PartitionQuotas, NEW c \in CountQuotas,
              SetPartitionQuota(p, q, c)
       PROVE  AliasIndexConsistent' /\ AliasUnderPartition'
  BY <1>13, <1>14 DEF SetPartitionQuota
<1>15. ASSUME NEW s \in Spaces, NEW q \in BucketQuotas, NEW h \in HardCeilings,
              SetBucketQuota(s, q, h)
       PROVE  AliasIndexConsistent' /\ AliasUnderPartition'
  BY <1>13, <1>15 DEF SetBucketQuota
<1>16. CASE Tick
  BY <1>13, <1>16 DEF Tick
<1>17. CASE UNCHANGED vars
  BY <1>13, <1>17 DEF vars
<1> QED
  BY <1>1, <1>2, <1>3, <1>4, <1>6, <1>7, <1>8, <1>9, <1>10, <1>11, <1>12,
     <1>14, <1>15, <1>16, <1>17 DEF Next

-----------------------------------------------------------------------------
(* Byte fields *)

\* Every operation keeps an asset's byte fields in agreement with its state.
LEMMA FieldsStep ==
  ASSUME StructInv, [Next]_vars
  PROVE  FieldsMatchState'
<1>0. TypeOK /\ FieldsMatchState /\ None \notin Nat /\ ByteSizes \subseteq 0..MaxBytes
  BY ConstantsAssumption DEF StructInv
<1> USE <1>0 DEF assetVars, aliasVars, limitVars, usageVars
<1>1. ASSUME NEW a \in AssetIds, NEW p \in Partitions, NEW bytes \in ByteSizes \cup {None},
             NEW K \in SUBSET Under[p], NEW mut \in SUBSET K,
             ReserveAsset(a, p, K, mut, bytes)
      PROVE  FieldsMatchState'
  BY <1>1 DEF TypeOK, FieldsMatchState, ReserveAsset, Exists
<1>2. ASSUME NEW a \in AssetIds, NEW n \in ByteSizes, CommitAsset(a, n)
      PROVE  FieldsMatchState'
  BY <1>2 DEF TypeOK, FieldsMatchState, CommitAsset
<1>3. ASSUME NEW k \in Aliases, DetachAlias(k) \/ DetachMutableAlias(k)
      PROVE  FieldsMatchState'
  <2>1. binding[k] \in AssetIds /\ Exists(binding[k])
    BY <1>3 DEF DetachAlias, DetachMutableAlias, StructInv, AliasUnderPartition, TypeOK
  <2>2. MarkForGcIfOrphaned(binding[k], k)
        /\ UNCHANGED <<partition, size, reserved, purged>>
    BY <1>3 DEF DetachAlias, DetachMutableAlias
  <2> QED
    BY <2>1, <2>2 DEF TypeOK, FieldsMatchState, MarkForGcIfOrphaned, Exists
<1>4. ASSUME NEW a \in AssetIds, ExpireAsset(a) \/ DeleteAsset(a) \/ SetAssetTtl(a)
      PROVE  FieldsMatchState'
  <2>1. CASE ExpireAsset(a)
    BY <2>1 DEF TypeOK, FieldsMatchState, ExpireAsset
  <2>2. CASE DeleteAsset(a)
    BY <2>2 DEF TypeOK, FieldsMatchState, DeleteAsset
  <2>3. CASE SetAssetTtl(a)
    BY <2>3 DEF TypeOK, FieldsMatchState, SetAssetTtl
  <2> QED
    BY <1>4, <2>1, <2>2, <2>3
<1>5. ASSUME NEW a \in AssetIds, NEW st \in {"expired", "deleted"}, NEW pd \in BOOLEAN,
             LifecycleUpdate(a, st, pd)
      PROVE  FieldsMatchState'
  <2>1. CASE pd
    <3>1. state[a] = "deleted" /\ st = "deleted" /\ purged' = purged \cup {a}
      BY <1>5, <2>1 DEF LifecycleUpdate, ValidCleanup
    <3> QED
      BY <1>5, <3>1 DEF TypeOK, FieldsMatchState, LifecycleUpdate
  <2>2. CASE ~pd
    <3>1. state[a] \in {"pending", "available", "expired", "deleted"} /\ a \notin purged
          /\ purged' = purged
      BY <1>5, <2>2 DEF LifecycleUpdate, ValidCleanup
    <3> QED
      BY <1>5, <3>1 DEF TypeOK, FieldsMatchState, LifecycleUpdate
  <2> QED
    BY <2>1, <2>2
<1>6. CASE UNCHANGED <<state, partition, size, reserved, purged>>
  BY <1>6 DEF FieldsMatchState
<1> QED
  BY <1>1, <1>2, <1>3, <1>4, <1>5, <1>6
     DEF Next, RejectedReserve, AttachAlias, RebindAlias, SetPartitionQuota,
         SetBucketQuota, Tick, vars

\* TypeOK, AliasIndexConsistent, AliasUnderPartition and FieldsMatchState hold in
\* every state the registry's operations can reach.
THEOREM StructureSafe == Spec => []StructInv
<1>1. Init => StructInv
  BY ConstantsAssumption
     DEF Init, StructInv, TypeOK, AliasIndexConsistent, AliasUnderPartition,
         FieldsMatchState, Exists, AssetState
<1>2. StructInv /\ [Next]_vars => StructInv'
  BY TypeStep, NamesStep, FieldsStep DEF StructInv
<1> QED
  BY <1>1, <1>2, PTL DEF Spec

\* Every registry field keeps its type.
THEOREM TypeCorrect == Spec => []TypeOK
<1>1. StructInv => TypeOK
  BY DEF StructInv
<1> QED
  BY <1>1, StructureSafe, PTL

\* The asset's list of names and the alias index agree in every reachable state.
THEOREM NamesSafe == Spec => []NamesConsistent
<1>1. StructInv => NamesConsistent
  BY DEF StructInv, NamesConsistent
<1> QED
  BY <1>1, StructureSafe, PTL

-----------------------------------------------------------------------------
(* Quota accounting *)

\* A step that neither moves an asset into or out of available nor touches an
\* available asset's size or partition, nor the counters, keeps the accounts.
LEMMA UsageUnmoved ==
  ASSUME TypeOK, UsageMatchesAvailable, UNCHANGED usageVars,
         \A a \in AssetIds : state'[a] = "available" <=> state[a] = "available",
         \A a \in AssetIds : state[a] = "available" =>
           size'[a] = size[a] /\ partition'[a] = partition[a]
  PROVE  UsageMatchesAvailable'
<1>1. ASSUME NEW p \in Partitions
      PROVE  /\ used_bytes'[p] = Total(Available(p)', SizeOf')
             /\ used_asset_count'[p] = Cardinality(Available(p)')
  <2>1. Available(p)' = Available(p)
    BY DEF Available
  <2>2. \A a \in Available(p) : SizeOf'[a] = SizeOf[a]
    BY DEF Available, SizeOf, Or0
  <2>3. Total(Available(p), SizeOf') = Total(Available(p), SizeOf)
    BY <2>2, TotalAgree DEF Available
  <2> QED
    BY <2>1, <2>3 DEF UsageMatchesAvailable, usageVars
<1>2. ASSUME NEW s \in Spaces
      PROVE  bucket_used'[s] = Total(AvailableIn(s)', SizeOf')
  <2>1. AvailableIn(s)' = AvailableIn(s)
    BY DEF AvailableIn
  <2>2. \A a \in AvailableIn(s) : SizeOf'[a] = SizeOf[a]
    BY DEF AvailableIn, SizeOf, Or0
  <2>3. Total(AvailableIn(s), SizeOf') = Total(AvailableIn(s), SizeOf)
    BY <2>2, TotalAgree DEF AvailableIn
  <2> QED
    BY <2>1, <2>3 DEF UsageMatchesAvailable, usageVars
<1> QED
  BY <1>1, <1>2 DEF UsageMatchesAvailable, Total, Units

\* An asset that becomes available and is charged its size keeps the accounts.
LEMMA UsageEnter ==
  ASSUME TypeOK, UsageMatchesAvailable, NEW a \in AssetIds, NEW n \in 0..MaxBytes,
         state[a] # "available", partition[a] \in Partitions,
         AcquireQuota(partition[a], n),
         state' = [state EXCEPT ![a] = "available"],
         partition' = partition, size' = [size EXCEPT ![a] = n]
  PROVE  UsageMatchesAvailable'
<1>0. SizeOf'[a] = n /\ n \in Nat /\ n # None
  BY ConstantsAssumption DEF SizeOf, Or0, TypeOK
<1>1. ASSUME NEW S \in SUBSET AssetIds, a \notin S
      PROVE  /\ Total(S \cup {a}, SizeOf') = Total(S, SizeOf) + n
             /\ Total(S, SizeOf') = Total(S, SizeOf)
             /\ Cardinality(S \cup {a}) = Cardinality(S) + 1
  <2>1. \A b \in S : SizeOf'[b] = SizeOf[b]
    BY <1>1 DEF SizeOf, Or0, TypeOK
  <2>2. Total(S, SizeOf') = Total(S, SizeOf)
    BY <2>1, TotalAgree
  <2>3. Total(S \cup {a}, SizeOf') = Total(S, SizeOf') + n
    BY <1>0, <1>1, TotalAdd
  <2>4. IsFiniteSet(S)
    BY FS_Subset, ConstantsAssumption
  <2>5. Cardinality(S \cup {a}) = Cardinality(S) + 1
    BY <1>1, <2>4, FS_AddElement
  <2> QED
    BY <2>2, <2>3, <2>5
<1>2. ASSUME NEW p \in Partitions
      PROVE  /\ used_bytes'[p] = Total(Available(p)', SizeOf')
             /\ used_asset_count'[p] = Cardinality(Available(p)')
  <2>0. Available(p) \in SUBSET AssetIds /\ a \notin Available(p)
    BY DEF Available
  <2>1. CASE p = partition[a]
    <3>1. Available(p)' = Available(p) \cup {a}
      BY <2>1 DEF Available, TypeOK
    <3>2. used_bytes'[p] = used_bytes[p] + n /\ used_asset_count'[p] = used_asset_count[p] + 1
      BY <2>1 DEF AcquireQuota, TypeOK
    <3> QED
      BY <1>1, <2>0, <3>1, <3>2 DEF UsageMatchesAvailable
  <2>2. CASE p # partition[a]
    <3>1. Available(p)' = Available(p)
      BY <2>2 DEF Available, TypeOK
    <3>2. used_bytes'[p] = used_bytes[p] /\ used_asset_count'[p] = used_asset_count[p]
      BY <2>2 DEF AcquireQuota, TypeOK
    <3> QED
      BY <1>1, <2>0, <3>1, <3>2 DEF UsageMatchesAvailable
  <2> QED
    BY <2>1, <2>2
<1>3. ASSUME NEW s \in Spaces
      PROVE  bucket_used'[s] = Total(AvailableIn(s)', SizeOf')
  <2>0. AvailableIn(s) \in SUBSET AssetIds /\ a \notin AvailableIn(s)
    BY DEF AvailableIn
  <2>1. CASE s = SpaceOf[partition[a]]
    <3>1. AvailableIn(s)' = AvailableIn(s) \cup {a}
      BY <2>1 DEF AvailableIn, TypeOK
    <3>2. bucket_used'[s] = bucket_used[s] + n
      BY <2>1 DEF AcquireQuota, TypeOK
    <3> QED
      BY <1>1, <2>0, <3>1, <3>2 DEF UsageMatchesAvailable
  <2>2. CASE s # SpaceOf[partition[a]]
    <3>1. AvailableIn(s)' = AvailableIn(s)
      BY <2>2 DEF AvailableIn, TypeOK
    <3>2. bucket_used'[s] = bucket_used[s]
      BY <2>2 DEF AcquireQuota, TypeOK
    <3> QED
      BY <1>1, <2>0, <3>1, <3>2 DEF UsageMatchesAvailable
  <2> QED
    BY <2>1, <2>2
<1> QED
  BY <1>2, <1>3 DEF UsageMatchesAvailable, Total, Units

\* An asset that leaves its state through ReleaseQuota keeps the accounts: the
\* max(0, ...) of the code never has to clamp.
LEMMA UsageLeave ==
  ASSUME StructInv, UsageMatchesAvailable, NEW a \in AssetIds, ReleaseQuota(a),
         NEW st \in {"expired", "deleted"}, state' = [state EXCEPT ![a] = st],
         partition' = partition, size' = size
  PROVE  UsageMatchesAvailable'
<1>0. TypeOK
  BY DEF StructInv
<1>1. CASE state[a] # "available"
  <2>1. UNCHANGED usageVars
    BY <1>1 DEF ReleaseQuota
  <2>2. \A b \in AssetIds : state'[b] = "available" <=> state[b] = "available"
    BY <1>0, <1>1 DEF TypeOK
  <2> QED
    BY <1>0, <2>1, <2>2, UsageUnmoved
<1>2. CASE state[a] = "available"
  <2> DEFINE n == SizeOf[a]  q == partition[a]
  <2>0. /\ q \in Partitions /\ SpaceOf[q] \in Spaces
        /\ n \in 0..MaxBytes /\ n \in Nat /\ n = Or0(size[a]) /\ SizeOf' = SizeOf
    BY <1>0, <1>2, ConstantsAssumption
       DEF TypeOK, Exists, SizeOf, Or0, StructInv, FieldsMatchState
  <2>1. /\ used_bytes' = [used_bytes EXCEPT ![q] = Minus(used_bytes[q], n)]
        /\ used_asset_count' = [used_asset_count EXCEPT ![q] = Minus(used_asset_count[q], 1)]
        /\ bucket_used' = [bucket_used EXCEPT ![SpaceOf[q]] = Minus(bucket_used[SpaceOf[q]], n)]
    BY <1>2, <2>0 DEF ReleaseQuota
  <2> HIDE DEF n, q
  <2>2. ASSUME NEW S \in SUBSET AssetIds, a \in S
        PROVE  /\ Total(S \ {a}, SizeOf) = Minus(Total(S, SizeOf), n)
               /\ Cardinality(S \ {a}) = Minus(Cardinality(S), 1)
    <3>1. Total(S \ {a}, SizeOf) = Total(S, SizeOf) - n /\ n <= Total(S, SizeOf)
      BY <2>0, <2>2, TotalRemove DEF n
    <3>2. IsFiniteSet(S)
      BY FS_Subset, ConstantsAssumption
    <3>3. Cardinality(S) \in Nat /\ Cardinality(S) # 0
      BY <2>2, <3>2, FS_CardinalityType, FS_EmptySet
    <3>4. Cardinality(S \ {a}) = Cardinality(S) - 1
      BY <2>2, <3>2, FS_RemoveElement
    <3>5. Total(S, SizeOf) \in Nat
      BY TotalType
    <3> QED
      BY <2>0, <3>1, <3>3, <3>4, <3>5 DEF Minus
  <2>3. ASSUME NEW p \in Partitions
        PROVE  /\ used_bytes'[p] = Total(Available(p)', SizeOf')
               /\ used_asset_count'[p] = Cardinality(Available(p)')
    <3>1. CASE p = q
      <4>1. Available(p)' = Available(p) \ {a} /\ a \in Available(p)
            /\ Available(p) \in SUBSET AssetIds
        BY <1>0, <1>2, <3>1 DEF Available, TypeOK, q
      <4>2. /\ used_bytes'[p] = Minus(used_bytes[p], n)
            /\ used_asset_count'[p] = Minus(used_asset_count[p], 1)
        BY <1>0, <2>1, <3>1 DEF TypeOK
      <4> QED
        BY <2>0, <2>2, <4>1, <4>2 DEF UsageMatchesAvailable
    <3>2. CASE p # q
      <4>1. Available(p)' = Available(p)
        BY <1>0, <3>2 DEF Available, TypeOK, q
      <4>2. used_bytes'[p] = used_bytes[p] /\ used_asset_count'[p] = used_asset_count[p]
        BY <1>0, <2>1, <3>2 DEF TypeOK
      <4> QED
        BY <2>0, <4>1, <4>2 DEF UsageMatchesAvailable
    <3> QED
      BY <3>1, <3>2
  <2>4. ASSUME NEW s \in Spaces
        PROVE  bucket_used'[s] = Total(AvailableIn(s)', SizeOf')
    <3>1. CASE s = SpaceOf[q]
      <4>1. AvailableIn(s)' = AvailableIn(s) \ {a} /\ a \in AvailableIn(s)
            /\ AvailableIn(s) \in SUBSET AssetIds
        BY <1>0, <1>2, <3>1 DEF AvailableIn, TypeOK, q
      <4>2. bucket_used'[s] = Minus(bucket_used[s], n)
        BY <1>0, <2>1, <3>1 DEF TypeOK
      <4> QED
        BY <2>0, <2>2, <4>1, <4>2 DEF UsageMatchesAvailable
    <3>2. CASE s # SpaceOf[q]
      <4>1. AvailableIn(s)' = AvailableIn(s)
        BY <1>0, <3>2 DEF AvailableIn, TypeOK, q
      <4>2. bucket_used'[s] = bucket_used[s]
        BY <1>0, <2>1, <3>2 DEF TypeOK
      <4> QED
        BY <2>0, <4>1, <4>2 DEF UsageMatchesAvailable
    <3> QED
      BY <3>1, <3>2
  <2> QED
    BY <2>3, <2>4 DEF UsageMatchesAvailable, Total, Units
<1> QED
  BY <1>1, <1>2

\* Every operation keeps the quota counters equal to what is available.
LEMMA UsageStep ==
  ASSUME StructInv, UsageMatchesAvailable, [Next]_vars
  PROVE  UsageMatchesAvailable'
<1>0. TypeOK /\ FieldsMatchState /\ ByteSizes \subseteq 0..MaxBytes
  BY ConstantsAssumption DEF StructInv
<1> USE <1>0 DEF assetVars, aliasVars, limitVars
<1>1. ASSUME NEW a \in AssetIds, NEW p \in Partitions, NEW bytes \in ByteSizes \cup {None},
             NEW K \in SUBSET Under[p], NEW mut \in SUBSET K,
             ReserveAsset(a, p, K, mut, bytes)
      PROVE  UsageMatchesAvailable'
  <2>1. UNCHANGED usageVars /\ state[a] = "absent"
    BY <1>1 DEF ReserveAsset, Exists
  <2>2. \A b \in AssetIds : state'[b] = "available" <=> state[b] = "available"
    BY <1>1, <2>1 DEF ReserveAsset, TypeOK
  <2>3. \A b \in AssetIds : state[b] = "available" =>
          size'[b] = size[b] /\ partition'[b] = partition[b]
    BY <1>1, <2>1 DEF ReserveAsset, TypeOK
  <2> QED
    BY <2>1, <2>2, <2>3, UsageUnmoved
<1>2. ASSUME NEW a \in AssetIds, NEW n \in ByteSizes, CommitAsset(a, n)
      PROVE  UsageMatchesAvailable'
  <2>1. partition[a] \in Partitions /\ state[a] # "available"
    BY <1>2 DEF CommitAsset, TypeOK, Exists
  <2> QED
    BY <1>2, <2>1, UsageEnter DEF CommitAsset
<1>3. ASSUME NEW k \in Aliases, DetachAlias(k) \/ DetachMutableAlias(k)
      PROVE  UsageMatchesAvailable'
  <2>1. binding[k] \in AssetIds
    BY <1>3 DEF DetachAlias, DetachMutableAlias, TypeOK
  <2>2. MarkForGcIfOrphaned(binding[k], k) /\ partition' = partition /\ size' = size
    BY <1>3 DEF DetachAlias, DetachMutableAlias
  <2>3. CASE UNCHANGED <<state, usageVars>>
    BY <2>2, <2>3, UsageUnmoved
  <2>4. CASE state' = [state EXCEPT ![binding[k]] = "expired"] /\ ReleaseQuota(binding[k])
    BY <2>1, <2>2, <2>4, UsageLeave
  <2> QED
    BY <2>2, <2>3, <2>4 DEF MarkForGcIfOrphaned
<1>4. ASSUME NEW a \in AssetIds, ExpireAsset(a)
      PROVE  UsageMatchesAvailable'
  BY <1>4, UsageLeave DEF ExpireAsset
<1>5. ASSUME NEW a \in AssetIds, DeleteAsset(a)
      PROVE  UsageMatchesAvailable'
  BY <1>5, UsageLeave DEF DeleteAsset
<1>6. ASSUME NEW a \in AssetIds, SetAssetTtl(a)
      PROVE  UsageMatchesAvailable'
  <2>1. partition[a] \in Partitions /\ size[a] \in 0..MaxBytes
    BY <1>6 DEF SetAssetTtl, TypeOK, Exists
  <2>2. CASE state[a] = "expired"
    <3>1. size' = [size EXCEPT ![a] = size[a]]
      BY <1>6 DEF SetAssetTtl, TypeOK
    <3> QED
      BY <1>6, <2>1, <2>2, <3>1, UsageEnter DEF SetAssetTtl
  <2>3. CASE state[a] = "available"
    <3>1. state' = state
      BY <1>6, <2>3 DEF SetAssetTtl, TypeOK
    <3> QED
      BY <1>6, <2>3, <3>1, UsageUnmoved DEF SetAssetTtl
  <2> QED
    BY <1>6, <2>2, <2>3 DEF SetAssetTtl
<1>7. ASSUME NEW a \in AssetIds, NEW st \in {"expired", "deleted"}, NEW pd \in BOOLEAN,
             LifecycleUpdate(a, st, pd)
      PROVE  UsageMatchesAvailable'
  BY <1>7, UsageLeave DEF LifecycleUpdate
<1>8. CASE UNCHANGED <<state, partition, size, usageVars>>
  BY <1>8, UsageUnmoved
<1> QED
  BY <1>1, <1>2, <1>3, <1>4, <1>5, <1>6, <1>7, <1>8
     DEF Next, RejectedReserve, AttachAlias, RebindAlias, SetPartitionQuota,
         SetBucketQuota, Tick, vars, usageVars

\* The quota counters of every partition and bucket always equal the bytes and the
\* number of its available assets, for any number of assets, partitions and buckets.
THEOREM AccountingSafe == Spec => []UsageMatchesAvailable
<1>1. Init => UsageMatchesAvailable
  <2> SUFFICES ASSUME Init PROVE UsageMatchesAvailable
    OBVIOUS
  <2>1. \A p \in Partitions : Available(p) = {}
    BY DEF Init, Available
  <2>2. \A s \in Spaces : AvailableIn(s) = {}
    BY DEF Init, AvailableIn
  <2>3. Units({}, SizeOf) = {}
    BY DEF Units
  <2>4. Cardinality({}) = 0
    BY FS_EmptySet
  <2> QED
    BY <2>1, <2>2, <2>3, <2>4 DEF Init, UsageMatchesAvailable, Total
<1>2. StructInv /\ UsageMatchesAvailable /\ [Next]_vars => UsageMatchesAvailable'
  BY UsageStep
<1> QED
  BY <1>1, <1>2, StructureSafe, PTL DEF Spec

-----------------------------------------------------------------------------
(* What a step may never do *)

\* One operation keeps the order of the lifecycle.
LEMMA LifecycleKept ==
  ASSUME StructInv, [Next]_vars
  PROVE  LifecycleStep
<1> USE DEF LifecycleStep
<1>0. TypeOK /\ FieldsMatchState
  BY DEF StructInv
<1> USE <1>0 DEF assetVars
<1>1. ASSUME NEW a \in AssetIds, NEW p \in Partitions,
             NEW bytes \in ByteSizes \cup {None},
             NEW K \in SUBSET Under[p], NEW mut \in SUBSET K,
             ReserveAsset(a, p, K, mut, bytes)
      PROVE  LifecycleStep
  BY <1>1 DEF ReserveAsset, Exists, TypeOK
<1>2. ASSUME NEW a \in AssetIds, NEW n \in ByteSizes, CommitAsset(a, n)
      PROVE  LifecycleStep
  BY <1>2 DEF CommitAsset, Exists, TypeOK, FieldsMatchState
<1>3. ASSUME NEW k \in Aliases, DetachAlias(k) \/ DetachMutableAlias(k)
      PROVE  LifecycleStep
  <2>1. binding[k] \in AssetIds /\ Exists(binding[k])
    BY <1>3 DEF DetachAlias, DetachMutableAlias, StructInv, AliasUnderPartition, TypeOK
  <2>2. MarkForGcIfOrphaned(binding[k], k)
        /\ UNCHANGED <<partition, size, reserved, purged>>
    BY <1>3 DEF DetachAlias, DetachMutableAlias
  <2>3. state[binding[k]] \in {"pending", "available", "expired", "deleted"}
    BY <2>1 DEF TypeOK, AssetState, Exists
  <2> QED
    BY <2>1, <2>2, <2>3 DEF MarkForGcIfOrphaned, TypeOK
<1>4. ASSUME NEW a \in AssetIds, ExpireAsset(a)
      PROVE  LifecycleStep
  BY <1>4 DEF ExpireAsset, TypeOK
<1>5. ASSUME NEW a \in AssetIds, DeleteAsset(a)
      PROVE  LifecycleStep
  BY <1>5 DEF DeleteAsset, TypeOK
<1>6. ASSUME NEW a \in AssetIds, SetAssetTtl(a)
      PROVE  LifecycleStep
  BY <1>6 DEF SetAssetTtl, TypeOK
<1>7. ASSUME NEW a \in AssetIds, NEW st \in {"expired", "deleted"}, NEW pd \in BOOLEAN,
             LifecycleUpdate(a, st, pd)
      PROVE  LifecycleStep
  <2>1. CASE pd
    <3>1. state[a] = "deleted" /\ st = "deleted" /\ purged' = purged \cup {a}
      BY <1>7, <2>1 DEF LifecycleUpdate, ValidCleanup
    <3> QED
      BY <1>7, <3>1 DEF LifecycleUpdate, TypeOK
  <2>2. CASE ~pd
    <3>1. purged' = purged
          /\ \/ st = "expired" /\ state[a] = "available"
             \/ st = "deleted" /\ state[a] \in {"pending", "expired", "deleted"}
      BY <1>7, <2>2 DEF LifecycleUpdate, ValidCleanup
    <3> QED
      BY <1>7, <3>1 DEF LifecycleUpdate, TypeOK
  <2> QED
    BY <2>1, <2>2
<1>8. CASE UNCHANGED <<state, partition, size, reserved, purged>>
  BY <1>8
<1> QED
  BY <1>1, <1>2, <1>3, <1>4, <1>5, <1>6, <1>7, <1>8
     DEF Next, RejectedReserve, AttachAlias, RebindAlias, SetPartitionQuota,
         SetBucketQuota, Tick, vars

\* No operation revives a deleted asset, rewrites a committed size or gives up
\* bytes that an earlier step has not fenced.
THEOREM LifecycleSafe == Spec => LifecycleOrder
<1>1. StructInv /\ [Next]_vars => [LifecycleStep]_vars
  BY LifecycleKept
<1> QED
  BY <1>1, StructureSafe, PTL DEF Spec, LifecycleOrder

\* A name in its grace period stays unbound, whatever operation runs.
THEOREM GraceSafe == Spec => GraceHolds
<1> USE DEF GraceStep
<1>1. ASSUME StructInv, [Next]_vars
      PROVE  GraceStep
  <2>0. TypeOK /\ AliasIndexConsistent
    BY <1>1 DEF StructInv
  <2> USE <2>0 DEF aliasVars
  <2>1. ASSUME NEW k \in Aliases, InGrace(k)
        PROVE  k \notin registered
    BY <2>1 DEF InGrace, AliasIndexConsistent
  <2>2. ASSUME NEW a \in AssetIds, NEW K \in SUBSET Aliases, NEW mut,
               Register(K, mut, a), \A k \in K : NameAvailable(k)
        PROVE  GraceStep
    BY <2>1, <2>2 DEF Register, ClearTombstones, NameAvailable
  <2>3. ASSUME NEW a \in AssetIds, NEW p \in Partitions,
               NEW bytes \in ByteSizes \cup {None},
               NEW K \in SUBSET Under[p], NEW mut \in SUBSET K,
               ReserveAsset(a, p, K, mut, bytes)
        PROVE  GraceStep
    BY <2>2, <2>3, ConstantsAssumption DEF ReserveAsset
  <2>4. ASSUME NEW a \in AssetIds, NEW k \in Aliases, NEW mut \in SUBSET {k},
               AttachAlias(a, k, mut)
        PROVE  GraceStep
    BY <2>2, <2>4 DEF AttachAlias
  <2>5. ASSUME NEW k \in Aliases, RejectedReserve(k)
        PROVE  GraceStep
    BY <2>1, <2>5 DEF RejectedReserve, ClearTombstones
  <2>6. ASSUME NEW k \in Aliases, DetachAlias(k)
        PROVE  GraceStep
    BY <2>1, <2>6 DEF DetachAlias, TypeOK
  <2>7. CASE UNCHANGED <<registered, tombstones>>
    BY <2>1, <2>7
  <2> QED
    BY <1>1, <2>3, <2>4, <2>5, <2>6, <2>7
       DEF Next, CommitAsset, DetachMutableAlias, RebindAlias, ExpireAsset, DeleteAsset,
           SetAssetTtl, LifecycleUpdate, SetPartitionQuota, SetBucketQuota, Tick, vars
<1>2. StructInv /\ [Next]_vars => [GraceStep]_vars
  BY <1>1
<1> HIDE DEF GraceStep
<1> QED
  BY <1>2, StructureSafe, PTL DEF Spec, GraceHolds

\* The step that takes an asset's last name away leaves it out of service.
THEOREM LastNameSafe == Spec => LastNameRetires
<1> USE DEF LastNameStep
<1>1. ASSUME StructInv, [Next]_vars
      PROVE  LastNameStep
  <2>0. TypeOK
    BY <1>1 DEF StructInv
  <2> USE <2>0 DEF aliasVars
  <2>1. ASSUME NEW a \in AssetIds, NEW k \in Aliases, MarkForGcIfOrphaned(a, k),
               aliases' = [aliases EXCEPT ![a] = @ \ {k}]
        PROVE  LastNameStep
    BY <2>1 DEF MarkForGcIfOrphaned, TypeOK
  <2>2. ASSUME NEW k \in Aliases, DetachAlias(k) \/ DetachMutableAlias(k)
        PROVE  LastNameStep
    <3>1. binding[k] \in AssetIds
      BY <2>2 DEF DetachAlias, DetachMutableAlias, TypeOK
    <3> QED
      BY <2>1, <2>2, <3>1 DEF DetachAlias, DetachMutableAlias
  <2>3. ASSUME \A a \in AssetIds : aliases[a] \subseteq aliases'[a]
        PROVE  LastNameStep
    BY <2>3
  <2>4. ASSUME NEW a \in AssetIds, NEW p \in Partitions,
               NEW bytes \in ByteSizes \cup {None},
               NEW K \in SUBSET Under[p], NEW mut \in SUBSET K,
               ReserveAsset(a, p, K, mut, bytes)
        PROVE  LastNameStep
    BY <2>3, <2>4 DEF ReserveAsset, Register, TypeOK
  <2>5. ASSUME NEW a \in AssetIds, NEW k \in Aliases, NEW mut \in SUBSET {k},
               AttachAlias(a, k, mut)
        PROVE  LastNameStep
    BY <2>3, <2>5 DEF AttachAlias, Register, TypeOK
  <2>6. ASSUME NEW k \in Aliases, NEW a \in AssetIds, RebindAlias(k, a)
        PROVE  LastNameStep
    BY <2>3, <2>6 DEF RebindAlias, TypeOK
  <2>7. CASE UNCHANGED aliases
    BY <2>7
  <2> QED
    BY <1>1, <2>2, <2>4, <2>5, <2>6, <2>7
       DEF Next, RejectedReserve, CommitAsset, ExpireAsset, DeleteAsset, SetAssetTtl,
           LifecycleUpdate, SetPartitionQuota, SetBucketQuota, Tick, vars
<1>2. StructInv /\ [Next]_vars => [LastNameStep]_vars
  BY <1>1
<1> HIDE DEF LastNameStep
<1> QED
  BY <1>2, StructureSafe, PTL DEF Spec, LastNameRetires

-----------------------------------------------------------------------------
(* Admission *)

\* What a set weighs after a step that concerned one asset.
LEMMA TotalAfter ==
  ASSUME NEW S \in SUBSET AssetIds, NEW T \in SUBSET AssetIds, NEW w, NEW v,
         NEW a \in AssetIds, S \ {a} = T \ {a}, \A b \in S \ {a} : w[b] = v[b],
         v[a] \in 0..MaxBytes
  PROVE  Total(T, v) = Total(S \ {a}, w) + (IF a \in T THEN v[a] ELSE 0)
<1>1. Total(S \ {a}, w) = Total(T \ {a}, v) /\ Total(T \ {a}, v) \in Nat
  BY TotalAgree, TotalType
<1>2. CASE a \in T
  <2>1. Total((T \ {a}) \cup {a}, v) = Total(T \ {a}, v) + v[a]
    BY TotalAdd
  <2>2. (T \ {a}) \cup {a} = T
    BY <1>2
  <2> QED
    BY <1>1, <1>2, <2>1, <2>2
<1>3. CASE a \notin T
  <2>1. T \ {a} = T
    BY <1>3
  <2> QED
    BY <1>1, <1>3, <2>1
<1> QED
  BY <1>2, <1>3

\* How many there are after such a step.
LEMMA CountAfter ==
  ASSUME NEW S \in SUBSET AssetIds, NEW T \in SUBSET AssetIds, NEW a \in AssetIds,
         S \ {a} = T \ {a}
  PROVE  /\ Cardinality(S \ {a}) \in Nat
         /\ Cardinality(T) = Cardinality(S \ {a}) + (IF a \in T THEN 1 ELSE 0)
<1>1. IsFiniteSet(S \ {a}) /\ Cardinality(S \ {a}) \in Nat
  BY FS_Subset, FS_CardinalityType, ConstantsAssumption
<1>2. CASE a \in T
  <2>1. T = (S \ {a}) \cup {a} /\ a \notin S \ {a}
    BY <1>2
  <2> QED
    BY <1>1, <1>2, <2>1, FS_AddElement
<1>3. CASE a \notin T
  <2>1. T = S \ {a}
    BY <1>3
  <2> QED
    BY <1>1, <1>3, <2>1
<1> QED
  BY <1>1, <1>2, <1>3

\* Part of a set weighs no more than the set.
LEMMA TotalWithin ==
  ASSUME NEW S \in SUBSET AssetIds, NEW T \in SUBSET S, NEW w, NEW v,
         \A b \in T : w[b] = v[b]
  PROVE  Total(T, v) <= Total(S, w) /\ Cardinality(T) <= Cardinality(S)
<1>1. Units(T, v) \subseteq Units(S, w)
  BY DEF Units
<1>2. IsFiniteSet(Units(S, w))
  BY TotalType
<1>3. Total(T, v) <= Total(S, w)
  BY <1>1, <1>2, FS_Subset DEF Total
<1>4. Cardinality(T) <= Cardinality(S)
  BY FS_Subset, ConstantsAssumption
<1> QED
  BY <1>3, <1>4

\* No counter rises and no reservation appears: nothing more is promised.
LEMMA NoMorePromised ==
  ASSUME TypeOK, TypeOK',
         \A p \in Partitions : /\ used_bytes'[p] <= used_bytes[p]
                               /\ used_asset_count'[p] <= used_asset_count[p],
         \A s \in Spaces : bucket_used'[s] <= bucket_used[s],
         \A b \in AssetIds : state'[b] = "pending" /\ reserved'[b] # None =>
           state[b] = "pending" /\ reserved'[b] = reserved[b] /\ partition'[b] = partition[b]
  PROVE  LogicalStep /\ CountStep
<1>1. ASSUME NEW p \in Partitions
      PROVE  ~(Committed(p)' > Committed(p)) /\ ~(Slots(p)' > Slots(p))
  <2>1. /\ Reserving(p) \in SUBSET AssetIds /\ Reserving(p)' \in SUBSET Reserving(p)
        /\ \A b \in Reserving(p)' : ReservedOf[b] = ReservedOf'[b]
    BY DEF Reserving, ReservedOf, Or0
  <2>2. /\ Total(Reserving(p)', ReservedOf') <= Total(Reserving(p), ReservedOf)
        /\ Cardinality(Reserving(p)') <= Cardinality(Reserving(p))
    BY <2>1, TotalWithin
  <2>3. /\ Total(Reserving(p)', ReservedOf') \in Nat /\ Total(Reserving(p), ReservedOf) \in Nat
        /\ Cardinality(Reserving(p)') \in Nat /\ Cardinality(Reserving(p)) \in Nat
    BY <2>1, TotalType, FS_Subset, FS_CardinalityType, ConstantsAssumption
  <2>4. /\ used_bytes[p] \in Nat /\ used_bytes'[p] \in Nat
        /\ used_asset_count[p] \in Nat /\ used_asset_count'[p] \in Nat
    BY DEF TypeOK
  <2>5. Committed(p)' = used_bytes'[p] + Total(Reserving(p)', ReservedOf')
    BY DEF Committed, Total, Units
  <2>6. Committed(p)' <= Committed(p) /\ Committed(p)' \in Nat /\ Committed(p) \in Nat
    BY <2>2, <2>3, <2>4, <2>5 DEF Committed
  <2>7. Slots(p)' <= Slots(p) /\ Slots(p)' \in Nat /\ Slots(p) \in Nat
    BY <2>2, <2>3, <2>4 DEF Slots
  <2> QED
    BY <2>6, <2>7
<1>2. ASSUME NEW s \in Spaces
      PROVE  ~(CommittedIn(s)' > CommittedIn(s))
  <2>1. /\ ReservingIn(s) \in SUBSET AssetIds /\ ReservingIn(s)' \in SUBSET ReservingIn(s)
        /\ \A b \in ReservingIn(s)' : ReservedOf[b] = ReservedOf'[b]
    BY DEF ReservingIn, ReservedOf, Or0
  <2>2. Total(ReservingIn(s)', ReservedOf') <= Total(ReservingIn(s), ReservedOf)
    BY <2>1, TotalWithin
  <2>3. /\ Total(ReservingIn(s)', ReservedOf') \in Nat /\ Total(ReservingIn(s), ReservedOf) \in Nat
        /\ bucket_used[s] \in Nat /\ bucket_used'[s] \in Nat
    BY <2>1, TotalType DEF TypeOK
  <2>4. CommittedIn(s)' = bucket_used'[s] + Total(ReservingIn(s)', ReservedOf')
    BY DEF CommittedIn, Total, Units
  <2> QED
    BY <2>2, <2>3, <2>4 DEF CommittedIn
<1> QED
  BY <1>1, <1>2 DEF LogicalStep, CountStep

\* No payload appears or grows: nothing more is held.
LEMMA NoMoreHeld ==
  ASSUME TypeOK, TypeOK',
         \A b \in AssetIds : Exists(b)' /\ b \notin purged' =>
           /\ Exists(b) /\ b \notin purged /\ partition'[b] = partition[b]
           /\ size'[b] = size[b] /\ reserved'[b] = reserved[b]
  PROVE  PhysicalStep
<1>1. ASSUME NEW s \in Spaces
      PROVE  ~(Physical(s)' > Physical(s))
  <2>1. /\ StoredIn(s) \in SUBSET AssetIds /\ StoredIn(s)' \in SUBSET StoredIn(s)
        /\ \A b \in StoredIn(s)' : PhysicalOf[b] = PhysicalOf'[b]
    BY DEF StoredIn, PhysicalOf, Or0
  <2>2. Total(StoredIn(s)', PhysicalOf') <= Total(StoredIn(s), PhysicalOf)
    BY <2>1, TotalWithin
  <2>3. Total(StoredIn(s)', PhysicalOf') \in Nat /\ Total(StoredIn(s), PhysicalOf) \in Nat
    BY <2>1, TotalType
  <2>4. Physical(s)' = Total(StoredIn(s)', PhysicalOf')
    BY DEF Physical, Total, Units
  <2> QED
    BY <2>2, <2>3, <2>4 DEF Physical
<1> QED
  BY <1>1 DEF PhysicalStep

\* A step leaves the byte fields of every other asset alone.
OnlyFor(a) ==
  \A b \in AssetIds \ {a} :
    /\ state'[b] = state[b] /\ partition'[b] = partition[b] /\ size'[b] = size[b]
    /\ reserved'[b] = reserved[b] /\ (b \in purged' <=> b \in purged)

\* Payloads held after such a step: the others' and the asset's own.
LEMMA HeldAfter ==
  ASSUME TypeOK', NEW a \in AssetIds, OnlyFor(a), NEW s \in Spaces
  PROVE  Physical(s)' = Total(StoredIn(s) \ {a}, PhysicalOf)
                          + (IF a \in StoredIn(s)' THEN PhysicalOf'[a] ELSE 0)
<1>1. /\ StoredIn(s) \in SUBSET AssetIds /\ StoredIn(s)' \in SUBSET AssetIds
      /\ StoredIn(s) \ {a} = StoredIn(s)' \ {a}
  BY DEF StoredIn, OnlyFor, Exists
<1>2. \A b \in StoredIn(s) \ {a} : PhysicalOf[b] = PhysicalOf'[b]
  BY DEF StoredIn, OnlyFor, PhysicalOf
<1>3. PhysicalOf'[a] \in 0..MaxBytes
  BY ConstantsAssumption DEF PhysicalOf, Or0, TypeOK
<1>4. Total(StoredIn(s)', PhysicalOf')
        = Total(StoredIn(s) \ {a}, PhysicalOf) + (IF a \in StoredIn(s)' THEN PhysicalOf'[a] ELSE 0)
  BY <1>1, <1>2, <1>3, TotalAfter
<1>5. Physical(s)' = Total(StoredIn(s)', PhysicalOf')
  BY DEF Physical, Total, Units
<1> QED
  BY <1>4, <1>5

\* Bytes and slots promised in a partition after such a step.
LEMMA PromisedAfter ==
  ASSUME TypeOK', NEW a \in AssetIds, OnlyFor(a), NEW p \in Partitions
  PROVE  /\ Committed(p)' = used_bytes'[p] + (Total(Reserving(p) \ {a}, ReservedOf)
                              + (IF a \in Reserving(p)' THEN ReservedOf'[a] ELSE 0))
         /\ Slots(p)' = used_asset_count'[p] + (Cardinality(Reserving(p) \ {a})
                              + (IF a \in Reserving(p)' THEN 1 ELSE 0))
         /\ Total(Reserving(p) \ {a}, ReservedOf) \in Nat
         /\ Cardinality(Reserving(p) \ {a}) \in Nat
<1>1. /\ Reserving(p) \in SUBSET AssetIds /\ Reserving(p)' \in SUBSET AssetIds
      /\ Reserving(p) \ {a} = Reserving(p)' \ {a}
  BY DEF Reserving, OnlyFor
<1>2. \A b \in Reserving(p) \ {a} : ReservedOf[b] = ReservedOf'[b]
  BY DEF Reserving, OnlyFor, ReservedOf
<1>3. ReservedOf'[a] \in 0..MaxBytes
  BY ConstantsAssumption DEF ReservedOf, Or0, TypeOK
<1>4. Total(Reserving(p)', ReservedOf')
        = Total(Reserving(p) \ {a}, ReservedOf) + (IF a \in Reserving(p)' THEN ReservedOf'[a] ELSE 0)
  BY <1>1, <1>2, <1>3, TotalAfter
<1>5. /\ Cardinality(Reserving(p)')
           = Cardinality(Reserving(p) \ {a}) + (IF a \in Reserving(p)' THEN 1 ELSE 0)
      /\ Cardinality(Reserving(p) \ {a}) \in Nat
  <2>1. PICK S \in SUBSET AssetIds, T \in SUBSET AssetIds :
          S = Reserving(p) /\ T = Reserving(p)' /\ S \ {a} = T \ {a}
    BY <1>1
  <2>2. /\ Cardinality(S \ {a}) \in Nat
        /\ Cardinality(T) = Cardinality(S \ {a}) + (IF a \in T THEN 1 ELSE 0)
    BY <2>1, CountAfter
  <2> QED
    BY <2>1, <2>2
<1>6. Total(Reserving(p) \ {a}, ReservedOf) \in Nat
  BY <1>1, TotalType
<1>7. Committed(p)' = used_bytes'[p] + Total(Reserving(p)', ReservedOf')
  BY DEF Committed, Total, Units
<1>8. Slots(p)' = used_asset_count'[p] + Cardinality(Reserving(p)')
  BY DEF Slots
<1> QED
  BY <1>4, <1>5, <1>6, <1>7, <1>8

\* Bytes promised in a bucket after such a step.
LEMMA PromisedInAfter ==
  ASSUME TypeOK', NEW a \in AssetIds, OnlyFor(a), NEW s \in Spaces
  PROVE  /\ CommittedIn(s)' = bucket_used'[s] + (Total(ReservingIn(s) \ {a}, ReservedOf)
                                + (IF a \in ReservingIn(s)' THEN ReservedOf'[a] ELSE 0))
         /\ Total(ReservingIn(s) \ {a}, ReservedOf) \in Nat
<1>1. /\ ReservingIn(s) \in SUBSET AssetIds /\ ReservingIn(s)' \in SUBSET AssetIds
      /\ ReservingIn(s) \ {a} = ReservingIn(s)' \ {a}
  BY DEF ReservingIn, OnlyFor
<1>2. \A b \in ReservingIn(s) \ {a} : ReservedOf[b] = ReservedOf'[b]
  BY DEF ReservingIn, OnlyFor, ReservedOf
<1>3. ReservedOf'[a] \in 0..MaxBytes
  BY ConstantsAssumption DEF ReservedOf, Or0, TypeOK
<1>4. Total(ReservingIn(s)', ReservedOf')
        = Total(ReservingIn(s) \ {a}, ReservedOf)
            + (IF a \in ReservingIn(s)' THEN ReservedOf'[a] ELSE 0)
  BY <1>1, <1>2, <1>3, TotalAfter
<1>5. Total(ReservingIn(s) \ {a}, ReservedOf) \in Nat
  BY <1>1, TotalType
<1>6. CommittedIn(s)' = bucket_used'[s] + Total(ReservingIn(s)', ReservedOf')
  BY DEF CommittedIn, Total, Units
<1> QED
  BY <1>4, <1>5, <1>6

\* An admission adds n bytes to its partition and its bucket, once: as a reservation
\* or as usage.  The asset's own earlier part in the sums was left out of the check.
LEMMA AdmittedWithin ==
  ASSUME TypeOK, TypeOK', NEW a \in AssetIds, OnlyFor(a), NEW p \in Partitions,
         NEW n \in 0..MaxBytes, NEW X, EnforceQuota(p, n, X),
         X = {a} \/ (X = {} /\ state[a] = "absent"),
         partition'[a] = p, Exists(a) => partition[a] = p,
         Exists(a)', a \notin purged', PhysicalOf'[a] = n,
         \/ state'[a] = "pending" /\ reserved'[a] = n /\ UNCHANGED usageVars
         \/ state'[a] = "available" /\ AcquireQuota(p, n)
  PROVE  LogicalStep /\ PhysicalStep /\ CountStep
<1> DEFINE t == SpaceOf[p]
<1>0. n \in Nat /\ n # None /\ t \in Spaces /\ MaxBytes \in Nat
  BY ConstantsAssumption
<1>1. /\ Reserving(p) \ X = Reserving(p) \ {a} /\ ReservingIn(t) \ X = ReservingIn(t) \ {a}
      /\ StoredIn(t) \ X = StoredIn(t) \ {a}
  BY DEF Reserving, ReservingIn, StoredIn, Exists
<1>2. /\ quota_bytes[p] # None =>
           100 * (used_bytes[p] + Total(Reserving(p) \ {a}, ReservedOf) + n) < 105 * quota_bytes[p]
      /\ quota_asset_count[p] # None =>
           used_asset_count[p] + Cardinality(Reserving(p) \ {a}) + 1 <= quota_asset_count[p]
      /\ Capacity[t] # None =>
           100 * (Total(StoredIn(t) \ {a}, PhysicalOf) + n) < 95 * Capacity[t]
      /\ bucket_limit[t] # None =>
           100 * (bucket_used[t] + Total(ReservingIn(t) \ {a}, ReservedOf) + n) < bucket_limit[t]
  BY <1>1 DEF EnforceQuota
<1>3. /\ \A q \in Partitions : used_bytes[q] \in Nat /\ used_asset_count[q] \in Nat
      /\ \A s \in Spaces : bucket_used[s] \in Nat
  BY DEF TypeOK
<1>4. ASSUME NEW q \in Partitions, q # p
      PROVE  ~(Committed(q)' > Committed(q)) /\ ~(Slots(q)' > Slots(q))
  <2>1. a \notin Reserving(q) /\ a \notin Reserving(q)' /\ Reserving(q) \ {a} = Reserving(q)
    BY <1>4 DEF Reserving, Exists
  <2>2. used_bytes'[q] = used_bytes[q] /\ used_asset_count'[q] = used_asset_count[q]
    BY <1>4 DEF AcquireQuota, usageVars, TypeOK
  <2>3. /\ Committed(q) = used_bytes[q] + Total(Reserving(q), ReservedOf)
        /\ Slots(q) = used_asset_count[q] + Cardinality(Reserving(q))
    BY DEF Committed, Slots
  <2>4. /\ Committed(q)' = used_bytes'[q] + (Total(Reserving(q), ReservedOf) + 0)
        /\ Slots(q)' = used_asset_count'[q] + (Cardinality(Reserving(q)) + 0)
        /\ Total(Reserving(q), ReservedOf) \in Nat /\ Cardinality(Reserving(q)) \in Nat
    BY <2>1, PromisedAfter
  <2> QED
    BY <1>3, <2>2, <2>3, <2>4
<1>5. /\ quota_bytes[p] = None \/ 100 * Committed(p)' < 105 * quota_bytes[p]
      /\ quota_asset_count[p] = None \/ Slots(p)' <= quota_asset_count[p]
  <2>1. /\ Committed(p)' = used_bytes[p] + Total(Reserving(p) \ {a}, ReservedOf) + n
        /\ Slots(p)' = used_asset_count[p] + Cardinality(Reserving(p) \ {a}) + 1
    <3>1. CASE state'[a] = "pending" /\ reserved'[a] = n /\ UNCHANGED usageVars
      <4>1. a \in Reserving(p)' /\ ReservedOf'[a] = n
        BY <1>0, <3>1 DEF Reserving, ReservedOf, Or0
      <4>2. used_bytes'[p] = used_bytes[p] /\ used_asset_count'[p] = used_asset_count[p]
        BY <3>1 DEF usageVars
      <4>3. /\ Committed(p)' = used_bytes'[p] + (Total(Reserving(p) \ {a}, ReservedOf) + n)
            /\ Slots(p)' = used_asset_count'[p] + (Cardinality(Reserving(p) \ {a}) + 1)
            /\ Total(Reserving(p) \ {a}, ReservedOf) \in Nat
            /\ Cardinality(Reserving(p) \ {a}) \in Nat
        BY <4>1, PromisedAfter
      <4> QED
        BY <1>0, <1>3, <4>2, <4>3
    <3>2. CASE state'[a] = "available" /\ AcquireQuota(p, n)
      <4>1. a \notin Reserving(p)'
        BY <3>2 DEF Reserving
      <4>2. used_bytes'[p] = used_bytes[p] + n /\ used_asset_count'[p] = used_asset_count[p] + 1
        BY <3>2 DEF AcquireQuota, TypeOK
      <4>3. /\ Committed(p)' = used_bytes'[p] + (Total(Reserving(p) \ {a}, ReservedOf) + 0)
            /\ Slots(p)' = used_asset_count'[p] + (Cardinality(Reserving(p) \ {a}) + 0)
            /\ Total(Reserving(p) \ {a}, ReservedOf) \in Nat
            /\ Cardinality(Reserving(p) \ {a}) \in Nat
        BY <4>1, PromisedAfter
      <4> QED
        BY <1>0, <1>3, <4>2, <4>3
    <3> QED
      BY <3>1, <3>2
  <2> QED
    BY <1>2, <2>1
<1>6. ASSUME NEW s \in Spaces, s # t
      PROVE  ~(CommittedIn(s)' > CommittedIn(s)) /\ ~(Physical(s)' > Physical(s))
  <2>1. /\ a \notin ReservingIn(s) /\ a \notin ReservingIn(s)' /\ ReservingIn(s) \ {a} = ReservingIn(s)
        /\ a \notin StoredIn(s) /\ a \notin StoredIn(s)' /\ StoredIn(s) \ {a} = StoredIn(s)
    BY <1>6 DEF ReservingIn, StoredIn, Exists
  <2>2. bucket_used'[s] = bucket_used[s]
    BY <1>6 DEF AcquireQuota, usageVars, TypeOK
  <2>3. CommittedIn(s)' = CommittedIn(s) /\ CommittedIn(s) \in Nat
    BY <1>3, <2>1, <2>2, PromisedInAfter DEF CommittedIn
  <2>4. StoredIn(s) \in SUBSET AssetIds
    BY DEF StoredIn
  <2>5. Total(StoredIn(s), PhysicalOf) \in Nat
    BY <2>4, TotalType
  <2>6. Physical(s)' = Physical(s) /\ Physical(s) \in Nat
    BY <2>1, <2>5, HeldAfter DEF Physical
  <2> QED
    BY <2>3, <2>6
<1>7. bucket_limit[t] = None \/ 100 * CommittedIn(t)' < bucket_limit[t]
  <2>1. CommittedIn(t)' = bucket_used[t] + Total(ReservingIn(t) \ {a}, ReservedOf) + n
    <3>1. CASE state'[a] = "pending" /\ reserved'[a] = n /\ UNCHANGED usageVars
      <4>1. a \in ReservingIn(t)' /\ ReservedOf'[a] = n
        BY <1>0, <3>1 DEF ReservingIn, ReservedOf, Or0
      <4> QED
        BY <1>0, <1>3, <3>1, <4>1, PromisedInAfter DEF usageVars
    <3>2. CASE state'[a] = "available" /\ AcquireQuota(p, n)
      <4>1. a \notin ReservingIn(t)'
        BY <3>2 DEF ReservingIn
      <4>2. bucket_used'[t] = bucket_used[t] + n
        BY <1>0, <3>2 DEF AcquireQuota, TypeOK
      <4> QED
        BY <1>0, <1>3, <4>1, <4>2, PromisedInAfter
    <3> QED
      BY <3>1, <3>2
  <2> QED
    BY <1>2, <2>1
<1>8. Capacity[t] = None \/ 100 * Physical(t)' < 95 * Capacity[t]
  <2>1. a \in StoredIn(t)'
    BY DEF StoredIn
  <2>2. Physical(t)' = Total(StoredIn(t) \ {a}, PhysicalOf) + n
    BY <1>0, <2>1, HeldAfter
  <2> QED
    BY <1>2, <2>2
<1> HIDE DEF t
<1>9. LogicalStep
  BY <1>4, <1>5, <1>6, <1>7 DEF LogicalStep
<1>10. PhysicalStep /\ CountStep
  BY <1>4, <1>5, <1>6, <1>8 DEF PhysicalStep, CountStep
<1> QED
  BY <1>9, <1>10

\* Nothing but an admission adds to what is promised or held, and every admission is
\* checked against all the bytes and slots promised when it is made
\* (_enforce_quota in reserve, commit and TTL restore).
THEOREM CeilingsSafe == Spec => AdmissionCeilings
<1> DEFINE Ceilings == LogicalStep /\ PhysicalStep /\ CountStep
<1>1. ASSUME StructInv, StructInv', Next
      PROVE  Ceilings
  <2>0. /\ TypeOK /\ TypeOK' /\ FieldsMatchState /\ FieldsMatchState'
        /\ ByteSizes \subseteq 0..MaxBytes /\ None \notin Nat /\ MaxBytes \in Nat
    BY <1>1, ConstantsAssumption DEF StructInv
  <2> USE <2>0 DEF assetVars, aliasVars, limitVars
  <2>1. ASSUME NEW a \in AssetIds, NEW p \in Partitions, NEW bytes \in ByteSizes \cup {None},
               NEW K \in SUBSET Under[p], NEW mut \in SUBSET K,
               ReserveAsset(a, p, K, mut, bytes)
        PROVE  Ceilings
    <3>1. /\ state[a] = "absent" /\ OnlyFor(a) /\ UNCHANGED usageVars
          /\ state'[a] = "pending" /\ partition'[a] = p /\ reserved'[a] = bytes
          /\ size'[a] = None /\ a \notin purged'
      BY <2>1 DEF ReserveAsset, OnlyFor, Exists, TypeOK, FieldsMatchState
    <3>2. PhysicalOf'[a] = Or0(bytes)
      BY <3>1 DEF PhysicalOf
    <3>3. CASE bytes # None
      <4>1. bytes \in 0..MaxBytes /\ EnforceQuota(p, bytes, {})
        BY <2>1, <3>3 DEF ReserveAsset
      <4>2. Exists(a)' /\ ~Exists(a) /\ PhysicalOf'[a] = bytes
        BY <3>1, <3>2, <3>3 DEF Exists, Or0
      <4> QED
        BY <3>1, <4>1, <4>2, AdmittedWithin
    <3>4. CASE bytes = None
      <4>1. LogicalStep /\ CountStep
        <5>1. \A b \in AssetIds : state'[b] = "pending" /\ reserved'[b] # None =>
                state[b] = "pending" /\ reserved'[b] = reserved[b] /\ partition'[b] = partition[b]
          BY <3>1, <3>4 DEF OnlyFor
        <5>2. /\ \A q \in Partitions : /\ used_bytes'[q] <= used_bytes[q]
                                       /\ used_asset_count'[q] <= used_asset_count[q]
              /\ \A s \in Spaces : bucket_used'[s] <= bucket_used[s]
          BY <3>1 DEF usageVars, TypeOK
        <5> QED
          BY <5>1, <5>2, NoMorePromised
      <4>2. ASSUME NEW s \in Spaces
            PROVE  ~(Physical(s)' > Physical(s))
        <5>1. StoredIn(s) \ {a} = StoredIn(s) /\ StoredIn(s) \in SUBSET AssetIds
          BY <3>1 DEF StoredIn, Exists
        <5>2. Total(StoredIn(s), PhysicalOf) \in Nat /\ Or0(bytes) = 0
          BY <3>4, <5>1, TotalType DEF Or0
        <5>3. Physical(s)' = Total(StoredIn(s), PhysicalOf) + 0
          BY <3>1, <3>2, <5>1, <5>2, HeldAfter
        <5>4. Physical(s) = Total(StoredIn(s), PhysicalOf)
          BY DEF Physical
        <5> QED
          BY <5>2, <5>3, <5>4
      <4> QED
        BY <4>1, <4>2 DEF PhysicalStep
    <3> QED
      BY <3>3, <3>4
  <2>2. ASSUME NEW a \in AssetIds, NEW n \in ByteSizes, CommitAsset(a, n)
        PROVE  Ceilings
    <3>1. /\ state[a] = "pending" /\ OnlyFor(a) /\ state'[a] = "available" /\ size'[a] = n
          /\ partition'[a] = partition[a] /\ a \notin purged' /\ n \in 0..MaxBytes
      BY <2>2 DEF CommitAsset, OnlyFor, TypeOK, FieldsMatchState
    <3>2. partition[a] \in Partitions /\ Exists(a)' /\ PhysicalOf'[a] = n
      BY <3>1 DEF TypeOK, Exists, PhysicalOf
    <3>3. EnforceQuota(partition[a], n, {a}) /\ AcquireQuota(partition[a], n)
      BY <2>2 DEF CommitAsset
    <3> QED
      BY <3>1, <3>2, <3>3, AdmittedWithin
  <2>3. ASSUME NEW a \in AssetIds, SetAssetTtl(a), state[a] = "expired"
        PROVE  Ceilings
    <3>1. /\ OnlyFor(a) /\ state'[a] = "available" /\ size'[a] = size[a]
          /\ partition'[a] = partition[a] /\ a \notin purged' /\ size[a] \in 0..MaxBytes
      BY <2>3 DEF SetAssetTtl, OnlyFor, TypeOK, FieldsMatchState
    <3>2. partition[a] \in Partitions /\ Exists(a)' /\ PhysicalOf'[a] = size[a]
      BY <2>3, <3>1 DEF TypeOK, Exists, PhysicalOf
    <3>3. EnforceQuota(partition[a], size[a], {a}) /\ AcquireQuota(partition[a], size[a])
      BY <2>3 DEF SetAssetTtl
    <3> QED
      BY <3>1, <3>2, <3>3, AdmittedWithin
  <2>4. ASSUME UNCHANGED <<partition, size, reserved>>, purged \subseteq purged',
               \A b \in AssetIds : /\ state'[b] = "pending" => state[b] = "pending"
                                   /\ state'[b] # "absent" => state[b] # "absent",
               \A p \in Partitions : /\ used_bytes'[p] <= used_bytes[p]
                                     /\ used_asset_count'[p] <= used_asset_count[p],
               \A s \in Spaces : bucket_used'[s] <= bucket_used[s]
        PROVE  Ceilings
    <3>1. LogicalStep /\ CountStep
      BY <2>4, NoMorePromised
    <3>2. PhysicalStep
      BY <2>4, NoMoreHeld DEF Exists
    <3> QED
      BY <3>1, <3>2
  <2>5. ASSUME NEW a \in AssetIds, ReleaseQuota(a), state[a] # "absent"
        PROVE  /\ \A p \in Partitions : /\ used_bytes'[p] <= used_bytes[p]
                                        /\ used_asset_count'[p] <= used_asset_count[p]
               /\ \A s \in Spaces : bucket_used'[s] <= bucket_used[s]
    <3>1. \A m \in Nat, n \in Nat : Minus(m, n) <= m
      BY DEF Minus
    <3>2. Or0(size[a]) \in Nat
      BY DEF TypeOK, Or0
    <3>3. CASE state[a] # "available"
      BY <2>5, <3>3 DEF ReleaseQuota, usageVars, TypeOK
    <3>4. CASE state[a] = "available"
      <4> DEFINE n == Or0(size[a])  p == partition[a]
      <4>1. /\ used_bytes' = [used_bytes EXCEPT ![p] = Minus(used_bytes[p], n)]
            /\ used_asset_count' = [used_asset_count EXCEPT ![p] = Minus(used_asset_count[p], 1)]
            /\ bucket_used' = [bucket_used EXCEPT ![SpaceOf[p]] = Minus(bucket_used[SpaceOf[p]], n)]
        BY <2>5, <3>4 DEF ReleaseQuota
      <4>2. n \in Nat
        BY <3>2
      <4> HIDE DEF n, p
      <4>3. /\ \A q \in Partitions : /\ used_bytes[q] \in Nat /\ used_asset_count[q] \in Nat
            /\ \A s \in Spaces : bucket_used[s] \in Nat
        BY DEF TypeOK
      <4> QED
        BY <3>1, <4>1, <4>2, <4>3 DEF TypeOK
    <3> QED
      BY <3>3, <3>4
  <2>6. ASSUME NEW a \in AssetIds, ReleaseQuota(a), state[a] # "absent",
               NEW st \in {"expired", "deleted"}, state' = [state EXCEPT ![a] = st],
               UNCHANGED <<partition, size, reserved>>, purged \subseteq purged'
        PROVE  Ceilings
    <3>1. \A b \in AssetIds : /\ state'[b] = "pending" => state[b] = "pending"
                              /\ state'[b] # "absent" => state[b] # "absent"
      BY <2>6 DEF TypeOK
    <3> QED
      BY <2>4, <2>5, <2>6, <3>1
  <2>7. ASSUME NEW k \in Aliases, DetachAlias(k) \/ DetachMutableAlias(k)
        PROVE  Ceilings
    <3>1. binding[k] \in AssetIds /\ state[binding[k]] # "absent"
      BY <1>1, <2>7 DEF DetachAlias, DetachMutableAlias, StructInv, AliasUnderPartition, Exists,
        TypeOK
    <3>2. MarkForGcIfOrphaned(binding[k], k) /\ UNCHANGED <<partition, size, reserved, purged>>
      BY <2>7 DEF DetachAlias, DetachMutableAlias
    <3>3. CASE UNCHANGED <<state, usageVars>>
      BY <2>4, <3>2, <3>3 DEF usageVars, TypeOK
    <3>4. CASE state' = [state EXCEPT ![binding[k]] = "expired"] /\ ReleaseQuota(binding[k])
      BY <2>6, <3>1, <3>2, <3>4
    <3> QED
      BY <3>2, <3>3, <3>4 DEF MarkForGcIfOrphaned
  <2>8. ASSUME NEW a \in AssetIds, ExpireAsset(a) \/ DeleteAsset(a)
        PROVE  Ceilings
    BY <2>6, <2>8 DEF ExpireAsset, DeleteAsset
  <2>9. ASSUME NEW a \in AssetIds, NEW st \in {"expired", "deleted"}, NEW pd \in BOOLEAN,
               LifecycleUpdate(a, st, pd)
        PROVE  Ceilings
    BY <2>6, <2>9 DEF LifecycleUpdate, ValidCleanup
  <2>10. CASE UNCHANGED <<state, partition, size, reserved, purged, usageVars>>
    BY <2>4, <2>10 DEF usageVars, TypeOK
  <2>11. ASSUME NEW a \in AssetIds, SetAssetTtl(a), state[a] # "expired"
         PROVE  Ceilings
    <3>1. UNCHANGED <<state, partition, size, reserved, purged, usageVars>>
      BY <2>11 DEF SetAssetTtl, TypeOK
    <3> QED
      BY <2>10, <3>1
  <2> HIDE DEF Ceilings
  <2> QED
    BY <1>1, <2>1, <2>2, <2>3, <2>7, <2>8, <2>9, <2>10, <2>11
       DEF Next, RejectedReserve, AttachAlias, RebindAlias, SetPartitionQuota,
           SetBucketQuota, Tick
<1>2. StructInv /\ StructInv' /\ [Next]_vars => [Ceilings]_vars
  BY <1>1
<1> HIDE DEF Ceilings
<1>3. Spec => [][Ceilings]_vars
  BY <1>2, StructureSafe, PTL DEF Spec
<1> QED
  BY <1>3 DEF AdmissionCeilings, Ceilings

-----------------------------------------------------------------------------
(* AssetStore: the inductive invariant *)

StoreTypes ==
  /\ store \in [AssetIds -> ByteSizes \cup {None}]
  /\ late \in [AssetIds -> ByteSizes \cup {None}]
  /\ reserved \in [AssetIds -> ByteSizes \cup {None}]
  /\ lock \in [AssetIds -> Uploaders \cup {Worker, None}]
  /\ upload \in [Uploaders ->
       {"idle", "reserved", "locked", "stored", "failed", "fenced", "erased"}]
  /\ job \in [Uploaders \cup Readers -> AssetIds \cup {None}]
  /\ sweep \in {"idle", "fenced", "erased"}
  /\ target \in AssetIds \cup {None}

\* A payload given up on is the one the row was reserved for or committed with.
LateIsPayload ==
  \A a \in AssetIds : late[a] # None =>
    /\ Exists(a)
    /\ IF size[a] # None THEN size[a] = late[a] ELSE reserved[a] = late[a]

\* What holds between deleting an object and marking its row, under owner's lock.
Erased(a, owner) ==
  /\ lock[a] = owner /\ state[a] = "deleted" /\ a \notin purged
  /\ store[a] = None \/ late[a] # None

\* What an uploader may rely on at each step of write_object.
UploadOwned(u) ==
  LET a == job[u] IN
  /\ a \in AssetIds /\ Exists(a)
  /\ upload[u] = "reserved" /\ state[a] = "pending" => reserved[a] # None
  /\ upload[u] \in {"locked", "stored"} =>
       lock[a] = u /\ state[a] = "pending" /\ reserved[a] # None
  /\ upload[u] = "stored" => store[a] = reserved[a]
  /\ upload[u] = "erased" => Erased(a, u)

UploadsOwned == \A u \in Uploaders : upload[u] # "idle" => UploadOwned(u)

\* And the worker, at each step of an action.
SweepOwned ==
  sweep # "idle" =>
    /\ target \in AssetIds /\ Exists(target)
    /\ sweep = "erased" => Erased(target, Worker)

\* A planned action whose snapshot still matches its row has its reason still.
PlanGrounded ==
  \A a \in plan \ stale :
    a \in due \/ state[a] = "deleted" \/ (a \in evictions /\ state[a] = "available")

\* The registry's own invariant, what the bytes are, and who may touch them.
BytesInv == LateIsPayload /\ UploadsOwned /\ SweepOwned /\ PayloadKept /\ BytesTracked
StoreInv == StructInv /\ StoreTypes /\ BytesInv

-----------------------------------------------------------------------------
(* AssetStore drives the registry only through its operations *)

\* A step of the store is an operation of the registry or leaves the registry alone.
LEMMA RegistryStep ==
  ASSUME StoreInv, [StoreNext]_allVars
  PROVE  [Next]_vars
<1>1. ASSUME NEW u \in Uploaders, NEW a \in AssetIds, NEW p \in Partitions,
             NEW n \in ByteSizes, NEW k \in Under[p], NEW mut \in SUBSET {k},
             UploadReserve(u, a, p, k, mut, n)
      PROVE  Next
  <2>1. ReserveAsset(a, p, {k}, mut, n) /\ {k} \in SUBSET Under[p]
    BY <1>1 DEF UploadReserve
  <2> QED
    BY <2>1 DEF Next
<1>2. ASSUME NEW a \in AssetIds, NEW p \in Partitions, NEW k \in Under[p],
             NEW mut \in SUBSET {k}, Reserve(a, p, k, mut)
      PROVE  Next
  <2>1. ReserveAsset(a, p, {k}, mut, None) /\ {k} \in SUBSET Under[p]
    BY <1>2 DEF Reserve
  <2> QED
    BY <2>1 DEF Next
<1>3. ASSUME NEW u \in Uploaders, UploadCommit(u)
      PROVE  Next
  <2>1. CommitAsset(job[u], store[job[u]]) /\ job[u] \in AssetIds
    BY <1>3 DEF UploadCommit, StoreInv, BytesInv, UploadsOwned, UploadOwned
  <2>2. store[job[u]] \in ByteSizes
    BY <1>3, <2>1 DEF UploadCommit, StoreInv, BytesInv, UploadsOwned, UploadOwned, StoreTypes
  <2> QED
    BY <2>1, <2>2 DEF Next
<1>4. ASSUME NEW a \in AssetIds, Commit(a)
      PROVE  Next
  <2>1. CommitAsset(a, store[a]) /\ store[a] \in ByteSizes
    BY <1>4 DEF Commit, StoreInv, StoreTypes
  <2> QED
    BY <2>1 DEF Next
<1>5. ASSUME NEW u \in Uploaders, CleanupFence(u)
      PROVE  Next \/ UNCHANGED vars
  <2>1. job[u] \in AssetIds
    BY <1>5 DEF CleanupFence, StoreInv, BytesInv, UploadsOwned, UploadOwned
  <2>2. LifecycleUpdate(job[u], "deleted", FALSE) \/ UNCHANGED vars
    BY <1>5 DEF CleanupFence
  <2> QED
    BY <2>1, <2>2 DEF Next
<1>6. ASSUME NEW u \in Uploaders, CleanupMark(u)
      PROVE  Next
  <2>1. job[u] \in AssetIds /\ LifecycleUpdate(job[u], "deleted", TRUE)
    BY <1>6 DEF CleanupMark, StoreInv, BytesInv, UploadsOwned, UploadOwned
  <2> QED
    BY <2>1 DEF Next
<1>7. ASSUME NEW a \in AssetIds, NEW k \in Aliases, NEW mut \in SUBSET {k}, Attach(a, k, mut)
      PROVE  Next
  BY <1>7 DEF Attach, Next
<1>8. ASSUME NEW k \in Aliases, Detach(k)
      PROVE  Next
  BY <1>8 DEF Detach, Next
<1>9. ASSUME NEW a \in AssetIds, NEW k \in Aliases, Rebind(k, a)
      PROVE  Next
  BY <1>9 DEF Rebind, Next
<1>10. ASSUME NEW a \in AssetIds, Retire(a) \/ SetTtl(a)
       PROVE  Next
  BY <1>10 DEF Retire, SetTtl, Next
<1>11. ASSUME NEW a \in AssetIds, SweepApply(a)
       PROVE  Next \/ UNCHANGED vars
  <2>1. \/ LifecycleUpdate(a, "expired", FALSE) \/ LifecycleUpdate(a, "deleted", FALSE)
        \/ UNCHANGED vars
    BY <1>11 DEF SweepApply, SweepAct
  <2> QED
    BY <2>1 DEF Next
<1>12. CASE SweepMark
  <2>1. target \in AssetIds /\ LifecycleUpdate(target, "deleted", TRUE)
    BY <1>12 DEF SweepMark, StoreInv, BytesInv, SweepOwned
  <2> QED
    BY <2>1 DEF Next
<1>13. CASE UNCHANGED allVars
  BY <1>13 DEF allVars, vars
<1> QED
  BY <1>1, <1>2, <1>3, <1>4, <1>5, <1>6, <1>7, <1>8, <1>9, <1>10, <1>11, <1>12, <1>13
     DEF StoreNext, UploadStep, SweepStep, UploadLock, UploadPut, UploadCommitRefused,
         CleanupDelete, UploadPutFails, CleanupDeleteFails, UploaderDies, ClientPut,
         Annotate, Age, LandLate, ReadGet, ReadResolve, SweepPlan, SweepDelete,
         SweepDeleteFails, WorkerDies

\* The registry's invariant therefore survives every step of the store.
LEMMA StructStep ==
  ASSUME StoreInv, [StoreNext]_allVars
  PROVE  StructInv'
BY RegistryStep, TypeStep, NamesStep, FieldsStep DEF StoreInv, StructInv

-----------------------------------------------------------------------------
(* Steps that leave the object store alone *)

\* The row of b is left alone.
RowKept(b) ==
  /\ state'[b] = state[b] /\ size'[b] = size[b] /\ reserved'[b] = reserved[b]
  /\ b \in purged' <=> b \in purged

\* The row of b is written by a transaction that found it unlocked: a new
\* reservation, the commit of the stored object, or a move onwards.
RowMoved(b) ==
  /\ Free(b) \/ ~Exists(b)
  /\ b \in purged' <=> b \in purged
  /\ state'[b] # "absent"
  /\ state'[b] = "pending" => state[b] \in {"absent", "pending"}
  /\ state[b] = "deleted" => state'[b] = "deleted"
  /\ \/ size'[b] = size[b] /\ reserved'[b] = reserved[b]
     \/ ~Exists(b) /\ size'[b] = size[b] /\ reserved'[b] \in ByteSizes \cup {None}
     \/ /\ state[b] = "pending" /\ store[b] # None /\ state'[b] = "available"
        /\ reserved[b] # None => reserved[b] = store[b]
        /\ size'[b] = store[b] /\ reserved'[b] = None

\* Uploader u stays where it is, ends, gives up its claim on the bytes, or starts
\* with a reservation of its own.
UploadQuiet(u) ==
  \/ upload'[u] = upload[u] /\ job'[u] = job[u]
  \/ upload'[u] = "idle"
  \/ upload'[u] \in {"failed", "fenced"} /\ job'[u] = job[u] /\ upload[u] # "idle"
  \/ /\ upload'[u] = "reserved" /\ job'[u] \in AssetIds
     /\ state'[job'[u]] = "pending" /\ reserved'[job'[u]] # None

\* The worker stays, ends its action, or starts one on a row that exists.
SweepQuiet ==
  \/ UNCHANGED <<sweep, target>>
  \/ sweep' = "idle"
  \/ sweep' = "fenced" /\ target' \in AssetIds /\ state'[target'] # "absent"

ProcTypes ==
  /\ upload \in [Uploaders ->
       {"idle", "reserved", "locked", "stored", "failed", "fenced", "erased"}]
  /\ job \in [Uploaders \cup Readers -> AssetIds \cup {None}]
  /\ sweep \in {"idle", "fenced", "erased"}
  /\ target \in AssetIds \cup {None}

\* Rows written without their lock being taken from anyone, and processes that
\* claim nothing new, leave the bytes sound.
LEMMA SettledStep ==
  ASSUME StoreInv, StructInv', ProcTypes', UNCHANGED <<store, late, lock>>,
         \A b \in AssetIds : RowKept(b) \/ RowMoved(b),
         \A u \in Uploaders : UploadQuiet(u), SweepQuiet
  PROVE  StoreTypes' /\ BytesInv'
<1>0. /\ StructInv /\ TypeOK /\ FieldsMatchState /\ TypeOK' /\ FieldsMatchState'
      /\ StoreTypes /\ LateIsPayload /\ UploadsOwned /\ SweepOwned
      /\ PayloadKept /\ BytesTracked
      /\ None \notin Uploaders /\ Worker # None
  BY ActorsAssumption DEF StoreInv, BytesInv, StructInv
<1>1. StoreTypes'
  <2>1. \A b \in AssetIds : reserved'[b] \in ByteSizes \cup {None}
    BY <1>0 DEF StoreTypes, RowKept, RowMoved
  <2>2. reserved' \in [AssetIds -> ByteSizes \cup {None}]
    BY <1>0, <2>1 DEF TypeOK
  <2> QED
    BY <1>0, <2>2 DEF StoreTypes, ProcTypes
<1>2. LateIsPayload'
  BY <1>0 DEF LateIsPayload, RowKept, RowMoved, Exists, FieldsMatchState
<1>3. PayloadKept'
  BY <1>0 DEF PayloadKept, RowKept, RowMoved, Exists, FieldsMatchState, TypeOK, AssetState
<1>4. BytesTracked'
  BY <1>0 DEF BytesTracked, RowKept, RowMoved, Exists
<1>5. \A b \in AssetIds : lock[b] # None /\ Exists(b) => RowKept(b)
  BY DEF RowMoved, Free
<1>6. UploadsOwned'
  <2> SUFFICES ASSUME NEW u \in Uploaders, upload'[u] # "idle"
               PROVE  UploadOwned(u)'
    BY DEF UploadsOwned
  <2>1. CASE upload'[u] = upload[u] /\ job'[u] = job[u]
    <3>1. job[u] \in AssetIds /\ Exists(job[u])
      BY <1>0, <2>1 DEF UploadsOwned, UploadOwned
    <3>2. CASE RowKept(job[u])
      BY <1>0, <2>1, <3>1, <3>2 DEF UploadsOwned, UploadOwned, RowKept, Exists, Erased
    <3>3. CASE RowMoved(job[u])
      BY <1>0, <2>1, <3>1, <3>3 DEF UploadsOwned, UploadOwned, RowMoved, Exists, Erased, Free
    <3> QED
      BY <3>1, <3>2, <3>3
  <2>2. CASE upload'[u] \in {"failed", "fenced"} /\ job'[u] = job[u] /\ upload[u] # "idle"
    BY <1>0, <2>2 DEF UploadsOwned, UploadOwned, RowKept, RowMoved, Exists
  <2>3. CASE /\ upload'[u] = "reserved" /\ job'[u] \in AssetIds
             /\ state'[job'[u]] = "pending" /\ reserved'[job'[u]] # None
    BY <2>3 DEF UploadOwned, Exists
  <2> QED
    BY <2>1, <2>2, <2>3 DEF UploadQuiet
<1>7. SweepOwned'
  <2>1. CASE UNCHANGED <<sweep, target>> /\ sweep # "idle"
    <3>1. target \in AssetIds /\ Exists(target)
      BY <1>0, <2>1 DEF SweepOwned
    <3> QED
      BY <1>0, <1>5, <2>1, <3>1 DEF SweepOwned, RowKept, RowMoved, Exists, Erased
  <2> QED
    BY <2>1 DEF SweepQuiet, SweepOwned, Exists
<1> QED
  BY <1>1, <1>2, <1>3, <1>4, <1>6, <1>7 DEF BytesInv

\* None is not the size of any payload.
LEMMA NoneIsNoSize == None \notin ByteSizes
<1>1. ByteSizes \subseteq 0..MaxBytes /\ None \notin Nat
  BY ConstantsAssumption
<1>2. \A n \in 0..MaxBytes : n \in Nat
  BY ConstantsAssumption
<1> QED
  BY <1>1, <1>2

\* What one operation of the registry does to the rows.
LEMMA RowEffect ==
  ASSUME TypeOK, AliasUnderPartition, NEW a \in AssetIds, Free(a) \/ ~Exists(a),
         \/ \E p, K, mut : \E n \in ByteSizes \cup {None} : ReserveAsset(a, p, K, mut, n)
         \/ store[a] # None /\ CommitAsset(a, store[a])
         \/ \E k, mut : AttachAlias(a, k, mut)
         \/ \E k \in Aliases : binding[k] = a /\ (DetachAlias(k) \/ DetachMutableAlias(k))
         \/ \E k : RebindAlias(k, a)
         \/ ExpireAsset(a) \/ DeleteAsset(a) \/ SetAssetTtl(a)
         \/ LifecycleUpdate(a, "expired", FALSE) \/ LifecycleUpdate(a, "deleted", FALSE)
  PROVE  /\ RowKept(a) \/ RowMoved(a)
         /\ \A b \in AssetIds \ {a} : RowKept(b)
<1> USE DEF TypeOK, RowKept, RowMoved, Exists, assetVars
<1>1. ASSUME NEW p, NEW K, NEW mut, NEW n \in ByteSizes \cup {None}, ReserveAsset(a, p, K, mut, n)
      PROVE  RowMoved(a) /\ \A b \in AssetIds \ {a} : RowKept(b)
  BY <1>1 DEF ReserveAsset
<1>2. CASE store[a] # None /\ CommitAsset(a, store[a])
  BY <1>2 DEF CommitAsset
<1>3. ASSUME NEW k, NEW mut, AttachAlias(a, k, mut)
      PROVE  RowKept(a) /\ \A b \in AssetIds \ {a} : RowKept(b)
  BY <1>3 DEF AttachAlias
<1>4. ASSUME NEW k \in Aliases, binding[k] = a, DetachAlias(k) \/ DetachMutableAlias(k)
      PROVE  RowMoved(a) /\ \A b \in AssetIds \ {a} : RowKept(b)
  <2>1. MarkForGcIfOrphaned(a, k) /\ UNCHANGED <<size, reserved, purged>> /\ Exists(a)
    BY <1>4, ConstantsAssumption DEF DetachAlias, DetachMutableAlias, AliasUnderPartition
  <2> QED
    BY <2>1 DEF MarkForGcIfOrphaned
<1>5. ASSUME NEW k, RebindAlias(k, a)
      PROVE  RowKept(a) /\ \A b \in AssetIds \ {a} : RowKept(b)
  BY <1>5 DEF RebindAlias
<1>6. CASE ExpireAsset(a) \/ DeleteAsset(a) \/ SetAssetTtl(a)
  BY <1>6 DEF ExpireAsset, DeleteAsset, SetAssetTtl
<1>7. CASE LifecycleUpdate(a, "expired", FALSE) \/ LifecycleUpdate(a, "deleted", FALSE)
  BY <1>7 DEF LifecycleUpdate, ValidCleanup
<1> QED
  BY <1>1, <1>2, <1>3, <1>4, <1>5, <1>6, <1>7

\* The steps that write a row, plan, read or age, and leave every object alone.
LEMMA RowSteps ==
  ASSUME StoreInv, StructInv',
         \/ \E u \in Uploaders, a \in AssetIds, p \in Partitions, n \in ByteSizes :
              \E k \in Under[p] : \E mut \in SUBSET {k} : UploadReserve(u, a, p, k, mut, n)
         \/ \E u \in Uploaders : CleanupFence(u)
         \/ \E a \in AssetIds, p \in Partitions : \E k \in Under[p] :
              \E mut \in SUBSET {k} : Reserve(a, p, k, mut)
         \/ \E a \in AssetIds, k \in Aliases : \E mut \in SUBSET {k} : Attach(a, k, mut)
         \/ \E k \in Aliases : Detach(k)
         \/ \E k \in Aliases, a \in AssetIds : Rebind(k, a)
         \/ \E a \in AssetIds : Commit(a) \/ Retire(a) \/ SetTtl(a) \/ SweepApply(a)
         \/ \E a \in AssetIds : Annotate(a) \/ Age(a)
         \/ \E r \in Readers : ReadGet(r) \/ \E k \in Aliases : ReadResolve(r, k)
         \/ SweepPlan
  PROVE  StoreTypes' /\ BytesInv'
<1>0. /\ TypeOK /\ AliasUnderPartition /\ ProcTypes /\ StoreTypes /\ UploadsOwned
      /\ Uploaders \cap Readers = {} /\ None \notin AssetIds
  BY ActorsAssumption, ConstantsAssumption
     DEF StoreInv, StructInv, StoreTypes, ProcTypes, BytesInv
<1>a. ASSUME UNCHANGED <<store, late, lock>>, ProcTypes',
             \A u \in Uploaders : UploadQuiet(u), SweepQuiet,
             NEW a \in AssetIds, RowKept(a) \/ RowMoved(a),
             \A b \in AssetIds \ {a} : RowKept(b)
      PROVE  StoreTypes' /\ BytesInv'
  BY <1>a, SettledStep
<1>b. UNCHANGED procVars => ProcTypes' /\ (\A u \in Uploaders : UploadQuiet(u)) /\ SweepQuiet
  BY <1>0 DEF ProcTypes, UploadQuiet, SweepQuiet, procVars
<1>c. UNCHANGED vars => \A b \in AssetIds : RowKept(b)
  BY DEF vars, RowKept
<1>1. ASSUME NEW u \in Uploaders, NEW a \in AssetIds, NEW p \in Partitions,
             NEW n \in ByteSizes, NEW k \in Under[p], NEW mut \in SUBSET {k},
             UploadReserve(u, a, p, k, mut, n)
      PROVE  StoreTypes' /\ BytesInv'
  <2>1. ReserveAsset(a, p, {k}, mut, n) /\ ~Exists(a)
    BY <1>1 DEF UploadReserve, ReserveAsset
  <2>2. /\ RowMoved(a) \/ RowKept(a)
        /\ \A b \in AssetIds \ {a} : RowKept(b)
    <3>1. \E q, K, m : \E l \in ByteSizes \cup {None} : ReserveAsset(a, q, K, m, l)
      BY <2>1
    <3> QED
      BY <1>0, <2>1, <3>1, RowEffect
  <2>3. ProcTypes'
    BY <1>0, <1>1 DEF UploadReserve, ProcTypes
  <2>4. state'[a] = "pending" /\ reserved'[a] = n /\ n # None
    BY <1>0, <1>1, NoneIsNoSize DEF UploadReserve, ReserveAsset, TypeOK
  <2>5. \A v \in Uploaders : UploadQuiet(v)
    BY <1>0, <1>1, <2>4 DEF UploadReserve, ProcTypes, UploadQuiet
  <2> QED
    BY <1>1, <1>a, <2>2, <2>3, <2>5 DEF UploadReserve, SweepQuiet
<1>2. ASSUME NEW u \in Uploaders, CleanupFence(u)
      PROVE  StoreTypes' /\ BytesInv'
  <2>0. job[u] \in AssetIds
    BY <1>0, <1>2 DEF CleanupFence, UploadsOwned, UploadOwned
  <2>1. /\ RowMoved(job[u]) \/ RowKept(job[u])
        /\ \A b \in AssetIds \ {job[u]} : RowKept(b)
    <3>1. LifecycleUpdate(job[u], "deleted", FALSE) \/ UNCHANGED vars
      BY <1>2 DEF CleanupFence
    <3> QED
      BY <1>0, <1>2, <1>c, <2>0, <3>1, RowEffect DEF CleanupFence
  <2>2. ProcTypes' /\ \A v \in Uploaders : UploadQuiet(v)
    BY <1>0, <1>2 DEF CleanupFence, UploadDone, ProcTypes, UploadQuiet
  <2> QED
    BY <1>2, <1>a, <2>0, <2>1, <2>2 DEF CleanupFence, SweepQuiet
<1>3. ASSUME NEW a \in AssetIds, NEW p \in Partitions, NEW k \in Under[p],
             NEW mut \in SUBSET {k}, Reserve(a, p, k, mut)
      PROVE  StoreTypes' /\ BytesInv'
  <2>1. /\ RowMoved(a) \/ RowKept(a)
        /\ \A b \in AssetIds \ {a} : RowKept(b)
    <3>1. ReserveAsset(a, p, {k}, mut, None)
      BY <1>3 DEF Reserve
    <3>2. ~Exists(a)
      BY <3>1 DEF ReserveAsset
    <3>3. \E q, K, m : \E n \in ByteSizes \cup {None} : ReserveAsset(a, q, K, m, n)
      BY <3>1
    <3> QED
      BY <1>0, <3>2, <3>3, RowEffect
  <2> QED
    BY <1>3, <1>a, <1>b, <2>1 DEF Reserve
<1>4. ASSUME NEW a \in AssetIds, NEW k \in Aliases, NEW mut \in SUBSET {k}, Attach(a, k, mut)
      PROVE  StoreTypes' /\ BytesInv'
  <2>1. /\ RowMoved(a) \/ RowKept(a)
        /\ \A b \in AssetIds \ {a} : RowKept(b)
    BY <1>0, <1>4, RowEffect DEF Attach
  <2> QED
    BY <1>4, <1>a, <1>b, <2>1 DEF Attach
<1>5. ASSUME NEW k \in Aliases, Detach(k)
      PROVE  StoreTypes' /\ BytesInv'
  <2>0. binding[k] \in AssetIds
    BY <1>0, <1>5 DEF Detach, TypeOK
  <2>1. /\ RowMoved(binding[k]) \/ RowKept(binding[k])
        /\ \A b \in AssetIds \ {binding[k]} : RowKept(b)
    BY <1>0, <1>5, <2>0, RowEffect DEF Detach
  <2> QED
    BY <1>5, <1>a, <1>b, <2>0, <2>1 DEF Detach
<1>6. ASSUME NEW a \in AssetIds, NEW k \in Aliases, Rebind(k, a)
      PROVE  StoreTypes' /\ BytesInv'
  <2>1. /\ RowMoved(a) \/ RowKept(a)
        /\ \A b \in AssetIds \ {a} : RowKept(b)
    BY <1>0, <1>6, RowEffect DEF Rebind
  <2> QED
    BY <1>6, <1>a, <1>b, <2>1 DEF Rebind
<1>7. ASSUME NEW a \in AssetIds, Commit(a) \/ Retire(a) \/ SetTtl(a)
      PROVE  StoreTypes' /\ BytesInv'
  <2>1. /\ RowMoved(a) \/ RowKept(a)
        /\ \A b \in AssetIds \ {a} : RowKept(b)
    BY <1>0, <1>7, RowEffect DEF Commit, Retire, SetTtl
  <2> QED
    BY <1>7, <1>a, <1>b, <2>1 DEF Commit, Retire, SetTtl
<1>8. ASSUME NEW a \in AssetIds, SweepApply(a)
      PROVE  StoreTypes' /\ BytesInv'
  <2>1. \/ LifecycleUpdate(a, "expired", FALSE) \/ LifecycleUpdate(a, "deleted", FALSE)
        \/ UNCHANGED vars
    BY <1>8 DEF SweepApply, SweepAct
  <2>2. /\ RowMoved(a) \/ RowKept(a)
        /\ \A b \in AssetIds \ {a} : RowKept(b)
    BY <1>0, <1>8, <1>c, <2>1, RowEffect DEF SweepApply
  <2>3. ProcTypes' /\ \A v \in Uploaders : UploadQuiet(v)
    BY <1>0, <1>8 DEF SweepApply, SweepAct, ProcTypes, UploadQuiet
  <2>4. SweepQuiet
    <3>1. CASE sweep' = "fenced" /\ target' = a /\ state[a] = "deleted" /\ UNCHANGED vars
      BY <3>1 DEF SweepQuiet, vars
    <3>2. CASE sweep' = "fenced" /\ target' = a /\ LifecycleUpdate(a, "deleted", FALSE)
      BY <1>0, <3>2 DEF SweepQuiet, LifecycleUpdate, TypeOK
    <3> QED
      BY <1>8, <3>1, <3>2 DEF SweepApply, SweepAct, SweepQuiet
  <2> QED
    BY <1>8, <1>a, <2>2, <2>3, <2>4 DEF SweepApply
<1>9. ASSUME NEW a \in AssetIds, Annotate(a) \/ Age(a)
      PROVE  StoreTypes' /\ BytesInv'
  BY <1>9, <1>a, <1>b, <1>c DEF Annotate, Age
<1>10. ASSUME NEW r \in Readers, ReadGet(r) \/ \E k \in Aliases : ReadResolve(r, k)
       PROVE  StoreTypes' /\ BytesInv'
  <2>1. ProcTypes' /\ \A v \in Uploaders : UploadQuiet(v)
    BY <1>0, <1>10 DEF ReadGet, ReadResolve, Resolvable, ProcTypes, UploadQuiet, TypeOK
  <2> QED
    BY <1>10, <1>c, <2>1, SettledStep DEF ReadGet, ReadResolve, SweepQuiet
<1>11. CASE SweepPlan
  <2>1. ProcTypes' /\ \A v \in Uploaders : UploadQuiet(v)
    BY <1>0, <1>11 DEF SweepPlan, ProcTypes, UploadQuiet
  <2> QED
    BY <1>11, <1>c, <2>1, SettledStep DEF SweepPlan, SweepQuiet
<1> QED
  BY <1>1, <1>2, <1>3, <1>4, <1>5, <1>6, <1>7, <1>8, <1>9, <1>10, <1>11

-----------------------------------------------------------------------------
(* Steps that touch objects or row locks, and no row *)

\* Putting, deleting, landing late, taking and giving up row locks, and dying.
LEMMA ByteSteps ==
  ASSUME StoreInv, StructInv',
         \/ \E u \in Uploaders :
              \/ UploadLock(u) \/ UploadPut(u) \/ UploadPutFails(u)
              \/ UploadCommitRefused(u) \/ CleanupDelete(u) \/ CleanupDeleteFails(u)
              \/ UploaderDies(u)
         \/ \E a \in AssetIds : LandLate(a) \/ \E n \in ByteSizes : ClientPut(a, n)
         \/ SweepDelete \/ SweepDeleteFails \/ WorkerDies
  PROVE  StoreTypes' /\ BytesInv'
<1>0. /\ TypeOK /\ FieldsMatchState /\ StoreTypes /\ LateIsPayload /\ UploadsOwned
      /\ SweepOwned /\ PayloadKept /\ BytesTracked
  BY DEF StoreInv, StructInv, BytesInv
<1>a. /\ None \notin Uploaders /\ Worker # None /\ Worker \notin Uploaders
      /\ Uploaders \cap Readers = {} /\ None \notin ByteSizes /\ None \notin AssetIds
  BY ActorsAssumption, ConstantsAssumption, NoneIsNoSize
<1>b. ASSUME NEW u \in Uploaders, upload[u] # "idle"
      PROVE  job[u] \in AssetIds /\ UploadOwned(u)
  BY <1>0, <1>b DEF UploadsOwned, UploadOwned
<1> USE <1>0, <1>a DEF vars, Exists
<1>1. ASSUME NEW u \in Uploaders, UploadLock(u)
      PROVE  StoreTypes' /\ BytesInv'
  <2>0. job[u] \in AssetIds /\ UploadOwned(u)
    BY <1>1, <1>b DEF UploadLock
  <2>1. StoreTypes'
    BY <1>1, <2>0 DEF StoreTypes, UploadLock, Acquire, Free
  <2>2. LateIsPayload' /\ PayloadKept' /\ BytesTracked'
    BY <1>1, <2>0 DEF StoreTypes, LateIsPayload, PayloadKept, BytesTracked,
       UploadOwned, FieldsMatchState, UploadLock, Acquire, Free
  <2>3. UploadsOwned'
    BY <1>1, <2>0 DEF StoreTypes, UploadsOwned, UploadOwned, Erased, LateIsPayload,
       FieldsMatchState, UploadLock, Acquire, Free
  <2>4. SweepOwned'
    BY <1>1, <2>0 DEF StoreTypes, SweepOwned, UploadOwned, Erased, UploadLock, Acquire, Free
  <2> QED
    BY <2>1, <2>2, <2>3, <2>4 DEF BytesInv
<1>2. ASSUME NEW u \in Uploaders, UploadPut(u)
      PROVE  StoreTypes' /\ BytesInv'
  <2>0. job[u] \in AssetIds /\ UploadOwned(u)
    BY <1>2, <1>b DEF UploadPut
  <2>1. StoreTypes'
    BY <1>2, <2>0 DEF StoreTypes, UploadPut
  <2>2. LateIsPayload' /\ PayloadKept' /\ BytesTracked'
    BY <1>2, <2>0 DEF StoreTypes, LateIsPayload, PayloadKept, BytesTracked,
       UploadOwned, FieldsMatchState, UploadPut
  <2>3. UploadsOwned'
    BY <1>2, <2>0 DEF StoreTypes, UploadsOwned, UploadOwned, Erased, LateIsPayload,
       FieldsMatchState, UploadPut
  <2>4. SweepOwned'
    BY <1>2, <2>0 DEF StoreTypes, SweepOwned, UploadOwned, Erased, UploadPut
  <2> QED
    BY <2>1, <2>2, <2>3, <2>4 DEF BytesInv
<1>3. ASSUME NEW u \in Uploaders, UploadPutFails(u)
      PROVE  StoreTypes' /\ BytesInv'
  <2>0. job[u] \in AssetIds /\ UploadOwned(u)
    BY <1>3, <1>b DEF UploadPutFails
  <2>1. StoreTypes'
    BY <1>3, <2>0 DEF StoreTypes, UploadPutFails, Release
  <2>2. LateIsPayload' /\ PayloadKept' /\ BytesTracked'
    BY <1>3, <2>0 DEF StoreTypes, LateIsPayload, PayloadKept, BytesTracked,
       UploadOwned, FieldsMatchState, UploadPutFails, Release
  <2>3. UploadsOwned'
    BY <1>3, <2>0 DEF StoreTypes, UploadsOwned, UploadOwned, Erased, LateIsPayload,
       FieldsMatchState, UploadPutFails, Release
  <2>4. SweepOwned'
    BY <1>3, <2>0 DEF StoreTypes, SweepOwned, UploadOwned, Erased, UploadPutFails, Release
  <2> QED
    BY <2>1, <2>2, <2>3, <2>4 DEF BytesInv
<1>4. ASSUME NEW u \in Uploaders, UploadCommitRefused(u)
      PROVE  StoreTypes' /\ BytesInv'
  <2>0. job[u] \in AssetIds /\ UploadOwned(u)
    BY <1>4, <1>b DEF UploadCommitRefused
  <2>1. StoreTypes'
    BY <1>4, <2>0 DEF StoreTypes, UploadCommitRefused, Release
  <2>2. LateIsPayload' /\ PayloadKept' /\ BytesTracked'
    BY <1>4, <2>0 DEF StoreTypes, LateIsPayload, PayloadKept, BytesTracked,
       UploadOwned, FieldsMatchState, UploadCommitRefused, Release
  <2>3. UploadsOwned'
    BY <1>4, <2>0 DEF StoreTypes, UploadsOwned, UploadOwned, Erased, LateIsPayload,
       FieldsMatchState, UploadCommitRefused, Release
  <2>4. SweepOwned'
    BY <1>4, <2>0 DEF StoreTypes, SweepOwned, UploadOwned, Erased, UploadCommitRefused, Release
  <2> QED
    BY <2>1, <2>2, <2>3, <2>4 DEF BytesInv
<1>5. ASSUME NEW u \in Uploaders, CleanupDelete(u)
      PROVE  StoreTypes' /\ BytesInv'
  <2>0. job[u] \in AssetIds /\ UploadOwned(u)
    BY <1>5, <1>b DEF CleanupDelete
  <2>1. StoreTypes'
    BY <1>5, <2>0 DEF StoreTypes, CleanupDelete, Acquire, Free, UploadDone
  <2>2. LateIsPayload' /\ PayloadKept' /\ BytesTracked'
    BY <1>5, <2>0 DEF StoreTypes, LateIsPayload, PayloadKept, BytesTracked,
       UploadOwned, FieldsMatchState, CleanupDelete, Acquire, Free, UploadDone
  <2>3. UploadsOwned'
    BY <1>5, <2>0 DEF StoreTypes, UploadsOwned, UploadOwned, Erased, LateIsPayload,
       FieldsMatchState, CleanupDelete, Acquire, Free, UploadDone
  <2>4. SweepOwned'
    BY <1>5, <2>0 DEF StoreTypes, SweepOwned, UploadOwned, Erased, CleanupDelete, Acquire, Free,
      UploadDone
  <2> QED
    BY <2>1, <2>2, <2>3, <2>4 DEF BytesInv
<1>6. ASSUME NEW u \in Uploaders, CleanupDeleteFails(u)
      PROVE  StoreTypes' /\ BytesInv'
  <2>0. job[u] \in AssetIds /\ UploadOwned(u)
    BY <1>6, <1>b DEF CleanupDeleteFails
  <2>1. StoreTypes'
    BY <1>6, <2>0 DEF StoreTypes, CleanupDeleteFails, Free, UploadDone
  <2>2. LateIsPayload' /\ PayloadKept' /\ BytesTracked'
    BY <1>6, <2>0 DEF StoreTypes, LateIsPayload, PayloadKept, BytesTracked,
       UploadOwned, FieldsMatchState, CleanupDeleteFails, Free, UploadDone
  <2>3. UploadsOwned'
    BY <1>6, <2>0 DEF StoreTypes, UploadsOwned, UploadOwned, Erased, LateIsPayload,
       FieldsMatchState, CleanupDeleteFails, Free, UploadDone
  <2>4. SweepOwned'
    BY <1>6, <2>0 DEF StoreTypes, SweepOwned, UploadOwned, Erased, CleanupDeleteFails, Free,
      UploadDone
  <2> QED
    BY <2>1, <2>2, <2>3, <2>4 DEF BytesInv
<1>7. ASSUME NEW u \in Uploaders, UploaderDies(u)
      PROVE  StoreTypes' /\ BytesInv'
  <2>0. job[u] \in AssetIds /\ UploadOwned(u)
    BY <1>7, <1>b DEF UploaderDies
  <2>1. StoreTypes'
    BY <1>7, <2>0 DEF StoreTypes, UploaderDies, UploadDone
  <2>2. LateIsPayload' /\ PayloadKept' /\ BytesTracked'
    BY <1>7, <2>0 DEF StoreTypes, LateIsPayload, PayloadKept, BytesTracked,
       UploadOwned, FieldsMatchState, UploaderDies, UploadDone
  <2>3. UploadsOwned'
    BY <1>7, <2>0 DEF StoreTypes, UploadsOwned, UploadOwned, Erased, LateIsPayload,
       FieldsMatchState, UploaderDies, UploadDone
  <2>4. SweepOwned'
    BY <1>7, <2>0 DEF StoreTypes, SweepOwned, UploadOwned, Erased, UploaderDies, UploadDone
  <2> QED
    BY <2>1, <2>2, <2>3, <2>4 DEF BytesInv
<1>8. ASSUME NEW a \in AssetIds, LandLate(a)
      PROVE  StoreTypes' /\ BytesInv'
  <2>1. StoreTypes'
    BY <1>8 DEF StoreTypes, LandLate, procVars
  <2>2. LateIsPayload' /\ PayloadKept' /\ BytesTracked'
    BY <1>8 DEF StoreTypes, LateIsPayload, PayloadKept, BytesTracked,
       SweepOwned, FieldsMatchState, LandLate, procVars
  <2>3. UploadsOwned'
    BY <1>8 DEF StoreTypes, UploadsOwned, UploadOwned, Erased, LateIsPayload,
       FieldsMatchState, LandLate, procVars
  <2>4. SweepOwned'
    BY <1>8 DEF StoreTypes, SweepOwned, Erased, LandLate, procVars
  <2> QED
    BY <2>1, <2>2, <2>3, <2>4 DEF BytesInv
<1>9. ASSUME NEW a \in AssetIds, NEW n \in ByteSizes, ClientPut(a, n)
      PROVE  StoreTypes' /\ BytesInv'
  <2>1. StoreTypes'
    BY <1>9 DEF StoreTypes, ClientPut, procVars
  <2>2. LateIsPayload' /\ PayloadKept' /\ BytesTracked'
    BY <1>9 DEF StoreTypes, LateIsPayload, PayloadKept, BytesTracked,
       SweepOwned, FieldsMatchState, ClientPut, procVars
  <2>3. UploadsOwned'
    BY <1>9 DEF StoreTypes, UploadsOwned, UploadOwned, Erased, LateIsPayload,
       FieldsMatchState, ClientPut, procVars
  <2>4. SweepOwned'
    BY <1>9 DEF StoreTypes, SweepOwned, Erased, ClientPut, procVars
  <2> QED
    BY <2>1, <2>2, <2>3, <2>4 DEF BytesInv
<1>10. CASE SweepDelete
  <2>1. StoreTypes'
    BY <1>10 DEF StoreTypes, SweepDelete, Acquire, Free, SweepDone
  <2>2. LateIsPayload' /\ PayloadKept' /\ BytesTracked'
    BY <1>10 DEF StoreTypes, LateIsPayload, PayloadKept, BytesTracked,
       SweepOwned, FieldsMatchState, SweepDelete, Acquire, Free, SweepDone
  <2>3. UploadsOwned'
    BY <1>10 DEF StoreTypes, UploadsOwned, UploadOwned, Erased, LateIsPayload,
       FieldsMatchState, SweepDelete, Acquire, Free, SweepDone
  <2>4. SweepOwned'
    BY <1>10 DEF StoreTypes, SweepOwned, Erased, SweepDelete, Acquire, Free, SweepDone
  <2> QED
    BY <2>1, <2>2, <2>3, <2>4 DEF BytesInv
<1>11. CASE SweepDeleteFails
  <2>1. StoreTypes'
    BY <1>11 DEF StoreTypes, SweepDeleteFails, Free, SweepDone
  <2>2. LateIsPayload' /\ PayloadKept' /\ BytesTracked'
    BY <1>11 DEF StoreTypes, LateIsPayload, PayloadKept, BytesTracked,
       SweepOwned, FieldsMatchState, SweepDeleteFails, Free, SweepDone
  <2>3. UploadsOwned'
    BY <1>11 DEF StoreTypes, UploadsOwned, UploadOwned, Erased, LateIsPayload,
       FieldsMatchState, SweepDeleteFails, Free, SweepDone
  <2>4. SweepOwned'
    BY <1>11 DEF StoreTypes, SweepOwned, Erased, SweepDeleteFails, Free, SweepDone
  <2> QED
    BY <2>1, <2>2, <2>3, <2>4 DEF BytesInv
<1>12. CASE WorkerDies
  <2>1. StoreTypes'
    BY <1>12 DEF StoreTypes, WorkerDies, SweepDone
  <2>2. LateIsPayload' /\ PayloadKept' /\ BytesTracked'
    BY <1>12 DEF StoreTypes, LateIsPayload, PayloadKept, BytesTracked,
       SweepOwned, FieldsMatchState, WorkerDies, SweepDone
  <2>3. UploadsOwned'
    BY <1>12 DEF StoreTypes, UploadsOwned, UploadOwned, Erased, LateIsPayload,
       FieldsMatchState, WorkerDies, SweepDone
  <2>4. SweepOwned'
    BY <1>12 DEF StoreTypes, SweepOwned, Erased, WorkerDies, SweepDone
  <2> QED
    BY <2>1, <2>2, <2>3, <2>4 DEF BytesInv
<1> QED
  BY <1>1, <1>2, <1>3, <1>4, <1>5, <1>6, <1>7, <1>8, <1>9, <1>10, <1>11, <1>12

-----------------------------------------------------------------------------
(* Steps that write a row and give up its lock *)

\* The commit of a guarded upload, and the two marks that end a purge.
LEMMA MarkSteps ==
  ASSUME StoreInv, StructInv',
         (\E u \in Uploaders : UploadCommit(u) \/ CleanupMark(u)) \/ SweepMark
  PROVE  StoreTypes' /\ BytesInv'
<1>0. /\ TypeOK /\ FieldsMatchState /\ FieldsMatchState' /\ StoreTypes /\ LateIsPayload
      /\ UploadsOwned /\ SweepOwned /\ PayloadKept /\ BytesTracked
  BY DEF StoreInv, StructInv, BytesInv
<1>a. /\ None \notin Uploaders /\ Worker # None /\ Worker \notin Uploaders
      /\ Uploaders \cap Readers = {} /\ None \notin ByteSizes /\ None \notin AssetIds
  BY ActorsAssumption, ConstantsAssumption, NoneIsNoSize
<1>b. ASSUME NEW u \in Uploaders, upload[u] # "idle"
      PROVE  job[u] \in AssetIds /\ UploadOwned(u)
  BY <1>0, <1>b DEF UploadsOwned, UploadOwned
<1> USE <1>0, <1>a DEF Exists
<1>1. ASSUME NEW u \in Uploaders, UploadCommit(u)
      PROVE  StoreTypes' /\ BytesInv'
  <2>0. /\ job[u] \in AssetIds /\ UploadOwned(u)
        /\ size' = [size EXCEPT ![job[u]] = store[job[u]]]
        /\ state' = [state EXCEPT ![job[u]] = "available"]
        /\ reserved' = [reserved EXCEPT ![job[u]] = None]
        /\ purged' = purged
    BY <1>1, <1>b DEF UploadCommit, CommitAsset
  <2>1. StoreTypes'
    BY <1>1, <2>0 DEF StoreTypes, UploadCommit, Release
  <2>2. LateIsPayload' /\ PayloadKept' /\ BytesTracked'
    BY <1>1, <2>0 DEF StoreTypes, TypeOK, LateIsPayload, PayloadKept, BytesTracked,
       UploadOwned, FieldsMatchState, UploadCommit
  <2>3. UploadsOwned'
    BY <1>1, <2>0 DEF StoreTypes, TypeOK, UploadsOwned, UploadOwned, Erased, UploadCommit,
       Release
  <2>4. SweepOwned'
    BY <1>1, <2>0 DEF StoreTypes, TypeOK, SweepOwned, UploadOwned, Erased, UploadCommit,
       Release
  <2> QED
    BY <2>1, <2>2, <2>3, <2>4 DEF BytesInv
<1>c. ASSUME NEW a \in AssetIds, LifecycleUpdate(a, "deleted", TRUE)
      PROVE  state[a] = "deleted" /\ state' = state /\ purged' = purged \cup {a}
             /\ UNCHANGED <<size, reserved>>
  BY <1>c DEF LifecycleUpdate, ValidCleanup, TypeOK
<1>2. ASSUME NEW u \in Uploaders, CleanupMark(u)
      PROVE  StoreTypes' /\ BytesInv'
  <2>0. /\ job[u] \in AssetIds /\ UploadOwned(u) /\ Erased(job[u], u)
        /\ state' = state /\ purged' = purged \cup {job[u]} /\ UNCHANGED <<size, reserved>>
    BY <1>2, <1>b, <1>c DEF CleanupMark, UploadOwned
  <2>1. StoreTypes'
    BY <1>2, <2>0 DEF StoreTypes, CleanupMark, Release, UploadDone
  <2>2. LateIsPayload' /\ PayloadKept' /\ BytesTracked'
    BY <1>2, <2>0 DEF LateIsPayload, PayloadKept, BytesTracked, Erased, CleanupMark
  <2>3. UploadsOwned'
    BY <1>2, <2>0 DEF StoreTypes, UploadsOwned, UploadOwned, Erased, CleanupMark, Release,
       UploadDone
  <2>4. SweepOwned'
    BY <1>2, <2>0 DEF StoreTypes, SweepOwned, Erased, CleanupMark, Release
  <2> QED
    BY <2>1, <2>2, <2>3, <2>4 DEF BytesInv
<1>3. CASE SweepMark
  <2>0. /\ target \in AssetIds /\ Erased(target, Worker)
        /\ state' = state /\ purged' = purged \cup {target} /\ UNCHANGED <<size, reserved>>
    BY <1>3, <1>c DEF SweepMark, SweepOwned
  <2>1. StoreTypes'
    BY <1>3, <2>0 DEF StoreTypes, SweepMark, Release, SweepDone
  <2>2. LateIsPayload' /\ PayloadKept' /\ BytesTracked'
    BY <1>3, <2>0 DEF LateIsPayload, PayloadKept, BytesTracked, Erased, SweepMark
  <2>3. UploadsOwned'
    BY <1>3, <2>0 DEF StoreTypes, UploadsOwned, UploadOwned, Erased, SweepMark, Release
  <2>4. SweepOwned'
    BY <1>3 DEF SweepOwned, SweepMark, SweepDone
  <2> QED
    BY <2>1, <2>2, <2>3, <2>4 DEF BytesInv
<1> QED
  BY <1>1, <1>2, <1>3

-----------------------------------------------------------------------------
(* Rows and bytes in step *)

\* Every step keeps the whole invariant.
LEMMA StoreStep ==
  ASSUME StoreInv, [StoreNext]_allVars
  PROVE  StoreInv'
<1>1. StructInv'
  BY StructStep
<1>2. CASE UNCHANGED allVars
  BY <1>1, <1>2
     DEF allVars, StoreInv, StoreTypes, BytesInv, LateIsPayload, UploadsOwned, UploadOwned,
         SweepOwned, Erased, PayloadKept, BytesTracked, Exists
<1>3. CASE StoreNext
  BY <1>1, <1>3, RowSteps, ByteSteps, MarkSteps DEF StoreNext, UploadStep, SweepStep, StoreInv
<1> QED
  BY <1>2, <1>3

\* Rows, locks, bytes and the steps of every process agree in each reachable state.
THEOREM StoreSound == StoreSpec => []StoreInv
<1>1. StoreInit => StoreInv
  <2> SUFFICES ASSUME StoreInit PROVE StoreInv
    OBVIOUS
  <2>1. StructInv
    BY ConstantsAssumption
       DEF StoreInit, Init, StructInv, TypeOK, AliasIndexConsistent, AliasUnderPartition,
           FieldsMatchState, Exists, AssetState
  <2>2. StoreTypes
    BY DEF StoreInit, Init, StoreTypes
  <2>3. BytesInv
    BY DEF StoreInit, Init, BytesInv, LateIsPayload, UploadsOwned, SweepOwned,
           PayloadKept, BytesTracked
  <2> QED
    BY <2>1, <2>2, <2>3 DEF StoreInv
<1> QED
  BY <1>1, StoreStep, PTL DEF StoreSpec

\* No object outlives its row's purge, but a PUT that was given up on.
THEOREM BytesSafe == StoreSpec => []BytesTracked
<1>1. StoreInv => BytesTracked
  BY DEF StoreInv, BytesInv
<1> QED
  BY <1>1, StoreSound, PTL

-----------------------------------------------------------------------------
(* What a step of the store may never do *)

\* One step of the store erases only what is fenced.
LEMMA FenceKept ==
  ASSUME StoreInv, [StoreNext]_allVars
  PROVE  FenceStep
<1> USE DEF FenceStep
<1>0. StoreTypes /\ UploadsOwned /\ SweepOwned /\ None \notin ByteSizes
  BY NoneIsNoSize DEF StoreInv, BytesInv
<1>a. ASSUME UNCHANGED store
      PROVE  FenceStep
  BY <1>a
<1>1. ASSUME NEW u \in Uploaders, UploadPut(u) \/ UploadPutFails(u)
      PROVE  FenceStep
  <2>1. job[u] \in AssetIds /\ reserved[job[u]] # None
    BY <1>0, <1>1 DEF UploadPut, UploadPutFails, UploadsOwned, UploadOwned
  <2> QED
    BY <1>0, <1>1, <2>1 DEF UploadPut, UploadPutFails, StoreTypes
<1>2. ASSUME NEW u \in Uploaders, CleanupDelete(u) \/ CleanupDeleteFails(u)
      PROVE  FenceStep
  <2>1. job[u] \in AssetIds
    BY <1>0, <1>2 DEF CleanupDelete, CleanupDeleteFails, UploadsOwned, UploadOwned
  <2> QED
    BY <1>0, <1>2, <2>1 DEF CleanupDelete, CleanupDeleteFails, StoreTypes, vars
<1>3. ASSUME NEW a \in AssetIds, LandLate(a) \/ \E n \in ByteSizes : ClientPut(a, n)
      PROVE  FenceStep
  BY <1>0, <1>3 DEF LandLate, ClientPut, StoreTypes
<1>4. CASE SweepDelete \/ SweepDeleteFails
  <2>1. target \in AssetIds
    BY <1>0, <1>4 DEF SweepDelete, SweepDeleteFails, SweepOwned
  <2> QED
    BY <1>0, <1>4, <2>1 DEF SweepDelete, SweepDeleteFails, StoreTypes, vars
<1>5. ASSUME NEW u \in Uploaders,
             \/ UploadLock(u) \/ UploadCommit(u) \/ UploadCommitRefused(u)
             \/ CleanupFence(u) \/ CleanupMark(u) \/ UploaderDies(u)
      PROVE  FenceStep
  BY <1>a, <1>5 DEF UploadLock, UploadCommit, UploadCommitRefused, CleanupFence,
     CleanupMark, UploaderDies
<1> QED
  BY <1>a, <1>1, <1>2, <1>3, <1>4, <1>5
     DEF StoreNext, UploadStep, SweepStep, UploadReserve, Reserve, Attach, Detach, Rebind,
         Commit, Retire, SetTtl, Annotate, Age, ReadGet, ReadResolve, SweepPlan,
         SweepApply, SweepMark, WorkerDies, allVars

\* Objects disappear only under rows an earlier transaction has made deleted.
THEOREM FenceSafe == StoreSpec => FenceBeforeErase
<1>1. StoreInv /\ [StoreNext]_allVars => [FenceStep]_allVars
  BY FenceKept
<1> QED
  BY <1>1, StoreSound, PTL DEF StoreSpec, FenceBeforeErase

\* What is under the key of a committed asset changes only to nothing, or back.
LEMMA CommittedBytes ==
  ASSUME StoreInv, [StoreNext]_allVars, NEW a \in AssetIds, size[a] # None
  PROVE  store'[a] \in {store[a], None, size[a]}
<1>0. /\ StoreTypes /\ UploadsOwned /\ SweepOwned /\ LateIsPayload /\ FieldsMatchState
      /\ state[a] # "pending"
  BY DEF StoreInv, BytesInv, StructInv, FieldsMatchState
<1>1. ASSUME NEW u \in Uploaders, UploadPut(u) \/ UploadPutFails(u)
      PROVE  store'[a] = store[a]
  <2>1. job[u] \in AssetIds /\ state[job[u]] = "pending"
    BY <1>0, <1>1 DEF UploadPut, UploadPutFails, UploadsOwned, UploadOwned
  <2> QED
    BY <1>0, <1>1, <2>1 DEF UploadPut, UploadPutFails, StoreTypes
<1>2. ASSUME NEW u \in Uploaders, CleanupDelete(u) \/ CleanupDeleteFails(u)
      PROVE  store'[a] \in {store[a], None}
  BY <1>0, <1>2 DEF CleanupDelete, CleanupDeleteFails, StoreTypes
<1>3. ASSUME NEW b \in AssetIds, LandLate(b) \/ \E n \in ByteSizes : ClientPut(b, n)
      PROVE  store'[a] \in {store[a], size[a]}
  BY <1>0, <1>3 DEF LandLate, ClientPut, LateIsPayload, StoreTypes
<1>4. ASSUME SweepDelete \/ SweepDeleteFails
      PROVE  store'[a] \in {store[a], None}
  BY <1>0, <1>4 DEF SweepDelete, SweepDeleteFails, StoreTypes
<1>5. ASSUME NEW u \in Uploaders,
             \/ UploadLock(u) \/ UploadCommit(u) \/ UploadCommitRefused(u)
             \/ CleanupFence(u) \/ CleanupMark(u) \/ UploaderDies(u)
      PROVE  store' = store
  BY <1>5 DEF UploadLock, UploadCommit, UploadCommitRefused, CleanupFence, CleanupMark,
     UploaderDies
<1> QED
  BY <1>1, <1>2, <1>3, <1>4, <1>5
     DEF StoreNext, UploadStep, SweepStep, UploadReserve, Reserve, Attach, Detach, Rebind,
         Commit, Retire, SetTtl, Annotate, Age, ReadGet, ReadResolve, SweepPlan,
         SweepApply, SweepMark, WorkerDies, allVars

\* A reader comes to an asset by resolving an alias, and only by that.
LEMMA ReaderMoves ==
  ASSUME StoreInv, [StoreNext]_allVars, NEW r \in Readers, job'[r] # None
  PROVE  \/ job'[r] = job[r]
         \/ /\ \E k \in Aliases : Resolvable(k) /\ job'[r] = binding[k]
            /\ UNCHANGED <<state, size, store>>
<1>0. StoreTypes /\ r \notin Uploaders
  BY ActorsAssumption DEF StoreInv
<1>1. ASSUME NEW q \in Readers, ReadGet(q) \/ \E k \in Aliases : ReadResolve(q, k)
      PROVE  \/ job'[r] = job[r]
             \/ /\ \E k \in Aliases : Resolvable(k) /\ job'[r] = binding[k]
                /\ UNCHANGED <<state, size, store>>
  BY <1>0, <1>1 DEF ReadGet, ReadResolve, StoreTypes, vars
<1>2. ASSUME NEW u \in Uploaders,
             \/ UploadStep(u) \/ UploadPutFails(u) \/ CleanupDeleteFails(u) \/ UploaderDies(u)
             \/ \E a \in AssetIds, p \in Partitions, n \in ByteSizes :
                  \E k \in Under[p] : \E mut \in SUBSET {k} : UploadReserve(u, a, p, k, mut, n)
      PROVE  job'[r] = job[r]
  BY <1>0, <1>2
     DEF UploadStep, UploaderDies, UploadReserve, UploadLock, UploadPut, UploadPutFails,
         UploadCommit, UploadCommitRefused, CleanupFence, CleanupDelete, CleanupDeleteFails,
         CleanupMark, UploadDone, StoreTypes
<1> QED
  BY <1>1, <1>2
     DEF StoreNext, SweepStep, Reserve, Attach, Detach, Rebind, LandLate, ClientPut,
         Commit, Retire, SetTtl, Annotate, Age, SweepPlan, SweepApply, SweepDone, SweepDelete,
         SweepDeleteFails, SweepMark, WorkerDies, procVars, allVars

\* What a reader has resolved stays what it will get, or is deleted.
LEMMA ReadersKept ==
  ASSUME StoreInv, ReadersServed, [StoreNext]_allVars
  PROVE  ReadersServed'
<1>1. LifecycleStep /\ FenceStep
  BY LifecycleKept, FenceKept, RegistryStep DEF StoreInv
<1>2. SUFFICES ASSUME NEW r \in Readers, job'[r] # None
               PROVE  LET a == job'[r] IN
                      /\ size'[a] # None
                      /\ store'[a] = size'[a] \/ (store'[a] = None /\ state'[a] = "deleted")
  BY DEF ReadersServed
<1>3. CASE job'[r] = job[r]
  <2>0. PICK a : a = job[r]
    OBVIOUS
  <2>1. a \in AssetIds /\ size[a] # None
        /\ (store[a] = size[a] \/ (store[a] = None /\ state[a] = "deleted"))
    BY <1>2, <1>3, <2>0 DEF ReadersServed, StoreInv, StoreTypes
  <2>2. size'[a] = size[a] /\ (state[a] = "deleted" => state'[a] = "deleted")
    BY <1>1, <2>1 DEF LifecycleStep
  <2>3. store'[a] \in {store[a], None, size[a]}
    BY <2>1, CommittedBytes
  <2>4. store[a] # None /\ store'[a] = None => state'[a] = "deleted"
    BY <1>1, <2>1 DEF FenceStep
  <2> QED
    BY <1>3, <2>0, <2>1, <2>2, <2>3, <2>4
<1>4. CASE job'[r] # job[r]
  <2>1. PICK k \in Aliases : Resolvable(k) /\ job'[r] = binding[k]
    BY <1>2, <1>4, ReaderMoves
  <2>2. UNCHANGED <<state, size, store>>
    BY <1>2, <1>4, ReaderMoves
  <2>3. binding[k] \in AssetIds /\ state[binding[k]] = "available"
    BY <2>1 DEF Resolvable, StoreInv, StructInv, TypeOK
  <2>4. size[binding[k]] # None /\ store[binding[k]] = size[binding[k]]
    BY <2>3 DEF StoreInv, StructInv, FieldsMatchState, BytesInv, PayloadKept
  <2> QED
    BY <2>1, <2>2, <2>4
<1> QED
  BY <1>3, <1>4

\* A committed payload that can be served or restored is in the object store, whole, and
\* so is one a reader has looked up, until the asset is deleted.
THEOREM PayloadSafe == StoreSpec => []PayloadIntact
<1>1. StoreInit => ReadersServed
  BY DEF StoreInit, ReadersServed
<1>2. StoreInv /\ ReadersServed /\ [StoreNext]_allVars => ReadersServed'
  BY ReadersKept
<1>3. StoreInv /\ ReadersServed => PayloadIntact
  BY DEF StoreInv, BytesInv, PayloadIntact
<1> QED
  BY <1>1, <1>2, <1>3, StoreSound, PTL DEF StoreSpec

\* The worker's plan is a set of assets, each with its reason.
PlanInv == plan \subseteq AssetIds /\ PlanGrounded

\* A step that writes one row, and says so, keeps the reasons of the others.
LEMMA PlanTouched ==
  ASSUME PlanInv, NEW a, Touch(a), UNCHANGED <<plan, evictions>>, due \ {a} \subseteq due',
         \A b \in AssetIds \ {a} : state'[b] = state[b]
  PROVE  PlanInv'
BY DEF PlanInv, PlanGrounded, Touch

\* Every step keeps the reasons of the planned actions.
LEMMA PlanStep ==
  ASSUME StoreInv, PlanInv, [StoreNext]_allVars
  PROVE  PlanInv'
<1>0. TypeOK /\ AliasUnderPartition /\ UploadsOwned /\ SweepOwned /\ None \notin AssetIds
      /\ StoreTypes
  BY ConstantsAssumption DEF StoreInv, StructInv, BytesInv
<1> USE <1>0
<1>a. ASSUME UNCHANGED <<state, plan, evictions>>, due \subseteq due', stale \subseteq stale'
      PROVE  PlanInv'
  BY <1>a DEF PlanInv, PlanGrounded
<1>1. ASSUME NEW u \in Uploaders, NEW a \in AssetIds, NEW p \in Partitions,
             NEW n \in ByteSizes, NEW k \in Under[p], NEW mut \in SUBSET {k},
             UploadReserve(u, a, p, k, mut, n)
      PROVE  PlanInv'
  <2>1. Touch(a) /\ due \ {a} \subseteq due' /\ UNCHANGED <<plan, evictions>>
    BY <1>1 DEF UploadReserve, RowWritten
  <2>2. \A b \in AssetIds \ {a} : state'[b] = state[b]
    BY <1>1 DEF UploadReserve, ReserveAsset, TypeOK
  <2> QED
    BY <2>1, <2>2, PlanTouched
<1>2. ASSUME NEW a \in AssetIds, NEW p \in Partitions, NEW k \in Under[p],
             NEW mut \in SUBSET {k}, Reserve(a, p, k, mut)
      PROVE  PlanInv'
  <2>1. Touch(a) /\ due \ {a} \subseteq due' /\ UNCHANGED <<plan, evictions>>
    BY <1>2 DEF Reserve, RowWritten, procVars
  <2>2. \A b \in AssetIds \ {a} : state'[b] = state[b]
    BY <1>2 DEF Reserve, ReserveAsset, TypeOK
  <2> QED
    BY <2>1, <2>2, PlanTouched
<1>3. ASSUME NEW u \in Uploaders, UploadCommit(u) \/ CleanupMark(u)
      PROVE  PlanInv'
  <2>1. Touch(job[u]) /\ due \ {job[u]} \subseteq due' /\ UNCHANGED <<plan, evictions>>
    BY <1>3 DEF UploadCommit, CleanupMark, RowWritten
  <2>2. \A b \in AssetIds \ {job[u]} : state'[b] = state[b]
    BY <1>3 DEF UploadCommit, CommitAsset, CleanupMark, LifecycleUpdate, TypeOK
  <2> QED
    BY <2>1, <2>2, PlanTouched
<1>4. ASSUME NEW u \in Uploaders, CleanupFence(u)
      PROVE  PlanInv'
  <2>1. CASE UNCHANGED <<vars, stale, due>>
    BY <1>4, <1>a, <2>1 DEF CleanupFence, vars
  <2>2. CASE LifecycleUpdate(job[u], "deleted", FALSE) /\ RowWritten(job[u])
    <3>1. Touch(job[u]) /\ due \ {job[u]} \subseteq due' /\ UNCHANGED <<plan, evictions>>
      BY <1>4, <2>2 DEF CleanupFence, RowWritten
    <3>2. \A b \in AssetIds \ {job[u]} : state'[b] = state[b]
      BY <2>2 DEF LifecycleUpdate, TypeOK
    <3> QED
      BY <3>1, <3>2, PlanTouched
  <2> QED
    BY <1>4, <2>1, <2>2 DEF CleanupFence
<1>5. ASSUME NEW a \in AssetIds, NEW k \in Aliases, (\E mut : Attach(a, k, mut)) \/ Rebind(k, a)
      PROVE  PlanInv'
  <2>1. Touch(a) /\ due \ {a} \subseteq due' /\ UNCHANGED <<plan, evictions>>
    BY <1>5 DEF Attach, Rebind, RowWritten, procVars
  <2>2. state' = state
    BY <1>5 DEF Attach, Rebind, AttachAlias, RebindAlias, assetVars
  <2> QED
    BY <2>1, <2>2, PlanTouched
<1>6. ASSUME NEW k \in Aliases, Detach(k)
      PROVE  PlanInv'
  <2>1. Touch(binding[k]) /\ due \ {binding[k]} \subseteq due' /\ UNCHANGED <<plan, evictions>>
    BY <1>6 DEF Detach, RowWritten, procVars
  <2>2. \A b \in AssetIds \ {binding[k]} : state'[b] = state[b]
    BY <1>6 DEF Detach, DetachAlias, DetachMutableAlias, MarkForGcIfOrphaned, TypeOK
  <2> QED
    BY <2>1, <2>2, PlanTouched
<1>7. ASSUME NEW a \in AssetIds, Commit(a) \/ Retire(a) \/ SetTtl(a)
      PROVE  PlanInv'
  <2>1. Touch(a) /\ due \ {a} \subseteq due' /\ UNCHANGED <<plan, evictions>>
    BY <1>7 DEF Commit, Retire, SetTtl, RowWritten, procVars
  <2>2. \A b \in AssetIds \ {a} : state'[b] = state[b]
    BY <1>7 DEF Commit, Retire, SetTtl, CommitAsset, ExpireAsset, DeleteAsset, SetAssetTtl,
       TypeOK
  <2> QED
    BY <2>1, <2>2, PlanTouched
<1>8. CASE SweepPlan
  BY <1>8 DEF SweepPlan, Candidates, PlanInv, PlanGrounded, vars
<1>9. ASSUME NEW a \in AssetIds, SweepApply(a)
      PROVE  PlanInv'
  <2>1. \A b \in AssetIds \ {a} : state'[b] = state[b]
    BY <1>9 DEF SweepApply, SweepAct, LifecycleUpdate, TypeOK, vars
  <2>2. due \ {a} \subseteq due'
    BY <1>9 DEF SweepApply, SweepAct
  <2> QED
    BY <1>9, <2>1, <2>2 DEF SweepApply, PlanInv, PlanGrounded
<1>10. CASE SweepMark
  <2>1. Touch(target) /\ due \ {target} \subseteq due' /\ UNCHANGED <<plan, evictions>>
    BY <1>10 DEF SweepMark, RowWritten
  <2>2. \A b \in AssetIds \ {target} : state'[b] = state[b]
    BY <1>10 DEF SweepMark, LifecycleUpdate, TypeOK
  <2> QED
    BY <2>1, <2>2, PlanTouched
<1>11. CASE WorkerDies
  BY <1>11 DEF WorkerDies, PlanInv, PlanGrounded
<1>12. ASSUME NEW a \in AssetIds, Annotate(a) \/ Age(a) \/ LandLate(a)
                                  \/ \E n \in ByteSizes : ClientPut(a, n)
       PROVE  PlanInv'
  BY <1>12, <1>a DEF Annotate, Age, LandLate, ClientPut, Touch, procVars, vars
<1>13. ASSUME NEW r \in Readers, ReadGet(r) \/ \E k \in Aliases : ReadResolve(r, k)
       PROVE  PlanInv'
  BY <1>13, <1>a DEF ReadGet, ReadResolve, Touch, vars
<1>14. ASSUME NEW u \in Uploaders,
              \/ UploadLock(u) \/ UploadPut(u) \/ UploadPutFails(u)
              \/ UploadCommitRefused(u) \/ CleanupDelete(u) \/ CleanupDeleteFails(u)
              \/ UploaderDies(u)
       PROVE  PlanInv'
  BY <1>14, <1>a DEF UploadLock, UploadPut, UploadPutFails, UploadCommitRefused,
     CleanupDelete, CleanupDeleteFails, UploaderDies, vars
<1>15. CASE SweepDelete \/ SweepDeleteFails \/ UNCHANGED allVars
  BY <1>15, <1>a DEF SweepDelete, SweepDeleteFails, vars, allVars
<1> QED
  BY <1>1, <1>2, <1>3, <1>4, <1>5, <1>6, <1>7, <1>8, <1>9, <1>10, <1>11, <1>12, <1>13,
     <1>14, <1>15 DEF StoreNext, UploadStep, SweepStep

\* No process acts on a decision its row has outlived: the worker's plan against the
\* locked row, the cleanup of a failed upload against a payload committed meanwhile.
THEOREM DecisionsSafe == StoreSpec => DecisionsRechecked
<1>1. ASSUME StoreInv, PlanInv, [StoreNext]_allVars
      PROVE  WorkerStep
  <2>0. TypeOK
    BY <1>1 DEF StoreInv, StructInv
  <2>1. ASSUME plan \subseteq plan' \/ UNCHANGED vars
        PROVE  WorkerStep
    BY <2>1 DEF WorkerStep, vars
  <2>2. ASSUME NEW a \in AssetIds, SweepApply(a)
        PROVE  WorkerStep
    <3>1. CASE a \notin stale /\ SweepAct(a)
      <4>1. a \in due \/ state[a] = "deleted" \/ (a \in evictions /\ state[a] = "available")
        BY <1>1, <2>2, <3>1 DEF SweepApply, PlanInv, PlanGrounded
      <4>2. \/ state[a] = "available" /\ state'[a] = "expired"
            \/ state[a] \in {"pending", "expired"}
            \/ state'[a] = state[a]
        BY <2>0, <3>1 DEF SweepAct, LifecycleUpdate, TypeOK, vars
      <4> QED
        BY <2>2, <4>1, <4>2 DEF WorkerStep, SweepApply
    <3>2. CASE UNCHANGED vars
      BY <2>1, <3>2
    <3> QED
      BY <2>2, <3>1, <3>2 DEF SweepApply
  <2>3. CASE SweepPlan \/ WorkerDies
    BY <2>1, <2>3 DEF SweepPlan, WorkerDies
  <2>4. ASSUME NEW u \in Uploaders, UploadStep(u) \/ UploadPutFails(u)
                                    \/ CleanupDeleteFails(u) \/ UploaderDies(u)
        PROVE  WorkerStep
    BY <2>1, <2>4 DEF UploadStep, UploadLock, UploadPut, UploadPutFails, UploadCommit,
       UploadCommitRefused, CleanupFence, CleanupDelete, CleanupDeleteFails, CleanupMark,
       UploaderDies
  <2> QED
    BY <1>1, <2>1, <2>2, <2>3, <2>4
       DEF StoreNext, SweepStep, UploadReserve, Reserve, Attach, Detach, Rebind, Commit,
           Retire, SetTtl, Annotate, Age, LandLate, ClientPut, ReadGet, ReadResolve,
           SweepDelete, SweepDeleteFails, SweepMark, procVars, allVars
<1>2. ASSUME StoreInv, [StoreNext]_allVars
      PROVE  CleanupStep
  <2> SUFFICES ASSUME NEW u \in Uploaders, upload[u] = "failed", upload'[u] # "failed",
                      size[job[u]] # None
               PROVE  state'[job[u]] = state[job[u]] /\ store'[job[u]] = store[job[u]]
    BY DEF CleanupStep
  <2>0. StoreTypes /\ FieldsMatchState /\ job[u] \in AssetIds
    BY <1>2 DEF StoreInv, StructInv, BytesInv, UploadsOwned, UploadOwned
  <2>1. CASE CleanupFence(u)
    BY <2>0, <2>1 DEF CleanupFence, FieldsMatchState, vars
  <2>2. CASE UploaderDies(u)
    BY <2>2 DEF UploaderDies, vars
  <2>3. ASSUME NEW v \in Uploaders \ {u},
               \/ UploadStep(v) \/ UploadPutFails(v) \/ CleanupDeleteFails(v)
               \/ UploaderDies(v)
        PROVE  FALSE
    BY <2>0, <2>3 DEF UploadStep, UploadLock, UploadPut, UploadPutFails, UploadCommit,
       UploadCommitRefused, CleanupFence, CleanupDelete, CleanupDeleteFails, CleanupMark,
       UploaderDies, UploadDone, StoreTypes
  <2>4. CASE UploadStep(u) \/ UploadPutFails(u) \/ CleanupDeleteFails(u)
    BY <2>1, <2>4 DEF UploadStep, UploadLock, UploadPut, UploadPutFails, UploadCommit,
       UploadCommitRefused, CleanupDelete, CleanupDeleteFails, CleanupMark
  <2>5. ASSUME NEW v \in Uploaders, NEW a \in AssetIds, NEW p, NEW k, NEW mut, NEW n,
               UploadReserve(v, a, p, k, mut, n)
        PROVE  FALSE
    BY <2>0, <2>5 DEF UploadReserve, StoreTypes
  <2>6. UNCHANGED upload => FALSE
    OBVIOUS
  <2>7. ASSUME NEW v \in Uploaders,
               \/ UploadStep(v) \/ UploadPutFails(v) \/ CleanupDeleteFails(v)
               \/ UploaderDies(v)
        PROVE  state'[job[u]] = state[job[u]] /\ store'[job[u]] = store[job[u]]
    <3>1. CASE v = u
      BY <2>2, <2>4, <2>7, <3>1
    <3>2. CASE v # u
      BY <2>3, <2>7, <3>2
    <3> QED
      BY <3>1, <3>2
  <2> QED
    BY <1>2, <2>5, <2>6, <2>7
       DEF StoreNext, SweepStep, Reserve, Attach, Detach, Rebind, Commit, Retire, SetTtl,
           Annotate, Age, LandLate, ClientPut, ReadGet, ReadResolve, SweepPlan, SweepApply,
           SweepDelete, SweepDeleteFails, SweepMark, WorkerDies, procVars, allVars
<1>3. StoreInit => PlanInv
  BY DEF StoreInit, PlanInv, PlanGrounded
<1>4. StoreInv /\ PlanInv /\ [StoreNext]_allVars => PlanInv'
  BY PlanStep
<1>5. StoreInv /\ PlanInv /\ [StoreNext]_allVars => [WorkerStep /\ CleanupStep]_allVars
  BY <1>1, <1>2
<1> QED
  BY <1>3, <1>4, <1>5, StoreSound, PTL DEF StoreSpec, DecisionsRechecked

-----------------------------------------------------------------------------
(* The promise of AssetLife is kept *)

\* The asset is where it was.
Still(b) ==
  state'[b] = state[b] /\ size'[b] = size[b] /\ (b \in purged' <=> b \in purged)

\* The asset has taken one step of its life: only a commit gives it a size, and only
\* the mark that follows the fence makes it purged.
Moved(a) ==
  \/ /\ state[a] = "pending" /\ state'[a] = "available"
     /\ a \in purged' <=> a \in purged
  \/ /\ size'[a] = size[a] /\ (a \in purged' <=> a \in purged)
     /\ \/ state[a] = "absent" /\ state'[a] = "pending"
        \/ state[a] \in {"pending", "available"} /\ state'[a] \in {"expired", "deleted"}
        \/ state[a] = "expired" /\ state'[a] \in {"available", "deleted"}
  \/ /\ size'[a] = size[a] /\ state[a] = "deleted" /\ state'[a] = "deleted"
     /\ a \notin purged /\ a \in purged'

\* An operation of the registry moves at most one asset.
LEMMA OneAssetMoves ==
  ASSUME StructInv, [Next]_vars
  PROVE  \/ \A b \in AssetIds : Still(b)
         \/ \E a \in AssetIds : Moved(a) /\ \A b \in AssetIds \ {a} : Still(b)
<1> DEFINE Goal == \/ \A b \in AssetIds : Still(b)
                   \/ \E a \in AssetIds : Moved(a) /\ \A b \in AssetIds \ {a} : Still(b)
<1>0. TypeOK /\ AliasUnderPartition /\ None \notin AssetIds
  BY ConstantsAssumption DEF StructInv
<1>a. UNCHANGED <<state, size, purged>> => Goal
  BY DEF Still
<1>1. ASSUME NEW a \in AssetIds, NEW p, NEW K, NEW mut, NEW n, ReserveAsset(a, p, K, mut, n)
      PROVE  Goal
  <2>1. Moved(a) /\ \A b \in AssetIds \ {a} : Still(b)
    BY <1>0, <1>1 DEF ReserveAsset, Moved, Still, Exists, TypeOK
  <2> QED
    BY <2>1
<1>2. ASSUME NEW a \in AssetIds, NEW n \in ByteSizes, CommitAsset(a, n)
      PROVE  Goal
  <2>1. Moved(a) /\ \A b \in AssetIds \ {a} : Still(b)
    BY <1>0, <1>2 DEF CommitAsset, Moved, Still, TypeOK
  <2> QED
    BY <2>1
<1>3. ASSUME NEW k \in Aliases, DetachAlias(k) \/ DetachMutableAlias(k)
      PROVE  Goal
  <2>1. /\ binding[k] \in AssetIds /\ Exists(binding[k])
        /\ MarkForGcIfOrphaned(binding[k], k) /\ UNCHANGED <<size, purged>>
    BY <1>0, <1>3 DEF DetachAlias, DetachMutableAlias, AliasUnderPartition, TypeOK
  <2>2. CASE UNCHANGED state
    BY <1>a, <2>1, <2>2
  <2>3. CASE /\ state' = [state EXCEPT ![binding[k]] = "expired"]
             /\ state[binding[k]] \notin {"expired", "deleted"}
    <3>1. Moved(binding[k]) /\ \A b \in AssetIds \ {binding[k]} : Still(b)
      BY <1>0, <2>1, <2>3 DEF Moved, Still, Exists, TypeOK, AssetState
    <3> QED
      BY <2>1, <3>1
  <2> QED
    BY <2>1, <2>2, <2>3 DEF MarkForGcIfOrphaned
<1>4. ASSUME NEW a \in AssetIds, ExpireAsset(a) \/ DeleteAsset(a)
      PROVE  Goal
  <2>1. Moved(a) /\ \A b \in AssetIds \ {a} : Still(b)
    BY <1>0, <1>4 DEF ExpireAsset, DeleteAsset, Moved, Still, TypeOK
  <2> QED
    BY <2>1
<1>5. ASSUME NEW a \in AssetIds, SetAssetTtl(a)
      PROVE  Goal
  <2>1. Moved(a) \/ Still(a)
    BY <1>0, <1>5 DEF SetAssetTtl, Moved, Still, TypeOK
  <2>2. \A b \in AssetIds \ {a} : Still(b)
    BY <1>0, <1>5 DEF SetAssetTtl, Still, TypeOK
  <2> QED
    BY <2>1, <2>2
<1>6. ASSUME NEW a \in AssetIds, NEW st \in {"expired", "deleted"}, NEW pd \in BOOLEAN,
             LifecycleUpdate(a, st, pd)
      PROVE  Goal
  <2>1. Moved(a) \/ Still(a)
    BY <1>0, <1>6 DEF LifecycleUpdate, ValidCleanup, Moved, Still, TypeOK
  <2>2. \A b \in AssetIds \ {a} : Still(b)
    BY <1>0, <1>6 DEF LifecycleUpdate, Still, TypeOK
  <2> QED
    BY <2>1, <2>2
<1> HIDE DEF Goal
<1>7. Goal
  BY <1>a, <1>1, <1>2, <1>3, <1>4, <1>5, <1>6
     DEF Next, RejectedReserve, AttachAlias, RebindAlias, SetPartitionQuota,
         SetBucketQuota, Tick, vars, assetVars
<1> QED
  BY <1>7 DEF Goal

\* While a payload is promised, the promised content is the size the row is charged.
LEMMA PromisedContent ==
  ASSUME StoreInv, NEW a \in AssetIds
  PROVE  LifeOf(a) \in {"served", "retired"} => store[a] = size[a] /\ size[a] \in ByteSizes
<1>1. FieldsMatchState /\ PayloadKept /\ StoreTypes /\ TypeOK
  BY DEF StoreInv, StructInv, BytesInv
<1>2. LifeOf(a) \in {"served", "retired"} =>
        state[a] \in {"available", "expired"} /\ size[a] # None
  BY <1>1 DEF LifeOf, FieldsMatchState, TypeOK, AssetState
<1> QED
  BY <1>1, <1>2 DEF PayloadKept, StoreTypes

\* Every step of the store is a step of AssetLife or changes nothing it promises.
LEMMA PromiseStep ==
  ASSUME StoreInv, StoreInv', [Next]_vars
  PROVE  [Promise!LifeNext]_(Promise!lifeVars)
<1> DEFINE life == [a \in AssetIds |-> LifeOf(a)]
           content == [a \in AssetIds |->
                         IF LifeOf(a) \in {"served", "retired"} THEN store[a] ELSE None]
<1>0. StructInv /\ FieldsMatchState /\ TypeOK /\ FieldsMatchState' /\ TypeOK'
  BY DEF StoreInv, StructInv
<1>a. ASSUME NEW a \in AssetIds
      PROVE  /\ LifeOf(a) \in {"served", "retired"} => store[a] = size[a]
             /\ LifeOf(a)' \in {"served", "retired"} =>
                  store'[a] = size'[a] /\ size'[a] \in ByteSizes
  <2>1. LifeOf(a) \in {"served", "retired"} => store[a] = size[a]
    BY PromisedContent
  <2>2. (LifeOf(a) \in {"served", "retired"} => store[a] = size[a] /\ size[a] \in ByteSizes)'
    BY PromisedContent, PTL
  <2> QED
    BY <2>1, <2>2
<1>1. ASSUME NEW b \in AssetIds, Still(b)
      PROVE  life'[b] = life[b] /\ content'[b] = content[b]
  <2>1. LifeOf(b)' = LifeOf(b)
    BY <1>1 DEF Still, LifeOf
  <2> QED
    BY <1>1, <1>a, <2>1 DEF Still
<1>2. CASE \A b \in AssetIds : Still(b)
  <2>1. life' = life /\ content' = content
    BY <1>1, <1>2
  <2> QED
    BY <2>1 DEF Promise!lifeVars
<1>3. ASSUME NEW a \in AssetIds, Moved(a), \A b \in AssetIds \ {a} : Still(b)
      PROVE  [Promise!LifeNext]_(Promise!lifeVars)
  <2>0. /\ life' = [life EXCEPT ![a] = LifeOf(a)']
        /\ content' = [content EXCEPT ![a] = content'[a]]
    BY <1>1, <1>3
  <2>1. CASE LifeOf(a)' = LifeOf(a)
    <3>1. content'[a] = content[a]
      BY <1>0, <1>3, <1>a, <2>1 DEF Moved, LifeOf, FieldsMatchState
    <3>2. life' = life /\ content' = content
      BY <2>0, <2>1, <3>1
    <3> QED
      BY <3>2 DEF Promise!lifeVars
  <2>2. CASE LifeOf(a)' # LifeOf(a)
    <3>1. \/ LifeOf(a) = "unborn" /\ LifeOf(a)' = "reserved"
          \/ LifeOf(a) = "reserved" /\ LifeOf(a)' \in {"served", "condemned"}
          \/ LifeOf(a) = "served" /\ LifeOf(a)' \in {"retired", "condemned"}
          \/ LifeOf(a) = "retired" /\ LifeOf(a)' \in {"served", "condemned"}
          \/ LifeOf(a) = "condemned" /\ LifeOf(a)' = "erased"
      BY <1>0, <1>3, <2>2 DEF Moved, LifeOf, FieldsMatchState
    <3>2. CASE LifeOf(a) = "unborn" /\ LifeOf(a)' = "reserved"
      <4>1. Promise!Born(a)
        BY <2>0, <3>2 DEF Promise!Born, Promise!Move
      <4> QED
        BY <4>1 DEF Promise!LifeNext
    <3>3. CASE LifeOf(a) = "reserved" /\ LifeOf(a)' = "served"
      <4>0. PICK n \in ByteSizes : n = store'[a]
        BY <1>a, <3>3
      <4>1. Promise!Publish(a, n)
        BY <2>0, <3>3, <4>0 DEF Promise!Publish, Promise!Move
      <4> QED
        BY <4>1 DEF Promise!LifeNext
    <3>4. CASE LifeOf(a) \in {"served", "retired"} /\ LifeOf(a)' \in {"served", "retired"}
      <4>1. content'[a] = content[a]
        BY <1>0, <1>3, <1>a, <3>4 DEF Moved, LifeOf, FieldsMatchState
      <4>2. UNCHANGED content
        BY <2>0, <4>1
      <4>3. CASE LifeOf(a) = "served"
        <5>1. LifeOf(a)' = "retired"
          BY <2>2, <3>4, <4>3
        <5>2. Promise!Suspend(a)
          BY <2>0, <4>2, <4>3, <5>1 DEF Promise!Suspend, Promise!Move
        <5> QED
          BY <5>2 DEF Promise!LifeNext
      <4>4. CASE LifeOf(a) = "retired"
        <5>1. LifeOf(a)' = "served"
          BY <2>2, <3>4, <4>4
        <5>2. Promise!Restore(a)
          BY <2>0, <4>2, <4>4, <5>1 DEF Promise!Restore, Promise!Move
        <5> QED
          BY <5>2 DEF Promise!LifeNext
      <4> QED
        BY <3>4, <4>3, <4>4
    <3>5. CASE LifeOf(a) \in {"reserved", "served", "retired"} /\ LifeOf(a)' = "condemned"
      <4>1. Promise!Condemn(a)
        BY <2>0, <3>5 DEF Promise!Condemn, Promise!Move
      <4> QED
        BY <4>1 DEF Promise!LifeNext
    <3>6. CASE LifeOf(a) = "condemned" /\ LifeOf(a)' = "erased"
      <4>1. Promise!Erase(a)
        BY <2>0, <3>6 DEF Promise!Erase, Promise!Move
      <4> QED
        BY <4>1 DEF Promise!LifeNext
    <3> QED
      BY <3>1, <3>2, <3>3, <3>4, <3>5, <3>6
  <2> QED
    BY <2>1, <2>2
<1> QED
  BY <1>0, <1>2, <1>3, OneAssetMoves

\* The store implements AssetLife: what it promises of a payload is kept by rows, locks,
\* retries, crashes and the worker together.
THEOREM PromiseKept == StoreSpec => KeepsPromise
<1>1. StoreInit => Promise!LifeInit
  BY DEF StoreInit, Init, Promise!LifeInit, LifeOf
<1>2. StoreInv /\ StoreInv' /\ [StoreNext]_allVars => [Promise!LifeNext]_(Promise!lifeVars)
  BY RegistryStep, PromiseStep
<1> QED
  BY <1>1, <1>2, StoreSound, PTL DEF StoreSpec, KeepsPromise, Promise!LifeSpec
=============================================================================
