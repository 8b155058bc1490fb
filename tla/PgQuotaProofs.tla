---------------------------- MODULE PgQuotaProofs ---------------------------
(* Theorems about PgQuota, for any number of transactions, assets and partitions. *)
EXTENDS PgQuota, FiniteSetTheorems, TLAPS

-----------------------------------------------------------------------------
(* Sums over a column *)

Column == [AssetIds -> Nat \cup {None}]

\* A sum over assets is a natural number.
LEMMA SumType ==
  ASSUME NEW f \in Column, NEW s \in SUBSET AssetIds
  PROVE  IsFiniteSet(Units(f, s)) /\ SumOf(f, s) \in Nat
<1> DEFINE sized == {b \in s : f[b] # None}
           own == [a \in sized |-> {a} \X (1..f[a])]
           parts == {own[a] : a \in sized}
<1>1. IsFiniteSet(sized)
  BY FS_Subset, PgQuotaAssumption
<1>2. own \in Surjection(sized, parts)
  BY DEF Surjection
<1>3. IsFiniteSet(parts)
  BY <1>1, <1>2, FS_Surjection
<1>4. ASSUME NEW T \in parts
      PROVE  IsFiniteSet(T)
  <2>1. PICK a \in sized : T = {a} \X (1..f[a])
    OBVIOUS
  <2>2. f[a] \in Nat /\ 1 \in Int /\ f[a] \in Int
    BY DEF Column
  <2>3. IsFiniteSet(1..f[a])
    BY ONLY <2>2, FS_Interval
  <2>4. IsFiniteSet({a})
    BY FS_Singleton
  <2>5. IsFiniteSet({a} \X (1..f[a]))
    BY ONLY <2>3, <2>4, FS_Product
  <2> QED
    BY <2>1, <2>5
<1>5. Units(f, s) = UNION parts
  BY DEF Units
<1>6. IsFiniteSet(UNION parts)
  BY <1>3, <1>4, FS_UNION
<1> HIDE DEF parts
<1> QED
  BY <1>5, <1>6, FS_CardinalityType DEF SumOf

\* A sum depends on the values of its members only.
LEMMA SumAgree ==
  ASSUME NEW f, NEW g, NEW s, \A a \in s : f[a] = g[a]
  PROVE  SumOf(f, s) = SumOf(g, s)
<1>1. Units(f, s) = Units(g, s)
  BY DEF Units
<1> QED
  BY <1>1 DEF SumOf

\* Fewer members add up to no more.
LEMMA SumShrinks ==
  ASSUME NEW f \in Column, NEW s \in SUBSET AssetIds, NEW r \in SUBSET s
  PROVE  SumOf(f, r) <= SumOf(f, s)
<1>1. Units(f, r) \subseteq Units(f, s)
  BY DEF Units
<1> QED
  BY <1>1, SumType, FS_Subset DEF SumOf

\* A new member adds its value, or nothing if it has none.
LEMMA SumAdd ==
  ASSUME NEW f \in Column, NEW s \in SUBSET AssetIds, NEW a \in AssetIds \ s
  PROVE  /\ f[a] # None => SumOf(f, s \cup {a}) = SumOf(f, s) + f[a]
         /\ f[a] = None => SumOf(f, s \cup {a}) = SumOf(f, s)
<1>1. CASE f[a] = None
  <2>1. Units(f, s \cup {a}) = Units(f, s)
    BY <1>1 DEF Units
  <2> QED
    BY <1>1, <2>1 DEF SumOf
<1>2. CASE f[a] # None
  <2> DEFINE own == {a} \X (1..f[a])
  <2>0. f[a] \in Nat /\ f[a] \in Int /\ 1 \in Int
    BY <1>2 DEF Column
  <2>1. Units(f, s \cup {a}) = Units(f, s) \cup own
    BY <1>2 DEF Units
  <2>2. Units(f, s) \cap own = {}
    BY DEF Units
  <2>3. IsFiniteSet(1..f[a]) /\ Cardinality(1..f[a]) = IF 1 > f[a] THEN 0 ELSE f[a] - 1 + 1
    BY ONLY <2>0, FS_Interval
  <2>4. IsFiniteSet({a}) /\ Cardinality({a}) = 1
    BY FS_Singleton
  <2>5. IsFiniteSet(own) /\ Cardinality(own) = Cardinality({a}) * Cardinality(1..f[a])
    BY ONLY <2>3, <2>4, FS_Product
  <2>6. Cardinality(1..f[a]) = f[a]
    BY <2>0, <2>3
  <2> HIDE DEF own
  <2>7. Cardinality(own) = f[a]
    BY <2>0, <2>4, <2>5, <2>6
  <2>8. IsFiniteSet(Units(f, s)) /\ SumOf(f, s) \in Nat
    BY SumType
  <2>9. Cardinality(Units(f, s) \cup own)
          = Cardinality(Units(f, s)) + Cardinality(own) - Cardinality(Units(f, s) \cap own)
    BY <2>5, <2>8, FS_Union
  <2>10. Cardinality(Units(f, s) \cap own) = 0
    BY <2>2, FS_EmptySet
  <2>11. Cardinality(Units(f, s)) \in Nat
    BY <2>8, FS_CardinalityType
  <2>12. Cardinality(Units(f, s) \cup own) = Cardinality(Units(f, s)) + f[a]
    BY <2>0, <2>7, <2>9, <2>10, <2>11
  <2>13. SumOf(f, s \cup {a}) = SumOf(f, s) + f[a]
    BY <2>1, <2>12 DEF SumOf
  <2> QED
    BY <1>2, <2>13
<1> QED
  BY <1>1, <1>2

\* A member that leaves takes its value away.
LEMMA SumRemove ==
  ASSUME NEW f \in Column, NEW s \in SUBSET AssetIds, NEW a \in s, f[a] # None
  PROVE  SumOf(f, s \ {a}) = SumOf(f, s) - f[a] /\ f[a] <= SumOf(f, s)
<1>1. (s \ {a}) \cup {a} = s /\ f[a] \in Nat
  BY DEF Column
<1>2. SumOf(f, (s \ {a}) \cup {a}) = SumOf(f, s \ {a}) + f[a] /\ SumOf(f, s \ {a}) \in Nat
  BY SumAdd, SumType
<1>3. SumOf(f, s) = SumOf(f, s \ {a}) + f[a]
  BY <1>1, <1>2
<1> QED
  BY <1>1, <1>2, <1>3

-----------------------------------------------------------------------------
(* Rows, transactions and locks *)

AllRows == AssetIds \cup Partitions \cup Names \cup {Bucket}
Steps == {"partition", "bucket", "sums", "capacity", "insert", "write"}

RowTypes ==
  /\ state \in [AssetIds -> {"absent", "pending", "available", "expired", "deleted"}]
  /\ partition \in [AssetIds -> Partitions \cup {None}]
  /\ reserved \in Column /\ size \in Column /\ purged \subseteq AssetIds
UsageTypes ==
  /\ used \in [Partitions -> Nat] /\ used_count \in [Partitions -> Nat] /\ bucket_used \in Nat
LimitTypes ==
  /\ quota \in [Partitions -> Nat \cup {None}] /\ quota_count \in [Partitions -> Nat \cup {None}]
  /\ bucket_quota \in Nat \cup {None}
TxnTypes ==
  /\ locked \in [AllRows -> Txns \cup {None}]
  /\ pc \in [Txns -> Steps \cup {"idle", "update"}]
  /\ op \in [Txns -> {"reserve", "commit", "release", "detach", "restore", None}]
  /\ asset \in [Txns -> AssetIds \cup {None}] /\ bytes \in [Txns -> Nat \cup {None}]
  /\ alias \in [Txns -> Names \cup {None}] /\ home \in [Txns -> Partitions \cup {None}]
QuotaTypes == RowTypes /\ UsageTypes /\ LimitTypes /\ TxnTypes

\* An asset row: its size is known from its commit on, its reservation only before.
RowShape(a) ==
  /\ state[a] # "absent" => partition[a] \in Partitions
  /\ state[a] = "absent" => size[a] = None /\ reserved[a] = None
  /\ state[a] = "available" => size[a] # None
  /\ state[a] = "pending" => size[a] = None
  /\ size[a] # None => reserved[a] = None
  /\ a \in purged => state[a] = "deleted"

\* A transaction past its first statements: it has its asset for itself.
Active(t) == pc[t] \in Steps

\* A raw reservation passes no admission.
Raw(t) == op[t] = "reserve" /\ bytes[t] = None

\* What a transaction is about, by its operation: a reservation has an asset that
\* nobody else has drawn, the others hold their asset's row, in the state they found;
\* a detach does not until it has updated the row.
TxnShape(t) ==
  /\ pc[t] = "idle" => asset[t] = None
  /\ pc[t] = "update" =>
       op[t] = "detach" /\ asset[t] \in AssetIds /\ alias[t] \in Names /\ state[asset[t]] # "absent"
  /\ Active(t) =>
       /\ asset[t] \in AssetIds /\ home[t] \in Partitions
       /\ bytes[t] = None => op[t] = "reserve" /\ pc[t] \in {"insert", "write"}
       /\ pc[t] = "insert" => op[t] = "reserve"
       /\ pc[t] \in {"sums", "capacity"} => ~Releasing(t)
       /\ op[t] = "reserve" =>
            /\ alias[t] \in Names /\ state[asset[t]] = "absent"
            /\ \A u \in Txns \ {t} : asset[u] # asset[t]
       /\ op[t] # "reserve" => locked[asset[t]] = t /\ home[t] = partition[asset[t]]
       /\ op[t] = "commit" => state[asset[t]] = "pending" /\ reserved[asset[t]] \in {None, bytes[t]}
       /\ Releasing(t) => state[asset[t]] = "available" /\ bytes[t] = size[asset[t]]
       /\ op[t] = "restore" => state[asset[t]] = "expired" /\ bytes[t] = size[asset[t]]
       /\ op[t] \in {"reserve", "commit", "release", "detach", "restore"}

\* The locks of a transaction, by its next statement: it has those it took, and no
\* others.  A detach has its name's from the start.
TxnLocks(t) ==
  /\ pc[t] = "idle" => \A row \in AllRows : locked[row] # t
  /\ pc[t] = "update" => \A row \in AllRows \ Names : locked[row] # t
  /\ Active(t) /\ ~Raw(t) /\ pc[t] # "partition" => locked[home[t]] = t
  /\ Active(t) /\ ~Raw(t) /\ pc[t] \notin {"partition", "bucket"} => locked[Bucket] = t
  /\ \A p \in Partitions : locked[p] = t => pc[t] # "partition"
  /\ locked[Bucket] = t => pc[t] \notin {"partition", "bucket"}
  /\ \A k \in Names : locked[k] = t => pc[t] = "write" \/ op[t] = "detach"

AccessInv ==
  /\ QuotaTypes
  /\ \A a \in AssetIds : RowShape(a)
  /\ \A t \in Txns : TxnShape(t) /\ TxnLocks(t)

\* What a step of t leaves alone of the other transactions, and one that writes only
\* the row of a, of the other assets.
Aside(t) ==
  \A u \in Txns \ {t} :
    /\ pc'[u] = pc[u] /\ op'[u] = op[u] /\ asset'[u] = asset[u] /\ bytes'[u] = bytes[u]
    /\ alias'[u] = alias[u] /\ home'[u] = home[u]
    /\ \A row \in AllRows : locked'[row] = u <=> locked[row] = u
Only(a) ==
  \A b \in AssetIds \ {a} :
    /\ state'[b] = state[b] /\ partition'[b] = partition[b] /\ reserved'[b] = reserved[b]
    /\ size'[b] = size[b] /\ (b \in purged' <=> b \in purged)

\* Constants kept apart.
LEMMA Apart ==
  /\ None \notin Nat /\ None \notin AssetIds /\ None \notin Partitions /\ None \notin Names
  /\ None \notin Txns /\ Bucket \notin AssetIds /\ Bucket \notin Partitions /\ Bucket \notin Names
  /\ AssetIds \cap Partitions = {} /\ AssetIds \cap Names = {} /\ Partitions \cap Names = {}
  /\ Sizes \subseteq Nat /\ Ceilings \subseteq Nat \cup {None}
  /\ PartitionLimits \subseteq (Nat \cup {None}) \X (Nat \cup {None})
  /\ IsFiniteSet(AssetIds) /\ Capacity \in Nat \cup {None}
BY PgQuotaAssumption

\* Two transactions never are about the same asset.
LEMMA AssetsApart ==
  ASSUME AccessInv, NEW t \in Txns, NEW u \in Txns, t # u, Active(t), Active(u)
  PROVE  asset[t] # asset[u]
BY DEF AccessInv, TxnShape, Active, Steps

\* A step of t keeps the account if it is right about t and the row it writes, which
\* is no other transaction's.
LEMMA Frame ==
  ASSUME AccessInv, QuotaTypes', NEW t \in Txns, Aside(t), NEW a, Only(a),
         \A u \in Txns \ {t} : Active(u) => asset[u] # a,
         a \in AssetIds => RowShape(a)' /\ (state[a] # "absent" => state'[a] # "absent"),
         TxnShape(t)', TxnLocks(t)',
         \A u \in Txns \ {t} : Active(u) /\ op[u] = "reserve" => asset'[t] # asset[u]
  PROVE  AccessInv'
<1>1. \A b \in AssetIds : RowShape(b)'
  BY DEF AccessInv, RowShape, Only
<1>2. ASSUME NEW u \in Txns \ {t}
      PROVE  TxnShape(u)' /\ TxnLocks(u)'
  <2>0. /\ TxnShape(u) /\ TxnLocks(u)
        /\ pc'[u] = pc[u] /\ op'[u] = op[u] /\ asset'[u] = asset[u] /\ bytes'[u] = bytes[u]
        /\ alias'[u] = alias[u] /\ home'[u] = home[u]
        /\ \A row \in AllRows : locked'[row] = u <=> locked[row] = u
    BY DEF AccessInv, Aside
  <2>1. TxnLocks(u)'
    BY <2>0 DEF TxnLocks, TxnShape, Active, Raw, AllRows
  <2>2. CASE ~Active(u)
    <3>1. pc[u] = "update" => state'[asset[u]] # "absent"
      BY <2>0, <2>2 DEF TxnShape, Only
    <3> QED
      BY <2>0, <2>1, <2>2, <3>1 DEF TxnShape, Active
  <2>3. CASE Active(u)
    <3>1. /\ asset[u] \in AssetIds \ {a} /\ Active(u)'
          /\ state'[asset[u]] = state[asset[u]] /\ partition'[asset[u]] = partition[asset[u]]
          /\ reserved'[asset[u]] = reserved[asset[u]] /\ size'[asset[u]] = size[asset[u]]
          /\ locked'[asset[u]] = u <=> locked[asset[u]] = u
      BY <2>0, <2>3 DEF TxnShape, Only, AllRows, Active
    <3>2. op[u] = "reserve" => \A v \in Txns \ {u} : asset'[v] # asset[u]
      BY <2>0, <2>3 DEF TxnShape, Aside
    <3> QED
      BY <2>0, <2>1, <2>3, <3>1, <3>2 DEF TxnShape, Releasing, Active, Steps
  <2> QED
    BY <2>1, <2>2, <2>3
<1> QED
  BY <1>1, <1>2 DEF AccessInv

\* The end of t is nothing to the others.
LEMMA EndFrame ==
  ASSUME AccessInv, NEW t \in Txns, End(t)
  PROVE  /\ Aside(t) /\ TxnTypes' /\ TxnShape(t)' /\ TxnLocks(t)'
         /\ asset'[t] = None /\ pc'[t] = "idle"
<1>1. None \notin Txns /\ TxnTypes
  BY Apart DEF AccessInv, QuotaTypes
<1>2. Aside(t) /\ TxnTypes'
  BY <1>1 DEF End, Aside, TxnTypes
<1>3. pc'[t] = "idle" /\ asset'[t] = None /\ \A row \in AllRows : locked'[row] # t
  BY <1>1 DEF End, TxnTypes
<1>5. TxnShape(t)'
  BY <1>3 DEF TxnShape, Active, Steps
<1>6. TxnLocks(t)'
  BY <1>3 DEF TxnLocks, Active, Steps, AllRows
<1> QED
  BY <1>2, <1>3, <1>5, <1>6

\* Rollback, and an answer without a write.
LEMMA EndStep ==
  ASSUME AccessInv, NEW t \in Txns, End(t), UNCHANGED tables
  PROVE  AccessInv'
<1>1. /\ Aside(t) /\ TxnTypes' /\ TxnShape(t)' /\ TxnLocks(t)' /\ asset'[t] = None
  BY EndFrame
<1>2. QuotaTypes' /\ Only(None)
  BY <1>1 DEF AccessInv, QuotaTypes, RowTypes, UsageTypes, LimitTypes, Only, tables, assetRows,
     usage, limits
<1>3. \A u \in Txns \ {t} : Active(u) => asset[u] \in AssetIds
  BY DEF AccessInv, TxnShape
<1> QED
  BY <1>1, <1>2, <1>3, Frame, Apart

\* A statement that writes nothing others see.
LEMMA StatementStep ==
  ASSUME AccessInv, NEW t \in Txns, Aside(t), TxnTypes', UNCHANGED tables,
         TxnShape(t)', TxnLocks(t)',
         \A u \in Txns \ {t} : Active(u) /\ op[u] = "reserve" => asset'[t] # asset[u]
  PROVE  AccessInv'
<1>1. QuotaTypes' /\ Only(None)
  BY DEF AccessInv, QuotaTypes, RowTypes, UsageTypes, LimitTypes, Only, tables, assetRows,
     usage, limits
<1>2. \A u \in Txns \ {t} : Active(u) => asset[u] \in AssetIds
  BY DEF AccessInv, TxnShape
<1> QED
  BY <1>1, <1>2, Frame, Apart

\* A single-row transaction finds its row unlocked, so it is nobody's.
LEMMA FreeRow ==
  ASSUME AccessInv, NEW a \in AssetIds, locked[a] = None, state[a] # "absent",
         state'[a] # "absent", QuotaTypes', Only(a), RowShape(a)', UNCHANGED <<locked, pc, local>>
  PROVE  AccessInv'
<1>1. \A u \in Txns : Active(u) => asset[u] \in AssetIds /\ asset[u] # a
  BY Apart DEF AccessInv, TxnShape
<1>2. \A b \in AssetIds : RowShape(b)'
  BY DEF AccessInv, RowShape, Only
<1>3. ASSUME NEW u \in Txns
      PROVE  TxnShape(u)' /\ TxnLocks(u)'
  <2>0. TxnShape(u) /\ TxnLocks(u)
    BY DEF AccessInv
  <2>1. TxnLocks(u)'
    BY <2>0 DEF TxnLocks, Active, Raw, local
  <2>2. Active(u) => /\ state'[asset[u]] = state[asset[u]] /\ partition'[asset[u]] = partition[asset[u]]
                     /\ reserved'[asset[u]] = reserved[asset[u]] /\ size'[asset[u]] = size[asset[u]]
    BY <1>1 DEF Only
  <2>3. pc[u] = "update" => state'[asset[u]] # "absent"
    BY <2>0 DEF TxnShape, Only
  <2>4. TxnShape(u)'
    BY <2>0, <2>2, <2>3 DEF TxnShape, Active, Releasing, local
  <2> QED
    BY <2>1, <2>4
<1> QED
  BY <1>2, <1>3 DEF AccessInv

\* Every statement of every transaction keeps the account of rows and locks.
LEMMA AccessStep ==
  ASSUME AccessInv, [QuotaNext]_quotaVars
  PROVE  AccessInv'
<1>0. RowTypes /\ UsageTypes /\ LimitTypes /\ TxnTypes
  BY DEF AccessInv, QuotaTypes
<1> USE <1>0, Apart
<1>b. ASSUME NEW t \in Txns
      PROVE  TxnShape(t) /\ TxnLocks(t)
  BY DEF AccessInv
<1>d. ASSUME NEW t \in Txns, pc[t] = "idle"
      PROVE  ~Active(t) /\ \A row \in AllRows : locked[row] # t
  BY <1>b, <1>d DEF TxnLocks, Active, Steps
<1>1. ASSUME NEW t \in Txns, NEW a \in AssetIds, NEW p \in Partitions, NEW k \in Names,
             NEW n \in Sizes \cup {None}, Reserve(t, a, p, k, n)
      PROVE  AccessInv'
  <2>1. CASE End(t)
    BY <1>1, <2>1, EndStep DEF Reserve
  <2>2. CASE /\ Begin(t, "reserve", a, n, k, p, IF n = None THEN "insert" ELSE "partition")
             /\ UNCHANGED locked
    <3>0. /\ ~Active(t) /\ \A row \in AllRows : locked[row] # t
          /\ UNCHANGED tables /\ state[a] = "absent" /\ \A u \in Txns : asset[u] # a
      BY <1>1, <1>d DEF Reserve, Idle
    <3>1. /\ pc'[t] = IF n = None THEN "insert" ELSE "partition"
          /\ op'[t] = "reserve" /\ asset'[t] = a /\ bytes'[t] = n /\ alias'[t] = k /\ home'[t] = p
      BY <2>2 DEF Begin, TxnTypes
    <3>2. Aside(t) /\ TxnTypes'
      BY <2>2 DEF Begin, Aside, TxnTypes, Steps
    <3>3. TxnShape(t)'
      <4>1. \A u \in Txns \ {t} : asset'[u] # a
        BY <3>0, <3>2 DEF Aside
      <4> QED
        BY <3>0, <3>1, <4>1 DEF TxnShape, Active, Steps, tables, assetRows, Releasing
    <3>4. TxnLocks(t)'
      BY <2>2, <3>0, <3>1 DEF TxnLocks, Active, Raw, AllRows
    <3> QED
      BY <3>0, <3>1, <3>2, <3>3, <3>4, StatementStep
  <2> QED
    BY <1>1, <2>1, <2>2 DEF Reserve
<1>2. ASSUME NEW t \in Txns, NEW a \in AssetIds, UNCHANGED tables,
             NEW o \in {"commit", "release", "detach", "restore"}, NEW n \in Nat,
             NEW k \in Names \cup {None}, LockAsset(t, o, a, n, k),
             pc[t] = "idle" \/ (pc[t] = "update" /\ o = "detach"), state[a] # "absent",
             o = "commit" => state[a] = "pending" /\ reserved[a] \in {None, n},
             o \in {"release", "detach"} => state[a] = "available" /\ n = size[a],
             o = "restore" => state[a] = "expired" /\ n = size[a]
      PROVE  AccessInv'
  <2>0. /\ ~Active(t) /\ \A row \in AllRows \ Names : locked[row] # t
        /\ o # "detach" => \A row \in AllRows : locked[row] # t
        /\ a \in AllRows /\ a \notin Names /\ partition[a] \in Partitions
    BY <1>2, <1>b DEF TxnLocks, Active, Steps, AccessInv, RowShape, AllRows
  <2>a. locked[a] = None
    BY <1>2, <2>0 DEF LockAsset, Grab
  <2>1. /\ pc'[t] = "partition" /\ op'[t] = o /\ asset'[t] = a /\ bytes'[t] = n
        /\ home'[t] = partition[a] /\ locked'[a] = t
        /\ \A row \in AllRows : row # a => locked'[row] = locked[row]
    BY <1>2, <2>0 DEF LockAsset, Begin, Grab, TxnTypes
  <2>2. Aside(t) /\ TxnTypes'
    BY <1>2, <2>0, <2>a DEF LockAsset, Begin, Grab, Aside, TxnTypes, Steps
  <2>3. TxnShape(t)'
    BY <1>2, <2>0, <2>1 DEF TxnShape, Active, Steps, Releasing, tables, assetRows
  <2>4. TxnLocks(t)'
    BY <2>0, <2>1 DEF TxnLocks, Active, Raw, Steps, AllRows
  <2>5. \A u \in Txns \ {t} : Active(u) => asset[u] # a
    BY <1>2, <2>a, <1>b DEF TxnShape
  <2> QED
    BY <1>2, <2>1, <2>2, <2>3, <2>4, <2>5, StatementStep
<1>3. ASSUME NEW t \in Txns, NEW a \in AssetIds,
             (\E n \in Sizes : Commit(t, a, n)) \/ Release(t, a) \/ Restore(t, a)
      PROVE  AccessInv'
  <2>1. CASE \E n \in Sizes : Commit(t, a, n)
    BY <2>1, <1>2 DEF Commit, Idle
  <2>2. CASE Release(t, a)
    <3>1. size[a] \in Nat
      BY <2>2 DEF Release, AccessInv, RowShape, RowTypes, Column
    <3> QED
      BY <2>2, <3>1, <1>2 DEF Release, Idle
  <2>3. CASE Restore(t, a)
    <3>1. size[a] \in Nat
      BY <2>3 DEF Restore, RowTypes, Column
    <3> QED
      BY <2>3, <3>1, <1>2 DEF Restore, Idle
  <2> QED
    BY <1>3, <2>1, <2>2, <2>3
<1>e. \* on to the next statement, with one more lock or none
      ASSUME NEW t \in Txns, Active(t), UNCHANGED <<tables, local>>,
             NEW next \in Steps, pc' = [pc EXCEPT ![t] = next],
             locked' \in [AllRows -> Txns \cup {None}],
             \A row \in AllRows : locked'[row] = locked[row] \/ (locked[row] \in {None, t} /\ locked'[row] = t),
             TxnLocks(t)',
             bytes[t] = None => next \in {"insert", "write"},
             next = "insert" => op[t] = "reserve",
             next \in {"sums", "capacity"} => ~Releasing(t)
      PROVE  AccessInv'
  <2>1. Aside(t) /\ TxnTypes' /\ pc'[t] = next
    BY <1>e DEF Aside, TxnTypes, local
  <2>2. locked[asset[t]] = t => locked'[asset[t]] = t
    <3>1. asset[t] \in AllRows
      BY <1>b, <1>e DEF TxnShape, AllRows
    <3> QED
      BY <1>e, <3>1
  <2>3. TxnShape(t)'
    BY <1>b, <1>e, <2>1, <2>2 DEF TxnShape, Active, Steps, Releasing, tables, assetRows, local
  <2>4. \A u \in Txns \ {t} : Active(u) => asset'[t] # asset[u]
    BY <1>e, AssetsApart DEF local
  <2> QED
    BY <1>e, <2>1, <2>3, <2>4, StatementStep
<1>4. ASSUME NEW t \in Txns, LockPartition(t)
      PROVE  AccessInv'
  <2>1. /\ pc[t] = "partition" /\ Active(t) /\ pc' = [pc EXCEPT ![t] = "bucket"]
        /\ UNCHANGED <<tables, local>> /\ locked[home[t]] \in {None, t}
        /\ locked' = [locked EXCEPT ![home[t]] = t] /\ home[t] \in Partitions /\ home[t] \in AllRows
    BY <1>4, <1>b DEF LockPartition, Goto, Grab, LockOrder, Active, Steps, TxnShape, AllRows
  <2>2. bytes[t] # None
    BY <2>1, <1>b DEF TxnShape
  <2>3. /\ pc'[t] = "bucket" /\ locked'[home[t]] = t
        /\ \A row \in AllRows : row # home[t] => locked'[row] = locked[row]
    BY <2>1 DEF TxnTypes
  <2>4. TxnLocks(t)'
    BY <2>1, <2>2, <2>3, <1>b DEF TxnLocks, Active, Raw, Steps, AllRows, local
  <2>5. locked' \in [AllRows -> Txns \cup {None}]
    BY <2>1 DEF TxnTypes
  <2>6. \A row \in AllRows : locked'[row] = locked[row] \/ (locked[row] \in {None, t} /\ locked'[row] = t)
    BY <2>1, <2>3
  <2> QED
    BY <1>e, <2>1, <2>2, <2>4, <2>5, <2>6 DEF Steps
<1>5. ASSUME NEW t \in Txns, LockBucket(t)
      PROVE  AccessInv'
  <2> DEFINE next == IF Releasing(t) THEN "write" ELSE "sums"
  <2>1. /\ pc[t] = "bucket" /\ Active(t) /\ pc' = [pc EXCEPT ![t] = next]
        /\ UNCHANGED <<tables, local>> /\ locked[Bucket] \in {None, t}
        /\ locked' = [locked EXCEPT ![Bucket] = t] /\ Bucket \in AllRows
        /\ home[t] \in Partitions /\ home[t] \in AllRows
    BY <1>5, <1>b DEF LockBucket, Goto, Grab, LockOrder, Active, Steps, TxnShape, AllRows
  <2>2. bytes[t] # None
    BY <2>1, <1>b DEF TxnShape
  <2>3. /\ pc'[t] = next /\ locked'[Bucket] = t
        /\ \A row \in AllRows : row # Bucket => locked'[row] = locked[row]
    BY <2>1 DEF TxnTypes
  <2>4. TxnLocks(t)'
    BY <2>1, <2>2, <2>3, <1>b DEF TxnLocks, Active, Raw, Steps, AllRows, local
  <2>5. locked' \in [AllRows -> Txns \cup {None}]
    BY <2>1 DEF TxnTypes
  <2>6. \A row \in AllRows : locked'[row] = locked[row] \/ (locked[row] \in {None, t} /\ locked'[row] = t)
    BY <2>1, <2>3
  <2> QED
    BY <1>e, <2>1, <2>2, <2>4, <2>5, <2>6 DEF Steps
<1>6. ASSUME NEW t \in Txns, CheckPartition(t)
      PROVE  AccessInv'
  <2>1. CASE End(t)
    BY <1>6, <2>1, EndStep DEF CheckPartition
  <2>2. CASE Goto(t, "sums", "capacity") /\ UNCHANGED <<locked, local>>
    <3>1. Active(t) /\ pc[t] = "sums" /\ pc'[t] = "capacity" /\ UNCHANGED tables
      BY <1>6, <2>2 DEF CheckPartition, Goto, Active, Steps, TxnTypes
    <3>2. bytes[t] # None /\ ~Releasing(t)
      BY <1>b, <3>1 DEF TxnShape
    <3>3. TxnLocks(t)'
      BY <1>b, <2>2, <3>1 DEF TxnLocks, Active, Raw, Steps, local
    <3> QED
      BY <1>e, <2>2, <3>1, <3>2, <3>3 DEF Goto, Steps, TxnTypes
  <2> QED
    BY <1>6, <2>1, <2>2 DEF CheckPartition
<1>7. ASSUME NEW t \in Txns, CheckCapacity(t)
      PROVE  AccessInv'
  <2> DEFINE next == IF op[t] = "reserve" THEN "insert" ELSE "write"
  <2>1. CASE End(t)
    BY <1>7, <2>1, EndStep DEF CheckCapacity
  <2>2. CASE Goto(t, "capacity", next) /\ UNCHANGED <<locked, local>>
    <3>1. Active(t) /\ pc[t] = "capacity" /\ pc'[t] = next /\ UNCHANGED tables
      BY <1>7, <2>2 DEF CheckCapacity, Goto, Active, Steps, TxnTypes
    <3>2. bytes[t] # None
      BY <1>b, <3>1 DEF TxnShape
    <3>3. TxnLocks(t)'
      BY <1>b, <2>2, <3>1 DEF TxnLocks, Active, Raw, Steps, local
    <3> QED
      BY <1>e, <2>2, <3>1, <3>2, <3>3 DEF Goto, Steps, TxnTypes
  <2> QED
    BY <1>7, <2>1, <2>2 DEF CheckCapacity
<1>8. ASSUME NEW t \in Txns, InsertName(t)
      PROVE  AccessInv'
  <2>1. CASE End(t)
    BY <1>8, <2>1, EndStep DEF InsertName
  <2>2. CASE Goto(t, "insert", "write") /\ Grab(t, alias[t]) /\ UNCHANGED local
    <3>1. Active(t) /\ pc[t] = "insert" /\ UNCHANGED tables /\ locked[alias[t]] = None
      BY <1>8, <2>2 DEF InsertName, Goto, Active, Steps
    <3>2. alias[t] \in Names /\ alias[t] \in AllRows /\ op[t] = "reserve" /\ home[t] \in Partitions
      BY <1>b, <3>1 DEF TxnShape, AllRows
    <3>3. /\ pc'[t] = "write" /\ locked'[alias[t]] = t
          /\ \A row \in AllRows : row # alias[t] => locked'[row] = locked[row]
      BY <2>2, <3>2 DEF Goto, Grab, TxnTypes
    <3>4. TxnLocks(t)'
      BY <1>b, <2>2, <3>1, <3>2, <3>3 DEF TxnLocks, Active, Raw, Steps, AllRows, local
    <3>5. locked' \in [AllRows -> Txns \cup {None}]
      BY <2>2, <3>2 DEF Grab, TxnTypes
    <3>6. \A row \in AllRows :
            locked'[row] = locked[row] \/ (locked[row] \in {None, t} /\ locked'[row] = t)
      BY <3>1, <3>3
    <3> QED
      BY <1>e, <2>2, <3>1, <3>2, <3>4, <3>5, <3>6 DEF Goto, Steps
  <2> QED
    BY <1>8, <2>1, <2>2 DEF InsertName
<1>f. \* a write ends the transaction
      ASSUME NEW t \in Txns, pc[t] = "write", End(t), NEW a \in AssetIds, a = asset[t],
             Only(a), RowTypes', UsageTypes', UNCHANGED limits, RowShape(a)', state'[a] # "absent"
      PROVE  AccessInv'
  <2>1. Active(t)
    BY <1>f DEF Active, Steps
  <2>2. Aside(t) /\ TxnTypes' /\ TxnShape(t)' /\ TxnLocks(t)' /\ asset'[t] = None
    BY <1>f, EndFrame
  <2>3. QuotaTypes'
    BY <1>f, <2>2 DEF QuotaTypes, LimitTypes, limits
  <2>4. \A u \in Txns \ {t} : Active(u) => asset[u] # a /\ asset[u] \in AssetIds
    BY <1>b, <1>f, <2>1, AssetsApart DEF TxnShape
  <2> QED
    BY <1>f, <2>2, <2>3, <2>4, Frame
<1>g. ASSUME NEW t \in Txns, pc[t] = "write"
      PROVE  \E a \in AssetIds :
               /\ a = asset[t] /\ RowShape(a) /\ home[t] \in Partitions /\ TxnShape(t) /\ Active(t)
               /\ op[t] # "reserve" => bytes[t] \in Nat
  BY <1>b, <1>g DEF AccessInv, Active, Steps, TxnShape, TxnTypes
<1>9. ASSUME NEW t \in Txns, WriteReserve(t)
      PROVE  AccessInv'
  <2>0. PICK a \in AssetIds :
          /\ a = asset[t] /\ RowShape(a) /\ home[t] \in Partitions /\ TxnShape(t) /\ Active(t)
    BY <1>9, <1>g DEF WriteReserve
  <2>1. /\ pc[t] = "write" /\ End(t) /\ UNCHANGED limits
        /\ Only(a) /\ RowTypes' /\ UsageTypes'
    BY <1>9, <2>0 DEF WriteReserve, Only, RowTypes, UsageTypes, Column, usage, TxnTypes
  <2>2. /\ state[a] = "absent" /\ state'[a] = "pending" /\ partition'[a] = home[t]
        /\ UNCHANGED <<size, purged>>
    BY <1>9, <2>0 DEF WriteReserve, RowTypes, TxnShape
  <2>3. RowShape(a)'
    BY <2>0, <2>2 DEF RowShape
  <2> QED
    BY <1>f, <2>0, <2>1, <2>2, <2>3
<1>10. ASSUME NEW t \in Txns, WriteCommit(t)
       PROVE  AccessInv'
  <2>0. PICK a \in AssetIds :
          /\ a = asset[t] /\ RowShape(a) /\ home[t] \in Partitions /\ TxnShape(t) /\ Active(t)
          /\ op[t] # "reserve" => bytes[t] \in Nat
    BY <1>10, <1>g DEF WriteCommit
  <2>1. /\ pc[t] = "write" /\ End(t) /\ UNCHANGED limits
        /\ Only(a) /\ RowTypes'
    BY <1>10, <2>0 DEF WriteCommit, Only, RowTypes, Column
  <2>2. UsageTypes'
    BY <1>10, <2>0 DEF WriteCommit, Acquire, UsageTypes
  <2>3. /\ state[a] = "pending" /\ state'[a] = "available" /\ size'[a] = bytes[t]
        /\ reserved'[a] = None /\ UNCHANGED <<partition, purged>>
    BY <1>10, <2>0 DEF WriteCommit, RowTypes, Column, TxnShape
  <2>4. RowShape(a)'
    BY <1>10, <2>0, <2>3 DEF RowShape, WriteCommit
  <2> QED
    BY <1>f, <2>0, <2>1, <2>2, <2>3, <2>4
<1>11. ASSUME NEW t \in Txns, WriteRelease(t)
       PROVE  AccessInv'
  <2>0. PICK a \in AssetIds :
          /\ a = asset[t] /\ RowShape(a) /\ home[t] \in Partitions /\ TxnShape(t) /\ Active(t)
          /\ op[t] # "reserve" => bytes[t] \in Nat
    BY <1>11, <1>g DEF WriteRelease
  <2>1. /\ pc[t] = "write" /\ End(t) /\ UNCHANGED limits
        /\ Only(a) /\ RowTypes'
    BY <1>11, <2>0 DEF WriteRelease, Only, RowTypes
  <2>a. \A x \in Nat, y \in Nat : Monus(x, y) \in Nat
    BY DEF Monus
  <2>b. bytes[t] \in Nat
    BY <1>11, <2>0 DEF WriteRelease, Releasing
  <2>2. UsageTypes'
    BY <1>11, <2>0, <2>a, <2>b DEF WriteRelease, UsageTypes
  <2>3. /\ state[a] = "available" /\ state'[a] = "expired" /\ UNCHANGED <<partition, reserved, size, purged>>
    BY <1>11, <2>0 DEF WriteRelease, RowTypes, TxnShape
  <2>4. RowShape(a)'
    BY <2>0, <2>3 DEF RowShape
  <2> QED
    BY <1>f, <2>0, <2>1, <2>2, <2>3, <2>4
<1>12. ASSUME NEW t \in Txns, WriteRestore(t)
       PROVE  AccessInv'
  <2>0. PICK a \in AssetIds :
          /\ a = asset[t] /\ RowShape(a) /\ home[t] \in Partitions /\ TxnShape(t) /\ Active(t)
          /\ op[t] # "reserve" => bytes[t] \in Nat
    BY <1>12, <1>g DEF WriteRestore
  <2>1. /\ pc[t] = "write" /\ End(t) /\ UNCHANGED limits
        /\ Only(a) /\ RowTypes'
    BY <1>12, <2>0 DEF WriteRestore, Only, RowTypes
  <2>2. UsageTypes'
    BY <1>12, <2>0 DEF WriteRestore, Acquire, UsageTypes
  <2>3. /\ state[a] = "expired" /\ state'[a] = "available" /\ size[a] \in Nat
        /\ UNCHANGED <<partition, reserved, size, purged>>
    BY <1>12, <2>0 DEF WriteRestore, RowTypes, TxnShape
  <2>4. RowShape(a)'
    BY <2>0, <2>3 DEF RowShape
  <2> QED
    BY <1>f, <2>0, <2>1, <2>2, <2>3, <2>4
<1>13. ASSUME NEW t \in Txns, Rollback(t)
       PROVE  AccessInv'
  BY <1>13, EndStep DEF Rollback
<1>14. ASSUME UNCHANGED <<assetRows, usage, locked, pc, local>>, LimitTypes'
       PROVE  AccessInv'
  <2>1. QuotaTypes'
    BY <1>14 DEF QuotaTypes, RowTypes, UsageTypes, TxnTypes, assetRows, usage, local
  <2>2. \A a \in AssetIds : RowShape(a)'
    BY <1>14 DEF AccessInv, RowShape, assetRows
  <2>3. \A t \in Txns : TxnShape(t)' /\ TxnLocks(t)'
    BY <1>14 DEF AccessInv, TxnShape, TxnLocks, Active, Raw, assetRows, local, Releasing
  <2> QED
    BY <2>1, <2>2, <2>3 DEF AccessInv
<1>15. ASSUME NEW p \in Partitions, NEW l \in PartitionLimits, SetPartitionQuota(p, l)
       PROVE  AccessInv'
  <2>1. LimitTypes'
    BY <1>15 DEF SetPartitionQuota, LimitTypes
  <2> QED
    BY <1>14, <1>15, <2>1 DEF SetPartitionQuota
<1>16. ASSUME NEW a \in AssetIds, Retire(a)
       PROVE  AccessInv'
  <2>1. /\ locked[a] = None /\ state[a] # "absent" /\ Only(a) /\ UNCHANGED <<locked, pc, local>>
        /\ state[a] \in {"pending", "expired"} /\ state'[a] = "deleted"
        /\ UNCHANGED <<partition, reserved, size, purged>>
    BY <1>16 DEF Retire, Only, RowTypes
  <2>2. QuotaTypes'
    BY <1>16 DEF Retire, QuotaTypes, RowTypes, UsageTypes, LimitTypes, TxnTypes, usage, limits,
      local
  <2>3. RowShape(a)'
    BY <2>1 DEF AccessInv, RowShape
  <2> QED
    BY <2>1, <2>2, <2>3, FreeRow
<1>17. ASSUME NEW a \in AssetIds, Purge(a)
       PROVE  AccessInv'
  <2>1. /\ locked[a] = None /\ state[a] = "deleted" /\ Only(a) /\ UNCHANGED <<locked, pc, local>>
        /\ UNCHANGED <<state, partition, reserved, size>>
    BY <1>17 DEF Purge, Only
  <2>2. QuotaTypes'
    BY <1>17 DEF Purge, QuotaTypes, RowTypes, UsageTypes, LimitTypes, TxnTypes, usage, limits, local
  <2>3. RowShape(a)'
    BY <2>1 DEF AccessInv, RowShape
  <2> QED
    BY <2>1, <2>2, <2>3, FreeRow
<1>20. ASSUME NEW t \in Txns, NEW a \in AssetIds, NEW k \in Names, Detach(t, k, a)
       PROVE  AccessInv'
  <2>0. /\ pc[t] = "idle" /\ ~Active(t) /\ \A row \in AllRows : locked[row] # t
        /\ UNCHANGED tables /\ state[a] # "absent" /\ k \in AllRows
    BY <1>20, <1>d DEF Detach, Idle, AllRows
  <2>1. /\ pc'[t] = "update" /\ op'[t] = "detach" /\ asset'[t] = a /\ alias'[t] = k
        /\ \A row \in AllRows \ {k} : locked'[row] = locked[row]
    BY <1>20 DEF Detach, Begin, Grab, TxnTypes
  <2>2. Aside(t) /\ TxnTypes'
    <3>1. locked' \in [AllRows -> Txns \cup {None}]
      BY <1>20, <2>0 DEF Detach, Grab, TxnTypes
    <3>2. ASSUME NEW u \in Txns \ {t}, NEW row \in AllRows
          PROVE  locked'[row] = u <=> locked[row] = u
      BY <1>20, <2>0 DEF Detach, Grab, TxnTypes
    <3> QED
      BY <1>20, <3>1, <3>2 DEF Detach, Begin, Aside, TxnTypes
  <2>3. TxnShape(t)'
    BY <2>0, <2>1 DEF TxnShape, Active, Steps, tables, assetRows
  <2>4. TxnLocks(t)'
    BY <2>0, <2>1 DEF TxnLocks, Active, Steps, AllRows
  <2>5. \A u \in Txns \ {t} : Active(u) /\ op[u] = "reserve" => asset[u] # a
    BY <1>b, <2>0 DEF TxnShape
  <2> QED
    BY <2>0, <2>1, <2>2, <2>3, <2>4, <2>5, StatementStep
<1>21. ASSUME NEW t \in Txns, MarkUnused(t)
       PROVE  AccessInv'
  <2>0. PICK a \in AssetIds : a = asset[t] /\ state[a] # "absent" /\ alias[t] \in Names
    BY <1>21, <1>b DEF MarkUnused, TxnShape
  <2>1. RowShape(a) /\ pc[t] = "update" /\ locked[a] \in {None, t}
    BY <1>21, <2>0 DEF MarkUnused, AccessInv
  <2>2. CASE /\ state[a] = "available" /\ LockAsset(t, "detach", a, size[a], alias[t])
             /\ UNCHANGED tables
    <3>1. size[a] \in Nat
      BY <2>1, <2>2 DEF RowShape, RowTypes, Column
    <3> QED
      BY <1>2, <2>0, <2>1, <2>2, <3>1
  <2>3. CASE /\ state' = IF state[a] = "pending" THEN [state EXCEPT ![a] = "expired"] ELSE state
             /\ End(t) /\ UNCHANGED <<partition, reserved, size, purged, usage, limits>>
    <3>1. Aside(t) /\ TxnTypes' /\ TxnShape(t)' /\ TxnLocks(t)' /\ asset'[t] = None
      BY <2>3, EndFrame
    <3>2. QuotaTypes' /\ Only(a)
      BY <2>3, <3>1 DEF QuotaTypes, RowTypes, UsageTypes, LimitTypes, usage, limits, Only
    <3>3. RowShape(a)' /\ state'[a] # "absent"
      BY <2>0, <2>1, <2>3 DEF RowShape, RowTypes
    <3>4. \A u \in Txns \ {t} : Active(u) => asset[u] # a /\ asset[u] \in AssetIds
      BY <1>b, <2>0, <2>1 DEF TxnShape
    <3> QED
      BY <3>1, <3>2, <3>3, <3>4, Frame
  <2> QED
    BY <1>21, <2>0, <2>2, <2>3 DEF MarkUnused
<1>18. CASE UNCHANGED quotaVars
  BY <1>14, <1>18 DEF quotaVars, tables, limits, LimitTypes
<1>19. ASSUME NEW c \in Ceilings, SetBucketQuota(c)
       PROVE  AccessInv'
  <2>1. LimitTypes'
    BY <1>19 DEF SetBucketQuota, LimitTypes
  <2> QED
    BY <1>14, <1>19, <2>1 DEF SetBucketQuota
<1> QED
  BY <1>1, <1>3, <1>4, <1>5, <1>6, <1>7, <1>8, <1>9, <1>10, <1>11, <1>12, <1>13, <1>15, <1>16,
     <1>17, <1>18, <1>19, <1>20, <1>21 DEF QuotaNext

\* Nothing is locked at the start.
LEMMA AccessStart ==
  ASSUME QuotaInit
  PROVE  AccessInv
<1>1. QuotaTypes
  BY Apart DEF QuotaInit, QuotaTypes, RowTypes, UsageTypes, LimitTypes, TxnTypes, Column, AllRows
<1>2. \A a \in AssetIds : RowShape(a)
  BY DEF QuotaInit, RowShape
<1>3. \A t \in Txns : TxnShape(t) /\ TxnLocks(t)
  BY Apart DEF QuotaInit, TxnShape, TxnLocks, Active, Steps, AllRows
<1> QED
  BY <1>1, <1>2, <1>3 DEF AccessInv

\* The lock order asset, partition, bucket, name: of transactions that all wait for
\* each other's rows, one would have to hold a row that comes after the one it wants.
\* Only a detach does, its name, and only a reservation waits for a name.
THEOREM WaitsEnd == QuotaSpec => []OnlyDetachDeadlocks
<1>1. ASSUME AccessInv
      PROVE  OnlyDetachDeadlocks
  <2> SUFFICES ASSUME NEW set \in (SUBSET Txns) \ {{}},
                      \A t \in set : Wants(t) # None /\ locked[Wants(t)] \in set \ {t},
                      \A t, u \in set : ~(pc[t] = "insert" /\ locked[alias[t]] = u /\ op[u] = "detach")
               PROVE  FALSE
    BY DEF OnlyDetachDeadlocks
  <2>0. \A t \in set : /\ pc[t] \in {"partition", "bucket", "insert", "update"}
                       /\ TxnShape(t) /\ TxnLocks(t)
    BY <1>1 DEF Wants, AccessInv
  <2>1. \A t \in set : pc[t] # "update" => Active(t)
    BY <2>0 DEF Active, Steps
  <2>2. \A t \in set : pc[t] # "insert"
    <3> SUFFICES ASSUME NEW t \in set, pc[t] = "insert"
                 PROVE  FALSE
      OBVIOUS
    <3>1. Wants(t) = alias[t] /\ alias[t] \in Names
      BY <2>0, <2>1 DEF Wants, TxnShape
    <3>2. PICK u \in set : locked[alias[t]] = u
      BY <3>1
    <3> QED
      BY <2>0, <3>1, <3>2 DEF TxnLocks
  <2>3. \A t \in set : pc[t] # "bucket"
    <3> SUFFICES ASSUME NEW t \in set, pc[t] = "bucket"
                 PROVE  FALSE
      OBVIOUS
    <3>1. Wants(t) = Bucket /\ Bucket \in AllRows \ Names
      BY Apart DEF Wants, LockOrder, AllRows
    <3> QED
      BY <2>0, <2>2, <3>1 DEF TxnLocks
  <2>4. \A t \in set : pc[t] # "partition"
    <3> SUFFICES ASSUME NEW t \in set, pc[t] = "partition"
                 PROVE  FALSE
      OBVIOUS
    <3>1. Wants(t) \in Partitions /\ Wants(t) \in AllRows \ Names
      BY <2>0, <2>1, Apart DEF Wants, LockOrder, TxnShape, AllRows
    <3> QED
      BY <2>0, <2>2, <2>3, <3>1 DEF TxnLocks
  <2>5. PICK t \in set : TRUE
    OBVIOUS
  <2>6. Wants(t) \in AllRows \ Names /\ locked[Wants(t)] \in set
    BY <2>0, <2>2, <2>3, <2>4, Apart DEF Wants, TxnShape, AllRows
  <2> QED
    BY <2>0, <2>2, <2>3, <2>4, <2>6 DEF TxnLocks
<1> QED
  BY <1>1, AccessStart, AccessStep, PTL DEF QuotaSpec

-----------------------------------------------------------------------------
(* Usage counters *)

Available == {a \in AssetIds : state[a] = "available"}
Inside(p) == {a \in Available : partition[a] = p}

\* Steps that neither bring an asset into service nor take one out of it.
LEMMA UsageKept ==
  ASSUME AccessInv, UsageExact, UNCHANGED usage,
         \A a \in AssetIds : /\ state'[a] = "available" <=> state[a] = "available"
                             /\ state[a] = "available" => size'[a] = size[a] /\ partition'[a] = partition[a]
  PROVE  UsageExact'
<1>1. Available' = Available /\ \A p \in Partitions : Inside(p)' = Inside(p)
  BY DEF Available, Inside
<1>2. SumOf(size', Available) = SumOf(size, Available)
  BY SumAgree DEF Available
<1>3. \A p \in Partitions : SumOf(size', Inside(p)) = SumOf(size, Inside(p))
  BY SumAgree DEF Available, Inside
<1> QED
  BY <1>1, <1>2, <1>3 DEF UsageExact, Available, Inside, usage

\* An asset that comes into service is charged to its partition and the bucket.
LEMMA UsageEnter ==
  ASSUME AccessInv, RowTypes', UsageExact, NEW a \in AssetIds, NEW p \in Partitions, NEW n \in Nat,
         Only(a), state[a] # "available", state'[a] = "available", size'[a] = n, partition'[a] = p,
         Acquire(p, n)
  PROVE  UsageExact'
<1>0. /\ size \in Column /\ size' \in Column /\ IsFiniteSet(AssetIds) /\ None \notin Nat
      /\ used \in [Partitions -> Nat] /\ used_count \in [Partitions -> Nat] /\ bucket_used \in Nat
  BY Apart DEF AccessInv, QuotaTypes, RowTypes, UsageTypes
<1>1. /\ Available' = Available \cup {a} /\ a \notin Available /\ Available \in SUBSET AssetIds
      /\ \A b \in Available : size'[b] = size[b] /\ partition'[b] = partition[b]
  BY DEF Available, Only
<1>2. ASSUME NEW S \in SUBSET Available
      PROVE  /\ SumOf(size', S) = SumOf(size, S) /\ SumOf(size, S) \in Nat
             /\ SumOf(size', S \cup {a}) = SumOf(size, S) + n
             /\ Cardinality(S \cup {a}) = Cardinality(S) + 1
  <2>0. S \in SUBSET AssetIds /\ a \in AssetIds \ S
    BY <1>1
  <2>1. SumOf(size', S) = SumOf(size, S)
    BY <1>1, SumAgree
  <2>2. SumOf(size', S \cup {a}) = SumOf(size', S) + n
    BY <1>0, <2>0, SumAdd
  <2>3. IsFiniteSet(S)
    BY <1>0, <2>0, FS_Subset
  <2>4. Cardinality(S \cup {a}) = Cardinality(S) + 1
    BY <2>0, <2>3, FS_AddElement
  <2> QED
    BY <1>0, <2>0, <2>1, <2>2, <2>4, SumType
<1>3. bucket_used' = SumOf(size', Available')
  <2>1. bucket_used = SumOf(size, Available)
    BY DEF UsageExact, Available
  <2>2. SumOf(size', Available \cup {a}) = SumOf(size, Available) + n
    BY <1>2
  <2> QED
    BY <1>1, <2>1, <2>2 DEF Acquire
<1>4. ASSUME NEW q \in Partitions
      PROVE  used'[q] = SumOf(size', Inside(q)') /\ used_count'[q] = Cardinality(Inside(q)')
  <2>0. used[q] = SumOf(size, Inside(q)) /\ used_count[q] = Cardinality(Inside(q))
    BY DEF UsageExact, Available, Inside
  <2>1. Inside(q) \in SUBSET Available
    BY DEF Inside
  <2>2. CASE q = p
    <3>1. Inside(q)' = Inside(q) \cup {a}
      BY <1>1, <2>2 DEF Inside
    <3>2. used'[q] = used[q] + n /\ used_count'[q] = used_count[q] + 1
      BY <1>0, <2>2 DEF Acquire
    <3>3. /\ SumOf(size', Inside(q) \cup {a}) = SumOf(size, Inside(q)) + n
          /\ Cardinality(Inside(q) \cup {a}) = Cardinality(Inside(q)) + 1
      BY <1>2, <2>1
    <3> QED
      BY <2>0, <3>1, <3>2, <3>3
  <2>3. CASE q # p
    <3>1. Inside(q)' = Inside(q)
      BY <1>1, <2>3 DEF Inside
    <3>2. used'[q] = used[q] /\ used_count'[q] = used_count[q]
      BY <1>0, <2>3 DEF Acquire
    <3>3. SumOf(size', Inside(q)) = SumOf(size, Inside(q))
      BY <1>2, <2>1
    <3> QED
      BY <2>0, <3>1, <3>2, <3>3
  <2> QED
    BY <2>2, <2>3
<1> QED
  BY <1>3, <1>4 DEF UsageExact, Available, Inside

\* An asset that goes out of service is released, and the clamp at zero never bites.
LEMMA UsageLeave ==
  ASSUME AccessInv, UsageExact, NEW a \in AssetIds, NEW p \in Partitions, NEW n \in Nat,
         Only(a), state[a] = "available", state'[a] # "available", size[a] = n, partition[a] = p,
         used' = [used EXCEPT ![p] = Monus(used[p], n)],
         used_count' = [used_count EXCEPT ![p] = Monus(used_count[p], 1)],
         bucket_used' = Monus(bucket_used, n), UNCHANGED <<size, partition>>
  PROVE  UsageExact'
<1>0. /\ size \in Column /\ IsFiniteSet(AssetIds) /\ None \notin Nat
      /\ used \in [Partitions -> Nat] /\ used_count \in [Partitions -> Nat] /\ bucket_used \in Nat
  BY Apart DEF AccessInv, QuotaTypes, RowTypes, UsageTypes
<1>1. Available' = Available \ {a} /\ a \in Available /\ Available \in SUBSET AssetIds
  BY DEF Available, Only
<1>m. \A x \in Nat, y \in Nat : y <= x => Monus(x, y) = x - y
  BY DEF Monus
<1>2. ASSUME NEW S \in SUBSET Available, a \in S
      PROVE  /\ SumOf(size, S \ {a}) = SumOf(size, S) - n /\ n <= SumOf(size, S)
             /\ SumOf(size, S) \in Nat
             /\ Cardinality(S \ {a}) = Cardinality(S) - 1 /\ 1 <= Cardinality(S)
             /\ Cardinality(S) \in Nat
  <2>0. S \in SUBSET AssetIds
    BY <1>1
  <2>1. SumOf(size, S \ {a}) = SumOf(size, S) - n /\ n <= SumOf(size, S)
    BY <1>0, <1>2, <2>0, SumRemove
  <2>2. IsFiniteSet(S)
    BY <1>0, <2>0, FS_Subset
  <2>3. Cardinality(S \ {a}) = Cardinality(S) - 1
    BY <1>2, <2>2, FS_RemoveElement
  <2>4. Cardinality(S) \in Nat /\ Cardinality(S) # 0
    BY <1>2, <2>2, FS_CardinalityType, FS_EmptySet
  <2> QED
    BY <1>0, <2>0, <2>1, <2>3, <2>4, SumType
<1>3. bucket_used' = SumOf(size', Available')
  <2>1. bucket_used = SumOf(size, Available)
    BY DEF UsageExact, Available
  <2>2. /\ SumOf(size, Available \ {a}) = SumOf(size, Available) - n
        /\ n <= SumOf(size, Available)
    BY <1>1, <1>2
  <2> QED
    BY <1>0, <1>1, <1>m, <2>1, <2>2
<1>4. ASSUME NEW q \in Partitions
      PROVE  used'[q] = SumOf(size', Inside(q)') /\ used_count'[q] = Cardinality(Inside(q)')
  <2>0. used[q] = SumOf(size, Inside(q)) /\ used_count[q] = Cardinality(Inside(q))
    BY DEF UsageExact, Available, Inside
  <2>1. Inside(q) \in SUBSET Available
    BY DEF Inside
  <2>2. CASE q = p
    <3>1. Inside(q)' = Inside(q) \ {a} /\ a \in Inside(q)
      BY <1>1, <2>2 DEF Inside
    <3>2. used'[q] = Monus(used[q], n) /\ used_count'[q] = Monus(used_count[q], 1)
      BY <1>0, <2>2
    <3>3. /\ SumOf(size, Inside(q) \ {a}) = SumOf(size, Inside(q)) - n
          /\ n <= SumOf(size, Inside(q)) /\ SumOf(size, Inside(q)) \in Nat
          /\ Cardinality(Inside(q) \ {a}) = Cardinality(Inside(q)) - 1
          /\ 1 <= Cardinality(Inside(q)) /\ Cardinality(Inside(q)) \in Nat
      BY <1>2, <2>1, <3>1
    <3> QED
      BY <1>m, <2>0, <3>1, <3>2, <3>3
  <2>3. CASE q # p
    <3>1. Inside(q)' = Inside(q)
      BY <1>1, <2>3 DEF Inside
    <3>2. used'[q] = used[q] /\ used_count'[q] = used_count[q]
      BY <1>0, <2>3
    <3> QED
      BY <2>0, <3>1, <3>2
  <2> QED
    BY <2>2, <2>3
<1> QED
  BY <1>3, <1>4 DEF UsageExact, Available, Inside

\* Every step keeps the counters exact.
LEMMA UsageStep ==
  ASSUME AccessInv, AccessInv', UsageExact, [QuotaNext]_quotaVars
  PROVE  UsageExact'
<1>0. RowTypes /\ TxnTypes /\ RowTypes'
  BY DEF AccessInv, QuotaTypes
<1>1. ASSUME NEW t \in Txns, pc[t] = "write"
      PROVE  /\ asset[t] \in AssetIds /\ home[t] \in Partitions /\ TxnShape(t) /\ Active(t)
             /\ op[t] # "reserve" => bytes[t] \in Nat
  BY <1>1 DEF AccessInv, QuotaTypes, Active, Steps, TxnShape, TxnTypes
<1>2. ASSUME NEW t \in Txns, WriteReserve(t)
      PROVE  UsageExact'
  <2>1. state[asset[t]] = "absent" /\ asset[t] \in AssetIds
    BY <1>1, <1>2 DEF WriteReserve, TxnShape
  <2>2. \A a \in AssetIds : /\ state'[a] = "available" <=> state[a] = "available"
                            /\ state[a] = "available" => size'[a] = size[a] /\ partition'[a] = partition[a]
    BY <1>0, <1>2, <2>1 DEF WriteReserve, RowTypes
  <2> QED
    BY <1>2, <2>2, UsageKept DEF WriteReserve
<1>3. ASSUME NEW t \in Txns, WriteCommit(t)
      PROVE  UsageExact'
  <2>0. /\ asset[t] \in AssetIds /\ home[t] \in Partitions /\ bytes[t] \in Nat
        /\ state[asset[t]] = "pending" /\ home[t] = partition[asset[t]]
    BY <1>1, <1>3 DEF WriteCommit, TxnShape
  <2>1. /\ Only(asset[t]) /\ state'[asset[t]] = "available" /\ size'[asset[t]] = bytes[t]
        /\ partition'[asset[t]] = home[t] /\ Acquire(home[t], bytes[t])
    BY <1>0, <1>3, <2>0 DEF WriteCommit, Only, RowTypes, Column
  <2> QED
    BY <1>0, <2>0, <2>1, UsageEnter
<1>4. ASSUME NEW t \in Txns, WriteRestore(t)
      PROVE  UsageExact'
  <2>0. /\ asset[t] \in AssetIds /\ home[t] \in Partitions /\ bytes[t] \in Nat
        /\ state[asset[t]] = "expired" /\ home[t] = partition[asset[t]] /\ bytes[t] = size[asset[t]]
    BY <1>1, <1>4 DEF WriteRestore, TxnShape
  <2>1. /\ Only(asset[t]) /\ state'[asset[t]] = "available" /\ size'[asset[t]] = bytes[t]
        /\ partition'[asset[t]] = home[t] /\ Acquire(home[t], bytes[t])
    BY <1>0, <1>4, <2>0 DEF WriteRestore, Only, RowTypes
  <2> QED
    BY <1>0, <2>0, <2>1, UsageEnter
<1>5. ASSUME NEW t \in Txns, WriteRelease(t)
      PROVE  UsageExact'
  <2>0. /\ asset[t] \in AssetIds /\ home[t] \in Partitions /\ bytes[t] \in Nat
        /\ state[asset[t]] = "available" /\ home[t] = partition[asset[t]] /\ bytes[t] = size[asset[t]]
    BY <1>1, <1>5 DEF WriteRelease, TxnShape
  <2>1. /\ Only(asset[t]) /\ state'[asset[t]] # "available" /\ UNCHANGED <<size, partition>>
        /\ used' = [used EXCEPT ![home[t]] = Monus(used[home[t]], bytes[t])]
        /\ used_count' = [used_count EXCEPT ![home[t]] = Monus(used_count[home[t]], 1)]
        /\ bucket_used' = Monus(bucket_used, bytes[t])
    BY <1>0, <1>5, <2>0 DEF WriteRelease, Only, RowTypes
  <2> QED
    BY <2>0, <2>1, UsageLeave
<1>6. ASSUME NEW a \in AssetIds, Retire(a)
      PROVE  UsageExact'
  <2>1. \A b \in AssetIds : /\ state'[b] = "available" <=> state[b] = "available"
                            /\ size'[b] = size[b] /\ partition'[b] = partition[b]
    BY <1>0, <1>6 DEF Retire, RowTypes
  <2> QED
    BY <1>6, <2>1, UsageKept DEF Retire
<1>7. ASSUME UNCHANGED <<state, size, partition, usage>>
      PROVE  UsageExact'
  BY <1>7, UsageKept
<1>8. ASSUME NEW a \in AssetIds, Purge(a)
      PROVE  UsageExact'
  BY <1>7, <1>8 DEF Purge
<1>9. ASSUME UNCHANGED tables
      PROVE  UsageExact'
  BY <1>7, <1>9 DEF tables, assetRows
<1>10. ASSUME \/ \E p \in Partitions, l \in PartitionLimits : SetPartitionQuota(p, l)
              \/ \E c \in Ceilings : SetBucketQuota(c)
       PROVE  UsageExact'
  BY <1>7, <1>10 DEF SetPartitionQuota, SetBucketQuota, assetRows
<1>11. ASSUME \E t \in Txns, a \in AssetIds :
                \/ \E p \in Partitions, k \in Names, n \in Sizes \cup {None} : Reserve(t, a, p, k, n)
                \/ (\E n \in Sizes : Commit(t, a, n)) \/ Release(t, a) \/ Restore(t, a)
       PROVE  UsageExact'
  BY <1>9, <1>11 DEF Reserve, Commit, Release, Restore
<1>14. ASSUME NEW t \in Txns, NEW a \in AssetIds, NEW k \in Names, Detach(t, k, a)
       PROVE  UsageExact'
  BY <1>9, <1>14 DEF Detach
<1>15. ASSUME NEW t \in Txns, MarkUnused(t)
       PROVE  UsageExact'
  <2>1. CASE UNCHANGED tables
    BY <1>9, <2>1
  <2>2. CASE /\ state' = IF state[asset[t]] = "pending"
                         THEN [state EXCEPT ![asset[t]] = "expired"] ELSE state
             /\ UNCHANGED <<size, partition, usage>>
    <3>1. \A a \in AssetIds : /\ state'[a] = "available" <=> state[a] = "available"
                              /\ size'[a] = size[a] /\ partition'[a] = partition[a]
      BY <1>0, <2>2 DEF RowTypes
    <3> QED
      BY <2>2, <3>1, UsageKept
  <2> QED
    BY <1>15, <2>1, <2>2 DEF MarkUnused
<1>12. ASSUME NEW t \in Txns, \/ LockPartition(t) \/ LockBucket(t) \/ CheckPartition(t)
                              \/ CheckCapacity(t) \/ InsertName(t) \/ Rollback(t)
       PROVE  UsageExact'
  BY <1>9, <1>12 DEF LockPartition, LockBucket, CheckPartition, CheckCapacity, InsertName, Rollback
<1>13. CASE UNCHANGED quotaVars
  BY <1>9, <1>13 DEF quotaVars
<1> QED
  BY <1>2, <1>3, <1>4, <1>5, <1>6, <1>8, <1>10, <1>11, <1>12, <1>13, <1>14, <1>15 DEF QuotaNext

\* The counters are exact in every committed state, for any number of transactions.
THEOREM CountersExact == QuotaSpec => []UsageExact
<1>1. QuotaInit => UsageExact
  <2> SUFFICES ASSUME QuotaInit PROVE UsageExact
    OBVIOUS
  <2>1. Available = {} /\ \A p \in Partitions : Inside(p) = {}
    BY DEF QuotaInit, Available, Inside
  <2>2. Units(size, {}) = {} /\ Cardinality({}) = 0
    BY FS_EmptySet DEF Units
  <2>3. SumOf(size, {}) = 0
    BY <2>2 DEF SumOf
  <2>4. (\A p \in Partitions : used[p] = 0 /\ used_count[p] = 0) /\ bucket_used = 0
    BY DEF QuotaInit
  <2> QED
    BY <2>1, <2>2, <2>3, <2>4 DEF UsageExact, Available, Inside
<1>2. AccessInv /\ UsageExact /\ [QuotaNext]_quotaVars => AccessInv' /\ UsageExact'
  BY AccessStep, UsageStep
<1> QED
  BY <1>1, <1>2, AccessStart, PTL DEF QuotaSpec

-----------------------------------------------------------------------------
(* Admissions *)

\* A sum without the asset of t, as t's statements take it.
ChargedBut(x, p) == used[p] + SumOf(reserved, PendingIn(x, p))
SlotsBut(x, p) == used_count[p] + Cardinality(PendingIn(x, p))
BucketBut(x) == bucket_used + SumOf(reserved, Pending(x))

\* What t's checks have found stays so until t writes.
Admitted(t) ==
  Active(t) /\ ~Raw(t) /\ ~Releasing(t) =>
    LET a == asset[t]  p == home[t]  n == bytes[t] IN
    /\ pc[t] \in {"capacity", "insert", "write"} =>
         /\ Below(ChargedBut(a, p) + n, quota[p])
         /\ quota_count[p] = None \/ SlotsBut(a, p) + 1 <= quota_count[p]
    /\ pc[t] \in {"insert", "write"} =>
         Below(Physical(a) + n, Capacity) /\ Below(BucketBut(a) + n, bucket_quota)

QuotaInv == AccessInv /\ \A t \in Txns : Admitted(t)

Coalesced == [a \in AssetIds |-> IF size[a] # None THEN size[a] ELSE reserved[a]]
Held(x) == {a \in AssetIds \ ({x} \cup purged) : state[a] # "absent"}

\* The sums are natural numbers.
LEMMA SumsType ==
  ASSUME AccessInv, NEW x, NEW q \in Partitions
  PROVE  /\ ChargedBut(x, q) \in Nat /\ SlotsBut(x, q) \in Nat /\ BucketBut(x) \in Nat
         /\ Physical(x) \in Nat /\ Physical(x) = SumOf(Coalesced, Held(x))
         /\ used[q] \in Nat /\ used_count[q] \in Nat /\ bucket_used \in Nat
         /\ IsFiniteSet(PendingIn(x, q))
<1>0. /\ reserved \in Column /\ size \in Column /\ used[q] \in Nat /\ used_count[q] \in Nat
      /\ bucket_used \in Nat /\ IsFiniteSet(AssetIds)
  BY Apart DEF AccessInv, QuotaTypes, RowTypes, UsageTypes
<1>1. Pending(x) \in SUBSET AssetIds /\ PendingIn(x, q) \in SUBSET AssetIds /\ Held(x) \in SUBSET AssetIds
  BY DEF Pending, PendingIn, Held
<1>2. Coalesced \in Column
  BY <1>0 DEF Coalesced, Column
<1>3. /\ SumOf(reserved, Pending(x)) \in Nat /\ SumOf(reserved, PendingIn(x, q)) \in Nat
      /\ SumOf(Coalesced, Held(x)) \in Nat
  BY <1>0, <1>1, <1>2, SumType
<1>4. IsFiniteSet(PendingIn(x, q))
  BY <1>0, <1>1, FS_Subset
<1>5. Cardinality(PendingIn(x, q)) \in Nat
  BY <1>4, FS_CardinalityType
<1>6. Physical(x) = SumOf(Coalesced, Held(x))
  BY DEF Physical, Coalesced, Held
<1> QED
  BY <1>0, <1>3, <1>4, <1>5, <1>6 DEF ChargedBut, SlotsBut, BucketBut

\* Only a has changed, and it is not a pending row of q now: no sum of q has grown.
LEMMA ShrinkIn ==
  ASSUME AccessInv, AccessInv', NEW a, Only(a), NEW q \in Partitions,
         used'[q] <= used[q], used_count'[q] <= used_count[q],
         a \in AssetIds => a \notin PendingIn(None, q)', NEW x
  PROVE  ChargedBut(x, q)' <= ChargedBut(x, q) /\ SlotsBut(x, q)' <= SlotsBut(x, q)
<1>0. reserved \in Column /\ reserved' \in Column /\ None \notin AssetIds
  BY Apart DEF AccessInv, QuotaTypes, RowTypes
<1>1. PendingIn(x, q)' \in SUBSET PendingIn(x, q)
  BY <1>0 DEF PendingIn, Pending, Only
<1>2. \A b \in PendingIn(x, q)' : reserved'[b] = reserved[b]
  BY <1>0 DEF PendingIn, Pending, Only
<1>3. SumOf(reserved', PendingIn(x, q)') = SumOf(reserved, PendingIn(x, q)')
  BY <1>2, SumAgree
<1>4. PendingIn(x, q) \in SUBSET AssetIds
  BY DEF PendingIn, Pending
<1>5. SumOf(reserved, PendingIn(x, q)') <= SumOf(reserved, PendingIn(x, q))
  BY <1>0, <1>1, <1>4, SumShrinks
<1>6. IsFiniteSet(PendingIn(x, q))
  BY SumsType
<1>7. Cardinality(PendingIn(x, q)') <= Cardinality(PendingIn(x, q))
  BY <1>1, <1>6, FS_Subset
<1>8. /\ used'[q] \in Nat /\ used_count'[q] \in Nat /\ used[q] \in Nat /\ used_count[q] \in Nat
  BY DEF AccessInv, QuotaTypes, UsageTypes
<1>9. /\ SumOf(reserved, PendingIn(x, q)) \in Nat /\ SumOf(reserved, PendingIn(x, q)') \in Nat
  BY <1>0, <1>1, <1>4, SumType
<1>10. /\ Cardinality(PendingIn(x, q)) \in Nat /\ Cardinality(PendingIn(x, q)') \in Nat
  BY <1>1, <1>6, FS_Subset, FS_CardinalityType
<1> QED
  BY <1>3, <1>5, <1>7, <1>8, <1>9, <1>10 DEF ChargedBut, SlotsBut

\* The same for the bucket's sum.
LEMMA ShrinkBucket ==
  ASSUME AccessInv, AccessInv', NEW a, Only(a), bucket_used' <= bucket_used,
         a \in AssetIds => a \notin Pending(None)', NEW x
  PROVE  BucketBut(x)' <= BucketBut(x)
<1>0. reserved \in Column /\ reserved' \in Column /\ None \notin AssetIds
  BY Apart DEF AccessInv, QuotaTypes, RowTypes
<1>1. Pending(x)' \in SUBSET Pending(x)
  BY <1>0 DEF Pending, Only
<1>2. \A b \in Pending(x)' : reserved'[b] = reserved[b]
  BY <1>0 DEF Pending, Only
<1>3. SumOf(reserved', Pending(x)') = SumOf(reserved, Pending(x)')
  BY <1>2, SumAgree
<1>4. Pending(x) \in SUBSET AssetIds
  BY DEF Pending
<1>5. SumOf(reserved, Pending(x)') <= SumOf(reserved, Pending(x))
  BY <1>0, <1>1, <1>4, SumShrinks
<1>6. bucket_used' \in Nat /\ bucket_used \in Nat
  BY DEF AccessInv, QuotaTypes, UsageTypes
<1>7. SumOf(reserved, Pending(x)) \in Nat /\ SumOf(reserved, Pending(x)') \in Nat
  BY <1>0, <1>1, <1>4, SumType
<1> QED
  BY <1>3, <1>5, <1>6, <1>7 DEF BucketBut

\* And for the bytes on disk: a had its bytes before, or has none.
LEMMA ShrinkHeld ==
  ASSUME AccessInv, AccessInv', NEW a, Only(a), NEW x,
         a \in AssetIds => \/ a \notin Held(None)'
                           \/ a \in Held(None) /\ Coalesced'[a] = Coalesced[a]
                           \/ Coalesced'[a] = None
  PROVE  Physical(x)' <= Physical(x)
<1>0. /\ None \notin AssetIds /\ Coalesced \in Column /\ Coalesced' \in Column
  BY Apart DEF AccessInv, QuotaTypes, RowTypes, Coalesced, Column
<1>p. Physical(x) = SumOf(Coalesced, Held(x)) /\ Physical(x)' = SumOf(Coalesced', Held(x)')
  BY DEF Physical, Coalesced, Held
<1>1. /\ Held(x) \in SUBSET AssetIds /\ Held(x)' \in SUBSET AssetIds
      /\ Held(x) \subseteq Held(None) /\ Held(x)' \subseteq Held(None)'
  BY <1>0 DEF Held
<1>2. \A b \in AssetIds \ {a} : (b \in Held(x)' <=> b \in Held(x)) /\ Coalesced'[b] = Coalesced[b]
  BY DEF Held, Coalesced, Only
<1>3. CASE Held(x)' \subseteq Held(x) /\ \A b \in Held(x)' : Coalesced'[b] = Coalesced[b]
  <2>1. SumOf(Coalesced', Held(x)') = SumOf(Coalesced, Held(x)')
    BY <1>3, SumAgree
  <2>2. SumOf(Coalesced, Held(x)') <= SumOf(Coalesced, Held(x))
    BY <1>0, <1>1, <1>3, SumShrinks
  <2> QED
    BY <1>p, <2>1, <2>2
<1>4. CASE a \in Held(x)' /\ Coalesced'[a] = None
  <2> DEFINE rest == Held(x)' \ {a}
  <2>1. rest \in SUBSET AssetIds /\ a \in AssetIds \ rest /\ rest \cup {a} = Held(x)'
        /\ rest \in SUBSET Held(x) /\ \A b \in rest : Coalesced'[b] = Coalesced[b]
    BY <1>1, <1>2, <1>4
  <2> HIDE DEF rest
  <2>2. SumOf(Coalesced', rest \cup {a}) = SumOf(Coalesced', rest)
    BY <1>0, <1>4, <2>1, SumAdd
  <2>3. SumOf(Coalesced', rest) = SumOf(Coalesced, rest)
    BY <2>1, SumAgree
  <2>4. SumOf(Coalesced, rest) <= SumOf(Coalesced, Held(x))
    BY <1>0, <1>1, <2>1, SumShrinks
  <2> QED
    BY <1>p, <2>1, <2>2, <2>3, <2>4
<1>5. \/ Held(x)' \subseteq Held(x) /\ \A b \in Held(x)' : Coalesced'[b] = Coalesced[b]
      \/ a \in Held(x)' /\ Coalesced'[a] = None
  <2>1. CASE a \notin Held(x)'
    BY <1>1, <1>2, <2>1
  <2>2. CASE a \in Held(x)' /\ a \in Held(None) /\ Coalesced'[a] = Coalesced[a]
    <3>1. a \in Held(x)
      BY <1>1, <2>2 DEF Held
    <3> QED
      BY <1>1, <1>2, <2>2, <3>1
  <2> QED
    BY <1>1, <2>1, <2>2
<1> QED
  BY <1>3, <1>4, <1>5

\* The row of a has come to count n in partition p: as a reservation that was not
\* there, or as an available asset; each sum is the sum without a, plus n.
LEMMA GrowSums ==
  ASSUME AccessInv, AccessInv', NEW a \in AssetIds, NEW p \in Partitions, NEW n \in Nat, Only(a),
         partition'[a] = p,
         \/ state'[a] = "pending" /\ reserved'[a] = n /\ UNCHANGED usage
         \/ state'[a] = "available" /\ size'[a] = n /\ Acquire(p, n)
  PROVE  /\ ChargedBut(None, p)' = ChargedBut(a, p) + n /\ SlotsBut(None, p)' = SlotsBut(a, p) + 1
         /\ BucketBut(None)' = BucketBut(a) + n /\ Physical(None)' = Physical(a) + n
         /\ \A q \in Partitions \ {p} : /\ ChargedBut(None, q)' <= ChargedBut(None, q)
                                        /\ SlotsBut(None, q)' <= SlotsBut(None, q)
<1>0. /\ reserved \in Column /\ reserved' \in Column /\ Coalesced \in Column /\ Coalesced' \in Column
      /\ RowShape(a)' /\ a \notin purged' /\ None \notin AssetIds /\ n # None
      /\ used \in [Partitions -> Nat] /\ used_count \in [Partitions -> Nat] /\ bucket_used \in Nat
  BY Apart DEF AccessInv, QuotaTypes, RowTypes, UsageTypes, RowShape, Coalesced, Column
<1>1. /\ PendingIn(a, p) \in SUBSET AssetIds /\ Pending(a) \in SUBSET AssetIds
      /\ Held(a) \in SUBSET AssetIds
      /\ a \notin PendingIn(a, p) /\ a \notin Pending(a) /\ a \notin Held(a)
  BY DEF PendingIn, Pending, Held
<1>2. /\ \A b \in PendingIn(a, p) \cup Pending(a) : reserved'[b] = reserved[b]
      /\ \A b \in Held(a) : Coalesced'[b] = Coalesced[b]
  BY DEF PendingIn, Pending, Held, Coalesced, Only
<1>3. /\ SumOf(reserved', PendingIn(a, p)) = SumOf(reserved, PendingIn(a, p))
      /\ SumOf(reserved', Pending(a)) = SumOf(reserved, Pending(a))
      /\ SumOf(Coalesced', Held(a)) = SumOf(Coalesced, Held(a))
  BY <1>2, SumAgree
<1>4. /\ SumOf(reserved, PendingIn(a, p)) \in Nat /\ SumOf(reserved, Pending(a)) \in Nat
      /\ IsFiniteSet(PendingIn(a, p))
  BY <1>0, <1>1, SumType, SumsType
<1>5. Cardinality(PendingIn(a, p)) \in Nat
  BY <1>4, FS_CardinalityType
<1>6. Physical(None)' = Physical(a) + n
  <2>1. Held(None)' = Held(a) \cup {a}
    BY <1>0 DEF Held, Only
  <2>2. Coalesced'[a] = n
    BY <1>0 DEF Coalesced, RowShape
  <2>3. SumOf(Coalesced', Held(a) \cup {a}) = SumOf(Coalesced', Held(a)) + n
    BY <1>0, <1>1, <2>2, SumAdd
  <2>4. Physical(a) = SumOf(Coalesced, Held(a)) /\ Physical(None)' = SumOf(Coalesced', Held(None)')
    BY DEF Physical, Coalesced, Held
  <2> QED
    BY <1>3, <2>1, <2>3, <2>4
<1>7. ASSUME NEW q \in Partitions \ {p}
      PROVE  ChargedBut(None, q)' <= ChargedBut(None, q) /\ SlotsBut(None, q)' <= SlotsBut(None, q)
  <2>1. used'[q] = used[q] /\ used_count'[q] = used_count[q] /\ used[q] \in Nat /\ used_count[q] \in Nat
    BY <1>0 DEF usage, Acquire
  <2>2. a \notin PendingIn(None, q)' /\ used'[q] <= used[q] /\ used_count'[q] <= used_count[q]
    BY <2>1 DEF PendingIn
  <2> QED
    BY <2>2, ShrinkIn
<1>8. CASE state'[a] = "pending" /\ reserved'[a] = n /\ UNCHANGED usage
  <2>1. PendingIn(None, p)' = PendingIn(a, p) \cup {a} /\ Pending(None)' = Pending(a) \cup {a}
    BY <1>0, <1>8 DEF PendingIn, Pending, Only
  <2>2. /\ SumOf(reserved', PendingIn(a, p) \cup {a}) = SumOf(reserved', PendingIn(a, p)) + n
        /\ SumOf(reserved', Pending(a) \cup {a}) = SumOf(reserved', Pending(a)) + n
    BY <1>0, <1>1, <1>8, SumAdd
  <2>3. Cardinality(PendingIn(a, p) \cup {a}) = Cardinality(PendingIn(a, p)) + 1
    BY <1>1, <1>4, FS_AddElement
  <2>4. used' = used /\ used_count' = used_count /\ bucket_used' = bucket_used
    BY <1>8 DEF usage
  <2>5. ChargedBut(None, p)' = ChargedBut(a, p) + n
    BY <1>0, <1>3, <1>4, <2>1, <2>2, <2>4 DEF ChargedBut
  <2>6. SlotsBut(None, p)' = SlotsBut(a, p) + 1
    BY <1>0, <1>5, <2>1, <2>3, <2>4 DEF SlotsBut
  <2>7. BucketBut(None)' = BucketBut(a) + n
    BY <1>0, <1>3, <1>4, <2>1, <2>2, <2>4 DEF BucketBut
  <2> QED
    BY <1>6, <1>7, <2>5, <2>6, <2>7
<1>9. CASE state'[a] = "available" /\ size'[a] = n /\ Acquire(p, n)
  <2>1. PendingIn(None, p)' = PendingIn(a, p) /\ Pending(None)' = Pending(a)
    BY <1>0, <1>9 DEF PendingIn, Pending, Only
  <2>2. used'[p] = used[p] + n /\ used_count'[p] = used_count[p] + 1 /\ bucket_used' = bucket_used + n
    BY <1>0, <1>9 DEF Acquire
  <2>3. ChargedBut(None, p)' = ChargedBut(a, p) + n
    BY <1>0, <1>3, <1>4, <2>1, <2>2 DEF ChargedBut
  <2>4. SlotsBut(None, p)' = SlotsBut(a, p) + 1
    BY <1>0, <1>5, <2>1, <2>2 DEF SlotsBut
  <2>5. BucketBut(None)' = BucketBut(a) + n
    BY <1>0, <1>3, <1>4, <2>1, <2>2 DEF BucketBut
  <2> QED
    BY <1>6, <1>7, <2>3, <2>4, <2>5
<1> QED
  BY <1>8, <1>9

\* The writes that charge an admission, and the steps that charge none: no sum grows,
\* and a limit changes only while nobody holds its row.
Charges(t) == (WriteReserve(t) /\ bytes[t] # None) \/ WriteCommit(t) \/ WriteRestore(t)
Quiet ==
  /\ \A x \in AssetIds \cup {None} :
       /\ \A q \in Partitions : /\ ChargedBut(x, q)' <= ChargedBut(x, q)
                                /\ SlotsBut(x, q)' <= SlotsBut(x, q)
       /\ BucketBut(x)' <= BucketBut(x) /\ Physical(x)' <= Physical(x)
  /\ \A q \in Partitions : locked[q] # None => quota'[q] = quota[q] /\ quota_count'[q] = quota_count[q]
  /\ locked[Bucket] # None => bucket_quota' = bucket_quota

\* An admission's write is its holder's, and adds the size to the sums it was
\* admitted against.
LEMMA ChargeSums ==
  ASSUME AccessInv, AccessInv', NEW t \in Txns, Charges(t),
         NEW a, NEW p, NEW n, a = asset[t], p = home[t], n = bytes[t]
  PROVE  /\ a \in AssetIds /\ p \in Partitions /\ n \in Nat /\ UNCHANGED limits
         /\ pc[t] = "write" /\ Active(t) /\ ~Raw(t) /\ ~Releasing(t) /\ pc'[t] = "idle"
         /\ ChargedBut(None, p)' = ChargedBut(a, p) + n /\ SlotsBut(None, p)' = SlotsBut(a, p) + 1
         /\ BucketBut(None)' = BucketBut(a) + n /\ Physical(None)' = Physical(a) + n
         /\ \A q \in Partitions \ {p} : /\ ChargedBut(None, q)' <= ChargedBut(None, q)
                                        /\ SlotsBut(None, q)' <= SlotsBut(None, q)
<1>1. /\ pc[t] = "write" /\ Active(t) /\ ~Raw(t) /\ ~Releasing(t) /\ TxnShape(t)
      /\ op[t] \in {"reserve", "commit", "restore"}
  BY DEF Charges, WriteReserve, WriteCommit, WriteRestore, Active, Steps, Raw, AccessInv, TxnShape
<1>2. /\ a \in AssetIds /\ p \in Partitions /\ n \in Nat /\ RowTypes /\ TxnTypes
  BY <1>1 DEF TxnShape, Raw, AccessInv, QuotaTypes, TxnTypes
<1>3. UNCHANGED limits /\ pc'[t] = "idle"
  BY <1>2 DEF Charges, WriteReserve, WriteCommit, WriteRestore, End, TxnTypes
<1>4. CASE WriteReserve(t)
  <2>1. /\ Only(a) /\ partition'[a] = p /\ state'[a] = "pending" /\ reserved'[a] = n
        /\ UNCHANGED usage
    BY <1>2, <1>4 DEF WriteReserve, Only, RowTypes, Column
  <2> QED
    BY <1>1, <1>2, <1>3, <2>1, GrowSums
<1>5. CASE WriteCommit(t)
  <2>0. p = partition[a]
    BY <1>1, <1>5 DEF TxnShape, WriteCommit
  <2>1. /\ Only(a) /\ partition'[a] = p /\ state'[a] = "available" /\ size'[a] = n /\ Acquire(p, n)
    BY <1>2, <1>5, <2>0 DEF WriteCommit, Only, RowTypes, Column
  <2> QED
    BY <1>1, <1>2, <1>3, <2>1, GrowSums
<1>6. CASE WriteRestore(t)
  <2>0. p = partition[a] /\ n = size[a]
    BY <1>1, <1>6 DEF TxnShape, WriteRestore
  <2>1. /\ Only(a) /\ partition'[a] = p /\ state'[a] = "available" /\ size'[a] = n /\ Acquire(p, n)
    BY <1>2, <1>6, <2>0 DEF WriteRestore, Only, RowTypes
  <2> QED
    BY <1>1, <1>2, <1>3, <2>1, GrowSums
<1> QED
  BY <1>4, <1>5, <1>6 DEF Charges

\* The sums the checks compare are natural numbers.
SumsNatural ==
  \A x \in AssetIds \cup {None} :
    /\ \A q \in Partitions : ChargedBut(x, q) \in Nat /\ SlotsBut(x, q) \in Nat
    /\ BucketBut(x) \in Nat /\ Physical(x) \in Nat

\* They are before a step.
LEMMA SumsNow == AccessInv => SumsNatural
<1> SUFFICES ASSUME AccessInv, NEW x \in AssetIds \cup {None}
             PROVE  /\ \A q \in Partitions : ChargedBut(x, q) \in Nat /\ SlotsBut(x, q) \in Nat
                    /\ BucketBut(x) \in Nat /\ Physical(x) \in Nat
  BY DEF SumsNatural
<1>1. reserved \in Column /\ Coalesced \in Column /\ bucket_used \in Nat
  BY DEF AccessInv, QuotaTypes, RowTypes, UsageTypes, Coalesced, Column
<1>2. Pending(x) \in SUBSET AssetIds /\ Held(x) \in SUBSET AssetIds
  BY DEF Pending, Held
<1>3. Physical(x) = SumOf(Coalesced, Held(x))
  BY DEF Physical, Coalesced, Held
<1>4. BucketBut(x) \in Nat /\ Physical(x) \in Nat
  BY <1>1, <1>2, <1>3, SumType DEF BucketBut
<1> QED
  BY <1>4, SumsType

\* They are after it.
LEMMA SumsNext == AccessInv' => SumsNatural'
BY SumsNow, PTL

\* Nothing a sum is made of has changed.
LEMMA SumsSame ==
  ASSUME AccessInv, AccessInv', UNCHANGED <<assetRows, usage>>
  PROVE  \A x \in AssetIds \cup {None} :
           /\ \A q \in Partitions : ChargedBut(x, q)' = ChargedBut(x, q) /\ SlotsBut(x, q)' = SlotsBut(x, q)
           /\ BucketBut(x)' = BucketBut(x) /\ Physical(x)' = Physical(x)
BY DEF assetRows, usage, ChargedBut, SlotsBut, BucketBut, Physical, PendingIn, Pending, SumOf, Units

\* A step that writes the row of a, where it charges nothing, and no limit.
LEMMA QuietRow ==
  ASSUME AccessInv, AccessInv', NEW a \in AssetIds, Only(a), UNCHANGED limits,
         \A q \in Partitions : used'[q] <= used[q] /\ used_count'[q] <= used_count[q],
         bucket_used' <= bucket_used,
         state'[a] = "pending" => reserved'[a] = None,
         \/ a \in Held(None) /\ Coalesced'[a] = Coalesced[a]
         \/ Coalesced'[a] = None
  PROVE  Quiet
<1>1. a \notin Pending(None)' /\ \A q \in Partitions : a \notin PendingIn(None, q)'
  BY DEF Pending, PendingIn
<1>2. ASSUME NEW x \in AssetIds \cup {None}
      PROVE  /\ \A q \in Partitions : /\ ChargedBut(x, q)' <= ChargedBut(x, q)
                                      /\ SlotsBut(x, q)' <= SlotsBut(x, q)
             /\ BucketBut(x)' <= BucketBut(x) /\ Physical(x)' <= Physical(x)
  BY <1>1, ShrinkIn, ShrinkBucket, ShrinkHeld
<1> QED
  BY <1>2 DEF Quiet, limits

\* Every step that is not an admission's write is quiet.
LEMMA QuietSteps ==
  ASSUME AccessInv, AccessInv', [QuotaNext]_quotaVars, \A t \in Txns : ~Charges(t)
  PROVE  Quiet
<1>0. RowTypes /\ UsageTypes /\ UsageTypes' /\ LimitTypes /\ TxnTypes /\ RowTypes'
  BY DEF AccessInv, QuotaTypes
<1>1. SumsNatural
  BY SumsNow
<1>2. ASSUME UNCHANGED <<assetRows, usage>>,
             /\ \A q \in Partitions : locked[q] # None => /\ quota'[q] = quota[q]
                                                          /\ quota_count'[q] = quota_count[q]
             /\ locked[Bucket] # None => bucket_quota' = bucket_quota
      PROVE  Quiet
  <2>1. ASSUME NEW x \in AssetIds \cup {None}
        PROVE  /\ \A q \in Partitions : /\ ChargedBut(x, q)' <= ChargedBut(x, q)
                                        /\ SlotsBut(x, q)' <= SlotsBut(x, q)
               /\ BucketBut(x)' <= BucketBut(x) /\ Physical(x)' <= Physical(x)
    <3>1. /\ \A q \in Partitions : /\ ChargedBut(x, q)' = ChargedBut(x, q)
                                   /\ SlotsBut(x, q)' = SlotsBut(x, q)
          /\ BucketBut(x)' = BucketBut(x) /\ Physical(x)' = Physical(x)
      BY <1>2, SumsSame
    <3> QED
      BY <1>1, <3>1 DEF SumsNatural
  <2> QED
    BY <1>2, <2>1 DEF Quiet
<1>3. ASSUME UNCHANGED tables
      PROVE  Quiet
  BY <1>2, <1>3 DEF tables, limits
<1>4. ASSUME NEW p \in Partitions, NEW l \in PartitionLimits, SetPartitionQuota(p, l)
      PROVE  Quiet
  <2>1. \A q \in Partitions : locked[q] # None => quota'[q] = quota[q] /\ quota_count'[q] = quota_count[q]
    BY <1>0, <1>4 DEF SetPartitionQuota, LimitTypes
  <2> QED
    BY <1>2, <1>4, <2>1 DEF SetPartitionQuota
<1>5. ASSUME NEW c \in Ceilings, SetBucketQuota(c)
      PROVE  Quiet
  BY <1>2, <1>5 DEF SetBucketQuota
<1>6. ASSUME NEW t \in Txns, WriteReserve(t)
      PROVE  Quiet
  <2>1. bytes[t] = None
    BY <1>6 DEF Charges
  <2>2. PICK a : a = asset[t]
    OBVIOUS
  <2>3. a \in AssetIds /\ state[a] = "absent" /\ RowShape(a)
    BY <1>6, <2>2 DEF AccessInv, TxnShape, Active, Steps, WriteReserve
  <2>4. Only(a) /\ reserved'[a] = None /\ size' = size /\ UNCHANGED <<limits, usage>>
    BY <1>0, <1>6, <2>1, <2>2, <2>3 DEF WriteReserve, Only, RowTypes, Column
  <2>5. Coalesced'[a] = None
    BY <2>3, <2>4 DEF RowShape, Coalesced
  <2>6. /\ \A q \in Partitions : used'[q] <= used[q] /\ used_count'[q] <= used_count[q]
        /\ bucket_used' <= bucket_used
    BY <1>0, <2>4 DEF usage, UsageTypes
  <2> QED
    BY <2>3, <2>4, <2>5, <2>6, QuietRow
<1>7. ASSUME NEW t \in Txns, WriteRelease(t)
      PROVE  Quiet
  <2>1. PICK a : a = asset[t]
    OBVIOUS
  <2>2. /\ a \in AssetIds /\ home[t] \in Partitions /\ bytes[t] \in Nat /\ state[a] = "available"
        /\ RowShape(a)
    BY <1>0, <1>7, <2>1 DEF AccessInv, TxnShape, Active, Steps, WriteRelease, TxnTypes
  <2>3. /\ Only(a) /\ state'[a] = "expired" /\ UNCHANGED <<size, reserved, limits>>
    BY <1>0, <1>7, <2>1, <2>2 DEF WriteRelease, Only, RowTypes
  <2>4. a \in Held(None) /\ Coalesced'[a] = Coalesced[a]
    BY <2>2, <2>3, Apart DEF Held, Coalesced, RowShape
  <2>5. \A x \in Nat, y \in Nat : Monus(x, y) <= x
    BY DEF Monus
  <2>6. /\ \A q \in Partitions : used'[q] <= used[q] /\ used_count'[q] <= used_count[q]
        /\ bucket_used' <= bucket_used
    BY <1>0, <1>7, <2>2, <2>5 DEF WriteRelease, UsageTypes
  <2> QED
    BY <2>2, <2>3, <2>4, <2>6, QuietRow
<1>8. ASSUME NEW a \in AssetIds, Retire(a)
      PROVE  Quiet
  <2>1. /\ Only(a) /\ state'[a] = "deleted" /\ UNCHANGED <<size, reserved, limits, usage>> /\ RowShape(a)
        /\ state[a] \in {"pending", "expired"}
    BY <1>0, <1>8 DEF Retire, Only, RowTypes, AccessInv
  <2>2. a \in Held(None) /\ Coalesced'[a] = Coalesced[a]
    BY <2>1, Apart DEF Held, Coalesced, RowShape
  <2>3. /\ \A q \in Partitions : used'[q] <= used[q] /\ used_count'[q] <= used_count[q]
        /\ bucket_used' <= bucket_used
    BY <1>0, <2>1 DEF usage, UsageTypes
  <2> QED
    BY <2>1, <2>2, <2>3, QuietRow
<1>9. ASSUME NEW a \in AssetIds, Purge(a)
      PROVE  Quiet
  <2>1. Only(a) /\ UNCHANGED <<state, partition, reserved, size, limits, usage>> /\ a \in purged'
    BY <1>9 DEF Purge, Only
  <2>2. a \notin Held(None)' /\ state'[a] # "pending"
    BY <1>9, <2>1 DEF Held, Purge
  <2>3. /\ \A q \in Partitions : used'[q] <= used[q] /\ used_count'[q] <= used_count[q]
        /\ bucket_used' <= bucket_used
    BY <1>0, <2>1 DEF usage, UsageTypes
  <2>4. a \notin Pending(None)' /\ \A q \in Partitions : a \notin PendingIn(None, q)'
    BY <2>2 DEF Pending, PendingIn
  <2>5. ASSUME NEW x \in AssetIds \cup {None}
        PROVE  /\ \A q \in Partitions : /\ ChargedBut(x, q)' <= ChargedBut(x, q)
                                        /\ SlotsBut(x, q)' <= SlotsBut(x, q)
               /\ BucketBut(x)' <= BucketBut(x) /\ Physical(x)' <= Physical(x)
    BY <2>1, <2>2, <2>3, <2>4, ShrinkIn, ShrinkBucket, ShrinkHeld
  <2> QED
    BY <2>1, <2>5 DEF Quiet, limits
<1>10. ASSUME \E t \in Txns, a \in AssetIds :
                \/ \E p \in Partitions, k \in Names, n \in Sizes \cup {None} : Reserve(t, a, p, k, n)
                \/ (\E n \in Sizes : Commit(t, a, n)) \/ Release(t, a) \/ Restore(t, a)
       PROVE  Quiet
  BY <1>3, <1>10 DEF Reserve, Commit, Release, Restore
<1>14. ASSUME NEW t \in Txns, NEW a \in AssetIds, NEW k \in Names, Detach(t, k, a)
       PROVE  Quiet
  BY <1>3, <1>14 DEF Detach
<1>15. ASSUME NEW t \in Txns, MarkUnused(t)
       PROVE  Quiet
  <2>0. PICK a \in AssetIds : a = asset[t]
    BY <1>15 DEF MarkUnused, AccessInv, TxnShape
  <2>1. CASE UNCHANGED tables
    BY <1>3, <2>1
  <2>2. CASE UNCHANGED <<assetRows, usage, limits>>
    BY <1>2, <2>2 DEF limits
  <2>3. CASE /\ state[a] = "pending" /\ state' = [state EXCEPT ![a] = "expired"]
             /\ UNCHANGED <<partition, reserved, size, purged, usage, limits>>
    <3>1. Only(a) /\ state'[a] = "expired" /\ RowShape(a)
      BY <1>0, <2>3 DEF Only, RowTypes, AccessInv
    <3>2. a \in Held(None) /\ Coalesced'[a] = Coalesced[a]
      BY <2>3, <3>1, Apart DEF Held, Coalesced, RowShape
    <3>3. /\ \A q \in Partitions : used'[q] <= used[q] /\ used_count'[q] <= used_count[q]
          /\ bucket_used' <= bucket_used
      BY <1>0, <2>3 DEF usage, UsageTypes
    <3> QED
      BY <2>3, <3>1, <3>2, <3>3, QuietRow
  <2> QED
    BY <1>15, <2>0, <2>1, <2>2, <2>3 DEF MarkUnused, assetRows
<1>11. ASSUME NEW t \in Txns, \/ LockPartition(t) \/ LockBucket(t) \/ CheckPartition(t)
                              \/ CheckCapacity(t) \/ InsertName(t) \/ Rollback(t)
       PROVE  Quiet
  BY <1>3, <1>11 DEF LockPartition, LockBucket, CheckPartition, CheckCapacity, InsertName, Rollback
<1>12. CASE UNCHANGED quotaVars
  BY <1>3, <1>12 DEF quotaVars
<1>13. \A t \in Txns : ~WriteCommit(t) /\ ~WriteRestore(t)
  BY DEF Charges
<1> QED
  BY <1>4, <1>5, <1>6, <1>7, <1>8, <1>9, <1>10, <1>11, <1>12, <1>13, <1>14,
     <1>15 DEF QuotaNext

\* The arguments of the transaction u are kept.
Same(u) == /\ op'[u] = op[u] /\ asset'[u] = asset[u] /\ bytes'[u] = bytes[u]
           /\ alias'[u] = alias[u] /\ home'[u] = home[u]

\* What a step does to the transaction u: it is not u's, or u is not past its checks
\* after it, or has none to pass, or it was a check or the name of u.
LEMMA OwnSteps ==
  ASSUME AccessInv, [QuotaNext]_quotaVars, NEW u \in Txns
  PROVE  \/ pc'[u] = pc[u] /\ Same(u)
         \/ pc'[u] \notin {"capacity", "insert", "write"}
         \/ Raw(u)' \/ Releasing(u)'
         \/ (CheckPartition(u) \/ CheckCapacity(u) \/ InsertName(u)) /\ Same(u)
<1>0. TxnTypes
  BY DEF AccessInv, QuotaTypes
<1> USE <1>0
<1>1. ASSUME NEW t \in Txns, End(t)
      PROVE  \/ pc'[u] = pc[u] /\ Same(u)
             \/ pc'[u] \notin {"capacity", "insert", "write"}
  BY <1>1 DEF End, Same, TxnTypes
<1>2. ASSUME NEW t \in Txns, NEW from, NEW to, Goto(t, from, to), UNCHANGED local
      PROVE  Same(u) /\ (t # u => pc'[u] = pc[u]) /\ (t = u => pc'[u] = to)
  BY <1>2 DEF Goto, Same, TxnTypes, local
<1>4. ASSUME NEW t \in Txns, NEW a \in AssetIds, NEW p \in Partitions, NEW k \in Names,
             NEW n \in Sizes \cup {None}, Reserve(t, a, p, k, n)
      PROVE  \/ pc'[u] = pc[u] /\ Same(u)
             \/ pc'[u] \notin {"capacity", "insert", "write"} \/ Raw(u)'
  <2>1. CASE End(t)
    BY <1>1, <2>1
  <2>2. CASE Begin(t, "reserve", a, n, k, p, IF n = None THEN "insert" ELSE "partition")
    BY <2>2 DEF Begin, Same, TxnTypes, Raw
  <2> QED
    BY <1>4, <2>1, <2>2 DEF Reserve
<1>5. ASSUME NEW t \in Txns, NEW a \in AssetIds,
             (\E n \in Sizes : Commit(t, a, n)) \/ Release(t, a) \/ Restore(t, a)
      PROVE  \/ pc'[u] = pc[u] /\ Same(u)
             \/ pc'[u] \notin {"capacity", "insert", "write"}
  <2>1. \E o, n : Begin(t, o, a, n, None, partition[a], "partition")
    BY <1>5 DEF Commit, Release, Restore, LockAsset
  <2> QED
    BY <2>1 DEF Begin, Same, TxnTypes
<1>6. ASSUME NEW t \in Txns, LockPartition(t)
      PROVE  \/ pc'[u] = pc[u] /\ Same(u)
             \/ pc'[u] \notin {"capacity", "insert", "write"}
  BY <1>2, <1>6 DEF LockPartition
<1>7. ASSUME NEW t \in Txns, LockBucket(t)
      PROVE  \/ pc'[u] = pc[u] /\ Same(u)
             \/ pc'[u] \notin {"capacity", "insert", "write"} \/ Releasing(u)'
  <2>1. Goto(t, "bucket", IF Releasing(t) THEN "write" ELSE "sums") /\ UNCHANGED local
    BY <1>7 DEF LockBucket
  <2> QED
    BY <1>2, <2>1 DEF Same, Releasing
<1>8. ASSUME NEW t \in Txns, CheckPartition(t)
      PROVE  \/ pc'[u] = pc[u] /\ Same(u)
             \/ pc'[u] \notin {"capacity", "insert", "write"}
             \/ CheckPartition(u) /\ Same(u)
  <2>1. \/ Goto(t, "sums", "capacity") /\ UNCHANGED local
        \/ End(t)
    BY <1>8 DEF CheckPartition
  <2> QED
    BY <1>1, <1>2, <1>8, <2>1
<1>9. ASSUME NEW t \in Txns, CheckCapacity(t)
      PROVE  \/ pc'[u] = pc[u] /\ Same(u)
             \/ pc'[u] \notin {"capacity", "insert", "write"}
             \/ CheckCapacity(u) /\ Same(u)
  <2>1. \/ Goto(t, "capacity", IF op[t] = "reserve" THEN "insert" ELSE "write") /\ UNCHANGED local
        \/ End(t)
    BY <1>9 DEF CheckCapacity
  <2> QED
    BY <1>1, <1>2, <1>9, <2>1
<1>10. ASSUME NEW t \in Txns, InsertName(t)
       PROVE  \/ pc'[u] = pc[u] /\ Same(u)
              \/ pc'[u] \notin {"capacity", "insert", "write"}
              \/ InsertName(u) /\ Same(u)
  <2>1. \/ Goto(t, "insert", "write") /\ UNCHANGED local
        \/ End(t)
    BY <1>10 DEF InsertName
  <2> QED
    BY <1>1, <1>2, <1>10, <2>1
<1>11. ASSUME NEW t \in Txns, \/ WriteReserve(t) \/ WriteCommit(t) \/ WriteRelease(t)
                              \/ WriteRestore(t) \/ Rollback(t)
       PROVE  \/ pc'[u] = pc[u] /\ Same(u)
              \/ pc'[u] \notin {"capacity", "insert", "write"}
  <2>1. End(t)
    BY <1>11 DEF WriteReserve, WriteCommit, WriteRelease, WriteRestore, Rollback
  <2> QED
    BY <1>1, <2>1
<1>15. ASSUME NEW t \in Txns, \/ MarkUnused(t)
                              \/ \E a \in AssetIds, k \in Names : Detach(t, k, a)
       PROVE  \/ pc'[u] = pc[u] /\ Same(u)
              \/ pc'[u] \notin {"capacity", "insert", "write"}
  <2>1. CASE End(t)
    BY <1>1, <2>1
  <2>2. CASE \E o, a, n, k, p, next : /\ Begin(t, o, a, n, k, p, next)
                                      /\ next \in {"partition", "update"}
    BY <2>2 DEF Begin, Same, TxnTypes
  <2> QED
    BY <1>15, <2>1, <2>2 DEF MarkUnused, Detach, LockAsset
<1>12. ASSUME UNCHANGED <<pc, local>>
       PROVE  pc'[u] = pc[u] /\ Same(u)
  BY <1>12 DEF Same, local
<1>13. ASSUME \/ \E p \in Partitions, l \in PartitionLimits : SetPartitionQuota(p, l)
              \/ \E c \in Ceilings : SetBucketQuota(c)
              \/ \E a \in AssetIds : Purge(a) \/ Retire(a)
       PROVE  pc'[u] = pc[u] /\ Same(u)
  BY <1>12, <1>13 DEF SetPartitionQuota, SetBucketQuota, Purge, Retire
<1>14. CASE UNCHANGED quotaVars
  BY <1>12, <1>14 DEF quotaVars
<1> QED
  BY <1>4, <1>5, <1>6, <1>7, <1>8, <1>9, <1>10, <1>11, <1>13, <1>14, <1>15 DEF QuotaNext

\* A smaller sum is below the same limit.
LEMMA BelowLess ==
  ASSUME NEW x \in Int, NEW y \in Int, x <= y, NEW c \in Nat \cup {None}, Below(y, c)
  PROVE  Below(x, c)
BY Apart DEF Below

\* A check that passed holds until the write: only an admission's write makes a sum
\* grow, and while t holds the bucket's row there is no other.
LEMMA AdmittedStep ==
  ASSUME QuotaInv, AccessInv', [QuotaNext]_quotaVars, NEW u \in Txns
  PROVE  Admitted(u)'
<1>0. AccessInv /\ Admitted(u) /\ TxnTypes /\ LimitTypes /\ TxnLocks(u) /\ TxnLocks(u)'
  BY DEF QuotaInv, AccessInv, QuotaTypes
<1> SUFFICES ASSUME Active(u)', ~Raw(u)', ~Releasing(u)', pc'[u] \in {"capacity", "insert", "write"}
             PROVE  Admitted(u)'
  BY DEF Admitted
<1>1. locked'[Bucket] = u /\ u # None
  BY <1>0, Apart DEF TxnLocks
<1>2. CASE \E t \in Txns : Charges(t)
  <2>1. PICK t \in Txns : Charges(t)
    BY <1>2
  <2>2. /\ pc[t] = "write" /\ Active(t) /\ ~Raw(t)
    BY <1>0, <2>1, ChargeSums
  <2>3. TxnLocks(t) /\ End(t)
    BY <2>1 DEF QuotaInv, AccessInv, Charges, WriteReserve, WriteCommit, WriteRestore
  <2>4. locked[Bucket] = t
    BY <2>2, <2>3 DEF TxnLocks
  <2>5. locked'[Bucket] = None
    BY <1>0, <2>3, <2>4 DEF End, TxnTypes, AllRows
  <2> QED
    BY <1>1, <2>5
<1>3. CASE \A t \in Txns : ~Charges(t)
  <2>1. Quiet
    BY <1>0, <1>3, QuietSteps
  <2>2. PICK a, p, n : a = asset[u] /\ p = home[u] /\ n = bytes[u]
    OBVIOUS
  <2>3. CASE pc'[u] = pc[u] /\ Same(u)
    <3>1. /\ Active(u) /\ ~Raw(u) /\ ~Releasing(u) /\ pc[u] \in {"capacity", "insert", "write"}
          /\ a \in AssetIds /\ p \in Partitions /\ n \in Nat
      BY <1>0, <2>2, <2>3 DEF Active, Raw, Same, AccessInv, TxnShape, TxnTypes, Releasing
    <3>2. /\ Below(ChargedBut(a, p) + n, quota[p])
          /\ quota_count[p] = None \/ SlotsBut(a, p) + 1 <= quota_count[p]
          /\ pc[u] \in {"insert", "write"} =>
               Below(Physical(a) + n, Capacity) /\ Below(BucketBut(a) + n, bucket_quota)
      BY <1>0, <2>2, <3>1 DEF Admitted
    <3>3. locked[p] = u /\ locked[Bucket] = u
      BY <1>0, <2>2, <3>1 DEF TxnLocks
    <3>4. quota'[p] = quota[p] /\ quota_count'[p] = quota_count[p] /\ bucket_quota' = bucket_quota
      BY <1>1, <2>1, <3>1, <3>3 DEF Quiet
    <3>5. /\ ChargedBut(a, p)' <= ChargedBut(a, p) /\ SlotsBut(a, p)' <= SlotsBut(a, p)
          /\ BucketBut(a)' <= BucketBut(a) /\ Physical(a)' <= Physical(a)
      BY <2>1, <3>1 DEF Quiet
    <3>6. /\ ChargedBut(a, p) \in Nat /\ SlotsBut(a, p) \in Nat /\ BucketBut(a) \in Nat
          /\ Physical(a) \in Nat
          /\ ChargedBut(a, p)' \in Nat /\ SlotsBut(a, p)' \in Nat /\ BucketBut(a)' \in Nat
          /\ Physical(a)' \in Nat
      BY <1>0, <3>1, SumsNow, SumsNext DEF SumsNatural
    <3>7. /\ quota[p] \in Nat \cup {None} /\ quota_count[p] \in Nat \cup {None}
          /\ bucket_quota \in Nat \cup {None} /\ Capacity \in Nat \cup {None}
      BY <1>0, <3>1, Apart DEF LimitTypes
    <3>8. /\ Below(ChargedBut(a, p)' + n, quota'[p])
          /\ quota_count'[p] = None \/ SlotsBut(a, p)' + 1 <= quota_count'[p]
      <4>1. ChargedBut(a, p)' + n <= ChargedBut(a, p) + n /\ ChargedBut(a, p)' + n \in Int
            /\ ChargedBut(a, p) + n \in Int
        BY <3>1, <3>5, <3>6
      <4>2. Below(ChargedBut(a, p)' + n, quota[p])
        BY <3>2, <3>7, <4>1, BelowLess
      <4> QED
        BY <3>2, <3>4, <3>5, <3>6, <3>7, <4>2, Apart
    <3>9. pc[u] \in {"insert", "write"} =>
            Below(Physical(a)' + n, Capacity) /\ Below(BucketBut(a)' + n, bucket_quota')
      <4>1. /\ Physical(a)' + n <= Physical(a) + n /\ Physical(a)' + n \in Int /\ Physical(a) + n \in Int
            /\ BucketBut(a)' + n <= BucketBut(a) + n /\ BucketBut(a)' + n \in Int
            /\ BucketBut(a) + n \in Int
        BY <3>1, <3>5, <3>6
      <4> QED
        BY <3>2, <3>4, <3>7, <4>1, BelowLess
    <3>10. asset'[u] = a /\ home'[u] = p /\ bytes'[u] = n
      BY <2>2, <2>3 DEF Same
    <3> QED
      BY <2>3, <3>8, <3>9, <3>10 DEF Admitted, ChargedBut, SlotsBut, BucketBut, Physical,
        PendingIn, Pending
  <2>4. ASSUME UNCHANGED tables, Same(u)
        PROVE  /\ asset'[u] = a /\ home'[u] = p /\ bytes'[u] = n
               /\ ChargedBut(asset[u], home[u])' = ChargedBut(a, p)
               /\ SlotsBut(asset[u], home[u])' = SlotsBut(a, p)
               /\ BucketBut(asset[u])' = BucketBut(a) /\ Physical(asset[u])' = Physical(a)
               /\ quota'[p] = quota[p] /\ quota_count'[p] = quota_count[p]
               /\ bucket_quota' = bucket_quota
    BY <2>2, <2>4 DEF Same, tables, assetRows, usage, limits, ChargedBut, SlotsBut, BucketBut,
      Physical,
       PendingIn, Pending, SumOf, Units
  <2>5. CASE CheckPartition(u) /\ Same(u)
    <3>1. pc[u] = "sums" /\ UNCHANGED tables
      BY <2>5 DEF CheckPartition
    <3>2. /\ Below(ChargedBut(a, p) + n, quota[p]) /\ pc'[u] = "capacity"
          /\ quota_count[p] = None \/ SlotsBut(a, p) + 1 <= quota_count[p]
      <4>1. CASE End(u)
        BY <1>0, <4>1 DEF End, TxnTypes
      <4> QED
        BY <1>0, <2>2, <2>5, <4>1 DEF CheckPartition, ChargedBut, SlotsBut, Goto, TxnTypes
    <3> QED
      BY <2>4, <2>5, <3>1, <3>2 DEF Admitted
  <2>6. CASE CheckCapacity(u) /\ Same(u)
    <3>1. pc[u] = "capacity" /\ UNCHANGED tables
      BY <2>6 DEF CheckCapacity
    <3>2. /\ Below(Physical(a) + n, Capacity) /\ Below(BucketBut(a) + n, bucket_quota)
      <4>1. CASE End(u)
        BY <1>0, <4>1 DEF End, TxnTypes
      <4> QED
        BY <2>2, <2>6, <4>1 DEF CheckCapacity, BucketBut
    <3>3. Active(u) /\ ~Raw(u) /\ ~Releasing(u)
      BY <2>6, <3>1 DEF Active, Steps, Raw, Same, Releasing
    <3>4. /\ Below(ChargedBut(a, p) + n, quota[p])
          /\ quota_count[p] = None \/ SlotsBut(a, p) + 1 <= quota_count[p]
      BY <1>0, <2>2, <3>1, <3>3 DEF Admitted
    <3> QED
      BY <2>4, <2>6, <3>1, <3>2, <3>4 DEF Admitted
  <2>7. CASE InsertName(u) /\ Same(u)
    <3>1. pc[u] = "insert" /\ UNCHANGED tables
      BY <2>7 DEF InsertName
    <3>2. Active(u) /\ ~Raw(u) /\ ~Releasing(u)
      BY <2>7, <3>1 DEF Active, Steps, Raw, Same, Releasing
    <3>3. /\ Below(ChargedBut(a, p) + n, quota[p])
          /\ quota_count[p] = None \/ SlotsBut(a, p) + 1 <= quota_count[p]
          /\ Below(Physical(a) + n, Capacity) /\ Below(BucketBut(a) + n, bucket_quota)
      BY <1>0, <2>2, <3>1, <3>2 DEF Admitted
    <3> QED
      BY <2>4, <2>7, <3>1, <3>3 DEF Admitted
  <2> QED
    BY <1>0, <2>3, <2>5, <2>6, <2>7, OwnSteps
<1> QED
  BY <1>2, <1>3

\* A step that adds to a sum leaves it below the limit then in force, however many
\* admissions, releases and changes of limits run together.
THEOREM CeilingsKept == QuotaSpec => CeilingsHeld
<1> DEFINE Grown ==
      /\ \A p \in Partitions :
            /\ Charged(p)' > Charged(p) => Below(Charged(p)', quota'[p])
            /\ Slots(p)' > Slots(p) => quota_count'[p] = None \/ Slots(p)' <= quota_count'[p]
      /\ BucketCharged' > BucketCharged => Below(BucketCharged', bucket_quota')
      /\ Physical(None)' > Physical(None) => Below(Physical(None)', Capacity)
<1>1. QuotaInit => QuotaInv
  BY AccessStart DEF QuotaInit, QuotaInv, Admitted, Active, Steps
<1>2. QuotaInv /\ [QuotaNext]_quotaVars => QuotaInv'
  BY AccessStep, AdmittedStep DEF QuotaInv
<1>3. ASSUME QuotaInv, QuotaInv', [QuotaNext]_quotaVars
      PROVE  Grown
  <2>0. AccessInv /\ AccessInv'
    BY <1>3 DEF QuotaInv
  <2>1. /\ \A p \in Partitions : /\ Charged(p) = ChargedBut(None, p) /\ Slots(p) = SlotsBut(None, p)
                                 /\ Charged(p)' = ChargedBut(None, p)' /\ Slots(p)' = SlotsBut(None, p)'
        /\ BucketCharged = BucketBut(None) /\ BucketCharged' = BucketBut(None)'
    BY DEF Charged, Slots, BucketCharged, ChargedBut, SlotsBut, BucketBut
  <2>2. /\ \A p \in Partitions :
             /\ ChargedBut(None, p) \in Nat /\ ChargedBut(None, p)' \in Nat
             /\ SlotsBut(None, p) \in Nat /\ SlotsBut(None, p)' \in Nat
        /\ BucketBut(None) \in Nat /\ BucketBut(None)' \in Nat
        /\ Physical(None) \in Nat /\ Physical(None)' \in Nat
    BY <2>0, SumsNow, SumsNext DEF SumsNatural
  <2>3. CASE \A t \in Txns : ~Charges(t)
    <3>1. Quiet
      BY <1>3, <2>0, <2>3, QuietSteps
    <3> QED
      BY <2>1, <2>2, <3>1 DEF Quiet
  <2>4. CASE \E t \in Txns : Charges(t)
    <3>1. PICK t \in Txns : Charges(t)
      BY <2>4
    <3>2. PICK a, p, n : a = asset[t] /\ p = home[t] /\ n = bytes[t]
      OBVIOUS
    <3>3. /\ p \in Partitions /\ UNCHANGED limits
          /\ pc[t] = "write" /\ Active(t) /\ ~Raw(t) /\ ~Releasing(t)
          /\ ChargedBut(None, p)' = ChargedBut(a, p) + n /\ SlotsBut(None, p)' = SlotsBut(a, p) + 1
          /\ BucketBut(None)' = BucketBut(a) + n /\ Physical(None)' = Physical(a) + n
          /\ \A q \in Partitions \ {p} : /\ ChargedBut(None, q)' <= ChargedBut(None, q)
                                         /\ SlotsBut(None, q)' <= SlotsBut(None, q)
      BY <2>0, <3>1, <3>2, ChargeSums
    <3>4. /\ Below(ChargedBut(a, p) + n, quota[p])
          /\ quota_count[p] = None \/ SlotsBut(a, p) + 1 <= quota_count[p]
          /\ Below(Physical(a) + n, Capacity) /\ Below(BucketBut(a) + n, bucket_quota)
      BY <1>3, <3>2, <3>3 DEF QuotaInv, Admitted
    <3>5. quota' = quota /\ quota_count' = quota_count /\ bucket_quota' = bucket_quota
      BY <3>3 DEF limits
    <3> QED
      BY <2>1, <2>2, <3>3, <3>4, <3>5
  <2> QED
    BY <2>3, <2>4
<1>4. QuotaInv /\ QuotaInv' /\ [QuotaNext]_quotaVars => [Grown]_quotaVars
  BY <1>3
<1> QED
  BY <1>1, <1>2, <1>4, PTL DEF QuotaSpec, CeilingsHeld
=============================================================================
