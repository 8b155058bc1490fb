--------------------------- MODULE EvictionProofs ---------------------------
(***************************************************************************)
(* Theorems about Eviction for any number of assets, partitions and        *)
(* buckets, any sizes, quotas and capacities.                              *)
(***************************************************************************)
EXTENDS Eviction, FiniteSetTheorems, SequenceTheorems, WellFoundedInduction, TLAPS

-----------------------------------------------------------------------------
(* Sums of sizes *)

\* A set of assets has finitely many bytes.
LEMMA BytesType ==
  ASSUME NEW S \in SUBSET AssetIds
  PROVE  IsFiniteSet(Units(S)) /\ Bytes(S) \in Nat
<1>0. 1 \in Int /\ MaxBytes \in Int
  BY EvictionAssumption
<1>1. IsFiniteSet(S) /\ IsFiniteSet(1..MaxBytes)
  BY <1>0, FS_Subset, FS_Interval, EvictionAssumption
<1>2. IsFiniteSet(S \X (1..MaxBytes))
  BY <1>1, FS_Product
<1>3. Units(S) \in SUBSET (S \X (1..MaxBytes))
  BY DEF Units
<1>4. IsFiniteSet(Units(S))
  BY <1>2, <1>3, FS_Subset
<1> QED
  BY <1>4, FS_CardinalityType DEF Bytes

\* Fewer assets have no more bytes.
LEMMA BytesWithin ==
  ASSUME NEW S \in SUBSET AssetIds, NEW T \in SUBSET S
  PROVE  Bytes(T) <= Bytes(S) /\ Bytes(T) \in Nat /\ Bytes(S) \in Nat
<1>1. Units(T) \in SUBSET Units(S) /\ IsFiniteSet(Units(S))
  BY BytesType DEF Units
<1>2. Cardinality(Units(T)) <= Cardinality(Units(S))
  BY <1>1, FS_Subset
<1> QED
  BY <1>2, BytesType DEF Bytes

\* What leaves takes its bytes along.
LEMMA BytesLeft ==
  ASSUME NEW R \in SUBSET AssetIds, NEW D \in SUBSET R
  PROVE  Bytes(R \ D) = Bytes(R) - Bytes(D)
<1>1. /\ Units(R) = Units(R \ D) \cup Units(D) /\ Units(R \ D) \cap Units(D) = {}
      /\ IsFiniteSet(Units(R \ D)) /\ IsFiniteSet(Units(D))
  BY BytesType DEF Units
<1>2. Cardinality(Units(R))
        = Cardinality(Units(R \ D)) + Cardinality(Units(D)) - Cardinality(Units(R \ D) \cap Units(D))
  BY <1>1, FS_Union
<1>3. Cardinality(Units(R \ D) \cap Units(D)) = 0
  BY <1>1, FS_EmptySet
<1>4. Bytes(R) \in Nat /\ Bytes(D) \in Nat /\ Bytes(R \ D) \in Nat
  BY BytesType
<1> QED
  BY <1>2, <1>3, <1>4 DEF Bytes

-----------------------------------------------------------------------------
(* The selection *)

States == {"absent", "pending", "available", "expired", "void", "deleted", "purged"}
Acts == [asset : AssetIds, reason : {"age", "quota_lfu", "pressure_lfu"}]

Types ==
  /\ state \in [AssetIds -> States] /\ policy \in [AssetIds -> {"inherit", "exempt"}]
  /\ last_read \in [AssetIds -> Nat] /\ now \in Nat
  /\ due \subseteq AssetIds /\ stale \subseteq AssetIds
  /\ quota \in [Partitions -> Nat \cup {None}] /\ sweeping \subseteq Partitions
  /\ plan \in Seq(Acts) /\ calm \in BOOLEAN

\* The order of eviction is a strict order.
LEMMA BeforeOrder ==
  ASSUME Types, NEW a \in AssetIds, NEW b \in AssetIds, NEW c \in AssetIds
  PROVE  ~Before(a, a) /\ (Before(a, b) /\ Before(b, c) => Before(a, c))
<1>1. Score(a) \in Int /\ Score(b) \in Int /\ Score(c) \in Int
  <2>1. \A d \in AssetIds : now - last_read[d] \in Int /\ SizeOf[d] \in Int
    BY EvictionAssumption DEF Types
  <2>2. \A x \in Int, y \in Int : x * y \in Int
    OBVIOUS
  <2> QED
    BY <2>1, <2>2 DEF Score
<1>2. a \in Nat /\ b \in Nat /\ c \in Nat
  BY EvictionAssumption
<1> QED
  BY <1>1, <1>2 DEF Before

\* Every set of assets has one that comes first.
LEMMA FirstOf ==
  ASSUME Types, NEW N \in SUBSET AssetIds, N # {}
  PROVE  \E a \in N : \A b \in N : ~Before(b, a)
<1> DEFINE Preds(a) == {b \in AssetIds : Before(b, a)}
           T == {Preds(a) : a \in N}
           R == StrictSubsetOrdering(AssetIds)
<1>1. IsWellFoundedOn(R, SUBSET AssetIds)
  BY FS_StrictSubsetOrderingWellFounded, FS_FiniteSubsetsOfFinite, EvictionAssumption
<1>2. T \subseteq SUBSET AssetIds /\ T # {}
  OBVIOUS
<1>3. PICK x \in T : \A y \in T : ~(<<y, x>> \in R)
  <2> HIDE DEF T, R
  <2> QED
    BY <1>1, <1>2, WFMin
<1>4. PICK a \in N : x = Preds(a)
  OBVIOUS
<1>5. ASSUME NEW b \in N, Before(b, a)
      PROVE  FALSE
  <2>1. Preds(b) \subseteq Preds(a)
    BY <1>5, BeforeOrder
  <2>2. b \in Preds(a) /\ b \notin Preds(b)
    BY <1>5, BeforeOrder
  <2>3. <<Preds(b), Preds(a)>> \in R
    BY <2>1, <2>2 DEF StrictSubsetOrdering
  <2> QED
    BY <1>3, <1>4, <2>3
<1> QED
  BY <1>5

\* evict goes on until the target is met or nothing is left to evict.
LEMMA EvictedEnough ==
  ASSUME Types, NEW R \in SUBSET AssetIds, NEW t \in Int
  PROVE  \/ 100 * Bytes(R \ Evicted(R, t)) <= t
         \/ Eligible(R \ Evicted(R, t)) = {}
<1> DEFINE N == Eligible(R) \ Evicted(R, t)
<1>1. CASE N = {}
  BY <1>1 DEF Eligible
<1>2. CASE N # {}
  <2>1. N \in SUBSET AssetIds
    BY DEF Eligible
  <2>2. PICK a \in N : \A b \in N : ~Before(b, a)
    BY <1>2, <2>1, FirstOf
  <2> DEFINE D == {b \in Eligible(R) : Before(b, a)}
  <2>3. ~(100 * (Bytes(R) - Bytes(D)) > t)
    BY <2>2 DEF Evicted
  <2>4. D \in SUBSET R /\ D \subseteq Evicted(R, t)
    BY <2>2 DEF Eligible
  <2>5. R \ D \in SUBSET AssetIds /\ R \ Evicted(R, t) \in SUBSET (R \ D)
    BY <2>4
  <2> HIDE DEF D
  <2>6. /\ Bytes(R \ Evicted(R, t)) <= Bytes(R \ D) /\ Bytes(R \ D) = Bytes(R) - Bytes(D)
        /\ Bytes(R \ Evicted(R, t)) \in Nat /\ Bytes(R \ D) \in Nat
    BY <2>4, <2>5, BytesWithin, BytesLeft
  <2> QED
    BY <2>3, <2>6
<1> QED
  BY <1>1, <1>2

\* Each asset is selected while what the earlier ones leave misses the target.
LEMMA EvictedNeeded ==
  ASSUME Types, NEW R \in SUBSET AssetIds, NEW t \in Int, NEW a \in Evicted(R, t),
         NEW K \in SUBSET R, \A b \in K : b \in Eligible(R) /\ Before(b, a)
  PROVE  ~(100 * Bytes(R \ K) <= t)
<1> DEFINE D == {b \in Eligible(R) : Before(b, a)}
<1>1. 100 * (Bytes(R) - Bytes(D)) > t
  BY DEF Evicted
<1>2. D \in SUBSET R /\ K \in SUBSET D
  BY DEF Eligible
<1>3. R \ K \in SUBSET AssetIds /\ R \ D \in SUBSET (R \ K)
  BY <1>2
<1> HIDE DEF D
<1>4. /\ Bytes(R \ D) <= Bytes(R \ K) /\ Bytes(R \ D) = Bytes(R) - Bytes(D)
      /\ Bytes(R \ K) \in Nat /\ Bytes(R \ D) \in Nat
  BY <1>2, <1>3, BytesWithin, BytesLeft
<1> QED
  BY <1>1, <1>4

-----------------------------------------------------------------------------
(* The inductive invariant *)

\* No asset is planned twice.  An action for space whose row has not changed finds
\* the asset it was made for.
Sound ==
  /\ \A i, j \in DOMAIN plan : plan[i].asset = plan[j].asset => i = j
  /\ \A i \in DOMAIN plan : plan[i].reason # "age" /\ plan[i].asset \notin stale =>
       LET a == plan[i].asset  s == SpaceOf[PartitionOf[a]] IN
       /\ state[a] = "available" /\ policy[a] = "inherit" /\ s \in Evictable
       /\ plan[i].reason = "pressure_lfu" => Capacity[s] # None

\* The assets the pass comes to before action i.
Prior(i) == {plan[j].asset : j \in 1..(i - 1)}

\* Action i will still be needed when the pass comes to it.
Needed(i) ==
  LET p == PartitionOf[plan[i].asset]  s == SpaceOf[p] IN
  /\ plan[i].reason = "quota_lfu" =>
       /\ p \in sweeping /\ quota[p] # None
       /\ ~QuotaMet(Bytes(Available(In(p)) \ Prior(i)), quota[p])
  /\ plan[i].reason = "pressure_lfu" =>
       ~PressureMet(Bytes(Available(Within(s)) \ Prior(i)), Capacity[s])

\* What the pass will leave: enough room, or nothing to evict and a report.
Rest(S) == (Available(S) \ due) \ Planned
QuotaRelief(p) ==
  OverQuota(p, Available(In(p)) \ due) =>
    \/ QuotaMet(Bytes(Rest(In(p))), quota[p])
    \/ Eligible(Rest(In(p))) = {} /\ SpaceOf[p] \in exhausted
\* A payload that an undisturbed pass may leave behind: every listed one, but for those
\* still to be purged by it.  An overdue upload that is given up after the pass counts
\* again until its grace period ends, so lateness alone is no relief.
Held(a) ==
  /\ state[a] \notin {"absent", "purged", "deleted"}
  /\ state[a] = "available" \/ a \notin due \/ a \notin Planned
Counted(s) == {a \in Within(s) : Held(a)}
PressedLater(s) ==
  s \in Evictable /\ Capacity[s] # None /\ OverTrigger(Bytes(Counted(s)), Capacity[s])

PressureRelief(s) ==
  PressedLater(s) =>
    \/ PressureMet(Bytes(Rest(Within(s))), Capacity[s])
    \/ Eligible(Rest(Within(s))) = {} /\ s \in exhausted

Relief == (\A p \in Partitions : QuotaRelief(p)) /\ \A s \in Spaces : PressureRelief(s)

CalmInv == calm => stale = {} /\ (\A i \in DOMAIN plan : Needed(i)) /\ Relief

\* Between the recheck of an action and its write the row is the worker's, and the
\* action needed but for what others have done since.
Window ==
  /\ gone \subseteq AssetIds
  /\ ~checked => gone = {}
  /\ checked => plan # <<>> /\ Head(plan).asset \notin stale
  /\ checked /\ Head(plan).reason # "age" =>
       NeededAtRecheck(Head(plan).asset) \/ PartitionOf[Head(plan).asset] \in relimited

PassInv == Types /\ Sound /\ CalmInv
EvictionInv == PassInv /\ Window

\* A bucket under pressure now is one that may be under pressure later.
LEMMA PressedNow ==
  ASSUME NEW s \in Spaces, Pressed(s)
  PROVE  PressedLater(s)
<1>1. /\ Listed(Within(s)) \ Purgeable \in SUBSET Counted(s) /\ Counted(s) \in SUBSET AssetIds
  BY DEF Listed, Within, Purgeable, Overdue, Held, Counted
<1>2. /\ Bytes(Listed(Within(s)) \ Purgeable) <= Bytes(Counted(s))
      /\ Bytes(Listed(Within(s)) \ Purgeable) \in Nat /\ Bytes(Counted(s)) \in Nat
  BY <1>1, BytesWithin
<1>3. Capacity[s] \in Nat
  BY EvictionAssumption DEF Pressed
<1> QED
  BY <1>2, <1>3 DEF Pressed, Projected, PressedLater, OverTrigger

\* A quota met or left alone is not exceeded.
LEMMA MetIsNotOver ==
  ASSUME Types, NEW p \in Partitions, NEW S \in SUBSET AssetIds, NEW T \in SUBSET S,
         OverQuota(p, T)
  PROVE  ~QuotaMet(Bytes(S), quota[p])
<1>1. Bytes(T) <= Bytes(S) /\ Bytes(T) \in Nat /\ Bytes(S) \in Nat
  BY BytesWithin
<1>2. quota[p] \in Nat
  BY DEF Types, OverQuota
<1> QED
  BY <1>1, <1>2 DEF OverQuota, OverTrigger, QuotaMet, QuotaTarget

\* Assets only leave, whether they are available, waited for or held: relief remains.
LEMMA ReliefKept ==
  ASSUME Types, Relief, UNCHANGED <<policy, quota, sweeping, exhausted>>,
         \A a \in AssetIds : state'[a] = "available" /\ a \notin due' =>
           state[a] = "available" /\ a \notin due /\ (a \notin Planned' => a \notin Planned),
         \A a \in AssetIds : Held(a)' => Held(a)
  PROVE  Relief'
<1>1. ASSUME NEW S \in SUBSET AssetIds
      PROVE  /\ (Available(S) \ due)' \subseteq Available(S) \ due
             /\ Rest(S)' \subseteq Rest(S) /\ Eligible(Rest(S))' \subseteq Eligible(Rest(S))
             /\ Available(S) \ due \in SUBSET AssetIds /\ Rest(S) \in SUBSET AssetIds
  BY DEF Available, Rest, Eligible
<1>2. ASSUME NEW S \in SUBSET AssetIds
      PROVE  /\ Bytes(Available(S) \ due)' <= Bytes(Available(S) \ due)
             /\ Bytes(Rest(S))' <= Bytes(Rest(S))
             /\ Bytes(Available(S) \ due)' \in Nat /\ Bytes(Available(S) \ due) \in Nat
             /\ Bytes(Rest(S))' \in Nat /\ Bytes(Rest(S)) \in Nat
  <2>1. /\ Bytes((Available(S) \ due)') <= Bytes(Available(S) \ due)
        /\ Bytes((Available(S) \ due)') \in Nat /\ Bytes(Available(S) \ due) \in Nat
    BY <1>1, BytesWithin
  <2>2. /\ Bytes(Rest(S)') <= Bytes(Rest(S))
        /\ Bytes(Rest(S)') \in Nat /\ Bytes(Rest(S)) \in Nat
    BY <1>1, BytesWithin
  <2>3. Bytes(Available(S) \ due)' = Bytes((Available(S) \ due)') /\ Bytes(Rest(S))' = Bytes(Rest(S)')
    BY DEF Bytes, Units
  <2> QED
    BY <2>1, <2>2, <2>3
<1>3. ASSUME NEW p \in Partitions
      PROVE  QuotaRelief(p)'
  <2>1. In(p) \in SUBSET AssetIds /\ In(p)' = In(p)
    BY DEF In
  <2>0. /\ Bytes(Available(In(p)) \ due)' <= Bytes(Available(In(p)) \ due)
        /\ Bytes(Rest(In(p)))' <= Bytes(Rest(In(p)))
        /\ Bytes(Available(In(p)) \ due)' \in Nat /\ Bytes(Available(In(p)) \ due) \in Nat
        /\ Bytes(Rest(In(p)))' \in Nat /\ Bytes(Rest(In(p))) \in Nat
    BY <1>2, <2>1 DEF In
  <2>2. QuotaRelief(p)
    BY DEF Relief
  <2>3. quota[p] # None => quota[p] \in Nat
    BY DEF Types
  <2>4. OverQuota(p, Available(In(p)) \ due)' => OverQuota(p, Available(In(p)) \ due)
    BY <2>0, <2>3 DEF OverQuota, OverTrigger
  <2>5. quota[p] # None /\ QuotaMet(Bytes(Rest(In(p))), quota[p]) => QuotaMet(Bytes(Rest(In(p))), quota[p])'
    BY <2>0, <2>3 DEF QuotaMet, QuotaTarget
  <2>6. Eligible(Rest(In(p))) = {} => Eligible(Rest(In(p)))' = {}
    BY <1>1, <2>1
  <2>7. OverQuota(p, Available(In(p)) \ due) => quota[p] # None
    BY DEF OverQuota
  <2> QED
    BY <2>2, <2>4, <2>5, <2>6, <2>7 DEF QuotaRelief
<1>4. ASSUME NEW s \in Spaces
      PROVE  PressureRelief(s)'
  <2>1. Within(s) \in SUBSET AssetIds /\ Within(s)' = Within(s)
    BY DEF Within
  <2>0. /\ Bytes(Available(Within(s)) \ due)' <= Bytes(Available(Within(s)) \ due)
        /\ Bytes(Rest(Within(s)))' <= Bytes(Rest(Within(s)))
        /\ Bytes(Available(Within(s)) \ due)' \in Nat /\ Bytes(Available(Within(s)) \ due) \in Nat
        /\ Bytes(Rest(Within(s)))' \in Nat /\ Bytes(Rest(Within(s))) \in Nat
    BY <1>2, <2>1 DEF Within
  <2>2. PressureRelief(s)
    BY DEF Relief
  <2>3. Capacity[s] # None => Capacity[s] \in Nat
    BY EvictionAssumption
  <2>4. /\ Bytes(Counted(s))' <= Bytes(Counted(s))
        /\ Bytes(Counted(s))' \in Nat /\ Bytes(Counted(s)) \in Nat
    <3>1. Counted(s)' \in SUBSET Counted(s) /\ Counted(s) \in SUBSET AssetIds
      BY <2>1 DEF Counted
    <3>2. /\ Bytes(Counted(s)') <= Bytes(Counted(s))
          /\ Bytes(Counted(s)') \in Nat /\ Bytes(Counted(s)) \in Nat
      BY <3>1, BytesWithin
    <3>3. Bytes(Counted(s))' = Bytes(Counted(s)')
      BY DEF Bytes, Units
    <3> QED
      BY <3>2, <3>3
  <2>5. PressedLater(s)' => PressedLater(s)
    BY <2>3, <2>4 DEF PressedLater, OverTrigger
  <2>6. Capacity[s] # None /\ PressureMet(Bytes(Rest(Within(s))), Capacity[s])
          => PressureMet(Bytes(Rest(Within(s))), Capacity[s])'
    BY <2>0, <2>3 DEF PressureMet, PressureTarget
  <2>7. Eligible(Rest(Within(s))) = {} => Eligible(Rest(Within(s)))' = {}
    BY <1>1, <2>1
  <2>8. PressedLater(s) => Capacity[s] # None
    BY DEF PressedLater
  <2> QED
    BY <2>2, <2>5, <2>6, <2>7, <2>8 DEF PressureRelief
<1> QED
  BY <1>3, <1>4 DEF Relief

-----------------------------------------------------------------------------
(* plan_sweep *)

\* The three selections have nothing in common, and those for space are of available
\* assets that may be evicted.
LEMMA Selections ==
  ASSUME Types
  PROVE  /\ Overdue \in SUBSET AssetIds
         /\ \A p \in Partitions : ForQuota(p) \subseteq QuotaRest(p)
         /\ \A p \in Partitions : QuotaRest(p) \in SUBSET AssetIds
         /\ \A p \in Partitions : \A a \in QuotaRest(p) :
              PartitionOf[a] = p /\ state[a] = "available" /\ a \notin Overdue
         /\ \A p \in Partitions : \A a \in ForQuota(p) :
              a \in Eligible(QuotaRest(p)) /\ policy[a] = "inherit" /\ SpaceOf[p] \in Evictable
         /\ \A s \in Spaces : ForPressure(s) \subseteq PressureRest(s)
         /\ \A s \in Spaces : PressureRest(s) \in SUBSET AssetIds
         /\ \A s \in Spaces : \A a \in PressureRest(s) :
              SpaceOf[PartitionOf[a]] = s /\ state[a] = "available" /\ a \notin Selected
         /\ \A s \in Spaces : \A a \in ForPressure(s) :
              /\ a \in Eligible(PressureRest(s)) /\ policy[a] = "inherit" /\ s \in Evictable
              /\ Capacity[s] # None
<1>1. \A R, t : Evicted(R, t) \subseteq Eligible(R)
  BY DEF Evicted
<1>2. Overdue \in SUBSET AssetIds
  BY DEF Overdue, Listed
<1>3. ASSUME NEW p \in Partitions
      PROVE  /\ ForQuota(p) \subseteq Eligible(QuotaRest(p))
             /\ ForQuota(p) # {} => SpaceOf[p] \in Evictable
  BY <1>1 DEF ForQuota, OverQuota
<1>4. ASSUME NEW s \in Spaces
      PROVE  /\ ForPressure(s) \subseteq Eligible(PressureRest(s))
             /\ ForPressure(s) # {} => s \in Evictable /\ Capacity[s] # None
  BY <1>1 DEF ForPressure, Pressed
<1>5. \A p \in Partitions : /\ QuotaRest(p) \in SUBSET AssetIds
                            /\ \A a \in QuotaRest(p) : PartitionOf[a] = p /\ state[a] = "available"
                                                       /\ a \notin Overdue
  BY DEF QuotaRest, Available, In
<1>6. \A s \in Spaces : /\ PressureRest(s) \in SUBSET AssetIds
                        /\ \A a \in PressureRest(s) : SpaceOf[PartitionOf[a]] = s
                             /\ state[a] = "available" /\ a \notin Selected
  BY DEF PressureRest, Available, Within
<1> QED
  BY <1>2, <1>3, <1>4, <1>5, <1>6 DEF Eligible

ByQuota == UNION {ForQuota(p) : p \in Partitions}
ByPressure == UNION {ForPressure(s) : s \in Spaces}

\* What the sequence of a pass is made of.
Listing(q, S, reason) ==
  /\ IsFiniteSet(S) /\ Cardinality(S) \in Nat
  /\ q \in [1..Cardinality(S) -> [asset : S, reason : {reason}]]
  /\ \A a \in S : \E i \in 1..Cardinality(S) : q[i].asset = a
  /\ \A i, j \in 1..Cardinality(S) : q[i].asset = q[j].asset => i = j

\* A selection in a strict order is listed without repetition.
LEMMA Listed3 ==
  ASSUME Types, NEW u \in AgeActions, NEW v \in QuotaActions, NEW w \in PressureActions
  PROVE  /\ Listing(u, Overdue, "age") /\ Listing(v, ByQuota, "quota_lfu")
         /\ Listing(w, ByPressure, "pressure_lfu")
         /\ \A i, j \in 1..Cardinality(ByQuota) : i < j =>
              \/ PartitionOf[v[i].asset] # PartitionOf[v[j].asset]
              \/ Before(v[i].asset, v[j].asset)
         /\ \A i, j \in 1..Cardinality(ByPressure) : i < j => Before(w[i].asset, w[j].asset)
<1>1. ASSUME NEW S \in SUBSET AssetIds
      PROVE  IsFiniteSet(S) /\ Cardinality(S) \in Nat
  BY FS_Subset, FS_CardinalityType, EvictionAssumption
<1>2. Overdue \in SUBSET AssetIds /\ ByQuota \in SUBSET AssetIds /\ ByPressure \in SUBSET AssetIds
  BY Selections DEF ByQuota, ByPressure
<1>3. /\ u \in [1..Cardinality(Overdue) -> [asset : Overdue, reason : {"age"}]]
      /\ \A a \in Overdue : \E i \in 1..Cardinality(Overdue) : u[i].asset = a
      /\ \A i, j \in 1..Cardinality(Overdue) : i < j => u[i].asset < u[j].asset
  BY DEF AgeActions, Listings
<1>4. /\ v \in [1..Cardinality(ByQuota) -> [asset : ByQuota, reason : {"quota_lfu"}]]
      /\ \A a \in ByQuota : \E i \in 1..Cardinality(ByQuota) : v[i].asset = a
      /\ \A i, j \in 1..Cardinality(ByQuota) : i < j =>
           \/ PartitionOf[v[i].asset] < PartitionOf[v[j].asset]
           \/ PartitionOf[v[i].asset] = PartitionOf[v[j].asset] /\ Before(v[i].asset, v[j].asset)
  BY DEF QuotaActions, Listings, ByQuota
<1>5. /\ w \in [1..Cardinality(ByPressure) -> [asset : ByPressure, reason : {"pressure_lfu"}]]
      /\ \A a \in ByPressure : \E i \in 1..Cardinality(ByPressure) : w[i].asset = a
      /\ \A i, j \in 1..Cardinality(ByPressure) : i < j => Before(w[i].asset, w[j].asset)
  BY DEF PressureActions, Listings, ByPressure
<1>6. /\ \A a \in AssetIds : ~Before(a, a) /\ ~(a < a) /\ ~(PartitionOf[a] < PartitionOf[a])
      /\ \A a, b \in AssetIds : PartitionOf[a] < PartitionOf[b] => PartitionOf[a] # PartitionOf[b]
  <2>1. \A a \in AssetIds : a \in Nat /\ PartitionOf[a] \in Nat
    BY EvictionAssumption
  <2>2. \A a \in AssetIds : ~Before(a, a)
    BY BeforeOrder
  <2> QED
    BY <2>1, <2>2
<1>7. /\ Cardinality(Overdue) \in Nat /\ Cardinality(ByQuota) \in Nat
      /\ Cardinality(ByPressure) \in Nat
  BY <1>1, <1>2
<1>8. \A i, j \in 1..Cardinality(Overdue) : u[i].asset = u[j].asset => i = j
  BY <1>2, <1>3, <1>6, <1>7
<1>9. \A i, j \in 1..Cardinality(ByQuota) : v[i].asset = v[j].asset => i = j
  BY <1>2, <1>4, <1>6, <1>7
<1>10. \A i, j \in 1..Cardinality(ByPressure) : w[i].asset = w[j].asset => i = j
  BY <1>2, <1>5, <1>6, <1>7
<1>11. Listing(u, Overdue, "age")
  BY <1>1, <1>2, <1>3, <1>8 DEF Listing
<1>12. Listing(v, ByQuota, "quota_lfu")
  BY <1>1, <1>2, <1>4, <1>9 DEF Listing
<1>13. Listing(w, ByPressure, "pressure_lfu")
  BY <1>1, <1>2, <1>5, <1>10 DEF Listing
<1>14. \A i, j \in 1..Cardinality(ByQuota) : i < j =>
         \/ PartitionOf[v[i].asset] # PartitionOf[v[j].asset]
         \/ Before(v[i].asset, v[j].asset)
  BY <1>2, <1>4, <1>6
<1> QED
  BY <1>5, <1>11, <1>12, <1>13, <1>14

\* A pass in the order of its sequence: every overdue asset, then what is evicted for
\* the quotas, then for pressure, each once.
Shape(x) ==
  /\ x \in Seq(Acts) /\ Len(x) \in Nat /\ DOMAIN x = 1..Len(x)
  /\ \A i, j \in DOMAIN x : x[i].asset = x[j].asset => i = j
  /\ \A i \in DOMAIN x :
       \/ x[i].reason = "age" /\ x[i].asset \in Overdue
       \/ x[i].reason = "quota_lfu" /\ x[i].asset \in ByQuota
       \/ x[i].reason = "pressure_lfu" /\ x[i].asset \in ByPressure
  /\ \A a \in Overdue \cup ByQuota \cup ByPressure : \E i \in DOMAIN x : x[i].asset = a
  /\ \A i \in DOMAIN x : x[i].reason = "quota_lfu" =>
       /\ \A a \in Overdue : \E j \in 1..(i - 1) : x[j].asset = a
       /\ \A j \in 1..(i - 1) :
            \/ x[j].asset \in Overdue
            \/ x[j].asset \in ByQuota /\ (\/ PartitionOf[x[j].asset] # PartitionOf[x[i].asset]
                                          \/ Before(x[j].asset, x[i].asset))
  /\ \A i \in DOMAIN x : x[i].reason = "pressure_lfu" =>
       /\ \A a \in Overdue \cup ByQuota : \E j \in 1..(i - 1) : x[j].asset = a
       /\ \A j \in 1..(i - 1) :
            \/ x[j].asset \in Overdue \cup ByQuota
            \/ x[j].asset \in ByPressure /\ Before(x[j].asset, x[i].asset)

\* The sequence plan_sweep returns has that shape.
LEMMA PlanShape ==
  ASSUME Types, NEW u \in AgeActions, NEW v \in QuotaActions, NEW w \in PressureActions
  PROVE  Shape(u \o v \o w)
<1> DEFINE l == Cardinality(Overdue)
           m == Cardinality(ByQuota)
           n == Cardinality(ByPressure)
<1> DEFINE x == u \o v \o w
<1>1. /\ Listing(u, Overdue, "age") /\ Listing(v, ByQuota, "quota_lfu")
      /\ Listing(w, ByPressure, "pressure_lfu")
      /\ \A i, j \in 1..m : i < j =>
           PartitionOf[v[i].asset] # PartitionOf[v[j].asset] \/ Before(v[i].asset, v[j].asset)
      /\ \A i, j \in 1..n : i < j => Before(w[i].asset, w[j].asset)
  BY Listed3
<1>2. /\ Overdue \in SUBSET AssetIds /\ ByQuota \in SUBSET AssetIds
      /\ ByPressure \in SUBSET AssetIds
      /\ Overdue \cap ByQuota = {} /\ Overdue \cap ByPressure = {} /\ ByQuota \cap ByPressure = {}
  BY Selections DEF ByQuota, ByPressure, Selected
<1>3. /\ l \in Nat /\ m \in Nat /\ n \in Nat
      /\ u \in [1..l -> Acts] /\ v \in [1..m -> Acts] /\ w \in [1..n -> Acts]
  BY <1>1, <1>2 DEF Listing, Acts
<1>u. /\ \A i \in 1..l : u[i].asset \in Overdue /\ u[i].reason = "age"
      /\ \A a \in Overdue : \E i \in 1..l : u[i].asset = a
      /\ \A i, j \in 1..l : u[i].asset = u[j].asset => i = j
  BY <1>1 DEF Listing
<1>v. /\ \A i \in 1..m : v[i].asset \in ByQuota /\ v[i].reason = "quota_lfu"
      /\ \A a \in ByQuota : \E i \in 1..m : v[i].asset = a
      /\ \A i, j \in 1..m : v[i].asset = v[j].asset => i = j
  BY <1>1 DEF Listing
<1>w. /\ \A i \in 1..n : w[i].asset \in ByPressure /\ w[i].reason = "pressure_lfu"
      /\ \A a \in ByPressure : \E i \in 1..n : w[i].asset = a
      /\ \A i, j \in 1..n : w[i].asset = w[j].asset => i = j
  BY <1>1 DEF Listing
<1> HIDE DEF l, m, n
<1>4. /\ x \in Seq(Acts) /\ DOMAIN x = 1..(l + m + n)
      /\ \A i \in 1..l : x[i] = u[i]
      /\ \A i \in 1..m : x[l + i] = v[i]
      /\ \A i \in 1..n : x[l + m + i] = w[i]
  <2>2. /\ u \in Seq(Acts) /\ v \in Seq(Acts) /\ w \in Seq(Acts)
        /\ Len(u) = l /\ Len(v) = m /\ Len(w) = n
    BY <1>3
  <2> QED
    <3>1. /\ x \in Seq(Acts) /\ Len(x) = Len(u) + Len(v) + Len(w)
          /\ \A i \in 1..Len(u) : x[i] = u[i]
          /\ \A i \in 1..Len(v) : x[Len(u) + i] = v[i]
          /\ \A i \in 1..Len(w) : x[Len(u) + Len(v) + i] = w[i]
      <4>1. ASSUME NEW U \in Seq(Acts), NEW V \in Seq(Acts), NEW W \in Seq(Acts)
            PROVE  /\ U \o V \o W \in Seq(Acts)
                   /\ Len(U \o V \o W) = Len(U) + Len(V) + Len(W)
                   /\ \A i \in 1..Len(U) : (U \o V \o W)[i] = U[i]
                   /\ \A i \in 1..Len(V) : (U \o V \o W)[Len(U) + i] = V[i]
                   /\ \A i \in 1..Len(W) : (U \o V \o W)[Len(U) + Len(V) + i] = W[i]
        OBVIOUS
      <4> QED
        BY <2>2, <4>1, Zenon
    <3> HIDE DEF x
    <3> QED
      BY <2>2, <3>1, LenProperties
<1> HIDE DEF x
<1>5. Len(x) = l + m + n /\ Len(x) \in Nat /\ DOMAIN x = 1..Len(x)
  BY <1>3, <1>4, LenProperties
<1>6. \A i \in DOMAIN x : \/ i \in 1..l
                          \/ \E k \in 1..m : i = l + k
                          \/ \E k \in 1..n : i = l + m + k
  <2>1. SUFFICES ASSUME NEW i \in 1..(l + m + n), i \notin 1..l, ~(i - l \in 1..m)
                 PROVE  i - (l + m) \in 1..n /\ i = l + m + (i - (l + m))
    <3>1. \A i \in 1..(l + m + n) : i = l + (i - l)
      BY <1>3
    <3> QED
      BY <1>4, <3>1
  <2> QED
    BY <1>3, <2>1
<1>7. \A i \in DOMAIN x :
        /\ i \in 1..l => x[i].asset \in Overdue /\ x[i].reason = "age"
        /\ \A k \in 1..m : i = l + k => x[i].asset \in ByQuota /\ x[i].reason = "quota_lfu"
        /\ \A k \in 1..n : i = l + m + k => x[i].asset \in ByPressure /\ x[i].reason = "pressure_lfu"
  BY <1>4, <1>u, <1>v, <1>w
<1>8. ASSUME NEW i \in DOMAIN x, NEW j \in DOMAIN x, x[i].asset = x[j].asset
      PROVE  i = j
  <2>1. CASE i \in 1..l
    <3>1. j \in 1..l
      BY <1>2, <1>6, <1>7, <1>8, <2>1
    <3> QED
      BY <1>4, <1>8, <1>u, <2>1, <3>1
  <2>2. CASE \E k \in 1..m : i = l + k
    <3>1. \E k \in 1..m : j = l + k
      BY <1>2, <1>6, <1>7, <1>8, <2>2
    <3> QED
      BY <1>4, <1>8, <1>v, <2>2, <3>1
  <2>3. CASE \E k \in 1..n : i = l + m + k
    <3>1. \E k \in 1..n : j = l + m + k
      BY <1>2, <1>6, <1>7, <1>8, <2>3
    <3> QED
      BY <1>4, <1>8, <1>w, <2>3, <3>1
  <2> QED
    BY <1>6, <2>1, <2>2, <2>3
<1>9. /\ \A i \in 1..l : i \in DOMAIN x
      /\ \A i \in 1..m : l + i \in DOMAIN x
      /\ \A i \in 1..n : l + m + i \in DOMAIN x
  BY <1>3, <1>4
<1>10. \A a \in Overdue \cup ByQuota \cup ByPressure : \E i \in DOMAIN x : x[i].asset = a
  BY <1>4, <1>9, <1>u, <1>v, <1>w
<1>11. ASSUME NEW i \in DOMAIN x, x[i].reason = "quota_lfu"
       PROVE  /\ \A a \in Overdue : \E j \in 1..(i - 1) : x[j].asset = a
              /\ \A j \in 1..(i - 1) :
                   \/ x[j].asset \in Overdue
                   \/ x[j].asset \in ByQuota /\ (\/ PartitionOf[x[j].asset] # PartitionOf[x[i].asset]
                                                 \/ Before(x[j].asset, x[i].asset))
  <2>1. PICK k \in 1..m : i = l + k
    BY <1>6, <1>7, <1>11
  <2>2. \A a \in Overdue : \E j \in 1..(i - 1) : x[j].asset = a
    <3>1. \A j \in 1..l : j \in 1..(i - 1)
      BY <1>3, <2>1
    <3> QED
      BY <1>4, <1>u, <3>1
  <2>3. ASSUME NEW j \in 1..(i - 1), j \notin 1..l
        PROVE  j - l \in 1..m /\ j = l + (j - l) /\ j - l < k
    BY <1>3, <2>1, <2>3
  <2>4. ASSUME NEW j \in 1..(i - 1), j \notin 1..l
        PROVE  x[j].asset \in ByQuota /\ (\/ PartitionOf[x[j].asset] # PartitionOf[x[i].asset]
                                          \/ Before(x[j].asset, x[i].asset))
    <3>1. PICK h \in 1..m : j = l + h /\ h < k
      BY <2>3, <2>4
    <3> QED
      BY <1>1, <1>4, <1>v, <2>1, <3>1
  <2> QED
    BY <1>4, <1>u, <2>2, <2>4
<1>12. ASSUME NEW i \in DOMAIN x, x[i].reason = "pressure_lfu"
       PROVE  /\ \A a \in Overdue \cup ByQuota : \E j \in 1..(i - 1) : x[j].asset = a
              /\ \A j \in 1..(i - 1) :
                   \/ x[j].asset \in Overdue \cup ByQuota
                   \/ x[j].asset \in ByPressure /\ Before(x[j].asset, x[i].asset)
  <2>1. PICK k \in 1..n : i = l + m + k
    BY <1>6, <1>7, <1>12
  <2>2. \A a \in Overdue \cup ByQuota : \E j \in 1..(i - 1) : x[j].asset = a
    <3>1. (\A j \in 1..l : j \in 1..(i - 1)) /\ \A j \in 1..m : l + j \in 1..(i - 1)
      BY <1>3, <2>1
    <3> QED
      BY <1>4, <1>u, <1>v, <3>1
  <2>3. ASSUME NEW j \in 1..(i - 1), j \notin 1..l, j - l \notin 1..m
        PROVE  j - (l + m) \in 1..n /\ j = l + m + (j - (l + m)) /\ j - (l + m) < k
    BY <1>3, <2>1, <2>3
  <2>4. ASSUME NEW j \in 1..(i - 1), j \notin 1..l, j - l \notin 1..m
        PROVE  x[j].asset \in ByPressure /\ Before(x[j].asset, x[i].asset)
    <3>1. PICK h \in 1..n : j = l + m + h /\ h < k
      BY <2>3, <2>4
    <3> QED
      BY <1>1, <1>4, <1>w, <2>1, <3>1
  <2>5. ASSUME NEW j \in 1..(i - 1), j - l \in 1..m
        PROVE  x[j].asset \in ByQuota
    <3>1. j = l + (j - l)
      BY <1>3, <2>5
    <3> QED
      BY <1>4, <1>v, <2>5, <3>1
  <2> QED
    BY <1>4, <1>u, <2>2, <2>4, <2>5
<1>13. \A i \in DOMAIN x :
         \/ x[i].reason = "age" /\ x[i].asset \in Overdue
         \/ x[i].reason = "quota_lfu" /\ x[i].asset \in ByQuota
         \/ x[i].reason = "pressure_lfu" /\ x[i].asset \in ByPressure
  BY <1>6, <1>7
<1>14. Shape(x)
  BY <1>4, <1>5, <1>8, <1>10, <1>11, <1>12, <1>13 DEF Shape
<1> QED
  BY <1>14 DEF x

\* When the pass comes to an action for space, what is then left misses the target.
LEMMA NeededAtFirst ==
  ASSUME Types, NEW x, Shape(x), NEW i \in DOMAIN x
  PROVE  LET p == PartitionOf[x[i].asset]
             s == SpaceOf[p]
             K == {x[j].asset : j \in 1..(i - 1)}
         IN /\ x[i].reason = "quota_lfu" =>
                 /\ p \in sweeping /\ quota[p] # None
                 /\ ~QuotaMet(Bytes(Available(In(p)) \ K), quota[p])
            /\ x[i].reason = "pressure_lfu" =>
                 ~PressureMet(Bytes(Available(Within(s)) \ K), Capacity[s])
<1> DEFINE a == x[i].asset
           p == PartitionOf[a]
           s == SpaceOf[p]
           K == {x[j].asset : j \in 1..(i - 1)}
<1>1. ASSUME x[i].reason = "quota_lfu"
      PROVE  /\ p \in sweeping /\ quota[p] # None
             /\ ~QuotaMet(Bytes(Available(In(p)) \ K), quota[p])
  <2> DEFINE R == QuotaRest(p)
  <2>1. a \in ByQuota
    BY <1>1 DEF Shape
  <2>2. p \in Partitions /\ a \in ForQuota(p)
    BY <2>1, Selections DEF ByQuota
  <2>3. OverQuota(p, R) /\ a \in Evicted(R, QuotaTarget * quota[p])
    BY <2>2 DEF ForQuota
  <2>4. p \in sweeping /\ quota[p] # None /\ quota[p] \in Nat
    BY <2>2, <2>3 DEF OverQuota, Types
  <2>5. Overdue \subseteq K
    <3>1. \A c \in Overdue : \E j \in 1..(i - 1) : x[j].asset = c
      BY <1>1 DEF Shape
    <3> QED
      BY <3>1
  <2>6. Available(In(p)) \ K = R \ (K \cap R)
    BY <2>5 DEF QuotaRest
  <2>7. ASSUME NEW b \in K \cap R
        PROVE  b \in Eligible(R) /\ Before(b, a)
    <3>1. b \notin Overdue /\ PartitionOf[b] = p
      BY <2>2, Selections
    <3>2. b \in ByQuota /\ Before(b, a)
      <4>1. PICK j \in 1..(i - 1) : b = x[j].asset
        OBVIOUS
      <4>2. \/ b \in Overdue
            \/ b \in ByQuota /\ (PartitionOf[b] # PartitionOf[a] \/ Before(b, a))
        BY <1>1, <4>1 DEF Shape
      <4> QED
        BY <3>1, <4>2
    <3>3. b \in ForQuota(p)
      BY <3>1, <3>2, Selections DEF ByQuota
    <3> QED
      BY <2>2, <3>2, <3>3, Selections
  <2>8. QuotaTarget * quota[p] \in Int /\ R \in SUBSET AssetIds /\ K \cap R \in SUBSET R
    BY <2>2, <2>4, Selections DEF QuotaTarget
  <2> HIDE DEF K, R, a
  <2>9. ~(100 * Bytes(R \ (K \cap R)) <= QuotaTarget * quota[p])
    BY <2>3, <2>7, <2>8, EvictedNeeded
  <2> QED
    BY <2>4, <2>6, <2>9 DEF QuotaMet
<1>2. ASSUME x[i].reason = "pressure_lfu"
      PROVE  ~PressureMet(Bytes(Available(Within(s)) \ K), Capacity[s])
  <2> DEFINE R == PressureRest(s)
  <2>1. a \in ByPressure
    BY <1>2 DEF Shape
  <2>2. s \in Spaces /\ a \in ForPressure(s)
    BY <2>1, Selections DEF ByPressure
  <2>3. Pressed(s) /\ a \in Evicted(R, PressureTarget * Capacity[s])
    BY <2>2 DEF ForPressure
  <2>4. Capacity[s] # None /\ Capacity[s] \in Nat
    BY <2>2, <2>3, EvictionAssumption DEF Pressed
  <2>5. Selected \subseteq K
    <3>1. \A c \in Overdue \cup ByQuota : \E j \in 1..(i - 1) : x[j].asset = c
      BY <1>2 DEF Shape
    <3> QED
      BY <3>1 DEF Selected, ByQuota
  <2>6. Available(Within(s)) \ K = R \ (K \cap R)
    BY <2>5 DEF PressureRest
  <2>7. ASSUME NEW b \in K \cap R
        PROVE  b \in Eligible(R) /\ Before(b, a)
    <3>1. b \notin Selected /\ SpaceOf[PartitionOf[b]] = s
      BY <2>2, Selections
    <3>2. b \in ByPressure /\ Before(b, a)
      BY <1>2, <3>1 DEF Shape, Selected, ByQuota
    <3>3. b \in ForPressure(s)
      BY <3>1, <3>2, Selections DEF ByPressure
    <3> QED
      BY <2>2, <3>2, <3>3, Selections
  <2>8. PressureTarget * Capacity[s] \in Int /\ R \in SUBSET AssetIds /\ K \cap R \in SUBSET R
    BY <2>2, <2>4, Selections DEF PressureTarget
  <2> HIDE DEF K, R, a
  <2>9. ~(100 * Bytes(R \ (K \cap R)) <= PressureTarget * Capacity[s])
    BY <2>3, <2>7, <2>8, EvictedNeeded
  <2> QED
    BY <2>4, <2>6, <2>9 DEF PressureMet
<1> QED
  BY <1>1, <1>2

\* What is over the trigger comes down to the low-water mark, or is reported.
LEMMA ReliefPlanned ==
  ASSUME Types, NEW P, P = Overdue \cup ByQuota \cup ByPressure
  PROVE  /\ \A p \in Partitions : OverQuota(p, Available(In(p)) \ due) =>
              \/ QuotaMet(Bytes((Available(In(p)) \ due) \ P), quota[p])
              \/ Eligible((Available(In(p)) \ due) \ P) = {} /\ SpaceOf[p] \in Exhausted
         /\ \A s \in Spaces : Pressed(s) =>
              \/ PressureMet(Bytes((Available(Within(s)) \ due) \ P), Capacity[s])
              \/ Eligible((Available(Within(s)) \ due) \ P) = {} /\ s \in Exhausted
<1>1. ASSUME NEW p \in Partitions, OverQuota(p, Available(In(p)) \ due)
      PROVE  \/ QuotaMet(Bytes((Available(In(p)) \ due) \ P), quota[p])
             \/ Eligible((Available(In(p)) \ due) \ P) = {} /\ SpaceOf[p] \in Exhausted
  <2> DEFINE R == QuotaRest(p)
             t == QuotaTarget * quota[p]
             L == (Available(In(p)) \ due) \ P
  <2>1. R = Available(In(p)) \ due
    BY DEF QuotaRest, Available, In, Overdue, Listed
  <2>2. OverQuota(p, R) /\ ForQuota(p) = Evicted(R, t)
    BY <1>1, <2>1 DEF ForQuota
  <2>3. quota[p] \in Nat /\ t \in Int /\ R \in SUBSET AssetIds
    BY <2>2, Selections DEF OverQuota, Types, QuotaTarget
  <2>4. L \subseteq R \ ForQuota(p) /\ R \ ForQuota(p) \in SUBSET AssetIds
    BY <2>1, <2>3 DEF ByQuota
  <2> HIDE DEF R, t, L
  <2>5. /\ Bytes(L) <= Bytes(R \ ForQuota(p)) /\ Bytes(L) \in Nat
        /\ Bytes(R \ ForQuota(p)) \in Nat
    BY <2>4, BytesWithin
  <2>6. CASE QuotaMet(Bytes(R \ ForQuota(p)), quota[p])
    <3>1. QuotaMet(Bytes(L), quota[p])
      BY <2>3, <2>5, <2>6 DEF QuotaMet, QuotaTarget
    <3> QED
      BY <3>1 DEF L
  <2>7. CASE ~QuotaMet(Bytes(R \ ForQuota(p)), quota[p])
    <3>1. Eligible(R \ ForQuota(p)) = {}
      BY <2>2, <2>3, <2>7, EvictedEnough DEF QuotaMet, t
    <3>2. Eligible(L) = {}
      BY <2>4, <3>1 DEF Eligible
    <3>3. SpaceOf[p] \in Exhausted
      BY <2>2, <2>7 DEF Exhausted, R
    <3> QED
      BY <3>2, <3>3 DEF L
  <2> QED
    BY <2>6, <2>7
<1>2. ASSUME NEW s \in Spaces, Pressed(s)
      PROVE  \/ PressureMet(Bytes((Available(Within(s)) \ due) \ P), Capacity[s])
             \/ Eligible((Available(Within(s)) \ due) \ P) = {} /\ s \in Exhausted
  <2> DEFINE R == PressureRest(s)
             t == PressureTarget * Capacity[s]
             L == (Available(Within(s)) \ due) \ P
  <2>2. ForPressure(s) = Evicted(R, t)
    BY <1>2 DEF ForPressure
  <2>3. Capacity[s] \in Nat /\ t \in Int /\ R \in SUBSET AssetIds
    BY <1>2, Selections, EvictionAssumption DEF Pressed, PressureTarget
  <2>4. L \subseteq R \ ForPressure(s) /\ R \ ForPressure(s) \in SUBSET AssetIds
    BY <2>3 DEF ByPressure, ByQuota, PressureRest, Selected
  <2> HIDE DEF R, t, L
  <2>5. /\ Bytes(L) <= Bytes(R \ ForPressure(s)) /\ Bytes(L) \in Nat
        /\ Bytes(R \ ForPressure(s)) \in Nat
    BY <2>4, BytesWithin
  <2>6. CASE PressureMet(Bytes(R \ ForPressure(s)), Capacity[s])
    <3>1. PressureMet(Bytes(L), Capacity[s])
      BY <2>3, <2>5, <2>6 DEF PressureMet, PressureTarget
    <3> QED
      BY <3>1 DEF L
  <2>7. CASE ~PressureMet(Bytes(R \ ForPressure(s)), Capacity[s])
    <3>1. Eligible(R \ ForPressure(s)) = {}
      BY <2>2, <2>3, <2>7, EvictedEnough DEF PressureMet, t
    <3>2. Eligible(L) = {}
      BY <2>4, <3>1 DEF Eligible
    <3>3. s \in Exhausted
      BY <1>2, <2>7 DEF Exhausted, R
    <3> QED
      BY <3>2, <3>3 DEF L
  <2> QED
    BY <2>6, <2>7
<1> QED
  BY <1>1, <1>2

\* A fresh plan is sound, needed and brings relief.
LEMMA PlanStep ==
  ASSUME PassInv, Plan
  PROVE  PassInv'
<1>0. Types
  BY DEF PassInv
<1>1. Shape(plan')
  BY <1>0, PlanShape DEF Plan
<1>2. /\ UNCHANGED <<state, policy, last_read, due, quota, sweeping, now>>
      /\ stale' = {} /\ calm' = TRUE /\ exhausted' = Exhausted
  BY DEF Plan, rowVars, limitVars
<1>3. Types'
  BY <1>0, <1>1, <1>2 DEF Types, Shape
<1>4. Sound'
  <2>1. \A i, j \in DOMAIN plan' : plan'[i].asset = plan'[j].asset => i = j
    BY <1>1 DEF Shape
  <2>2. ASSUME NEW i \in DOMAIN plan', plan'[i].reason # "age"
        PROVE  LET a == plan'[i].asset  s == SpaceOf[PartitionOf[a]] IN
               /\ state[a] = "available" /\ policy[a] = "inherit" /\ s \in Evictable
               /\ plan'[i].reason = "pressure_lfu" => Capacity[s] # None
    <3>1. \/ plan'[i].reason = "quota_lfu" /\ plan'[i].asset \in ByQuota
          \/ plan'[i].reason = "pressure_lfu" /\ plan'[i].asset \in ByPressure
      BY <1>1, <2>2 DEF Shape
    <3>2. CASE plan'[i].reason = "quota_lfu" /\ plan'[i].asset \in ByQuota
      BY <1>0, <3>2, Selections DEF ByQuota
    <3>3. CASE plan'[i].reason = "pressure_lfu" /\ plan'[i].asset \in ByPressure
      BY <1>0, <3>3, Selections DEF ByPressure
    <3> QED
      BY <3>1, <3>2, <3>3
  <2> QED
    BY <1>2, <2>1, <2>2 DEF Sound
<1>5. ASSUME NEW i \in DOMAIN plan'
      PROVE  Needed(i)'
  <2>1. \A S : Available(S)' = Available(S)
    BY <1>2 DEF Available
  <2> DEFINE K == {plan'[j].asset : j \in 1..(i - 1)}
  <2>2. Prior(i)' = K
    BY DEF Prior
  <2>3. LET p == PartitionOf[plan'[i].asset]
            s == SpaceOf[p]
        IN /\ plan'[i].reason = "quota_lfu" =>
                /\ p \in sweeping /\ quota[p] # None
                /\ ~QuotaMet(Bytes(Available(In(p)) \ K), quota[p])
           /\ plan'[i].reason = "pressure_lfu" =>
                ~PressureMet(Bytes(Available(Within(s)) \ K), Capacity[s])
    BY <1>0, <1>1, NeededAtFirst
  <2> HIDE DEF K
  <2> QED
    BY <1>2, <2>1, <2>2, <2>3 DEF Needed, Bytes, Units, In, Within, QuotaMet, PressureMet
<1>6. Planned' = Overdue \cup ByQuota \cup ByPressure
  <2>1. \A i \in DOMAIN plan' : plan'[i].asset \in Overdue \cup ByQuota \cup ByPressure
    BY <1>1 DEF Shape
  <2>2. \A a \in Overdue \cup ByQuota \cup ByPressure : \E i \in DOMAIN plan' : plan'[i].asset = a
    BY <1>1 DEF Shape
  <2> QED
    BY <2>1, <2>2 DEF Planned
<1>7. Relief'
  <2>2. \A p \in Partitions :
          OverQuota(p, Available(In(p)) \ due)' <=> OverQuota(p, Available(In(p)) \ due)
    BY <1>2 DEF OverQuota, Available, In, Bytes, Units
  <2>3. ASSUME NEW s \in Spaces
        PROVE  PressedLater(s)' => Pressed(s)
    <3>1. \A a \in AssetIds : a \in Overdue => a \in Planned'
      BY <1>6
    <3>2. Counted(s)' = Listed(Within(s)) \ Purgeable
      BY <1>2, <3>1 DEF Counted, Held, Listed, Within, Purgeable, Overdue
    <3>3. Bytes(Counted(s))' = Projected(s)
      BY <3>2 DEF Projected, Bytes, Units
    <3> QED
      BY <3>3 DEF PressedLater, Pressed, OverTrigger
  <2>4. /\ \A p \in Partitions : OverQuota(p, Available(In(p)) \ due) =>
             \/ QuotaMet(Bytes((Available(In(p)) \ due) \ Planned'), quota[p])
             \/ Eligible((Available(In(p)) \ due) \ Planned') = {} /\ SpaceOf[p] \in Exhausted
        /\ \A s \in Spaces : Pressed(s) =>
             \/ PressureMet(Bytes((Available(Within(s)) \ due) \ Planned'), Capacity[s])
             \/ Eligible((Available(Within(s)) \ due) \ Planned') = {} /\ s \in Exhausted
    BY <1>0, <1>6, ReliefPlanned
  <2>5. ASSUME NEW p \in Partitions
        PROVE  QuotaRelief(p)'
    <3>1. /\ Bytes(Rest(In(p)))' = Bytes((Available(In(p)) \ due) \ Planned')
          /\ Eligible(Rest(In(p)))' = Eligible((Available(In(p)) \ due) \ Planned')
      BY <1>2 DEF Rest, Available, Bytes, Units, Eligible, In
    <3> QED
      BY <1>2, <2>2, <2>4, <3>1 DEF QuotaRelief, QuotaMet
  <2>6. ASSUME NEW s \in Spaces
        PROVE  PressureRelief(s)'
    <3>1. /\ Bytes(Rest(Within(s)))' = Bytes((Available(Within(s)) \ due) \ Planned')
          /\ Eligible(Rest(Within(s)))' = Eligible((Available(Within(s)) \ due) \ Planned')
      BY <1>2 DEF Rest, Available, Bytes, Units, Eligible, Within
    <3> QED
      BY <1>2, <2>3, <2>4, <3>1 DEF PressureRelief, PressureMet
  <2> QED
    BY <2>5, <2>6 DEF Relief
<1> QED
  BY <1>2, <1>3, <1>4, <1>5, <1>7 DEF PassInv, CalmInv

-----------------------------------------------------------------------------
(* run_sweep *)

\* The plan after its first action.
LEMMA TailOf ==
  ASSUME Types, plan # <<>>, plan' = Tail(plan)
  PROVE  /\ plan' \in Seq(Acts) /\ 1 \in DOMAIN plan /\ Head(plan) = plan[1]
         /\ Len(plan) \in Nat /\ Len(plan) > 0 /\ DOMAIN plan = 1..Len(plan)
         /\ DOMAIN plan' = 1..(Len(plan) - 1) /\ plan' # plan
         /\ \A i \in DOMAIN plan' : i + 1 \in DOMAIN plan /\ plan'[i] = plan[i + 1]
         /\ Planned = Planned' \cup {plan[1].asset}
         /\ \A i \in DOMAIN plan' : Prior(i + 1) = Prior(i)' \cup {plan[1].asset}
         /\ \A i \in DOMAIN plan : plan[i].asset \in AssetIds
<1>1. plan \in Seq(Acts)
  BY DEF Types
<1>a. \A i \in DOMAIN plan : plan[i].asset \in AssetIds
  <2>1. \A i \in DOMAIN plan : plan[i] \in Acts
    BY <1>1
  <2> QED
    BY <2>1 DEF Acts
<1>2. /\ plan' \in Seq(Acts) /\ Head(plan) = plan[1]
      /\ Len(plan) \in Nat /\ Len(plan) > 0 /\ DOMAIN plan = 1..Len(plan)
      /\ Len(plan') = Len(plan) - 1 /\ DOMAIN plan' = 1..(Len(plan) - 1)
      /\ \A i \in 1..(Len(plan) - 1) : plan'[i] = plan[i + 1]
  BY <1>1
<1>3. 1 \in DOMAIN plan /\ \A i \in DOMAIN plan' : i + 1 \in DOMAIN plan /\ plan'[i] = plan[i + 1]
  BY <1>2
<1>4. \A i \in DOMAIN plan : i = 1 \/ (i - 1 \in DOMAIN plan' /\ plan'[i - 1] = plan[i])
  <2>1. \A i \in 1..Len(plan) : i = 1 \/ (i - 1 \in 1..(Len(plan) - 1) /\ (i - 1) + 1 = i)
    BY <1>2
  <2> QED
    BY <1>2, <2>1
<1>5. Planned = Planned' \cup {plan[1].asset}
  <2>1. \A i \in DOMAIN plan : plan[i].asset \in Planned' \cup {plan[1].asset}
    BY <1>4 DEF Planned
  <2>2. \A i \in DOMAIN plan' : plan'[i].asset \in Planned
    BY <1>3 DEF Planned
  <2> QED
    BY <1>3, <2>1, <2>2 DEF Planned
<1>6. ASSUME NEW i \in DOMAIN plan'
      PROVE  Prior(i + 1) = Prior(i)' \cup {plan[1].asset}
  <2>1. i \in Nat /\ i + 1 - 1 = i /\ 1 \in 1..i /\ i <= Len(plan) - 1
    BY <1>2
  <2>2. \A j \in 1..i : j = 1 \/ (j - 1 \in 1..(i - 1) /\ plan'[j - 1] = plan[j])
    BY <1>2, <1>4, <2>1
  <2>3. \A j \in 1..(i - 1) : j + 1 \in 1..i /\ plan'[j] = plan[j + 1]
    BY <1>2, <1>3, <2>1
  <2>4. Prior(i + 1) = {plan[j].asset : j \in 1..i} /\ Prior(i)' = {plan'[j].asset : j \in 1..(i - 1)}
    BY <2>1 DEF Prior
  <2> QED
    BY <2>1, <2>2, <2>3, <2>4
<1>7. ASSUME plan' = plan
      PROVE  FALSE
  <2>1. Len(plan) = Len(plan) - 1
    BY <1>2, <1>7, Zenon
  <2> QED
    BY <1>2, <2>1
<1> QED
  BY <1>2, <1>3, <1>5, <1>6, <1>7, <1>a

\* In an undisturbed pass every action finds its row and its reason as planned.
LEMMA NothingSkipped ==
  ASSUME PassInv, calm, plan # <<>>
  PROVE  ~Skipped(plan[1].asset, plan[1].reason)
<1>1. stale = {} /\ 1 \in DOMAIN plan /\ Needed(1)
  BY DEF PassInv, Types, CalmInv
<1>2. Prior(1) = {}
  BY DEF Prior
<1>3. \A S : Available(S) \ Prior(1) = Available(S)
  BY <1>2
<1>4. ~Needless(plan[1].asset, plan[1].reason)
  BY <1>1, <1>3 DEF Needless, Needed, Used
<1> QED
  BY <1>1, <1>4 DEF Skipped

\* Leaving an action behind keeps the rest of the plan sound.
LEMMA SoundTail ==
  ASSUME Types, Sound, plan # <<>>, plan' = Tail(plan), stale' = stale \ {plan[1].asset},
         policy' = policy, \A b \in AssetIds \ {plan[1].asset} : state'[b] = state[b]
  PROVE  Sound' /\ \A i \in DOMAIN plan' : plan'[i].asset # plan[1].asset /\ plan'[i].asset \in AssetIds
<1> DEFINE a == plan[1].asset
<1>2. /\ 1 \in DOMAIN plan
      /\ \A i \in DOMAIN plan' : i + 1 \in DOMAIN plan /\ plan'[i] = plan[i + 1]
      /\ DOMAIN plan' = 1..(Len(plan) - 1) /\ Len(plan) \in Nat
      /\ \A i \in DOMAIN plan : plan[i].asset \in AssetIds
  BY TailOf
<1>7. \A i \in DOMAIN plan' : plan'[i].asset # a /\ plan'[i].asset \in AssetIds
  <2>1. ASSUME NEW i \in DOMAIN plan'
        PROVE  i + 1 # 1 /\ i + 1 \in DOMAIN plan
    BY <1>2
  <2> QED
    BY <1>2, <2>1 DEF Sound
<1>8. Sound'
  <2>1. ASSUME NEW i \in DOMAIN plan', NEW j \in DOMAIN plan', plan'[i].asset = plan'[j].asset
        PROVE  i = j
    <3>1. i + 1 = j + 1
      BY <1>2, <2>1 DEF Sound
    <3> QED
      BY <1>2, <3>1
  <2>2. ASSUME NEW i \in DOMAIN plan', plan'[i].reason # "age", plan'[i].asset \notin stale'
        PROVE  LET b == plan'[i].asset  s == SpaceOf[PartitionOf[b]] IN
               /\ state'[b] = "available" /\ policy'[b] = "inherit" /\ s \in Evictable
               /\ plan'[i].reason = "pressure_lfu" => Capacity[s] # None
    <3>1. plan'[i] = plan[i + 1] /\ i + 1 \in DOMAIN plan /\ plan'[i].asset \notin stale
      BY <1>2, <1>7, <2>2
    <3> QED
      BY <1>7, <2>2, <3>1 DEF Sound
  <2> QED
    BY <2>1, <2>2 DEF Sound
<1> QED
  BY <1>7, <1>8

\* Applying one action keeps the invariant.
LEMMA ApplyStep ==
  ASSUME PassInv, plan # <<>>, Apply
  PROVE  PassInv'
<1> DEFINE a == plan[1].asset
<1>0. Types /\ Sound /\ CalmInv
  BY DEF PassInv
<1>1. plan # <<>> /\ plan' = Tail(plan)
  BY DEF Apply, Leave
<1>2. /\ plan' \in Seq(Acts) /\ 1 \in DOMAIN plan /\ Head(plan) = plan[1]
      /\ Planned = Planned' \cup {a}
      /\ \A i \in DOMAIN plan' : i + 1 \in DOMAIN plan /\ plan'[i] = plan[i + 1]
      /\ \A i \in DOMAIN plan' : Prior(i + 1) = Prior(i)' \cup {a}
      /\ DOMAIN plan' = 1..(Len(plan) - 1) /\ Len(plan) \in Nat
      /\ \A i \in DOMAIN plan : plan[i].asset \in AssetIds
  BY <1>0, <1>1, TailOf
<1>3. a \in AssetIds
  BY <1>2
<1>4. /\ stale' = stale \ {a} /\ UNCHANGED <<policy, last_read, quota, sweeping, now, exhausted, calm>>
      /\ due' = due \ {a}
      /\ \E t \in {"expired", "purged", "deleted"} : state' = [state EXCEPT ![a] = t]
  BY <1>2 DEF Apply, Leave, limitVars
<1>5. Types'
  <2>1. state' \in [AssetIds -> States]
    BY <1>0, <1>4 DEF Types, States
  <2>2. due' \subseteq AssetIds /\ stale' \subseteq AssetIds
    BY <1>0, <1>4 DEF Types
  <2> QED
    BY <1>0, <1>2, <1>4, <2>1, <2>2 DEF Types
<1>6. \A b \in AssetIds \ {a} : state'[b] = state[b] /\ policy'[b] = policy[b]
  BY <1>0, <1>4 DEF Types
<1>8. Sound'
  BY <1>0, <1>1, <1>4, <1>6, SoundTail
<1>9. ASSUME calm
      PROVE  CalmInv'
  <2>2. /\ due' = due \ {a}
        /\ \/ state[a] = "available" /\ state' = [state EXCEPT ![a] = "expired"]
           \/ state[a] # "available" /\ state' = [state EXCEPT ![a] = "purged"]
           \/ state[a] # "available" /\ state' = [state EXCEPT ![a] = "deleted"]
    BY <1>2 DEF Apply
  <2>3. state'[a] \in {"expired", "purged", "deleted"}
        /\ (state'[a] = "expired" => state[a] = "available")
    BY <1>0, <1>3, <2>2 DEF Types
  <2>4. stale' = {}
    BY <1>0, <1>4, <1>9 DEF CalmInv
  <2>5. ASSUME NEW S \in SUBSET AssetIds, NEW i \in DOMAIN plan'
        PROVE  (Available(S) \ Prior(i))' = Available(S) \ Prior(i + 1)
    <3>1. Available(S)' = Available(S) \ {a}
      BY <1>3, <1>6, <2>3 DEF Available
    <3> QED
      BY <1>2, <3>1
  <2>6. ASSUME NEW i \in DOMAIN plan'
        PROVE  Needed(i)'
    <3>0. PICK p, s : p = PartitionOf[plan'[i].asset] /\ s = SpaceOf[p]
      OBVIOUS
    <3>1. plan'[i] = plan[i + 1] /\ i + 1 \in DOMAIN plan /\ Needed(i + 1)
      BY <1>0, <1>2, <1>9 DEF CalmInv
    <3>2. Bytes(Available(In(p)) \ Prior(i))' = Bytes(Available(In(p)) \ Prior(i + 1))
      <4>1. (Available(In(p)) \ Prior(i))' = Available(In(p)) \ Prior(i + 1)
        BY <2>5, In(p) \in SUBSET AssetIds, In(p)' = In(p) DEF In
      <4> QED
        BY <4>1 DEF Bytes, Units
    <3>3. Bytes(Available(Within(s)) \ Prior(i))' = Bytes(Available(Within(s)) \ Prior(i + 1))
      <4>1. (Available(Within(s)) \ Prior(i))' = Available(Within(s)) \ Prior(i + 1)
        BY <2>5, Within(s) \in SUBSET AssetIds, Within(s)' = Within(s) DEF Within
      <4> QED
        BY <4>1 DEF Bytes, Units
    <3>4. \/ plan'[i].reason # "quota_lfu"
          \/ /\ p \in sweeping /\ quota[p] # None
             /\ ~QuotaMet(Bytes(Available(In(p)) \ Prior(i + 1)), quota[p])
      BY <3>0, <3>1 DEF Needed
    <3>5. \/ plan'[i].reason # "pressure_lfu"
          \/ ~PressureMet(Bytes(Available(Within(s)) \ Prior(i + 1)), Capacity[s])
      BY <3>0, <3>1 DEF Needed
    <3> QED
      BY <1>4, <3>0, <3>2, <3>3, <3>4, <3>5 DEF Needed, QuotaMet, PressureMet
  <2>7. Relief'
    <3>1. \A b \in AssetIds : state'[b] = "available" /\ b \notin due' =>
            state[b] = "available" /\ b \notin due /\ (b \notin Planned' => b \notin Planned)
      BY <1>2, <1>6, <2>2, <2>3
    <3>2. \A b \in AssetIds : Held(b)' => Held(b)
      BY <1>2, <1>6, <2>2, <2>3 DEF Held
    <3>3. Relief
      BY <1>0, <1>9 DEF CalmInv
    <3> QED
      BY <1>0, <1>4, <3>1, <3>2, <3>3, ReliefKept
  <2> QED
    BY <2>4, <2>6, <2>7 DEF CalmInv
<1> QED
  BY <1>4, <1>5, <1>8, <1>9 DEF PassInv, CalmInv

\* The plan is as needed as before while no asset's availability changes.
LEMMA NeededKept ==
  ASSUME UNCHANGED <<state, quota, sweeping, plan>>, NEW i, Needed(i)
  PROVE  Needed(i)'
<1>1. PICK p, s : p = PartitionOf[plan[i].asset] /\ s = SpaceOf[p]
  OBVIOUS
<1>2. Prior(i)' = Prior(i) /\ plan'[i] = plan[i]
  BY DEF Prior
<1>3. /\ Bytes(Available(In(p)) \ Prior(i))' = Bytes(Available(In(p)) \ Prior(i))
      /\ Bytes(Available(Within(s)) \ Prior(i))' = Bytes(Available(Within(s)) \ Prior(i))
  BY <1>2 DEF Bytes, Units, Available, In, Within
<1> QED
  BY <1>1, <1>2, <1>3 DEF Needed, QuotaMet, PressureMet

\* The recheck keeps it; an undisturbed pass never leaves an action out.
LEMMA RecheckStep ==
  ASSUME PassInv, Recheck
  PROVE  PassInv'
<1>0. Types /\ Sound /\ CalmInv
  BY DEF PassInv
<1>1. /\ plan # <<>> /\ Head(plan) = plan[1]
      /\ UNCHANGED <<state, policy, last_read, due, quota, sweeping, now, exhausted, calm>>
  BY <1>0 DEF Recheck, rowVars, limitVars, Types
<1>2. CASE Skipped(Head(plan).asset, Head(plan).reason)
  <2>1. plan' = Tail(plan) /\ stale' = stale \ {plan[1].asset} /\ ~calm
    BY <1>1, <1>2, NothingSkipped DEF Recheck, Leave
  <2>2. Sound' /\ plan' \in Seq(Acts)
    BY <1>0, <1>1, <2>1, SoundTail, TailOf
  <2>3. stale' \subseteq AssetIds
    BY <1>0, <2>1 DEF Types
  <2>4. Types'
    BY <1>0, <1>1, <2>2, <2>3 DEF Types
  <2> QED
    BY <1>1, <2>1, <2>2, <2>4 DEF PassInv, CalmInv
<1>3. CASE UNCHANGED <<plan, stale>>
  <2>1. Types' /\ Sound' /\ Planned' = Planned
    BY <1>0, <1>1, <1>3 DEF Types, Sound, Planned
  <2>2. ASSUME calm
        PROVE  stale' = {} /\ Relief' /\ \A i \in DOMAIN plan' : Needed(i)'
    <3>1. stale' = {} /\ Relief /\ \A i \in DOMAIN plan' : Needed(i)'
      BY <1>0, <1>1, <1>3, <2>2, NeededKept DEF CalmInv
    <3>2. \A b \in AssetIds : Held(b)' => Held(b)
      BY <1>1, <2>1 DEF Held
    <3> QED
      BY <1>0, <1>1, <2>1, <3>1, <3>2, ReliefKept
  <2> QED
    BY <1>1, <2>1, <2>2 DEF PassInv, CalmInv
<1> QED
  BY <1>2, <1>3 DEF Recheck

\* So does an action that fails.
LEMMA FailStep ==
  ASSUME PassInv, ActionFails
  PROVE  PassInv'
<1>0. Types /\ Sound
  BY DEF PassInv
<1>1. /\ plan # <<>> /\ Head(plan) = plan[1] /\ calm' = FALSE
      /\ UNCHANGED <<state, policy, last_read, due, quota, sweeping, now>>
      /\ plan' = Tail(plan) /\ stale' = stale \ {plan[1].asset}
  BY <1>0 DEF ActionFails, Leave, rowVars, limitVars, Types
<1>2. Sound' /\ plan' \in Seq(Acts)
  BY <1>0, <1>1, SoundTail, TailOf
<1>3. stale' \subseteq AssetIds /\ calm' \in BOOLEAN
  BY <1>0, <1>1 DEF Types
<1>4. Types'
  BY <1>0, <1>1, <1>2, <1>3 DEF Types
<1> QED
  BY <1>1, <1>2, <1>4 DEF PassInv, CalmInv

-----------------------------------------------------------------------------
(* Everybody else *)

\* A write to one row leaves the rest of the plan sound: the row's own action is void.
LEMMA SoundKept ==
  ASSUME Types, Sound, plan' = plan, NEW a, stale \subseteq stale',
         \A b \in AssetIds \ {a} : state'[b] = state[b] /\ policy'[b] = policy[b],
         a \in Planned => \/ a \in stale'
                          \/ state'[a] = state[a] /\ policy'[a] = policy[a]
                          \/ state[a] # "available"
  PROVE  Sound'
<1>1. \A i \in DOMAIN plan : plan[i].asset \in AssetIds /\ plan[i].asset \in Planned
  <2>1. \A i \in DOMAIN plan : plan[i] \in Acts
    BY DEF Types
  <2> QED
    BY <2>1 DEF Acts, Planned
<1>2. ASSUME NEW i \in DOMAIN plan, plan[i].reason # "age", plan[i].asset \notin stale'
      PROVE  LET b == plan[i].asset  s == SpaceOf[PartitionOf[b]] IN
             /\ state'[b] = "available" /\ policy'[b] = "inherit" /\ s \in Evictable
             /\ plan[i].reason = "pressure_lfu" => Capacity[s] # None
  <2>1. LET b == plan[i].asset  s == SpaceOf[PartitionOf[b]] IN
        /\ state[b] = "available" /\ policy[b] = "inherit" /\ s \in Evictable
        /\ plan[i].reason = "pressure_lfu" => Capacity[s] # None
    BY <1>2 DEF Sound
  <2>2. state'[plan[i].asset] = state[plan[i].asset] /\ policy'[plan[i].asset] = policy[plan[i].asset]
    BY <1>1, <1>2, <2>1
  <2> QED
    BY <2>1, <2>2
<1> QED
  BY <1>2 DEF Sound

\* A day or a waiting period that ends.
LEMMA TimeStep ==
  ASSUME PassInv, Day \/ \E a \in AssetIds : Age(a)
  PROVE  PassInv'
<1>0. Types /\ Sound /\ CalmInv
  BY DEF PassInv
<1>1. /\ UNCHANGED <<state, policy, last_read, quota, sweeping, plan, stale, exhausted, calm>>
      /\ now' \in Nat /\ due \subseteq due' /\ due' \subseteq AssetIds
  BY <1>0 DEF Day, Age, rowVars, limitVars, passVars, Types
<1>2. Types'
  BY <1>0, <1>1 DEF Types
<1>3. Sound'
  BY <1>0, <1>1, SoundKept
<1>4. ASSUME calm
      PROVE  CalmInv'
  <2>1. stale' = {} /\ Relief /\ \A i \in DOMAIN plan : Needed(i)
    BY <1>0, <1>1, <1>4 DEF CalmInv
  <2>2. \A i \in DOMAIN plan' : Needed(i)'
    BY <1>1, <2>1, NeededKept
  <2>3. Planned' = Planned
    BY <1>1 DEF Planned
  <2>4. \A b \in AssetIds : Held(b)' => Held(b)
    BY <1>1, <2>3 DEF Held
  <2>5. Relief'
    BY <1>0, <1>1, <2>1, <2>3, <2>4, ReliefKept
  <2> QED
    BY <2>1, <2>2, <2>5 DEF CalmInv
<1> QED
  BY <1>1, <1>2, <1>3, <1>4 DEF PassInv, CalmInv

\* A read: only one of a planned asset disturbs the pass.
LEMMA ReadStep ==
  ASSUME PassInv, NEW a \in AssetIds, Read(a)
  PROVE  PassInv'
<1>0. Types /\ Sound /\ CalmInv
  BY DEF PassInv
<1>1. /\ UNCHANGED <<state, policy, due, quota, sweeping, now, plan, exhausted>>
      /\ last_read' = [last_read EXCEPT ![a] = now] /\ calm' = (calm /\ a \notin Planned)
      /\ stale' = stale \cup ({a} \cap Planned)
  BY DEF Read, Touch, limitVars
<1>2. Types'
  <2>1. last_read' \in [AssetIds -> Nat]
    BY <1>0, <1>1 DEF Types
  <2>2. calm' \in BOOLEAN /\ stale' \subseteq AssetIds
    BY <1>0, <1>1 DEF Types
  <2> QED
    BY <1>0, <1>1, <2>1, <2>2 DEF Types
<1>3. Sound'
  <2>1. stale \subseteq stale' /\ plan' = plan
    BY <1>1
  <2> QED
    BY <1>0, <1>1, <2>1, SoundKept
<1>4. ASSUME calm'
      PROVE  CalmInv'
  <2>1. calm /\ a \notin Planned /\ stale' = {} /\ Relief /\ \A i \in DOMAIN plan : Needed(i)
    BY <1>0, <1>1, <1>4 DEF CalmInv
  <2>2. \A i \in DOMAIN plan' : Needed(i)'
    BY <1>1, <2>1, NeededKept
  <2>3. Planned' = Planned
    BY <1>1 DEF Planned
  <2>4. \A b \in AssetIds : Held(b)' => Held(b)
    BY <1>1, <2>3 DEF Held
  <2>5. Relief'
    BY <1>0, <1>1, <2>1, <2>3, <2>4, ReliefKept
  <2> QED
    BY <2>1, <2>2, <2>5 DEF CalmInv
<1> QED
  BY <1>2, <1>3, <1>4 DEF PassInv, CalmInv

\* expire_asset, delete_asset or the last alias detached: between passes it only helps.
LEMMA RetireStep ==
  ASSUME PassInv, NEW a \in AssetIds, NEW to \in {"expired", "void", "deleted"}, Retire(a, to)
  PROVE  PassInv'
<1>0. Types /\ Sound /\ CalmInv
  BY DEF PassInv
<1>1. /\ UNCHANGED <<policy, last_read, quota, sweeping, now, plan, exhausted>>
      /\ state' = [state EXCEPT ![a] = to] /\ due' = due \ {a}
      /\ calm' = (calm /\ plan = <<>>) /\ stale' = stale \cup ({a} \cap Planned)
      /\ \/ state[a] = "available" /\ to \in {"expired", "deleted"}
         \/ state[a] = "pending" /\ to \in {"void", "deleted"}
         \/ state[a] \in {"expired", "void"} /\ to = "deleted"
  BY DEF Retire, Touch, limitVars
<1>2. \A b \in AssetIds \ {a} : state'[b] = state[b] /\ policy'[b] = policy[b]
  BY <1>0, <1>1 DEF Types
<1>3. state'[a] = to
  BY <1>0, <1>1 DEF Types
<1>4. Types'
  <2>1. state' \in [AssetIds -> States]
    BY <1>0, <1>1 DEF Types, States
  <2>2. calm' \in BOOLEAN /\ stale' \subseteq AssetIds /\ due' \subseteq AssetIds
    BY <1>0, <1>1 DEF Types
  <2> QED
    BY <1>0, <1>1, <2>1, <2>2 DEF Types
<1>5. Sound'
  <2>1. stale \subseteq stale' /\ plan' = plan /\ (a \in Planned => a \in stale')
    BY <1>1
  <2> QED
    BY <1>0, <1>2, <2>1, SoundKept
<1>6. ASSUME calm'
      PROVE  CalmInv'
  <2>1. calm /\ plan' = <<>> /\ plan = <<>> /\ stale = {} /\ Relief
    BY <1>0, <1>1, <1>6 DEF CalmInv
  <2>2. Planned = {} /\ Planned' = {} /\ stale' = {} /\ DOMAIN plan' = {}
    BY <1>1, <2>1 DEF Planned
  <2>3. \A b \in AssetIds : Held(b)' => Held(b)
    BY <1>1, <1>2, <1>3, <2>2 DEF Held
  <2>4. \A b \in AssetIds : state'[b] = "available" /\ b \notin due' =>
          state[b] = "available" /\ b \notin due /\ (b \notin Planned' => b \notin Planned)
    BY <1>1, <1>2, <1>3, <2>2
  <2>5. Relief'
    BY <1>0, <1>1, <2>1, <2>3, <2>4, ReliefKept
  <2> QED
    BY <2>2, <2>5 DEF CalmInv
<1> QED
  BY <1>4, <1>5, <1>6 DEF PassInv, CalmInv

\* Uploads, restores and changes of policy or limits: the pass is no longer calm.
LEMMA DisturbingStep ==
  ASSUME PassInv,
         \/ WorkerDies
         \/ \E a \in AssetIds :
              \/ Commit(a) \/ SetAssetTtl(a)
              \/ \E pol \in {"inherit", "exempt"} : Reserve(a, pol) \/ SetEvictionPolicy(a, pol)
         \/ \E p \in Partitions, q \in Quotas, on \in BOOLEAN : SetPartitionQuota(p, q, on)
  PROVE  PassInv'
<1>0. Types /\ Sound
  BY DEF PassInv
<1>1. SUFFICES Types' /\ Sound' /\ ~calm'
  BY DEF PassInv, CalmInv
<1>2. CASE WorkerDies
  <2>1. /\ UNCHANGED <<state, policy, last_read, due, quota, sweeping, now>>
        /\ plan' = <<>> /\ stale' = {} /\ calm' = FALSE
    BY <1>2 DEF WorkerDies, rowVars, limitVars
  <2>2. Types'
    <3>1. <<>> \in Seq(Acts)
      OBVIOUS
    <3>2. plan' \in Seq(Acts) /\ stale' \subseteq AssetIds /\ calm' \in BOOLEAN
      BY <2>1, <3>1, Zenon
    <3> QED
      BY <1>0, <2>1, <3>2 DEF Types
  <2>3. Sound'
    BY <2>1 DEF Sound
  <2> QED
    BY <2>1, <2>2, <2>3
<1>3. ASSUME NEW a \in AssetIds, Commit(a)
      PROVE  Types' /\ Sound' /\ ~calm'
  <2>1. /\ UNCHANGED <<policy, last_read, quota, sweeping, now, plan>>
        /\ state' = [state EXCEPT ![a] = "available"] /\ due' = due \ {a}
        /\ stale' = stale \cup ({a} \cap Planned) /\ calm' = FALSE
    BY <1>3 DEF Commit, limitVars
  <2>2. state' \in [AssetIds -> States] /\ stale' \subseteq AssetIds /\ due' \subseteq AssetIds
    BY <1>0, <2>1 DEF Types, States
  <2>3. Types'
    BY <1>0, <2>1, <2>2 DEF Types
  <2>4. /\ \A b \in AssetIds \ {a} : state'[b] = state[b] /\ policy'[b] = policy[b]
        /\ stale \subseteq stale' /\ plan' = plan /\ (a \in Planned => a \in stale')
    BY <1>0, <2>1 DEF Types
  <2>5. Sound'
    BY <1>0, <2>4, SoundKept
  <2> QED
    BY <2>1, <2>3, <2>5
<1>4. ASSUME NEW a \in AssetIds, SetAssetTtl(a)
      PROVE  Types' /\ Sound' /\ ~calm'
  <2>1. /\ UNCHANGED <<policy, last_read, quota, sweeping, now, plan>>
        /\ state' = [state EXCEPT ![a] = "available"] /\ due' = due \ {a}
        /\ stale' = stale \cup ({a} \cap Planned) /\ calm' = FALSE
    BY <1>4 DEF SetAssetTtl, Touch, limitVars
  <2>2. state' \in [AssetIds -> States] /\ stale' \subseteq AssetIds /\ due' \subseteq AssetIds
    BY <1>0, <2>1 DEF Types, States
  <2>3. Types'
    BY <1>0, <2>1, <2>2 DEF Types
  <2>4. /\ \A b \in AssetIds \ {a} : state'[b] = state[b] /\ policy'[b] = policy[b]
        /\ stale \subseteq stale' /\ plan' = plan /\ (a \in Planned => a \in stale')
    BY <1>0, <2>1 DEF Types
  <2>5. Sound'
    BY <1>0, <2>4, SoundKept
  <2> QED
    BY <2>1, <2>3, <2>5
<1>5. ASSUME NEW a \in AssetIds, NEW pol \in {"inherit", "exempt"}, Reserve(a, pol)
      PROVE  Types' /\ Sound' /\ ~calm'
  <2>1. /\ UNCHANGED <<due, quota, sweeping, now, plan, stale>>
        /\ state[a] = "absent" /\ state' = [state EXCEPT ![a] = "pending"]
        /\ policy' = [policy EXCEPT ![a] = pol] /\ last_read' = [last_read EXCEPT ![a] = now]
        /\ calm' = FALSE
    BY <1>5 DEF Reserve, limitVars, passVars
  <2>2. /\ state' \in [AssetIds -> States] /\ policy' \in [AssetIds -> {"inherit", "exempt"}]
        /\ last_read' \in [AssetIds -> Nat]
    BY <1>0, <2>1 DEF Types, States
  <2>3. Types'
    BY <1>0, <2>1, <2>2 DEF Types
  <2>4. /\ \A b \in AssetIds \ {a} : state'[b] = state[b] /\ policy'[b] = policy[b]
        /\ stale \subseteq stale' /\ plan' = plan /\ state[a] # "available"
    BY <1>0, <2>1 DEF Types
  <2>5. Sound'
    BY <1>0, <2>4, SoundKept
  <2> QED
    BY <2>1, <2>3, <2>5
<1>6. ASSUME NEW a \in AssetIds, NEW pol \in {"inherit", "exempt"}, SetEvictionPolicy(a, pol)
      PROVE  Types' /\ Sound' /\ ~calm'
  <2>1. /\ UNCHANGED <<state, last_read, due, quota, sweeping, now, plan>>
        /\ policy' = [policy EXCEPT ![a] = pol]
        /\ stale' = stale \cup ({a} \cap Planned) /\ calm' = FALSE
    BY <1>6 DEF SetEvictionPolicy, Touch, limitVars
  <2>2. policy' \in [AssetIds -> {"inherit", "exempt"}] /\ stale' \subseteq AssetIds
    BY <1>0, <2>1 DEF Types
  <2>3. Types'
    BY <1>0, <2>1, <2>2 DEF Types
  <2>4. /\ \A b \in AssetIds \ {a} : state'[b] = state[b] /\ policy'[b] = policy[b]
        /\ stale \subseteq stale' /\ plan' = plan /\ (a \in Planned => a \in stale')
    BY <1>0, <2>1 DEF Types
  <2>5. Sound'
    BY <1>0, <2>4, SoundKept
  <2> QED
    BY <2>1, <2>3, <2>5
<1>7. ASSUME NEW p \in Partitions, NEW q \in Quotas, NEW on \in BOOLEAN, SetPartitionQuota(p, q, on)
      PROVE  Types' /\ Sound' /\ ~calm'
  <2>1. /\ UNCHANGED <<state, policy, last_read, due, now, plan, stale>>
        /\ quota' = [quota EXCEPT ![p] = q]
        /\ sweeping' = (IF on THEN sweeping \cup {p} ELSE sweeping \ {p}) /\ calm' = FALSE
    BY <1>7 DEF SetPartitionQuota, rowVars, passVars
  <2>2. quota' \in [Partitions -> Nat \cup {None}] /\ sweeping' \subseteq Partitions
    BY <1>0, <2>1, EvictionAssumption DEF Types
  <2>3. Types'
    BY <1>0, <2>1, <2>2 DEF Types
  <2>4. Sound'
    BY <1>0, <2>1 DEF Sound
  <2> QED
    BY <2>1, <2>3, <2>4
<1> QED
  BY <1>2, <1>3, <1>4, <1>5, <1>6, <1>7

\* The invariant holds at the start: there is no plan and nothing is calm.
LEMMA EvictionStart ==
  ASSUME EvictionInit
  PROVE  EvictionInv
<1>1. Types
  <2>1. /\ state \in [AssetIds -> States] /\ policy \in [AssetIds -> {"inherit", "exempt"}]
        /\ last_read \in [AssetIds -> Nat] /\ now \in Nat
    BY DEF EvictionInit, States
  <2>2. quota \in [Partitions -> Nat \cup {None}] /\ sweeping \subseteq Partitions
    BY EvictionAssumption DEF EvictionInit
  <2>e. <<>> \in Seq(Acts)
    OBVIOUS
  <2>3. due \subseteq AssetIds /\ stale \subseteq AssetIds /\ plan \in Seq(Acts) /\ calm \in BOOLEAN
    BY <2>e, Zenon DEF EvictionInit
  <2> QED
    BY <2>1, <2>2, <2>3 DEF Types
<1>2. Sound /\ CalmInv
  BY DEF EvictionInit, Sound, CalmInv
<1>3. Window
  BY DEF EvictionInit, Window
<1> QED
  BY <1>1, <1>2, <1>3 DEF EvictionInv, PassInv

\* Every step keeps the plan sound and, while undisturbed, needed.
LEMMA PassKept ==
  ASSUME PassInv, Window, [EvictionNext]_evictionVars
  PROVE  PassInv'
<1>1. CASE UNCHANGED evictionVars
  <2>1. UNCHANGED <<state, policy, last_read, due, quota, sweeping, now, plan, stale, exhausted, calm>>
    BY <1>1 DEF evictionVars
  <2>2. Types' /\ Sound' /\ Planned' = Planned /\ (calm => stale' = {} /\ Relief)
    BY <2>1 DEF PassInv, Types, Sound, CalmInv, Planned
  <2>3. ASSUME calm
        PROVE  Relief' /\ \A i \in DOMAIN plan' : Needed(i)'
    <3>1. \A i \in DOMAIN plan' : Needed(i)'
      BY <2>1, <2>3, NeededKept DEF PassInv, CalmInv
    <3>2. \A b \in AssetIds : Held(b)' => Held(b)
      BY <2>1, <2>2 DEF Held
    <3>3. Relief'
      BY <2>1, <2>2, <2>3, <3>2, ReliefKept DEF PassInv
    <3> QED
      BY <3>1, <3>3
  <2> QED
    BY <2>1, <2>2, <2>3 DEF PassInv, CalmInv
<1>2. CASE Apply
  BY <1>2, ApplyStep DEF Apply, Window
<1>3. CASE EvictionNext /\ ~Apply
  BY <1>3, PlanStep, RecheckStep, FailStep, TimeStep, ReadStep, RetireStep, DisturbingStep
  DEF EvictionNext, Sweep
<1> QED
  BY <1>1, <1>2, <1>3

\* The window survives whatever leaves its row alone and is remembered: an asset that
\* leaves service is in gone, a partition with new limits in relimited.
LEMMA WindowKept ==
  ASSUME Types, Window, UNCHANGED <<plan, checked>>,
         checked => Head(plan).asset \notin stale',
         gone \subseteq gone', gone' \subseteq AssetIds, ~checked => gone' = gone,
         checked => \A b \in AssetIds : state[b] = "available" => state'[b] = "available" \/ b \in gone',
         relimited \subseteq relimited',
         checked => \A p \in Partitions : quota'[p] = quota[p] \/ p \in relimited'
  PROVE  Window'
<1>1. CASE ~checked
  BY <1>1 DEF Window
<1>2. CASE checked
  <2>0. PICK a, p, s : a = Head(plan).asset /\ p = PartitionOf[a] /\ s = SpaceOf[p]
    OBVIOUS
  <2>1. plan # <<>> /\ a \in AssetIds /\ p \in Partitions /\ s \in Spaces
    <3>1. plan # <<>> /\ plan \in Seq(Acts)
      BY <1>2 DEF Window, Types
    <3>2. Head(plan) \in Acts
      BY <3>1
    <3> QED
      BY <2>0, <3>1, <3>2, EvictionAssumption DEF Acts
  <2>2. ASSUME NEW S \in SUBSET AssetIds
        PROVE  /\ Bytes(Available(S) \cup (gone \cap S)) <= Bytes(Available(S) \cup (gone \cap S))'
               /\ Bytes(Available(S) \cup (gone \cap S))' \in Nat
               /\ Bytes(Available(S) \cup (gone \cap S)) \in Nat
    <3>1. /\ Available(S) \cup (gone \cap S) \in SUBSET (Available(S) \cup (gone \cap S))'
          /\ (Available(S) \cup (gone \cap S))' \in SUBSET AssetIds
      BY <1>2 DEF Available
    <3>2. Bytes(Available(S) \cup (gone \cap S))' = Bytes((Available(S) \cup (gone \cap S))')
      BY DEF Bytes, Units
    <3> QED
      BY <3>1, <3>2, BytesWithin
  <2>3. /\ UsedAtRecheck(In(p)) <= UsedAtRecheck(In(p))'
        /\ UsedAtRecheck(In(p)) \in Nat /\ UsedAtRecheck(In(p))' \in Nat
    BY <2>2, In(p) \in SUBSET AssetIds, In(p)' = In(p) DEF In, UsedAtRecheck
  <2>4. /\ UsedAtRecheck(Within(s)) <= UsedAtRecheck(Within(s))'
        /\ UsedAtRecheck(Within(s)) \in Nat /\ UsedAtRecheck(Within(s))' \in Nat
    BY <2>2, Within(s) \in SUBSET AssetIds, Within(s)' = Within(s) DEF Within, UsedAtRecheck
  <2>5. /\ quota[p] # None => quota[p] \in Nat
        /\ Capacity[s] # None => Capacity[s] \in Nat
    BY <2>1, EvictionAssumption DEF Types
  <2>6. quota'[p] = quota[p] \/ p \in relimited'
    BY <1>2, <2>1
  <2>7. NeededAtRecheck(a) /\ quota'[p] = quota[p] => NeededAtRecheck(a)'
    BY <2>0, <2>3, <2>4, <2>5 DEF NeededAtRecheck, QuotaMet, QuotaTarget, PressureMet, PressureTarget
  <2>8. Head(plan).reason # "age" => NeededAtRecheck(a) \/ p \in relimited
    BY <1>2, <2>0 DEF Window
  <2>9. Head(plan).reason # "age" => NeededAtRecheck(a)' \/ p \in relimited'
    BY <2>6, <2>7, <2>8
  <2>10. Head(plan)' = Head(plan) /\ plan' # <<>> /\ a \notin stale' /\ checked'
    BY <1>2, <2>0, <2>1
  <2>11. /\ checked' => plan' # <<>> /\ Head(plan)'.asset \notin stale'
         /\ gone' \subseteq AssetIds /\ (~checked' => gone' = {})
    BY <2>0, <2>10
  <2>12. Head(plan)'.reason # "age" =>
           NeededAtRecheck(Head(plan).asset)' \/ PartitionOf[Head(plan)'.asset] \in relimited'
    BY <2>0, <2>9, <2>10
  <2> QED
    BY <2>11, <2>12 DEF Window
<1> QED
  BY <1>1, <1>2

\* The recheck opens the window on an action that is needed.
LEMMA WindowOpens ==
  ASSUME Types, Sound, Window, Recheck
  PROVE  Window'
<1> DEFINE a == Head(plan).asset
           r == Head(plan).reason
           p == PartitionOf[a]
           s == SpaceOf[p]
<1>1. CASE Skipped(a, r)
  BY <1>1 DEF Recheck, Leave, Window
<1>2. CASE ~Skipped(a, r)
  <2>1. /\ plan # <<>> /\ gone = {} /\ checked' = TRUE
        /\ UNCHANGED <<state, quota, plan, stale, gone, relimited>>
    BY <1>2 DEF Recheck, Window, rowVars, limitVars
  <2>2. a \notin stale /\ ~Needless(a, r)
    BY <1>2 DEF Skipped
  <2>3. 1 \in DOMAIN plan /\ Head(plan) = plan[1] /\ plan[1] \in Acts
    BY <2>1 DEF Types
  <2>4. r \in {"age", "quota_lfu", "pressure_lfu"}
    BY <2>3 DEF Acts
  <2>5. r = "pressure_lfu" => Capacity[s] # None
    BY <2>2, <2>3 DEF Sound
  <2>6. \A S : UsedAtRecheck(S) = Used(S)
    BY <2>1 DEF UsedAtRecheck, Used
  <2>7. r # "age" => NeededAtRecheck(a)
    BY <2>2, <2>4, <2>5, <2>6 DEF Needless, NeededAtRecheck
  <2>8. NeededAtRecheck(a)' <=> NeededAtRecheck(a)
    BY <2>1 DEF NeededAtRecheck, UsedAtRecheck, QuotaMet, PressureMet, Bytes, Units, Available,
      In, Within
  <2>9. Head(plan)' = Head(plan)
    BY <2>1
  <2> QED
    BY <2>1, <2>2, <2>7, <2>8, <2>9 DEF Window
<1> QED
  BY <1>1, <1>2

\* Every step keeps the window.
LEMMA WindowStep ==
  ASSUME Types, Sound, Window, [EvictionNext]_evictionVars
  PROVE  Window'
<1>1. CASE Recheck
  BY <1>1, WindowOpens
<1>2. CASE Apply \/ ActionFails \/ WorkerDies
  BY <1>2 DEF Apply, ActionFails, WorkerDies, Leave, Window
<1>3. CASE Plan
  <2>1. ~checked /\ UNCHANGED <<checked, gone, relimited>>
    BY <1>3 DEF Plan, Window, windowVars
  <2> QED
    BY <2>1 DEF Window
<1>4. CASE UNCHANGED evictionVars \/ Day \/ \E a \in AssetIds : Age(a)
  <2>1. UNCHANGED <<state, quota, plan, stale, checked, gone, relimited>>
    BY <1>4 DEF evictionVars, Day, Age, rowVars, limitVars, windowVars, passVars
  <2> QED
    BY <2>1, WindowKept DEF Window
<1>5. ASSUME NEW a \in AssetIds, Read(a) \/ \E pol \in {"inherit", "exempt"} : SetEvictionPolicy(a, pol)
      PROVE  Window'
  <2>1. /\ UNCHANGED <<state, quota, plan, checked, gone, relimited>> /\ Unlocked(a)
        /\ stale' = stale \cup ({a} \cap Planned)
    BY <1>5 DEF Read, SetEvictionPolicy, Touch, limitVars, windowVars
  <2> QED
    BY <2>1, WindowKept DEF Window, Unlocked
<1>6. ASSUME NEW a \in AssetIds, Commit(a) \/ SetAssetTtl(a)
      PROVE  Window'
  <2>1. /\ UNCHANGED <<quota, plan, checked, gone, relimited>> /\ Unlocked(a)
        /\ stale' = stale \cup ({a} \cap Planned)
        /\ state' = [state EXCEPT ![a] = "available"]
    BY <1>6 DEF Commit, SetAssetTtl, Touch, limitVars, windowVars
  <2>2. \A b \in AssetIds : state[b] = "available" => state'[b] = "available"
    BY <2>1 DEF Types
  <2> QED
    BY <2>1, <2>2, WindowKept DEF Window, Unlocked
<1>7. ASSUME NEW a \in AssetIds, NEW pol \in {"inherit", "exempt"}, Reserve(a, pol)
      PROVE  Window'
  <2>1. /\ UNCHANGED <<quota, plan, stale, checked, gone, relimited>>
        /\ state[a] = "absent" /\ state' = [state EXCEPT ![a] = "pending"]
    BY <1>7 DEF Reserve, limitVars, windowVars, passVars
  <2>2. \A b \in AssetIds : state[b] = "available" => state'[b] = "available"
    BY <2>1 DEF Types
  <2> QED
    BY <2>1, <2>2, WindowKept DEF Window
<1>8. ASSUME NEW a \in AssetIds, NEW to \in {"expired", "void", "deleted"}, Retire(a, to)
      PROVE  Window'
  <2>1. /\ UNCHANGED <<quota, plan, checked, relimited>> /\ Unlocked(a)
        /\ stale' = stale \cup ({a} \cap Planned)
        /\ state' = [state EXCEPT ![a] = to]
        /\ gone' = IF checked /\ state[a] = "available" THEN gone \cup {a} ELSE gone
    BY <1>8 DEF Retire, Touch, limitVars
  <2>2. checked => \A b \in AssetIds :
          state[b] = "available" => state'[b] = "available" \/ b \in gone'
    BY <2>1 DEF Types
  <2>3. gone \subseteq gone' /\ gone' \subseteq AssetIds /\ (~checked => gone' = gone)
    BY <2>1 DEF Window
  <2>4. checked => Head(plan).asset \notin stale'
    BY <2>1 DEF Window, Unlocked
  <2> QED
    BY <2>1, <2>2, <2>3, <2>4, WindowKept
<1>9. ASSUME NEW p \in Partitions, NEW q \in Quotas, NEW on \in BOOLEAN, SetPartitionQuota(p, q, on)
      PROVE  Window'
  <2>1. /\ UNCHANGED <<state, plan, stale, checked, gone>>
        /\ quota' = [quota EXCEPT ![p] = q]
        /\ relimited' = IF checked THEN relimited \cup {p} ELSE relimited
    BY <1>9 DEF SetPartitionQuota, rowVars, passVars
  <2>2. checked => \A r \in Partitions : quota'[r] = quota[r] \/ r \in relimited'
    BY <2>1 DEF Types
  <2>3. relimited \subseteq relimited' /\ (checked => Head(plan).asset \notin stale')
    BY <2>1 DEF Window
  <2> QED
    BY <2>1, <2>2, <2>3, WindowKept DEF Window
<1> QED
  BY <1>1, <1>2, <1>3, <1>4, <1>5, <1>6, <1>7, <1>8, <1>9 DEF EvictionNext, Sweep

\* Every step keeps the invariant.
LEMMA EvictionKept ==
  ASSUME EvictionInv, [EvictionNext]_evictionVars
  PROVE  EvictionInv'
BY PassKept, WindowStep DEF EvictionInv, PassInv

\* In a settled store plan_sweep selects nothing for space.
LEMMA NothingToSelect ==
  ASSUME EvictionInv, calm, plan = <<>>
  PROVE  ByQuota = {} /\ ByPressure = {}
<1>0. Types /\ Relief
  BY DEF EvictionInv, PassInv, CalmInv
<1>1. \A S : Rest(S) = Available(S) \ due
  BY DEF Rest, Planned
<1>2. ASSUME NEW p \in Partitions
      PROVE  ForQuota(p) = {}
  <2>1. QuotaRest(p) = Rest(In(p)) /\ QuotaRest(p) \in SUBSET AssetIds
    BY <1>1 DEF QuotaRest, Available, In, Overdue, Listed
  <2>2. ASSUME OverQuota(p, QuotaRest(p))
        PROVE  Eligible(QuotaRest(p)) = {}
    BY <1>0, <1>1, <2>1, <2>2, MetIsNotOver DEF Relief, QuotaRelief
  <2> QED
    BY <2>2 DEF ForQuota, Evicted
<1>3. ASSUME NEW s \in Spaces, Pressed(s)
      PROVE  Evicted(PressureRest(s), PressureTarget * Capacity[s]) = {}
  <2> DEFINE L == Rest(Within(s))
             R == PressureRest(s)
             t == PressureTarget * Capacity[s]
  <2>1. R \subseteq L /\ R \in SUBSET AssetIds /\ L \in SUBSET AssetIds
    BY <1>1 DEF PressureRest, Selected, Available, Within, Overdue, Listed
  <2>2. Capacity[s] \in Nat /\ t \in Int
    BY <1>3, EvictionAssumption DEF Pressed, PressureTarget
  <2>3. PressureMet(Bytes(L), Capacity[s]) \/ Eligible(L) = {}
    BY <1>0, <1>3, PressedNow DEF Relief, PressureRelief
  <2> HIDE DEF L, R
  <2>4. CASE Eligible(L) = {}
    <3>1. Eligible(R) = {}
      BY <2>1, <2>4 DEF Eligible
    <3> QED
      BY <3>1 DEF Evicted, R
  <2>5. CASE PressureMet(Bytes(L), Capacity[s])
    <3>1. Bytes(R) <= Bytes(L) /\ Bytes(R) \in Nat /\ Bytes(L) \in Nat
      BY <2>1, BytesWithin
    <3>2. 100 * Bytes(R) <= t
      BY <2>2, <2>5, <3>1 DEF PressureMet, PressureTarget
    <3>3. ASSUME NEW a \in Evicted(R, t)
          PROVE  ~(100 * Bytes(R \ {}) <= t)
      <4> HIDE DEF t
      <4> QED
        BY <1>0, <2>1, <2>2, EvictedNeeded
    <3>4. R \ {} = R
      OBVIOUS
    <3> QED
      BY <3>2, <3>3, <3>4 DEF R
  <2> QED
    BY <2>3, <2>4, <2>5
<1>4. \A s \in Spaces : ForPressure(s) = {}
  BY <1>3 DEF ForPressure
<1> QED
  BY <1>2, <1>4 DEF ByQuota, ByPressure

-----------------------------------------------------------------------------
(* The theorems *)

\* The invariant holds throughout.
THEOREM EvictionSound == EvictionSpec => []EvictionInv
<1> QED
  BY EvictionStart, EvictionKept, PTL DEF EvictionSpec

\* After an undisturbed pass whatever is still over its trigger has been reported
\* exhausted by plan_sweep.
THEOREM ReliefSafe == EvictionSpec => []ReliefOrReported
<1>1. ASSUME EvictionInv
      PROVE  ReliefOrReported
  <2>1. SUFFICES ASSUME calm, plan = <<>>
                 PROVE  /\ \A p \in Partitions :
                             OverQuota(p, Available(In(p)) \ due) => SpaceOf[p] \in exhausted
                        /\ \A s \in Spaces :
                             Pressed(s) /\ ~PressureMet(Bytes(Available(Within(s)) \ due), Capacity[s]) =>
                               s \in exhausted
    BY DEF ReliefOrReported
  <2>2. Types /\ Relief
    BY <1>1, <2>1 DEF EvictionInv, PassInv, CalmInv
  <2>3. \A S : Rest(S) = Available(S) \ due
    BY <2>1 DEF Rest, Planned
  <2>4. ASSUME NEW p \in Partitions, OverQuota(p, Available(In(p)) \ due)
        PROVE  SpaceOf[p] \in exhausted
    <3>1. Available(In(p)) \ due \in SUBSET AssetIds
      BY DEF Available, In
    <3>2. ~QuotaMet(Bytes(Available(In(p)) \ due), quota[p])
      BY <2>2, <2>4, <3>1, MetIsNotOver
    <3> QED
      BY <2>2, <2>3, <2>4, <3>2 DEF Relief, QuotaRelief
  <2>5. ASSUME NEW s \in Spaces, Pressed(s),
               ~PressureMet(Bytes(Available(Within(s)) \ due), Capacity[s])
        PROVE  s \in exhausted
    BY <2>2, <2>3, <2>5, PressedNow DEF Relief, PressureRelief
  <2> QED
    BY <2>4, <2>5
<1> QED
  BY <1>1, EvictionSound, PTL

\* Expired bytes count as relief: after an undisturbed pass plan_sweep selects
\* nothing for space until somebody adds to the store or changes a limit or policy.
THEOREM SettledSafe == EvictionSpec => SettledStays
<1>1. ASSUME EvictionInv, [EvictionNext]_evictionVars, calm, plan = <<>>, plan' # <<>>
      PROVE  Reasons' \subseteq {"age"}
  <2>1. Plan
    BY <1>1 DEF EvictionInv, Window, EvictionNext, Sweep, Recheck, Apply, ActionFails, WorkerDies,
      Day, Commit, Read, SetAssetTtl, Age, Reserve, SetEvictionPolicy, Retire, SetPartitionQuota,
      passVars, evictionVars
  <2>2. Shape(plan')
    BY <1>1, <2>1, PlanShape DEF Plan, EvictionInv, PassInv
  <2>3. ByQuota = {} /\ ByPressure = {}
    BY <1>1, NothingToSelect
  <2>4. \A i \in DOMAIN plan' : plan'[i].reason = "age"
    BY <2>2, <2>3 DEF Shape
  <2> QED
    BY <2>4 DEF Reasons
<1>2. EvictionInv /\ [EvictionNext]_evictionVars =>
        [calm /\ plan = <<>> /\ plan' # <<>> => Reasons' \subseteq {"age"}]_evictionVars
  BY <1>1
<1> QED
  BY <1>2, EvictionSound, PTL DEF EvictionSpec, SettledStays

\* However old the plan, run_sweep evicts for space only what may be evicted and what
\* the partition or the bucket needed at the recheck: nothing but a retirement or a new
\* limit between this one recheck and its write can make an eviction needless.
THEOREM NeedSafe == EvictionSpec => EvictsOnlyForNeed
<1>1. ASSUME EvictionInv, [EvictionNext]_evictionVars
      PROVE  EvictionStep
  <2> DEFINE a == Head(plan).asset
             p == PartitionOf[a]
             s == SpaceOf[p]
  <2>1. SUFFICES ASSUME plan # <<>>, Head(plan).reason # "age", state'[a] # state[a],
                        plan' = Tail(plan)
                 PROVE  /\ policy[a] = "inherit" /\ s \in Evictable
                        /\ state[a] = "available" /\ state'[a] = "expired"
                        /\ NeededAtRecheck(a) \/ p \in relimited
    BY DEF EvictionStep
  <2>2. Types /\ Sound /\ Window
    BY <1>1 DEF EvictionInv, PassInv
  <2>3. /\ 1 \in DOMAIN plan /\ Head(plan) = plan[1] /\ plan' # plan
        /\ \A i \in DOMAIN plan : plan[i].asset \in AssetIds
    BY <2>1, <2>2, TailOf
  <2>4. Apply
    BY <1>1, <2>1, <2>3 DEF EvictionNext, Sweep, Plan, Recheck, ActionFails, WorkerDies, Day,
      Commit, Read, SetAssetTtl, Age, Reserve, SetEvictionPolicy, Retire, SetPartitionQuota,
      passVars, rowVars, evictionVars
  <2>5. checked
    BY <2>4 DEF Apply
  <2>6. a \notin stale /\ (NeededAtRecheck(a) \/ p \in relimited)
    BY <2>1, <2>2, <2>5 DEF Window
  <2>7. state[a] = "available" /\ policy[a] = "inherit" /\ s \in Evictable
    BY <2>1, <2>2, <2>3, <2>6 DEF Sound
  <2>8. state'[a] = "expired"
    <3>1. state' = [state EXCEPT ![a] = "expired"]
      BY <2>4, <2>7 DEF Apply
    <3> QED
      BY <2>2, <2>3, <3>1 DEF Types
  <2> QED
    BY <2>6, <2>7, <2>8
<1>2. EvictionInv /\ [EvictionNext]_evictionVars => [EvictionStep]_evictionVars
  BY <1>1
<1> QED
  BY <1>2, EvictionSound, PTL DEF EvictionSpec, EvictsOnlyForNeed
=============================================================================
