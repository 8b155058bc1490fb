------------------------------ MODULE Eviction ------------------------------
(***************************************************************************)
(* Which assets the lifecycle worker expires to make room (lifecycle.py):  *)
(* plan_sweep selects from one snapshot of the rows, run_sweep applies the *)
(* selection action by action: it locks the row, skips the action if the   *)
(* row or the reason has gone, and writes.  The row lock is not the quota  *)
(* rows' lock, so uploads, readers and administrators of other assets go   *)
(* on between the two, as they do between actions.  AssetStore has the two *)
(* transactions of a purge and what they do to the bytes; here a purge is  *)
(* one step that succeeds or leaves the asset deleted.  Every upload       *)
(* declares its size, as write_object does.                                *)
(***************************************************************************)
EXTENDS Integers, Sequences, FiniteSets

CONSTANTS
  AssetIds,    \* natural numbers: ids break ties
  Partitions,  \* natural numbers: partitions are swept in order
  Spaces, Evictable,  \* buckets, and those swept for space (cache, tmp)
  PartitionOf, SpaceOf,
  MaxBytes,    \* largest payload
  SizeOf,      \* payload sizes
  Quotas,      \* byte quotas an administrator sets, or None
  FirstQuota,  \* those in force at the start
  Capacity,    \* ASSET_STORE_CAPACITY_BYTES per bucket, or None
  Aging,       \* assets whose waiting periods end in the time considered
  MaxTime,     \* bound on the days that pass
  MaxTouches,  \* bound on reads, edits and changes of limits
  None

ASSUME EvictionAssumption ==
  /\ AssetIds \subseteq Nat /\ Partitions \subseteq Nat /\ Evictable \subseteq Spaces
  /\ IsFiniteSet(AssetIds) /\ IsFiniteSet(Partitions)
  /\ PartitionOf \in [AssetIds -> Partitions] /\ SpaceOf \in [Partitions -> Spaces]
  /\ MaxBytes \in Nat /\ SizeOf \in [AssetIds -> 0..MaxBytes] /\ Aging \subseteq AssetIds
  /\ Quotas \subseteq Nat \cup {None} /\ FirstQuota \in [Partitions -> Quotas]
  /\ Capacity \in [Spaces -> (Nat \ {0}) \cup {None}]
  /\ MaxTime \in Nat /\ MaxTouches \in Nat

VARIABLES
  state,      \* assets.state; "purged" is deleted with payload_deleted_at set,
              \* "void" expired without having been committed
  policy,     \* eviction_policy: inherit or exempt
  last_read,  \* last_read_at, or created_at while unread, in days
  due,        \* rows whose deadline, pending timeout or grace period is over
  quota,      \* partition_quotas.quota_bytes
  sweeping,   \* partitions with eviction_sweep_enabled
  now,
  plan,       \* the actions of the pass still to be applied
  stale,      \* planned rows changed since the snapshot
  checked,    \* the row of the next action is locked, and the action found needed
  gone, relimited,  \* since then: assets others took out of service, and partitions
              \* whose limits changed
  exhausted,  \* the buckets the pass reports
  calm,       \* since the last snapshot nobody has added to the store or changed a
              \* limit or policy, nor read a planned asset or retired one during the pass
  touches

rowVars == <<state, policy, last_read, due>>
limitVars == <<quota, sweeping>>
windowVars == <<checked, gone, relimited>>
passVars == <<plan, stale, exhausted>>
evictionVars == <<state, policy, last_read, due, quota, sweeping, now,
                  plan, stale, checked, gone, relimited, exhausted, calm, touches>>

\* A sum of sizes, by counting the bytes (as in Registry).
Units(S) == {u \in S \X (1..MaxBytes) : u[2] <= SizeOf[u[1]]}
Bytes(S) == Cardinality(Units(S))
In(p) == {a \in AssetIds : PartitionOf[a] = p}
Within(s) == {a \in AssetIds : SpaceOf[PartitionOf[a]] = s}
Available(S) == {a \in S : state[a] = "available"}
\* list_assets
Listed(S) == {a \in S : state[a] \notin {"absent", "purged"}}

\* used_bytes of the counters: available assets (UsageMatchesAvailable, UsageExact).
Used(S) == Bytes(Available(S))

-----------------------------------------------------------------------------
(* SweepPolicy: the default ratios, in percent *)

OverTrigger(n, limit) == 100 * n >= 90 * limit
QuotaTarget == 75
PressureTarget == 70
QuotaMet(n, limit) == 100 * n <= QuotaTarget * limit
PressureMet(n, limit) == 100 * n <= PressureTarget * limit

-----------------------------------------------------------------------------
(* plan_sweep *)

\* Selected by age: overdue rows, and deleted ones whose payload is left.
Overdue == {a \in Listed(AssetIds) : state[a] = "deleted" \/ a \in due}
Purgeable == {a \in Overdue : state[a] # "available"}

\* _score: days since the last read times size; ids break ties.
Score(a) == (now - last_read[a]) * SizeOf[a]
Before(a, b) == Score(a) > Score(b) \/ (Score(a) = Score(b) /\ a > b)

Eligible(S) == {a \in S : policy[a] = "inherit"}

\* evict, with rest the group's available assets not selected so far: in the
\* order of Before, those reached while the remaining bytes miss the target (in
\* hundredths of a byte).
Evicted(rest, target) ==
  {a \in Eligible(rest) :
     100 * (Bytes(rest) - Bytes({b \in Eligible(rest) : Before(b, a)})) > target}

\* S in the order Lt, as a sequence of actions; there is one, Lt being total.
Listings(S, Lt(_, _), reason) ==
  {q \in [1..Cardinality(S) -> [asset : S, reason : {reason}]] :
     /\ \A a \in S : \E i \in DOMAIN q : q[i].asset = a
     /\ \A i, j \in DOMAIN q : i < j => Lt(q[i].asset, q[j].asset)}

\* The assets S of partition p are many enough for a sweep.
OverQuota(p, S) ==
  /\ SpaceOf[p] \in Evictable /\ p \in sweeping /\ quota[p] # None
  /\ Bytes(S) > 0 /\ OverTrigger(Bytes(S), quota[p])

QuotaRest(p) == Available(In(p)) \ Overdue

\* The quota_lfu selection of partition p.
ForQuota(p) ==
  IF OverQuota(p, QuotaRest(p))
  THEN Evicted(QuotaRest(p), QuotaTarget * quota[p])
  ELSE {}

Selected == Overdue \cup UNION {ForQuota(p) : p \in Partitions}

\* projected_physical: bytes of the bucket not purged by this very pass.
Projected(s) == Bytes(Listed(Within(s)) \ Purgeable)

Pressed(s) ==
  s \in Evictable /\ Capacity[s] # None /\ OverTrigger(Projected(s), Capacity[s])

\* Mutant: the bytes of expired assets are taken to need relief again.
PressureRest_Physical(s) == Listed(Within(s)) \ Purgeable
PressureRest(s) == Available(Within(s)) \ Selected

\* The pressure_lfu selection of bucket s.
ForPressure(s) ==
  IF Pressed(s)
  THEN Evicted(PressureRest(s), PressureTarget * Capacity[s])
  ELSE {}

\* The selections in the order they are made; that of actions in different
\* buckets, which share no counter, makes no difference.
AgeActions == Listings(Overdue, LAMBDA a, b : a < b, "age")
QuotaActions == Listings(UNION {ForQuota(p) : p \in Partitions},
  LAMBDA a, b : \/ PartitionOf[a] < PartitionOf[b]
                \/ PartitionOf[a] = PartitionOf[b] /\ Before(a, b), "quota_lfu")
PressureActions == Listings(UNION {ForPressure(s) : s \in Spaces}, Before, "pressure_lfu")

\* Mutant: only quotas are reported.
Exhausted_QuotaOnly ==
  {SpaceOf[p] : p \in {q \in Partitions :
     OverQuota(q, QuotaRest(q)) /\ ~QuotaMet(Bytes(QuotaRest(q) \ ForQuota(q)), quota[q])}}

\* Buckets where what is left misses the low-water mark.
Exhausted ==
  {SpaceOf[p] : p \in {q \in Partitions :
     OverQuota(q, QuotaRest(q)) /\ ~QuotaMet(Bytes(QuotaRest(q) \ ForQuota(q)), quota[q])}}
  \cup {s \in Spaces :
     Pressed(s) /\ ~PressureMet(Bytes(PressureRest(s) \ ForPressure(s)), Capacity[s])}

Plan ==
  /\ plan = <<>>
  /\ \E age \in AgeActions, byQuota \in QuotaActions, byPressure \in PressureActions :
       plan' = age \o byQuota \o byPressure
  /\ exhausted' = Exhausted /\ stale' = {} /\ calm' = TRUE
  /\ UNCHANGED <<rowVars, limitVars, windowVars, now, touches>>

-----------------------------------------------------------------------------
(* run_sweep --apply *)

\* Mutant: the reason is not checked again.
Needless_Never(a, reason) == FALSE

\* Mutant: the recheck leaves the low-water ratio out.
Needless_WithinQuota(a, reason) ==
  LET p == PartitionOf[a] IN
  reason = "quota_lfu" /\ (p \notin sweeping \/ quota[p] = None \/ Used(In(p)) <= quota[p])

\* Rechecks of quota_lfu and pressure_lfu, with the counters of the moment.
Needless(a, reason) ==
  LET p == PartitionOf[a]  s == SpaceOf[p] IN
  \/ reason = "quota_lfu" /\ (p \notin sweeping \/ quota[p] = None \/ QuotaMet(Used(In(p)), quota[p]))
  \/ reason = "pressure_lfu" /\ PressureMet(Used(Within(s)), Capacity[s])

Skipped(a, reason) == a \in stale \/ Needless(a, reason)

\* On to the next action; the transaction of this one is over.
Leave ==
  /\ plan' = Tail(plan) /\ stale' = stale \ {Head(plan).asset}
  /\ checked' = FALSE /\ gone' = {} /\ relimited' = {}

\* asset_lock, the comparison with the snapshot, and the rechecks, which read the
\* counters without locking them.
Recheck ==
  /\ plan # <<>> /\ ~checked
  /\ IF Skipped(Head(plan).asset, Head(plan).reason)
     THEN Leave
     ELSE checked' = TRUE /\ UNCHANGED <<plan, stale, gone, relimited>>
  /\ UNCHANGED <<rowVars, limitVars, now, exhausted, calm, touches>>

\* lifecycle_update.  Purging is fence, deletion and mark in one.
Apply ==
  LET a == Head(plan).asset IN
  /\ checked /\ Leave
  /\ IF state[a] = "available"
     THEN state' = [state EXCEPT ![a] = "expired"] /\ UNCHANGED touches
     ELSE \/ state' = [state EXCEPT ![a] = "purged"] /\ UNCHANGED touches
          \/ /\ touches < MaxTouches /\ touches' = touches + 1   \* delete_object raises
             /\ state' = [state EXCEPT ![a] = "deleted"]
  /\ due' = due \ {a}
  /\ UNCHANGED <<policy, last_read, limitVars, now, exhausted, calm>>

\* The registry raises in an action: it is rolled back and left to the next pass.
ActionFails ==
  /\ plan # <<>> /\ touches < MaxTouches /\ touches' = touches + 1
  /\ Leave /\ calm' = FALSE
  /\ UNCHANGED <<rowVars, limitVars, now, exhausted>>

WorkerDies ==
  /\ plan # <<>> /\ touches < MaxTouches /\ touches' = touches + 1
  /\ plan' = <<>> /\ stale' = {} /\ exhausted' = {} /\ calm' = FALSE
  /\ checked' = FALSE /\ gone' = {} /\ relimited' = {}
  /\ UNCHANGED <<rowVars, limitVars, now>>

-----------------------------------------------------------------------------
(* Everybody else *)

Planned == {plan[i].asset : i \in DOMAIN plan}

\* The worker does not hold a's row.
Unlocked(a) == checked => a # Head(plan).asset

\* A write to a's row, one of boundedly many; a planned action on it lapses.
Touch(a) ==
  /\ Unlocked(a) /\ touches < MaxTouches /\ touches' = touches + 1
  /\ stale' = stale \cup ({a} \cap Planned)

\* _enforce_quota: the partition's quota and the bucket's capacity.
Admits(a) ==
  LET p == PartitionOf[a]  s == SpaceOf[p]
      pending == {b \in In(p) \ {a} : state[b] = "pending"} IN
  /\ quota[p] # None => 100 * (Used(In(p)) + Bytes(pending) + SizeOf[a]) < 105 * quota[p]
  /\ Capacity[s] # None => 100 * (Bytes(Listed(Within(s)) \ {a}) + SizeOf[a]) < 95 * Capacity[s]

Reserve(a, pol) ==
  /\ state[a] = "absent" /\ Admits(a)
  /\ state' = [state EXCEPT ![a] = "pending"]
  /\ policy' = [policy EXCEPT ![a] = pol]
  /\ last_read' = [last_read EXCEPT ![a] = now]
  /\ calm' = FALSE
  /\ UNCHANGED <<due, limitVars, windowVars, now, passVars, touches>>

Commit(a) ==
  /\ state[a] = "pending" /\ Admits(a) /\ Unlocked(a)
  /\ state' = [state EXCEPT ![a] = "available"] /\ due' = due \ {a}
  /\ stale' = stale \cup ({a} \cap Planned) /\ calm' = FALSE
  /\ UNCHANGED <<policy, last_read, limitVars, windowVars, now, plan, exhausted, touches>>

\* record_read after a read that require_live allowed.
Read(a) ==
  /\ state[a] = "available" /\ a \notin due /\ Touch(a)
  /\ last_read' = [last_read EXCEPT ![a] = now]
  /\ calm' = (calm /\ a \notin Planned)
  /\ UNCHANGED <<state, policy, due, limitVars, windowVars, now, plan, exhausted>>

SetEvictionPolicy(a, pol) ==
  /\ state[a] \in {"pending", "available", "expired", "void"} /\ policy[a] # pol /\ Touch(a)
  /\ policy' = [policy EXCEPT ![a] = pol]
  /\ calm' = FALSE
  /\ UNCHANGED <<state, last_read, due, limitVars, windowVars, now, plan, exhausted>>

\* expire_asset, delete_asset, or the last alias detached.
Retire(a, to) ==
  /\ \/ state[a] = "available" /\ to \in {"expired", "deleted"}
     \/ state[a] = "pending" /\ to \in {"void", "deleted"}
     \/ state[a] \in {"expired", "void"} /\ to = "deleted"
  /\ Touch(a)
  /\ state' = [state EXCEPT ![a] = to] /\ due' = due \ {a}
  /\ gone' = IF checked /\ state[a] = "available" THEN gone \cup {a} ELSE gone
  /\ calm' = (calm /\ plan = <<>>)
  /\ UNCHANGED <<policy, last_read, limitVars, checked, relimited, now, plan, exhausted>>

\* set_asset_ttl.
SetAssetTtl(a) ==
  /\ state[a] \in {"available", "expired"} /\ Touch(a)
  /\ state[a] = "expired" => Admits(a)
  /\ state' = [state EXCEPT ![a] = "available"] /\ due' = due \ {a}
  /\ calm' = FALSE
  /\ UNCHANGED <<policy, last_read, limitVars, windowVars, now, plan, exhausted>>

SetPartitionQuota(p, q, on) ==
  /\ touches < MaxTouches /\ touches' = touches + 1
  /\ quota' = [quota EXCEPT ![p] = q]
  /\ sweeping' = IF on THEN sweeping \cup {p} ELSE sweeping \ {p}
  /\ relimited' = IF checked THEN relimited \cup {p} ELSE relimited
  /\ calm' = FALSE
  /\ UNCHANGED <<rowVars, checked, gone, now, passVars>>

\* A day passes; a waiting period ends.
Day ==
  /\ now < MaxTime /\ now' = now + 1
  /\ UNCHANGED <<rowVars, limitVars, windowVars, passVars, calm, touches>>

Age(a) ==
  /\ state[a] \in {"pending", "available", "expired", "void"} /\ a \in Aging \ due
  /\ due' = due \cup {a}
  /\ UNCHANGED <<state, policy, last_read, limitVars, windowVars, now, passVars, calm, touches>>

-----------------------------------------------------------------------------
EvictionInit ==
  /\ state = [a \in AssetIds |-> "absent"]
  /\ policy = [a \in AssetIds |-> "inherit"]
  /\ last_read = [a \in AssetIds |-> 0]
  /\ due = {} /\ now = 0
  /\ quota = FirstQuota
  /\ sweeping = {p \in Partitions : SpaceOf[p] \in Evictable}
  /\ plan = <<>> /\ stale = {} /\ exhausted = {} /\ calm = FALSE /\ touches = 0
  /\ checked = FALSE /\ gone = {} /\ relimited = {}

Sweep == Plan \/ Recheck \/ Apply

EvictionNext ==
  \/ Sweep \/ ActionFails \/ WorkerDies \/ Day
  \/ \E a \in AssetIds :
       \/ Commit(a) \/ Read(a) \/ SetAssetTtl(a) \/ Age(a)
       \/ \E pol \in {"inherit", "exempt"} : Reserve(a, pol) \/ SetEvictionPolicy(a, pol)
       \/ \E to \in {"expired", "void", "deleted"} : Retire(a, to)
  \/ \E p \in Partitions, q \in Quotas, on \in BOOLEAN : SetPartitionQuota(p, q, on)

EvictionSpec == EvictionInit /\ [][EvictionNext]_evictionVars

\* The worker runs with --interval: passes come round and are carried on.
EvictionLiveSpec == EvictionSpec /\ WF_evictionVars(Sweep)

-----------------------------------------------------------------------------
(* Properties *)

Reasons == {plan[i].reason : i \in DOMAIN plan}

\* "Already expired bytes count as scheduled relief, preventing repeated
\* over-eviction while waiting": once an undisturbed pass is over, no later pass
\* selects anything for space until an upload, a restore or a change of limits
\* or policy, whatever still waits for its grace period, is retired or is purged.
\* An asset retired during the pass disturbs it: an action for the quota may then be
\* needless, and the room the same pass counted on for its bucket does not come.
SettledStays ==
  [][calm /\ plan = <<>> /\ plan' # <<>> => Reasons' \subseteq {"age"}]_evictionVars

\* After an undisturbed pass a partition or bucket over its trigger is at its
\* low-water mark, or its bucket was reported exhausted.
ReliefOrReported ==
  calm /\ plan = <<>> =>
    /\ \A p \in Partitions :
         OverQuota(p, Available(In(p)) \ due) => SpaceOf[p] \in exhausted
    /\ \A s \in Spaces :
         Pressed(s) /\ ~PressureMet(Bytes(Available(Within(s)) \ due), Capacity[s]) =>
           s \in exhausted

\* The room is needed: with what others took out of service since the recheck counted
\* back, the partition or the bucket of a is above its low-water mark.
UsedAtRecheck(S) == Bytes(Available(S) \cup (gone \cap S))
NeededAtRecheck(a) ==
  LET p == PartitionOf[a]  s == SpaceOf[p] IN
  \/ quota[p] # None /\ ~QuotaMet(UsedAtRecheck(In(p)), quota[p])
  \/ Capacity[s] # None /\ ~PressureMet(UsedAtRecheck(Within(s)), Capacity[s])

\* What EvictsOnlyForNeed says of one step.
EvictionStep ==
  LET a == Head(plan).asset  p == PartitionOf[a] IN
  plan # <<>> /\ Head(plan).reason # "age" /\ state'[a] # state[a] /\ plan' = Tail(plan) =>
    /\ policy[a] = "inherit" /\ SpaceOf[p] \in Evictable
    /\ state[a] = "available" /\ state'[a] = "expired"
    /\ NeededAtRecheck(a) \/ p \in relimited

\* An action selected for space expires an asset only while it may still be
\* evicted (FR-063: exempt assets never are) and its partition or bucket is still
\* above the low-water mark, however old the plan is, but for what others retire, or a
\* limit they change, between the recheck of this one action and its write.
EvictsOnlyForNeed == [][EvictionStep]_evictionVars

\* A partition over its trigger does not stay there: its usage falls, or all that
\* is left is exempt, or sweeping it is switched off.
OverQuotaRelieved ==
  \A p \in Partitions :
    OverQuota(p, Available(In(p))) ~>
      ~OverQuota(p, Available(In(p))) \/ Eligible(Available(In(p))) = {}
=============================================================================
