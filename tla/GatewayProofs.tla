--------------------------- MODULE GatewayProofs ----------------------------
(***************************************************************************)
(* Theorems about Gateway for any number of identities, capabilities and   *)
(* requests and any limits.                                                *)
(***************************************************************************)
EXTENDS Gateway, FiniteSetTheorems, TLAPS

-----------------------------------------------------------------------------
(* The token bucket *)

\* Credit left plus credit spent in a stretch of time is at most a burst and the
\* refill of that stretch, up to the identity's last refill.
Account(i) ==
  /\ tokens[i] <= 60 * Burst
  /\ boot <= updated_at[i] /\ updated_at[i] <= now
  /\ \A s \in boot..MaxTime :
       IF s <= updated_at[i]
       THEN 60 * since[i][s] + tokens[i] <= 60 * Burst + PerMinute * (updated_at[i] - s)
       ELSE since[i][s] = 0

RateInv ==
  /\ now \in Nat /\ boot \in Nat /\ boot <= now /\ now <= MaxTime
  /\ tokens \in [Identities -> Nat]
  /\ updated_at \in [Identities -> Nat]
  /\ since \in [Identities -> [0..MaxTime -> Nat]]
  /\ \A i \in Identities : Account(i)

\* The refill of two adjacent stretches is the refill of both together.
LEMMA RefillAdds ==
  ASSUME NEW r \in Nat, NEW x \in Int, NEW y \in Int, NEW z \in Int
  PROVE  r * (z - y) + r * (y - x) = r * (z - x)
  OBVIOUS

\* A refill is never negative.
LEMMA RefillGrows ==
  ASSUME NEW r \in Nat, NEW x \in Nat, NEW y \in Nat, x <= y
  PROVE  r * (y - x) \in Nat
<1>1. y - x \in Nat
  OBVIOUS
<1> QED BY <1>1

\* The refilled credit is a natural number, at most a burst and at most the old
\* credit plus the refill.
LEMMA RefilledBounds ==
  ASSUME RateInv, NEW i \in Identities
  PROVE  /\ Refilled(i) \in Nat /\ Refilled(i) <= 60 * Burst
         /\ Refilled(i) <= tokens[i] + PerMinute * (now - updated_at[i])
<1> USE GatewayAssumption
<1>1. PerMinute * (now - updated_at[i]) \in Nat
  BY RefillGrows DEF RateInv, Account
<1>2. PerMinute * (now - updated_at[i]) = (now - updated_at[i]) * PerMinute
  BY DEF RateInv, Account
<1> QED BY <1>1, <1>2 DEF RateInv, Account, Refilled

\* One refill, with or without an admission, keeps the account of its identity.
LEMMA RefillStep ==
  ASSUME RateInv, NEW i \in Identities, NEW n \in {0, 1},
         60 * n <= Refilled(i),
         NEW s \in boot..MaxTime, s <= now
  PROVE  60 * (since[i][s] + n) + (Refilled(i) - 60 * n)
           <= 60 * Burst + PerMinute * (now - s)
<1> USE GatewayAssumption
<1>1. /\ Refilled(i) \in Nat /\ Refilled(i) <= 60 * Burst
      /\ Refilled(i) <= tokens[i] + PerMinute * (now - updated_at[i])
  BY RefilledBounds
<1>2. s \in Nat /\ since[i][s] \in Nat /\ updated_at[i] \in Nat /\ now \in Nat
      /\ tokens[i] \in Nat
  BY DEF RateInv, Account
<1>3. 60 * (since[i][s] + n) + (Refilled(i) - 60 * n) = 60 * since[i][s] + Refilled(i)
  BY <1>1, <1>2
<1>4. CASE s <= updated_at[i]
  <2>1. 60 * since[i][s] + tokens[i] <= 60 * Burst + PerMinute * (updated_at[i] - s)
    BY <1>4 DEF RateInv, Account
  <2>2. PerMinute * (now - updated_at[i]) + PerMinute * (updated_at[i] - s) = PerMinute * (now - s)
    BY <1>2, RefillAdds
  <2>3. PerMinute * (now - updated_at[i]) \in Int /\ PerMinute * (updated_at[i] - s) \in Int
        /\ PerMinute * (now - s) \in Int
    BY <1>2
  <2> HIDE GatewayAssumption
  <2>4. Burst \in Nat
    BY GatewayAssumption
  <2> QED BY <1>1, <1>2, <1>3, <2>1, <2>2, <2>3, <2>4
<1>5. CASE ~(s <= updated_at[i])
  <2>1. since[i][s] = 0
    BY <1>5 DEF RateInv, Account
  <2>2. PerMinute * (now - s) \in Nat
    BY <1>2, RefillGrows
  <2> QED BY <1>1, <1>2, <1>3, <2>1, <2>2
<1> QED BY <1>4, <1>5

\* Only minting, the clock and a restart touch the rate limiter.
LEMMA RateStep == RateInv /\ [GatewayNext]_gatewayVars => RateInv'
<1> SUFFICES ASSUME RateInv, [GatewayNext]_gatewayVars PROVE RateInv'
  OBVIOUS
<1> USE GatewayAssumption
<1>1. ASSUME NEW i \in Identities, NEW c \in CapIds, NEW op \in Operations, NEW ttl \in Ttls,
             NEW single \in BOOLEAN, MintAdmit(i, c, op, ttl, single)
      PROVE  RateInv'
  <2>1. /\ Refilled(i) \in Nat /\ Refilled(i) <= 60 * Burst /\ Refilled(i) >= 60
        /\ UNCHANGED <<now, boot>>
        /\ tokens' = [tokens EXCEPT ![i] = Refilled(i) - 60]
        /\ updated_at' = [updated_at EXCEPT ![i] = now]
    BY <1>1, RefilledBounds DEF MintAdmit, procVars
  <2>2. since' = [since EXCEPT ![i] =
                    [s \in 0..MaxTime |-> IF s <= now THEN since[i][s] + 1 ELSE since[i][s]]]
    BY <1>1 DEF MintAdmit, RateInv, Account
  <2>3. /\ tokens' \in [Identities -> Nat] /\ updated_at' \in [Identities -> Nat]
        /\ since' \in [Identities -> [0..MaxTime -> Nat]]
    <3>1. tokens' \in [Identities -> Nat] /\ updated_at' \in [Identities -> Nat]
      BY <2>1 DEF RateInv
    <3>2. [s \in 0..MaxTime |-> IF s <= now THEN since[i][s] + 1 ELSE since[i][s]]
            \in [0..MaxTime -> Nat]
      BY DEF RateInv
    <3> QED BY <3>1, <3>2, <2>2 DEF RateInv
  <2>4. ASSUME NEW s \in boot..MaxTime
        PROVE IF s <= updated_at'[i]
              THEN 60 * since'[i][s] + tokens'[i] <= 60 * Burst + PerMinute * (updated_at'[i] - s)
              ELSE since'[i][s] = 0
    <3>1. updated_at'[i] = now /\ tokens'[i] = Refilled(i) - 60
          /\ since'[i][s] = IF s <= now THEN since[i][s] + 1 ELSE since[i][s]
      BY <2>1, <2>2 DEF RateInv, Account
    <3>2. CASE s <= now
      BY <3>1, <3>2, <2>1, RefillStep, 1 \in {0, 1}, 60 * 1 = 60
    <3>3. CASE ~(s <= now)
      BY <3>1, <3>3 DEF RateInv, Account
    <3> QED BY <3>2, <3>3
  <2>5. ASSUME NEW j \in Identities, j # i
        PROVE tokens'[j] = tokens[j] /\ updated_at'[j] = updated_at[j] /\ since'[j] = since[j]
    BY <2>1, <2>2, <2>5 DEF RateInv, Account
  <2>6. tokens'[i] <= 60 * Burst /\ updated_at'[i] = now
    BY <2>1 DEF RateInv, Account
  <2>7. ASSUME NEW j \in Identities PROVE Account(j)'
    <3>1. boot' = boot /\ now' = now /\ boot <= now
      BY <2>1 DEF RateInv
    <3>2. CASE j = i
      <4>1. boot <= updated_at'[i] /\ updated_at'[i] <= now
        BY <3>1, <2>6 DEF RateInv
      <4>2. Account(i)'
        BY ONLY <3>1, <4>1, <2>4, <2>6 DEF Account
      <4> QED BY <3>2, <4>2
    <3>3. CASE j # i
      BY <3>1, <3>3, <2>5 DEF RateInv, Account
    <3> QED BY <3>2, <3>3
  <2> QED BY <2>1, <2>3, <2>7 DEF RateInv
<1>2. ASSUME NEW i \in Identities, MintRefused(i)
      PROVE  RateInv'
  <2>1. /\ Refilled(i) \in Nat /\ Refilled(i) <= 60 * Burst
        /\ UNCHANGED <<now, boot, since>>
        /\ tokens' = [tokens EXCEPT ![i] = Refilled(i)]
        /\ updated_at' = [updated_at EXCEPT ![i] = now]
    BY <1>2, RefilledBounds DEF MintRefused, procVars
  <2>3. tokens' \in [Identities -> Nat] /\ updated_at' \in [Identities -> Nat]
    BY <2>1 DEF RateInv, Account
  <2>4. ASSUME NEW s \in boot..MaxTime
        PROVE IF s <= updated_at'[i]
              THEN 60 * since'[i][s] + tokens'[i] <= 60 * Burst + PerMinute * (updated_at'[i] - s)
              ELSE since'[i][s] = 0
    <3>1. updated_at'[i] = now /\ tokens'[i] = Refilled(i) /\ since'[i][s] = since[i][s]
          /\ since[i][s] \in Nat
      BY <2>1 DEF RateInv, Account
    <3>2. CASE s <= now
      BY <3>1, <3>2, <2>1, RefillStep, 0 \in {0, 1}
    <3>3. CASE ~(s <= now)
      BY <3>1, <3>3 DEF RateInv, Account
    <3> QED BY <3>2, <3>3
  <2>5. ASSUME NEW j \in Identities, j # i
        PROVE tokens'[j] = tokens[j] /\ updated_at'[j] = updated_at[j] /\ since'[j] = since[j]
    BY <2>1, <2>5 DEF RateInv, Account
  <2>6. tokens'[i] <= 60 * Burst /\ updated_at'[i] = now
    BY <2>1 DEF RateInv, Account
  <2>7. ASSUME NEW j \in Identities PROVE Account(j)'
    <3>1. boot' = boot /\ now' = now /\ boot <= now
      BY <2>1 DEF RateInv
    <3>2. CASE j = i
      <4>1. boot <= updated_at'[i] /\ updated_at'[i] <= now
        BY <3>1, <2>6 DEF RateInv
      <4>2. Account(i)'
        BY ONLY <3>1, <4>1, <2>4, <2>6 DEF Account
      <4> QED BY <3>2, <4>2
    <3>3. CASE j # i
      BY <3>1, <3>3, <2>5 DEF RateInv, Account
    <3> QED BY <3>2, <3>3
  <2> QED BY <2>1, <2>3, <2>7 DEF RateInv
<1>3. CASE Clock
  BY <1>3 DEF Clock, RateInv, Account, rateVars
<1>4. CASE Restart
  <2>1. /\ now' = now /\ boot' = now
        /\ tokens' = [i \in Identities |-> 60 * Burst]
        /\ updated_at' = [i \in Identities |-> now]
        /\ since' = [i \in Identities |-> [s \in 0..MaxTime |-> 0]]
    BY <1>4 DEF Restart
  <2>2. ASSUME NEW s \in now..MaxTime, s <= now PROVE PerMinute * (now - s) = 0
    BY <2>2 DEF RateInv, Account
  <2> QED BY <2>1, <2>2 DEF RateInv, Account
<1>5. ASSUME UNCHANGED <<now, boot, rateVars>> PROVE RateInv'
  BY <1>5 DEF RateInv, Account, rateVars
<1>6. CASE UNCHANGED gatewayVars
  BY <1>5, <1>6 DEF gatewayVars, rateVars
<1>7. ASSUME NEW c \in CapIds, MintIssue(c) PROVE RateInv'
  BY <1>5, <1>7 DEF MintIssue, procVars
<1>8. ASSUME NEW r \in Requests, NEW c \in CapIds, Present(r, c) PROVE RateInv'
  BY <1>5, <1>8 DEF Present, procVars
<1>9. ASSUME NEW r \in Requests,
             \/ Require(r) \/ Clear(r) \/ TakeLease(r) \/ Refuse(r) \/ StartWork(r) \/ WorkStep(r)
             \/ Cancel(r) \/ ReadRequire(r) \/ ReadCheck(r) \/ ReadRecord(r)
      PROVE  RateInv'
  BY <1>5, <1>9 DEF Require, Clear, TakeLease, Refuse, StartWork, WorkStep, WorkRequire, WorkCheck,
       WorkWrite, WorkRecord, Return, Cancel, ReadRequire, ReadCheck, ReadRecord, procVars
<1> QED
  BY <1>1, <1>2, <1>3, <1>4, <1>6, <1>7, <1>8, <1>9 DEF GatewayNext

\* For any rate, burst and number of identities, no interleaving of mints, clock
\* ticks and restarts lets an identity exceed its burst plus the refill of any
\* stretch of time (IssuanceRateLimiter.admit).
THEOREM RateSafe == GatewaySpec => []RateBound
<1>1. GatewayInit => RateInv
  <2> SUFFICES ASSUME GatewayInit PROVE RateInv
    OBVIOUS
  <2> USE GatewayAssumption
  <2>1. ASSUME NEW s \in 0..MaxTime, s <= 0 PROVE PerMinute * (0 - s) = 0
    BY <2>1
  <2> QED BY <2>1 DEF GatewayInit, RateInv, Account
<1>2. RateInv => RateBound
  <2> SUFFICES ASSUME RateInv, NEW i \in Identities, NEW s \in boot..now
               PROVE  60 * since[i][s] <= 60 * Burst + PerMinute * (now - s)
    BY DEF RateBound
  <2>1. s \in boot..MaxTime /\ s <= now /\ since[i][s] \in Nat /\ 0 \in {0, 1}
    BY GatewayAssumption DEF RateInv
  <2>2. Refilled(i) \in Nat
    BY RefilledBounds
  <2>3. 60 * (since[i][s] + 0) + (Refilled(i) - 60 * 0) <= 60 * Burst + PerMinute * (now - s)
    BY <2>1, <2>2, RefillStep
  <2>4. PerMinute * (now - s) \in Int /\ Burst \in Nat
    BY <2>1, GatewayAssumption DEF RateInv, Account
  <2> QED BY <2>1, <2>2, <2>3, <2>4
<1> QED BY <1>1, <1>2, RateStep, PTL DEF GatewaySpec

-----------------------------------------------------------------------------
(* Upload admission *)

Steps == {"idle", "presented", "authorizing", "cleared", "receiving", "started", "required",
          "checked", "written", "drained", "resolving", "reading"}
Leased == {"receiving", "started", "required", "checked", "written", "drained"}

\* A request holds a lease exactly from its admission to its return, whether or
\* not its client is still there.
AdmInv ==
  /\ limit \in Limits /\ pc \in [Requests -> Steps] /\ leases \subseteq Requests
  /\ Cardinality(leases) <= limit
  /\ \A r \in Requests : r \in leases <=> pc[r] \in Leased

\* Leases that only shrink stay within the limit.
LEMMA FewerLeases ==
  ASSUME AdmInv, NEW S, S \subseteq leases
  PROVE  Cardinality(S) <= limit
<1> USE GatewayAssumption DEF AdmInv
<1>1. IsFiniteSet(leases)
  BY FS_Subset
<1>2. IsFiniteSet(S) /\ Cardinality(S) <= Cardinality(leases)
  BY <1>1, FS_Subset
<1>3. Cardinality(S) \in Nat /\ Cardinality(leases) \in Nat /\ limit \in Nat
  BY <1>1, <1>2, FS_CardinalityType
<1> QED BY <1>2, <1>3

\* The number of slots stays as deployed.
LEMMA LimitFixed == [GatewayNext]_gatewayVars => UNCHANGED limit
<1> SUFFICES ASSUME [GatewayNext]_gatewayVars PROVE UNCHANGED limit
  OBVIOUS
<1> USE DEF procVars
<1>1. ASSUME NEW i \in Identities, NEW c \in CapIds, NEW op \in Operations, NEW ttl \in Ttls,
             NEW single \in BOOLEAN, MintAdmit(i, c, op, ttl, single)
      PROVE  UNCHANGED limit
  BY <1>1 DEF MintAdmit
<1>2. ASSUME NEW i \in Identities, MintRefused(i) PROVE UNCHANGED limit
  BY <1>2 DEF MintRefused
<1>3. ASSUME NEW c \in CapIds, MintIssue(c) PROVE UNCHANGED limit
  BY <1>3 DEF MintIssue
<1>4. ASSUME NEW r \in Requests, NEW c \in CapIds, Present(r, c) PROVE UNCHANGED limit
  BY <1>4 DEF Present
<1>5. ASSUME NEW r \in Requests,
             \/ Require(r) \/ Clear(r) \/ TakeLease(r) \/ Refuse(r) \/ StartWork(r) \/ WorkStep(r)
             \/ Cancel(r) \/ ReadRequire(r) \/ ReadCheck(r) \/ ReadRecord(r)
      PROVE  UNCHANGED limit
  BY <1>5 DEF Require, Clear, TakeLease, Refuse, StartWork, WorkStep, WorkRequire, WorkCheck,
       WorkWrite, WorkRecord, Return, Cancel, ReadRequire, ReadCheck, ReadRecord
<1>6. CASE Clock \/ Restart \/ UNCHANGED gatewayVars
  BY <1>6 DEF Clock, Restart, gatewayVars
<1> QED
  BY <1>1, <1>2, <1>3, <1>4, <1>5, <1>6 DEF GatewayNext

\* Leases are taken below the limit and given back only by the request itself.
LEMMA AdmStep == AdmInv /\ [GatewayNext]_gatewayVars => AdmInv'
<1> SUFFICES ASSUME AdmInv, [GatewayNext]_gatewayVars PROVE AdmInv'
  OBVIOUS
<1>0. UNCHANGED limit /\ limit \in Nat
  BY LimitFixed, GatewayAssumption DEF AdmInv
<1> USE <1>0 DEF Steps, Leased
<1>1. ASSUME UNCHANGED <<pc, leases>> PROVE AdmInv'
  BY <1>1 DEF AdmInv
<1>2. ASSUME NEW r \in Requests, Finish(r) PROVE AdmInv'
  <2>1. pc' = [pc EXCEPT ![r] = "idle"] /\ leases' = leases \ {r}
    BY <1>2 DEF Finish
  <2>2. Cardinality(leases') <= limit'
    BY <2>1, FewerLeases
  <2> QED BY <2>1, <2>2 DEF AdmInv
<1>3. ASSUME NEW r \in Requests, TakeLease(r) PROVE AdmInv'
  <2>1. /\ pc[r] = "cleared" /\ pc' = [pc EXCEPT ![r] = "receiving"]
        /\ Cardinality(leases) < limit /\ leases' = leases \cup {r}
    BY <1>3 DEF TakeLease, Goto
  <2>2. r \notin leases /\ IsFiniteSet(leases)
    BY <2>1, GatewayAssumption, FS_Subset DEF AdmInv
  <2>3. Cardinality(leases') = Cardinality(leases) + 1 /\ Cardinality(leases) \in Nat
    BY <2>1, <2>2, FS_AddElement, FS_CardinalityType
  <2>4. Cardinality(leases') <= limit'
    BY <2>1, <2>3
  <2> QED BY <2>1, <2>4 DEF AdmInv
<1>4. ASSUME NEW r \in Requests, NEW from \in Steps, NEW to \in Steps,
             pc[r] = from, pc' = [pc EXCEPT ![r] = to],
             from \in Leased <=> to \in Leased, UNCHANGED leases
      PROVE  AdmInv'
  BY <1>4 DEF AdmInv
<1>5. ASSUME NEW r \in Requests, Refuse(r) \/ Return(r) \/ ReadRecord(r)
      PROVE  AdmInv'
  BY <1>2, <1>5 DEF Refuse, Return, ReadRecord
<1>6. ASSUME NEW r \in Requests, StartWork(r) \/ WorkRecord(r) PROVE AdmInv'
  BY <1>4, <1>6 DEF StartWork, WorkRecord, Goto
<1>7. ASSUME NEW r \in Requests, WorkRequire(r) \/ WorkCheck(r) PROVE AdmInv'
  <2>1. PICK to \in {"required", "checked", "drained"} : pc' = [pc EXCEPT ![r] = to]
    BY <1>7 DEF WorkRequire, WorkCheck
  <2>2. pc[r] \in {"started", "required"} /\ UNCHANGED leases
    BY <1>7 DEF WorkRequire, WorkCheck
  <2> QED BY <1>4, <2>1, <2>2
<1>8. ASSUME NEW r \in Requests, WorkWrite(r) PROVE AdmInv'
  <2>1. PICK to \in {"written", "drained"} : pc' = [pc EXCEPT ![r] = to]
    BY <1>8 DEF WorkWrite
  <2>2. pc[r] = "checked" /\ UNCHANGED leases
    BY <1>8 DEF WorkWrite
  <2> QED BY <1>4, <2>1, <2>2
<1>9. ASSUME NEW r \in Requests, Require(r) \/ Clear(r) \/ ReadRequire(r) \/ ReadCheck(r)
      PROVE  AdmInv'
  BY <1>4, <1>9 DEF Require, Clear, ReadRequire, ReadCheck, Goto
<1>11. ASSUME NEW r \in Requests, NEW c \in CapIds, Present(r, c) PROVE AdmInv'
  BY <1>4, <1>11 DEF Present
<1>12. ASSUME NEW r \in Requests, Cancel(r) PROVE AdmInv'
  BY <1>1, <1>12 DEF Cancel
<1>13. CASE Restart
  <2>1. pc' = [r \in Requests |-> "idle"] /\ leases' = {}
    BY <1>13 DEF Restart
  <2>2. Cardinality(leases') <= limit'
    BY <2>1, FewerLeases
  <2> QED BY <2>1, <2>2 DEF AdmInv
<1>14. ASSUME NEW i \in Identities, NEW c \in CapIds, NEW op \in Operations, NEW ttl \in Ttls,
              NEW single \in BOOLEAN, MintAdmit(i, c, op, ttl, single)
       PROVE  AdmInv'
  BY <1>1, <1>14 DEF MintAdmit, reqVars
<1>15. ASSUME NEW i \in Identities, MintRefused(i) PROVE AdmInv'
  BY <1>1, <1>15 DEF MintRefused, reqVars
<1>16. ASSUME NEW c \in CapIds, MintIssue(c) PROVE AdmInv'
  BY <1>1, <1>16 DEF MintIssue, reqVars
<1>17. CASE Clock
  BY <1>1, <1>17 DEF Clock, reqVars
<1>18. CASE UNCHANGED gatewayVars
  BY <1>1, <1>18 DEF gatewayVars
<1> QED
  BY <1>3, <1>5, <1>6, <1>7, <1>8, <1>9, <1>11, <1>12, <1>13, <1>14, <1>15, <1>16,
     <1>17, <1>18 DEF GatewayNext, WorkStep

\* At the start nobody holds a lease.
LEMMA AdmStart == GatewayInit => AdmInv
<1> SUFFICES ASSUME GatewayInit PROVE AdmInv
  OBVIOUS
<1>1. limit \in Limits /\ limit \in Nat /\ leases = {} /\ pc = [r \in Requests |-> "idle"]
  BY GatewayAssumption DEF GatewayInit
<1>2. Cardinality(leases) <= limit
  BY <1>1, FS_EmptySet
<1> QED
  BY <1>1, <1>2 DEF AdmInv, Steps, Leased

\* For any limit and any number of requests, at most that many upload threads run and
\* every running thread is covered by a lease, cancelled requests included
\* (WorkAdmission.lease with run_work_until_complete).
THEOREM AdmissionSafe == GatewaySpec => []AdmissionHolds
<1>1. GatewayInit => AdmInv
  BY AdmStart
<1>2. AdmInv => AdmissionHolds
  <2> SUFFICES ASSUME AdmInv PROVE AdmissionHolds
    OBVIOUS
  <2>1. Running \subseteq leases
    BY DEF AdmInv, Running, Leased
  <2>2. Cardinality(Running) <= limit
    BY <2>1, FewerLeases
  <2>3. \A r \in leases : pc[r] # "idle"
    BY DEF AdmInv, Leased
  <2> QED BY <2>1, <2>2, <2>3 DEF AdmissionHolds
<1> QED BY <1>1, <1>2, AdmStep, PTL DEF GatewaySpec

-----------------------------------------------------------------------------
(* The bearer store *)

\* Everything live was audited, and so was everything a request has in hand.
BearerInv ==
  /\ live \subseteq CapIds /\ minting \subseteq CapIds
  /\ Cardinality(live) <= MaxCapabilities
  /\ cap \in [Requests -> CapIds \cup {None}]
  /\ AuditedBeforeUse

\* A store that only lost expired entries stays within its capacity.
LEMMA FewerBearers ==
  ASSUME BearerInv
  PROVE  /\ Unexpired(live) \subseteq live /\ IsFiniteSet(Unexpired(live))
         /\ Cardinality(Unexpired(live)) <= MaxCapabilities
<1> USE GatewayAssumption DEF BearerInv
<1>1. IsFiniteSet(live) /\ Unexpired(live) \subseteq live
  BY FS_Subset DEF Unexpired
<1>2. IsFiniteSet(Unexpired(live)) /\ Cardinality(Unexpired(live)) <= Cardinality(live)
  BY <1>1, FS_Subset
<1>3. Cardinality(Unexpired(live)) \in Nat /\ Cardinality(live) \in Nat /\ MaxCapabilities \in Nat
  BY <1>1, <1>2, FS_CardinalityType
<1> QED BY <1>1, <1>2, <1>3

\* Publication is preceded by the audit event and by the capacity check, under one lock.
LEMMA BearerStep == BearerInv /\ [GatewayNext]_gatewayVars => BearerInv'
<1> SUFFICES ASSUME BearerInv, [GatewayNext]_gatewayVars PROVE BearerInv'
  OBVIOUS
<1> USE DEF AuditedBeforeUse
<1>1. ASSUME NEW c \in CapIds, MintIssue(c) PROVE BearerInv'
  <2>1. minting' = minting \ {c} /\ UNCHANGED cap
    BY <1>1 DEF MintIssue, reqVars
  <2>2. CASE /\ Cardinality(Unexpired(live)) < MaxCapabilities
             /\ audited' = audited \cup {c} /\ live' = Unexpired(live) \cup {c}
    <3>1. /\ Cardinality(live') <= Cardinality(Unexpired(live)) + 1
          /\ Cardinality(live') \in Nat /\ Cardinality(Unexpired(live)) \in Nat
      <4>1. IsFiniteSet(Unexpired(live))
        BY FewerBearers
      <4>2. /\ IsFiniteSet(live')
            /\ Cardinality(live') = IF c \in Unexpired(live) THEN Cardinality(Unexpired(live))
                                    ELSE Cardinality(Unexpired(live)) + 1
        BY <2>2, <4>1, FS_AddElement
      <4>3. Cardinality(live') \in Nat /\ Cardinality(Unexpired(live)) \in Nat
        BY <4>1, <4>2, FS_CardinalityType
      <4> QED BY <4>2, <4>3
    <3>2. Cardinality(live') <= MaxCapabilities
      BY <2>2, <3>1, GatewayAssumption
    <3> QED BY <2>1, <2>2, <3>2, FewerBearers DEF BearerInv
  <2>3. CASE live' = Unexpired(live) /\ UNCHANGED audited
    BY <2>1, <2>3, FewerBearers DEF BearerInv
  <2> QED BY <1>1, <2>2, <2>3 DEF MintIssue
<1>2. ASSUME NEW r \in Requests, NEW c \in CapIds, Present(r, c) PROVE BearerInv'
  <2>1. /\ live' = Unexpired(live) /\ c \in Unexpired(live)
        /\ cap' = [cap EXCEPT ![r] = c] /\ UNCHANGED <<minting, audited>>
    BY <1>2 DEF Present
  <2> QED BY <2>1, FewerBearers DEF BearerInv
<1>3. CASE Restart
  <2>1. live' = {} /\ minting' = {} /\ cap' = [r \in Requests |-> None] /\ UNCHANGED audited
    BY <1>3 DEF Restart
  <2>2. Cardinality(live') <= MaxCapabilities
    BY <2>1, FS_EmptySet, GatewayAssumption
  <2> QED BY <2>1, <2>2 DEF BearerInv
<1>4. ASSUME UNCHANGED <<live, audited>>, minting' \subseteq CapIds,
             \/ UNCHANGED cap
             \/ \E r \in Requests : cap' = [cap EXCEPT ![r] = None]
      PROVE  BearerInv'
  BY <1>4 DEF BearerInv
<1>5. ASSUME NEW i \in Identities, NEW c \in CapIds, NEW op \in Operations, NEW ttl \in Ttls,
             NEW single \in BOOLEAN, MintAdmit(i, c, op, ttl, single)
      PROVE  BearerInv'
  <2>1. UNCHANGED <<live, audited, cap>> /\ minting' \in {minting, minting \cup {c}}
    BY <1>5 DEF MintAdmit, reqVars
  <2> QED BY <1>4, <2>1 DEF BearerInv
<1>6. ASSUME UNCHANGED mintVars,
             UNCHANGED cap \/ \E r \in Requests : cap' = [cap EXCEPT ![r] = None]
      PROVE  BearerInv'
  BY <1>4, <1>6 DEF mintVars, BearerInv
<1>7. ASSUME NEW r \in Requests,
             \/ Require(r) \/ Clear(r) \/ TakeLease(r) \/ StartWork(r) \/ WorkRequire(r)
             \/ WorkCheck(r) \/ WorkWrite(r) \/ WorkRecord(r) \/ Cancel(r)
             \/ ReadRequire(r) \/ ReadCheck(r)
      PROVE  BearerInv'
  BY <1>6, <1>7 DEF Require, Clear, TakeLease, StartWork, WorkRequire, WorkCheck, WorkWrite,
       WorkRecord, Cancel, ReadRequire, ReadCheck
<1>8. ASSUME NEW r \in Requests, Refuse(r) \/ Return(r) \/ ReadRecord(r)
      PROVE  BearerInv'
  BY <1>6, <1>8 DEF Refuse, Return, ReadRecord, Finish
<1>10. ASSUME NEW i \in Identities, MintRefused(i) PROVE BearerInv'
  BY <1>6, <1>10 DEF MintRefused, reqVars
<1>11. CASE Clock
  BY <1>6, <1>11 DEF Clock, reqVars
<1>12. CASE UNCHANGED gatewayVars
  BY <1>6, <1>12 DEF gatewayVars, mintVars
<1> QED
  BY <1>1, <1>2, <1>3, <1>5, <1>7, <1>8, <1>10, <1>11, <1>12 DEF GatewayNext, WorkStep

\* For any capacity, concurrent mints never overfill the bearer store and no
\* request presents a capability without its "granted" audit event (CapabilityStore.issue).
THEOREM BearersSafe == GatewaySpec => []BearersSound
<1>1. GatewayInit => BearerInv
  BY GatewayAssumption, FS_EmptySet DEF GatewayInit, BearerInv, AuditedBeforeUse
<1>2. BearerInv => BearersSound
  BY DEF BearerInv, StoreBounded, BearersSound
<1> QED BY <1>1, <1>2, BearerStep, PTL DEF GatewaySpec

-----------------------------------------------------------------------------
(* Single-use capabilities *)

\* Uploads authorized before a use of c was recorded that hold a slot and may still
\* write; those that have; and those among them that have yet to record it.
Pending(c) ==
  {r \in ahead : cap[r] = c /\ pc[r] \in {"receiving", "started", "required", "checked"}}
Done(c) == {r \in Requests : cap[r] = c /\ pc[r] \in {"written", "drained"}}
Written(c) == {r \in Requests : cap[r] = c /\ pc[r] = "written"}

\* Nobody knows c any more.
Gone(c) == c \notin live \cup minting /\ \A r \in Requests : cap[r] # c

UseTypes ==
  /\ now \in Nat /\ grant \in [CapIds -> Grants \cup {None}] /\ consumed \subseteq CapIds
  /\ writes \in [CapIds -> Nat] /\ ahead \subseteq Requests
  /\ pc \in [Requests -> Steps] /\ cap \in [Requests -> CapIds \cup {None}]
  /\ \A c \in live \cup minting : c \in CapIds /\ grant[c] # None
  /\ \A c \in CapIds : grant[c] = None => writes[c] = 0
  /\ \A c \in spent : c \in CapIds /\ grant[c] # None /\ grant[c].single_use
  /\ \A r \in Requests : IF pc[r] = "idle" THEN cap[r] = None
                         ELSE cap[r] \in CapIds /\ grant[cap[r]] # None

\* A single-use capability.  What is written with it and what may still be fits the
\* slots.  Until a use is recorded each write with it is of a thread still to record
\* it; while a handler has cleared an upload ahead of that, and has no slot yet, each
\* write with it is of a thread that still holds one.  Once a use is recorded, the
\* ledger has it until it expires.
Uses(c) ==
  grant[c] # None /\ grant[c].single_use =>
    /\ writes[c] + Cardinality(Pending(c)) <= limit
    /\ c \in spent \/ Gone(c) \/ writes[c] = Cardinality(Written(c))
    /\ \A r \in ahead : cap[r] = c /\ pc[r] = "cleared" => writes[c] <= Cardinality(Done(c))
    /\ c \in spent => c \in consumed \/ grant[c].expires_at <= now \/ Gone(c)

\* An upload that was cleared after a use was recorded came through because its
\* capability had expired, and gets no further than write_object.
Late(r) ==
  /\ pc[r] \in {"idle", "presented", "authorizing"} => r \notin ahead
  /\ pc[r] # "idle" /\ grant[cap[r]].single_use /\ r \notin ahead =>
       /\ pc[r] \notin {"required", "checked", "written"}
       /\ pc[r] \in {"cleared", "receiving", "started"} => grant[cap[r]].expires_at <= now

UseInv ==
  /\ UseTypes /\ AdmInv
  /\ \A c \in CapIds : Uses(c)
  /\ \A r \in Requests : Late(r)

\* Sets of requests are finite.
LEMMA RequestCounts ==
  ASSUME NEW S \in SUBSET Requests
  PROVE  IsFiniteSet(S) /\ Cardinality(S) \in Nat
BY FS_Subset, FS_CardinalityType, GatewayAssumption

\* A smaller set of requests has fewer members.
LEMMA FewerRequests ==
  ASSUME NEW S \in SUBSET Requests, NEW T \in SUBSET S
  PROVE  Cardinality(T) <= Cardinality(S) /\ Cardinality(T) \in Nat /\ Cardinality(S) \in Nat
<1>1. IsFiniteSet(S) /\ T \in SUBSET Requests
  BY RequestCounts
<1> QED
  BY <1>1, RequestCounts, FS_Subset

\* Two sets that have nothing in common count as one.
LEMMA CountBoth ==
  ASSUME NEW S, NEW T, IsFiniteSet(S), IsFiniteSet(T), S \cap T = {}
  PROVE  Cardinality(S \cup T) = Cardinality(S) + Cardinality(T)
<1>1. Cardinality(S \cup T) = Cardinality(S) + Cardinality(T) - Cardinality(S \cap T)
  BY FS_Union
<1>2. Cardinality(S \cap T) = 0 /\ Cardinality(S) \in Nat /\ Cardinality(T) \in Nat
  BY FS_EmptySet, FS_CardinalityType
<1> QED
  BY <1>1, <1>2

\* The facts about one capability, and about the numbers in them.
LEMMA UseFacts ==
  ASSUME UseInv, NEW c \in CapIds, grant[c] # None
  PROVE  /\ Uses(c) /\ writes[c] \in Nat /\ limit \in Nat /\ now \in Nat
         /\ grant[c].expires_at \in Nat /\ grant[c].single_use \in BOOLEAN
         /\ Pending(c) \in SUBSET Requests /\ Cardinality(Pending(c)) \in Nat
         /\ Written(c) \in SUBSET Requests /\ Cardinality(Written(c)) \in Nat
         /\ Done(c) \in SUBSET Requests /\ Cardinality(Done(c)) \in Nat
<1>1. grant[c] \in Grants /\ writes[c] \in Nat /\ limit \in Nat /\ now \in Nat
  BY GatewayAssumption DEF UseInv, UseTypes, AdmInv
<1>2. grant[c].expires_at \in Nat /\ grant[c].single_use \in BOOLEAN
  BY <1>1 DEF Grants
<1>3. /\ Pending(c) \in SUBSET Requests /\ Written(c) \in SUBSET Requests
      /\ Done(c) \in SUBSET Requests
  BY DEF UseInv, UseTypes, Pending, Written, Done
<1> QED
  BY <1>1, <1>2, <1>3, RequestCounts DEF UseInv

\* Nothing is written and no use recorded with c; fewer uploads wait to write with it,
\* and while one is cleared ahead of a use no slot is given back.
LEMMA UsesKept ==
  ASSUME UseInv, NEW c \in CapIds, grant[c] # None, grant[c].single_use,
         grant'[c] = grant[c], writes'[c] = writes[c], limit' = limit,
         now' \in Nat, now <= now', c \in spent' <=> c \in spent,
         Pending(c)' \subseteq Pending(c), Written(c)' = Written(c), Gone(c) => Gone(c)',
         c \in consumed /\ grant[c].expires_at > now => c \in consumed',
         \A r \in ahead' : cap'[r] = c /\ pc'[r] = "cleared" =>
           writes[c] <= Cardinality(Done(c)')
  PROVE  Uses(c)'
<1>1. /\ Uses(c) /\ writes[c] \in Nat /\ limit \in Nat /\ now \in Nat
      /\ grant[c].expires_at \in Nat /\ Pending(c) \in SUBSET Requests
  BY UseFacts
<1>2. /\ Cardinality(Pending(c)') <= Cardinality(Pending(c))
      /\ Cardinality(Pending(c)') \in Nat /\ Cardinality(Pending(c)) \in Nat
  BY <1>1, FewerRequests
<1>3. writes'[c] + Cardinality(Pending(c)') <= limit'
  BY <1>1, <1>2 DEF Uses
<1>4. c \in spent' \/ Gone(c)' \/ writes'[c] = Cardinality(Written(c)')
  BY <1>1 DEF Uses
<1>5. c \in spent' => c \in consumed' \/ grant'[c].expires_at <= now' \/ Gone(c)'
  BY <1>1 DEF Uses
<1> QED
  BY <1>3, <1>4, <1>5 DEF Uses

\* The ledger only loses what has expired.
Prunes == consumed' = Unexpired(consumed) \/ UNCHANGED consumed

\* A request moves, and no grant, count or use with it: it neither takes a slot nor
\* writes nor records, and it gives no slot back while a handler is between its
\* authorization and its lease.
LEMMA RequestMoves ==
  ASSUME UseInv, AdmInv', NEW r \in Requests, NEW to \in Steps, NEW d \in CapIds \cup {None},
         pc' = [pc EXCEPT ![r] = to], cap' = [cap EXCEPT ![r] = d],
         UNCHANGED <<grant, minting, now, limit, writes, spent>>, Prunes,
         live' \subseteq live, ahead' \subseteq Requests,
         \A q \in Requests \ {r} : q \in ahead' <=> q \in ahead,
         \/ to = "idle" /\ d = None
         \/ to # "idle" /\ pc[r] # "idle" /\ d = cap[r]
         \/ to # "idle" /\ pc[r] = "idle" /\ d \in live,
         to # "written", pc[r] # "written",
         /\ to \in {"receiving", "started", "required", "checked"} /\ r \in ahead'
            => pc[r] \in {"receiving", "started", "required", "checked"} /\ r \in ahead,
         pc[r] = "drained" => LoopFree(r),
         to = "cleared" /\ r \in ahead' => d \notin spent,
         Late(r)'
  PROVE  UseInv'
<1>0. UseTypes /\ now \in Nat /\ None \notin CapIds
  BY GatewayAssumption DEF UseInv, UseTypes
<1>1. pc'[r] = to /\ cap'[r] = d /\ \A q \in Requests \ {r} : pc'[q] = pc[q] /\ cap'[q] = cap[q]
  BY <1>0 DEF UseTypes
<1>2. consumed' \subseteq consumed /\ \A c \in consumed : grant[c].expires_at > now => c \in consumed'
  BY DEF Prunes, Unexpired
<1>3. UseTypes'
  <2>1. /\ now' \in Nat /\ grant' \in [CapIds -> Grants \cup {None}] /\ consumed' \subseteq CapIds
        /\ writes' \in [CapIds -> Nat] /\ ahead' \subseteq Requests
        /\ pc' \in [Requests -> Steps] /\ cap' \in [Requests -> CapIds \cup {None}]
        /\ \A c \in live' \cup minting' : c \in CapIds /\ grant'[c] # None
        /\ \A c \in CapIds : grant'[c] = None => writes'[c] = 0
        /\ \A c \in spent' : c \in CapIds /\ grant'[c] # None /\ grant'[c].single_use
    BY <1>0, <1>2 DEF UseTypes
  <2>2. \A q \in Requests : IF pc'[q] = "idle" THEN cap'[q] = None
                            ELSE cap'[q] \in CapIds /\ grant'[cap'[q]] # None
    BY <1>0, <1>1 DEF UseTypes
  <2> QED
    BY <2>1, <2>2 DEF UseTypes
<1>4. ASSUME NEW c \in CapIds, grant[c] # None, grant[c].single_use
      PROVE  Uses(c)'
  <2>0. /\ Uses(c) /\ writes[c] \in Nat /\ Done(c) \in SUBSET Requests
        /\ Cardinality(Done(c)) \in Nat /\ Written(c) \in SUBSET Done(c)
    BY <1>4, UseFacts DEF Written, Done
  <2>1. Pending(c)' \subseteq Pending(c)
    <3> SUFFICES ASSUME NEW q \in Pending(c)' PROVE q \in Pending(c)
      OBVIOUS
    <3>1. /\ q \in ahead' /\ q \in Requests /\ cap'[q] = c
          /\ pc'[q] \in {"receiving", "started", "required", "checked"}
      BY DEF Pending
    <3>2. CASE q = r
      BY <1>0, <1>1, <1>4, <3>1, <3>2 DEF Pending
    <3>3. CASE q # r
      BY <1>1, <3>1, <3>3 DEF Pending
    <3> QED
      BY <3>2, <3>3
  <2>2. Written(c)' = Written(c)
    BY <1>1 DEF Written
  <2>3. \A q \in Requests : cap'[q] = c => cap[q] = c \/ c \in live
    BY <1>0, <1>1 DEF UseTypes
  <2>4. Gone(c) => Gone(c)'
    BY <2>3 DEF Gone
  <2>5. ASSUME NEW q \in ahead', cap'[q] = c, pc'[q] = "cleared"
        PROVE  writes[c] <= Cardinality(Done(c)')
    <3>0. q \in Requests
      OBVIOUS
    <3>1. CASE q = r
      <4>1. c \notin spent /\ ~Gone(c)
        BY <1>0, <1>1, <1>4, <2>5, <3>1 DEF Gone, UseTypes
      <4>2. writes[c] = Cardinality(Written(c))
        BY <1>4, <2>0, <4>1 DEF Uses
      <4>3. Written(c) \in SUBSET Done(c)' /\ Done(c)' \in SUBSET Requests
        BY <2>2 DEF Written, Done
      <4> QED
        BY <4>2, <4>3, FewerRequests
    <3>2. CASE q # r
      <4>1. q \in ahead /\ cap[q] = c /\ pc[q] = "cleared"
        BY <1>1, <2>5, <3>0, <3>2
      <4>2. writes[c] <= Cardinality(Done(c))
        BY <1>4, <2>0, <4>1 DEF Uses
      <4>3. pc[r] # "drained"
        BY <3>0, <3>2, <4>1 DEF LoopFree
      <4>4. Done(c) \in SUBSET Done(c)' /\ Done(c)' \in SUBSET Requests
        BY <1>1, <4>3 DEF Done
      <4>5. Cardinality(Done(c)) <= Cardinality(Done(c)') /\ Cardinality(Done(c)') \in Nat
        BY <4>4, FewerRequests
      <4> QED
        BY <2>0, <4>2, <4>5
    <3> QED
      BY <3>1, <3>2
  <2>6. now' \in Nat /\ now <= now'
    BY <1>0
  <2> QED
    BY <1>2, <1>4, <2>1, <2>2, <2>4, <2>5, <2>6, UsesKept
<1>5. \A c \in CapIds : Uses(c)'
  BY <1>4 DEF Uses
<1>6. \A q \in Requests \ {r} : Late(q)'
  BY <1>1 DEF UseInv, Late
<1> QED
  BY <1>3, <1>5, <1>6 DEF UseInv

\* The threads stand still: at most time passes, expired entries go, and a capability
\* that was built is published or dropped.
LEMMA ThreadsStill ==
  ASSUME UseInv, AdmInv', UNCHANGED <<grant, limit, writes, spent, pc, cap, ahead>>, Prunes,
         now' \in Nat, now <= now', live' \cup minting' \subseteq live \cup minting
  PROVE  UseInv'
<1>0. UseTypes /\ now \in Nat
  BY DEF UseInv, UseTypes
<1>1. consumed' \subseteq consumed /\ \A c \in consumed : grant[c].expires_at > now => c \in consumed'
  BY DEF Prunes, Unexpired
<1>2. UseTypes'
  BY <1>0, <1>1 DEF UseTypes
<1>3. ASSUME NEW c \in CapIds, grant[c] # None, grant[c].single_use
      PROVE  Uses(c)'
  <2>1. Pending(c)' = Pending(c) /\ Written(c)' = Written(c) /\ Done(c)' = Done(c)
    BY DEF Pending, Written, Done
  <2>2. Gone(c) => Gone(c)'
    BY DEF Gone
  <2>3. \A r \in ahead' : cap'[r] = c /\ pc'[r] = "cleared" => writes[c] <= Cardinality(Done(c)')
    BY <1>3, <2>1 DEF UseInv, Uses
  <2> QED
    BY <1>1, <1>3, <2>1, <2>2, <2>3, UsesKept
<1>4. \A c \in CapIds : Uses(c)'
  BY <1>3 DEF Uses
<1>5. ASSUME NEW r \in Requests
      PROVE  Late(r)'
  <2>1. CASE pc[r] = "idle"
    BY <2>1 DEF UseInv, Late
  <2>2. CASE pc[r] # "idle"
    <3>1. cap[r] \in CapIds /\ grant[cap[r]] # None /\ Late(r)
      BY <1>0, <2>2 DEF UseTypes, UseInv
    <3>2. grant[cap[r]].expires_at \in Nat
      BY <3>1, UseFacts
    <3> QED
      BY <1>0, <3>1, <3>2 DEF Late
  <2> QED
    BY <2>1, <2>2
<1> QED
  BY <1>2, <1>4, <1>5 DEF UseInv

\* A new capability has been used by nobody.
LEMMA Granted ==
  ASSUME UseInv, AdmInv', NEW d \in CapIds, NEW g \in Grants, grant[d] = None,
         grant' = [grant EXCEPT ![d] = g], minting' = minting \cup {d},
         UNCHANGED <<now, limit, live, consumed, writes, spent, pc, cap, ahead>>
  PROVE  UseInv'
<1>0. UseTypes /\ now \in Nat /\ None \notin CapIds /\ None \notin Grants /\ limit \in Nat
  BY GatewayAssumption DEF UseInv, UseTypes, AdmInv
<1>1. grant'[d] = g /\ \A c \in CapIds \ {d} : grant'[c] = grant[c]
  BY <1>0 DEF UseTypes
<1>2. d \notin spent /\ writes[d] = 0 /\ \A r \in Requests : cap[r] # d
  BY <1>0 DEF UseTypes
<1>3. UseTypes'
  <2>1. grant' \in [CapIds -> Grants \cup {None}]
    BY <1>0 DEF UseTypes
  <2> QED
    BY <1>0, <1>1, <1>2, <2>1 DEF UseTypes
<1>4. ASSUME NEW c \in CapIds
      PROVE  Uses(c)'
  <2>1. Pending(c)' = Pending(c) /\ Written(c)' = Written(c) /\ Done(c)' = Done(c)
    BY DEF Pending, Written, Done
  <2>2. CASE c = d
    <3>1. Pending(c)' = {} /\ Written(c)' = {} /\ Cardinality({}) = 0
      BY <1>0, <1>2, <2>1, <2>2, FS_EmptySet DEF Pending, Written, UseTypes
    <3>2. writes'[c] = 0 /\ c \notin spent' /\ \A r \in ahead' : cap'[r] # c
      BY <1>0, <1>2, <2>2 DEF UseTypes
    <3> QED
      BY <1>0, <3>1, <3>2 DEF Uses
  <2>3. CASE c # d /\ grant[c] # None /\ grant[c].single_use
    <3>1. Gone(c) => Gone(c)'
      BY <2>3 DEF Gone
    <3>2. \A r \in ahead' : cap'[r] = c /\ pc'[r] = "cleared" => writes[c] <= Cardinality(Done(c)')
      BY <2>1, <2>3 DEF UseInv, Uses
    <3>3. now' \in Nat /\ now <= now'
      BY <1>0
    <3> QED
      BY <1>1, <2>1, <2>3, <3>1, <3>2, <3>3, UsesKept
  <2>4. CASE c # d /\ ~(grant[c] # None /\ grant[c].single_use)
    BY <1>1, <2>4 DEF Uses
  <2> QED
    BY <2>2, <2>3, <2>4
<1>5. ASSUME NEW r \in Requests
      PROVE  Late(r)'
  BY <1>0, <1>1, <1>2 DEF UseInv, UseTypes, Late
<1> QED
  BY <1>3, <1>4, <1>5 DEF UseInv

\* An upload takes its slot.  If it is ahead of the first recorded use, every write with
\* its capability is of a thread that holds a slot too: together they fit.
LEMMA SlotTaken ==
  ASSUME UseInv, AdmInv', NEW r \in Requests, pc[r] = "cleared",
         pc' = [pc EXCEPT ![r] = "receiving"], leases' = leases \cup {r},
         UNCHANGED <<grant, minting, live, now, limit, consumed, cap, writes, spent, ahead>>
  PROVE  UseInv'
<1> DEFINE d == cap[r]
<1>0. UseTypes /\ now \in Nat /\ d \in CapIds /\ grant[d] # None /\ AdmInv /\ limit \in Nat
  BY GatewayAssumption DEF UseInv, UseTypes, AdmInv
<1>1. pc'[r] = "receiving" /\ \A q \in Requests \ {r} : pc'[q] = pc[q]
  BY <1>0 DEF UseTypes
<1>2. UseTypes'
  <2>1. pc' \in [Requests -> Steps]
    BY <1>0 DEF UseTypes, Steps
  <2> QED
    BY <1>0, <1>1, <2>1 DEF UseTypes
<1>3. ASSUME NEW c \in CapIds, grant[c] # None, grant[c].single_use
      PROVE  Uses(c)'
  <2>0. /\ Uses(c) /\ writes[c] \in Nat
        /\ Done(c) \in SUBSET Requests /\ Cardinality(Done(c)) \in Nat
    BY <1>3, UseFacts
  <2>1. Written(c)' = Written(c) /\ Done(c)' = Done(c) /\ Gone(c)' = Gone(c)
    BY <1>1 DEF Written, Done, Gone
  <2>2. \A q \in ahead' : cap'[q] = c /\ pc'[q] = "cleared" => writes[c] <= Cardinality(Done(c)')
    BY <1>0, <1>1, <1>3, <2>0, <2>1 DEF Uses, UseTypes
  <2>3. CASE c = d /\ r \in ahead
    <3>1. writes[c] <= Cardinality(Done(c))
      BY <1>3, <2>0, <2>3 DEF Uses
    <3>2. /\ Pending(c)' \in SUBSET Requests /\ Done(c) \cap Pending(c)' = {}
          /\ Done(c) \cup Pending(c)' \subseteq leases' /\ leases' \in SUBSET Requests
      BY <1>0, <1>2, <2>0, <2>1 DEF Done, Pending, AdmInv, Leased, UseTypes
    <3>3. /\ IsFiniteSet(Done(c)) /\ IsFiniteSet(Pending(c)') /\ Cardinality(Pending(c)') \in Nat
      BY <2>0, <3>2, RequestCounts
    <3>4. Cardinality(Done(c) \cup Pending(c)') = Cardinality(Done(c)) + Cardinality(Pending(c)')
      BY <3>2, <3>3, CountBoth
    <3>5. /\ Cardinality(Done(c) \cup Pending(c)') <= Cardinality(leases')
          /\ Cardinality(leases') \in Nat /\ Cardinality(leases') <= limit
      BY <3>2, FewerRequests DEF AdmInv
    <3>6. writes'[c] + Cardinality(Pending(c)') <= limit'
      BY <1>0, <2>0, <3>1, <3>3, <3>4, <3>5
    <3> QED
      BY <1>3, <2>0, <2>1, <2>2, <3>6 DEF Uses
  <2>4. CASE ~(c = d /\ r \in ahead)
    <3>1. Pending(c)' \subseteq Pending(c)
      BY <1>0, <1>1, <2>4 DEF Pending, UseTypes
    <3>2. now' \in Nat /\ now <= now'
      BY <1>0
    <3> QED
      BY <1>3, <2>1, <2>2, <3>1, <3>2, UsesKept
  <2> QED
    BY <2>3, <2>4
<1>4. \A c \in CapIds : Uses(c)'
  BY <1>3 DEF Uses
<1>5. \A q \in Requests : Late(q)'
  BY <1>1 DEF UseInv, Late
<1> QED
  BY <1>2, <1>4, <1>5 DEF UseInv

\* A write commits: one thread fewer to write, one more to record.
LEMMA WriteCommitted ==
  ASSUME UseInv, AdmInv', NEW r \in Requests, pc[r] = "checked",
         writes' = [writes EXCEPT ![cap[r]] = More(cap[r])], pc' = [pc EXCEPT ![r] = "written"],
         UNCHANGED <<grant, minting, live, now, limit, consumed, cap, spent, ahead>>
  PROVE  UseInv'
<1> DEFINE d == cap[r]
<1>0. /\ UseTypes /\ now \in Nat /\ d \in CapIds /\ grant[d] # None /\ writes[d] \in Nat
      /\ Late(r)
  BY DEF UseInv, UseTypes
<1>1. pc'[r] = "written" /\ \A q \in Requests \ {r} : pc'[q] = pc[q]
  BY <1>0 DEF UseTypes
<1>2. writes'[d] = More(d) /\ \A c \in CapIds \ {d} : writes'[c] = writes[c]
  BY <1>0 DEF UseTypes
<1>3. UseTypes'
  <2>1. pc' \in [Requests -> Steps] /\ writes' \in [CapIds -> Nat]
    BY <1>0 DEF UseTypes, Steps, More
  <2> QED
    BY <1>0, <1>1, <1>2, <2>1 DEF UseTypes
<1>4. ASSUME NEW c \in CapIds, grant[c] # None, grant[c].single_use
      PROVE  Uses(c)'
  <2>0. /\ Uses(c) /\ writes[c] \in Nat /\ limit \in Nat
        /\ Pending(c) \in SUBSET Requests /\ Cardinality(Pending(c)) \in Nat
        /\ Written(c) \in SUBSET Requests /\ Cardinality(Written(c)) \in Nat
        /\ Done(c) \in SUBSET Requests /\ Cardinality(Done(c)) \in Nat
    BY <1>4, UseFacts
  <2>1. Gone(c)' = Gone(c)
    BY DEF Gone
  <2>2. CASE c = d
    <3>1. r \in ahead
      BY <1>0, <1>4, <2>2 DEF Late
    <3>2. /\ Pending(c)' = Pending(c) \ {r} /\ r \in Pending(c)
          /\ Written(c)' = Written(c) \cup {r} /\ r \notin Written(c)
          /\ Done(c)' = Done(c) \cup {r} /\ r \notin Done(c)
      BY <1>0, <1>1, <2>2, <3>1 DEF Pending, Written, Done, UseTypes
    <3>3. IsFiniteSet(Pending(c)) /\ IsFiniteSet(Written(c)) /\ IsFiniteSet(Done(c))
      BY <2>0, RequestCounts
    <3>4. Cardinality(Pending(c)') = Cardinality(Pending(c)) - 1
      BY <3>2, <3>3, FS_RemoveElement
    <3>5. /\ Cardinality(Written(c)') = Cardinality(Written(c)) + 1
          /\ Cardinality(Done(c)') = Cardinality(Done(c)) + 1
      BY <3>2, <3>3, FS_AddElement
    <3>6. writes[c] + Cardinality(Pending(c)) <= limit
      BY <1>4, <2>0 DEF Uses
    <3>7. writes'[c] = writes[c] + 1
      BY <1>2, <1>4, <2>0, <2>2, <3>6 DEF More
    <3>8. writes'[c] + Cardinality(Pending(c)') <= limit'
      BY <2>0, <3>4, <3>6, <3>7
    <3>9. c \in spent' \/ Gone(c)' \/ writes'[c] = Cardinality(Written(c)')
      BY <1>4, <2>0, <2>1, <3>5, <3>7 DEF Uses
    <3>10. ASSUME NEW q \in ahead', cap'[q] = c, pc'[q] = "cleared"
           PROVE  writes'[c] <= Cardinality(Done(c)')
      <4>1. q \in ahead /\ cap[q] = c /\ pc[q] = "cleared"
        BY <1>0, <1>1, <3>10 DEF UseTypes
      <4>2. writes[c] <= Cardinality(Done(c))
        BY <1>4, <2>0, <4>1 DEF Uses
      <4> QED
        BY <2>0, <3>5, <3>7, <4>2
    <3> QED
      BY <1>4, <2>0, <2>1, <3>8, <3>9, <3>10 DEF Uses
  <2>3. CASE c # d
    <3>1. Pending(c)' = Pending(c) /\ Written(c)' = Written(c) /\ Done(c)' = Done(c)
      BY <1>0, <1>1, <2>3 DEF Pending, Written, Done, UseTypes
    <3>2. \A q \in ahead' : cap'[q] = c /\ pc'[q] = "cleared" => writes[c] <= Cardinality(Done(c)')
      BY <1>0, <1>1, <1>4, <2>0, <3>1 DEF Uses, UseTypes
    <3>3. now' \in Nat /\ now <= now'
      BY <1>0
    <3> QED
      BY <1>2, <1>4, <2>1, <2>3, <3>1, <3>2, <3>3, UsesKept
  <2> QED
    BY <2>2, <2>3
<1>5. \A c \in CapIds : Uses(c)'
  BY <1>4 DEF Uses
<1>6. \A q \in Requests : Late(q)'
  BY <1>0, <1>1 DEF UseInv, Late
<1> QED
  BY <1>3, <1>5, <1>6 DEF UseInv

\* A use is recorded: the ledger has it from here on.
LEMMA Recorded ==
  ASSUME UseInv, AdmInv', NEW r \in Requests, NEW to, NEW e, Record(cap[r]),
         \/ pc[r] = "written" /\ to = "drained" /\ e = cap[r] /\ UNCHANGED ahead
         \/ pc[r] = "reading" /\ to = "idle" /\ e = None /\ ahead' = ahead \ {r},
         pc' = [pc EXCEPT ![r] = to], cap' = [cap EXCEPT ![r] = e],
         UNCHANGED <<grant, minting, live, now, limit, writes>>
  PROVE  UseInv'
<1> DEFINE d == cap[r]
<1>0. /\ UseTypes /\ now \in Nat /\ None \notin CapIds /\ d \in CapIds /\ grant[d] # None
  BY GatewayAssumption DEF UseInv, UseTypes
<1>1. pc'[r] = to /\ cap'[r] = e /\ \A q \in Requests \ {r} : pc'[q] = pc[q] /\ cap'[q] = cap[q]
  BY <1>0 DEF UseTypes
<1>2. /\ consumed' = Unexpired(consumed) \cup (IF grant[d].single_use THEN {d} ELSE {})
      /\ spent' = spent \cup (IF grant[d].single_use THEN {d} ELSE {})
  BY DEF Record
<1>3. UseTypes'
  <2>1. /\ now' \in Nat /\ grant' \in [CapIds -> Grants \cup {None}] /\ consumed' \subseteq CapIds
        /\ writes' \in [CapIds -> Nat] /\ ahead' \subseteq Requests
        /\ cap' \in [Requests -> CapIds \cup {None}]
        /\ \A c \in live' \cup minting' : c \in CapIds /\ grant'[c] # None
        /\ \A c \in CapIds : grant'[c] = None => writes'[c] = 0
    BY <1>0, <1>2 DEF UseTypes, Unexpired
  <2>2. \A q \in Requests : IF pc'[q] = "idle" THEN cap'[q] = None
                            ELSE cap'[q] \in CapIds /\ grant'[cap'[q]] # None
    BY <1>0, <1>1 DEF UseTypes
  <2>3. pc' \in [Requests -> Steps]
    BY <1>0 DEF UseTypes, Steps
  <2>4. \A c \in spent' : c \in CapIds /\ grant'[c] # None /\ grant'[c].single_use
    BY <1>0, <1>2 DEF UseTypes
  <2> QED
    BY <2>1, <2>2, <2>3, <2>4 DEF UseTypes
<1>4. ASSUME NEW c \in CapIds, grant[c] # None, grant[c].single_use
      PROVE  Uses(c)'
  <2>0. /\ Uses(c) /\ writes[c] \in Nat /\ limit \in Nat
        /\ Pending(c) \in SUBSET Requests /\ Cardinality(Pending(c)) \in Nat
    BY <1>4, UseFacts
  <2>1. Pending(c)' = Pending(c) /\ Done(c)' = Done(c)
    BY <1>0, <1>1 DEF Pending, Done, UseTypes
  <2>2. \A q \in ahead' : cap'[q] = c /\ pc'[q] = "cleared" => writes[c] <= Cardinality(Done(c)')
    BY <1>0, <1>1, <1>4, <2>0, <2>1 DEF Uses, UseTypes
  <2>3. CASE c = d
    <3>1. c \in spent' /\ c \in consumed'
      BY <1>2, <1>4, <2>3
    <3> QED
      BY <1>4, <2>0, <2>1, <2>2, <3>1 DEF Uses
  <2>4. CASE c # d
    <3>1. Written(c)' = Written(c) /\ (Gone(c) => Gone(c)')
      BY <1>0, <1>1, <1>4, <2>4 DEF Written, Gone
    <3>2. (c \in spent' <=> c \in spent)
          /\ (c \in consumed /\ grant[c].expires_at > now => c \in consumed')
      BY <1>2, <2>4 DEF Unexpired
    <3>3. now' \in Nat /\ now <= now'
      BY <1>0
    <3> QED
      BY <1>4, <2>1, <2>2, <3>1, <3>2, <3>3, UsesKept
  <2> QED
    BY <2>3, <2>4
<1>5. \A c \in CapIds : Uses(c)'
  BY <1>4 DEF Uses
<1>6. \A q \in Requests : Late(q)'
  BY <1>0, <1>1 DEF UseInv, Late
<1> QED
  BY <1>3, <1>5, <1>6 DEF UseInv

\* A restart forgets every bearer and every thread: what was granted is gone.
LEMMA AllGone == UseInv /\ AdmInv' /\ Restart => UseInv'
<1> SUFFICES ASSUME UseInv, AdmInv', Restart PROVE UseInv'
  OBVIOUS
<1>0. UseTypes /\ None \notin CapIds
  BY GatewayAssumption DEF UseInv
<1>1. /\ minting' = {} /\ live' = {} /\ consumed' = {} /\ ahead' = {}
      /\ pc' = [r \in Requests |-> "idle"] /\ cap' = [r \in Requests |-> None]
      /\ UNCHANGED <<now, limit, grant, writes, spent>>
  BY DEF Restart
<1>2. UseTypes'
  BY <1>0, <1>1 DEF UseTypes, Steps
<1>3. ASSUME NEW c \in CapIds, grant[c] # None, grant[c].single_use
      PROVE  Uses(c)'
  <2>0. Uses(c) /\ writes[c] \in Nat /\ limit \in Nat /\ Cardinality(Pending(c)) \in Nat
    BY <1>3, UseFacts
  <2>1. Gone(c)'
    BY <1>0, <1>1 DEF Gone
  <2>2. Pending(c)' = {} /\ Cardinality({}) = 0
    BY <1>1, FS_EmptySet DEF Pending
  <2> QED
    BY <1>1, <1>3, <2>0, <2>1, <2>2 DEF Uses
<1>4. \A c \in CapIds : Uses(c)'
  BY <1>1, <1>3 DEF Uses
<1>5. \A r \in Requests : Late(r)'
  BY <1>1 DEF Late
<1> QED
  BY <1>2, <1>4, <1>5 DEF UseInv

\* The ledger lets a spent capability pass only once it has expired.
LEMMA LedgerSees ==
  ASSUME UseInv, NEW r \in Requests, pc[r] # "idle", Unused(cap[r]), cap[r] \in spent
  PROVE  grant[cap[r]].expires_at <= now
<1>1. /\ cap[r] \in CapIds /\ grant[cap[r]] # None /\ grant[cap[r]].single_use
      /\ ~Gone(cap[r])
  BY DEF UseInv, UseTypes, Gone
<1>2. /\ cap[r] \in consumed \/ grant[cap[r]].expires_at <= now
      /\ grant[cap[r]].expires_at \in Nat /\ now \in Nat
  BY <1>1, UseFacts DEF Uses
<1> QED
  BY <1>1, <1>2 DEF Unused, Unexpired

\* No step, in whatever order the threads of one capability take theirs, breaks the count.
LEMMA UseStep == UseInv /\ [GatewayNext]_gatewayVars => UseInv'
<1> SUFFICES ASSUME UseInv, [GatewayNext]_gatewayVars PROVE UseInv'
  OBVIOUS
<1>0. AdmInv' /\ UseTypes /\ UNCHANGED limit
  BY AdmStep, LimitFixed DEF UseInv
<1> USE DEF mintVars, rateVars, procVars, reqVars
<1>1. ASSUME UNCHANGED <<grant, writes, spent, pc, cap, ahead>>, Prunes,
             now' \in Nat, now <= now', live' \cup minting' \subseteq live \cup minting
      PROVE  UseInv'
  BY <1>0, <1>1, ThreadsStill
<1>2. now \in Nat /\ now <= now
  BY <1>0 DEF UseTypes
<1>3. ASSUME NEW i \in Identities, NEW c \in CapIds, NEW op \in Operations, NEW ttl \in Ttls,
             NEW single \in BOOLEAN, MintAdmit(i, c, op, ttl, single)
      PROVE  UseInv'
  <2>1. CASE <<i, op>> \in Allowed
    <3> DEFINE g == [op |-> op, expires_at |-> now + ttl, single_use |-> single]
    <3>1. g \in Grants
      BY <1>2, GatewayAssumption DEF Grants
    <3>2. /\ grant[c] = None /\ grant' = [grant EXCEPT ![c] = g] /\ minting' = minting \cup {c}
          /\ UNCHANGED <<now, limit, live, consumed, writes, spent, pc, cap, ahead>>
      BY <1>3, <2>1 DEF MintAdmit
    <3> HIDE DEF g
    <3> QED
      BY <1>0, <3>1, <3>2, Granted
  <2>2. CASE <<i, op>> \notin Allowed
    BY <1>1, <1>2, <1>3, <2>2 DEF MintAdmit, Prunes
  <2> QED
    BY <2>1, <2>2
<1>4. ASSUME NEW i \in Identities, MintRefused(i) PROVE UseInv'
  BY <1>1, <1>2, <1>4 DEF MintRefused, Prunes
<1>5. ASSUME NEW c \in CapIds, MintIssue(c) PROVE UseInv'
  <2>1. live' \cup minting' \subseteq live \cup minting
    BY <1>5 DEF MintIssue, Unexpired
  <2> QED
    BY <1>1, <1>2, <1>5, <2>1 DEF MintIssue, Prunes
<1>6. ASSUME NEW r \in Requests, Cancel(r) PROVE UseInv'
  BY <1>1, <1>2, <1>6 DEF Cancel, Prunes
<1>7. CASE Clock
  <2>1. now' \in Nat /\ now <= now'
    BY <1>2, <1>7 DEF Clock
  <2> QED
    BY <1>1, <1>7, <2>1 DEF Clock, Prunes
<1>8. CASE UNCHANGED gatewayVars
  BY <1>1, <1>2, <1>8 DEF gatewayVars, Prunes
<1>9. ASSUME NEW r \in Requests, NEW c \in CapIds, Present(r, c) PROVE UseInv'
  <2>1. /\ pc[r] = "idle" /\ c \in live /\ live' \subseteq live /\ Prunes
        /\ pc' = [pc EXCEPT ![r] = "presented"] /\ cap' = [cap EXCEPT ![r] = c]
        /\ UNCHANGED <<grant, minting, now, limit, writes, spent, ahead>> /\ ahead \subseteq Requests
    BY <1>0, <1>9 DEF Present, Unexpired, Prunes, UseTypes
  <2>2. "presented" \in Steps /\ pc'[r] = "presented"
    BY <1>0, <2>1 DEF Steps, UseTypes
  <2>3. Late(r)'
    BY <2>1, <2>2 DEF UseInv, Late
  <2> QED
    BY <1>0, <2>1, <2>2, <2>3, RequestMoves
<1>10. \* a request goes from one step to another
       ASSUME NEW r \in Requests, NEW to \in Steps \ {"idle", "written"},
              pc[r] \notin {"idle", "written", "drained"}, pc' = [pc EXCEPT ![r] = to], Prunes,
              UNCHANGED <<grant, minting, live, now, cap, writes, spent>>,
              \/ UNCHANGED ahead
              \/ ahead' = ahead \cup {r} /\ cap[r] \notin spent /\ to = "cleared",
              /\ to \in {"receiving", "started", "required", "checked"} /\ r \in ahead
                 => pc[r] \in {"receiving", "started", "required", "checked"},
              to = "cleared" /\ r \in ahead' => cap[r] \notin spent,
              Late(r)'
       PROVE  UseInv'
  <2>1. /\ cap' = [cap EXCEPT ![r] = cap[r]] /\ cap[r] \in CapIds \cup {None}
        /\ ahead' \subseteq Requests /\ \A q \in Requests \ {r} : q \in ahead' <=> q \in ahead
    BY <1>0, <1>10 DEF UseTypes
  <2>2. /\ to \in {"receiving", "started", "required", "checked"} /\ r \in ahead'
           => pc[r] \in {"receiving", "started", "required", "checked"} /\ r \in ahead
    BY <1>10
  <2> QED
    BY <1>0, <1>10, <2>1, <2>2, RequestMoves
<1>11. ASSUME NEW r \in Requests, pc[r] # "written", Finish(r), Prunes,
              pc[r] = "drained" => LoopFree(r),
              UNCHANGED <<grant, minting, live, now, writes, spent>>
       PROVE  UseInv'
  <2>1. /\ pc' = [pc EXCEPT ![r] = "idle"] /\ cap' = [cap EXCEPT ![r] = None] /\ "idle" \in Steps
        /\ ahead' = ahead \ {r} /\ ahead \subseteq Requests
    BY <1>0, <1>11 DEF Finish, Steps, UseTypes
  <2>2. Late(r)'
    BY <1>0, <2>1 DEF Late, UseTypes
  <2> QED
    BY <1>0, <1>11, <2>1, <2>2, RequestMoves
<1>12. ASSUME NEW r \in Requests, Require(r) \/ ReadRequire(r) \/ ReadCheck(r)
       PROVE  UseInv'
  <2>1. PICK to \in {"authorizing", "resolving", "reading"} : pc' = [pc EXCEPT ![r] = to]
    BY <1>12 DEF Require, ReadRequire, ReadCheck, Goto
  <2>2. /\ pc[r] \notin {"idle", "written", "drained"} /\ Prunes
        /\ UNCHANGED <<grant, minting, live, now, cap, writes, spent, ahead>>
    BY <1>12 DEF Require, ReadRequire, ReadCheck, Goto, Prunes
  <2>3. to = "authorizing" => pc[r] = "presented"
    BY <1>0, <1>12, <2>1 DEF Require, ReadRequire, ReadCheck, Goto, UseTypes
  <2>4. Late(r)'
    BY <1>0, <2>1, <2>2, <2>3 DEF UseInv, Late, UseTypes
  <2> QED
    BY <1>10, <2>1, <2>2, <2>4 DEF Steps
<1>13. ASSUME NEW r \in Requests, Clear(r) PROVE UseInv'
  <2>1. /\ pc[r] = "authorizing" /\ pc' = [pc EXCEPT ![r] = "cleared"] /\ Prunes /\ Unused(cap[r])
        /\ UNCHANGED <<grant, minting, live, now, cap, writes, spent>>
        /\ ahead' = IF cap[r] \in spent THEN ahead ELSE ahead \cup {r}
    BY <1>13 DEF Clear, Goto, Prunes
  <2>2. CASE cap[r] \in spent /\ r \notin ahead
    <3>1. grant[cap[r]].expires_at <= now
      BY <2>1, <2>2, LedgerSees
    <3>2. Late(r)'
      BY <1>0, <2>1, <2>2, <3>1 DEF Late, UseTypes
    <3> QED
      BY <1>10, <2>1, <2>2, <3>2 DEF Steps
  <2>3. CASE cap[r] \notin spent
    <3>1. Late(r)'
      BY <1>0, <2>1, <2>3 DEF Late, UseTypes
    <3> QED
      BY <1>10, <2>1, <2>3, <3>1 DEF Steps
  <2>4. r \notin ahead
    BY <2>1 DEF UseInv, Late
  <2> QED
    BY <2>2, <2>3, <2>4
<1>14. ASSUME NEW r \in Requests, TakeLease(r) PROVE UseInv'
  BY <1>0, <1>14, SlotTaken DEF TakeLease, Goto
<1>15. ASSUME NEW r \in Requests, Refuse(r) \/ Return(r) PROVE UseInv'
  BY <1>11, <1>15 DEF Refuse, Return, Prunes
<1>16. ASSUME NEW r \in Requests, StartWork(r) \/ WorkRequire(r) \/ WorkCheck(r)
       PROVE  UseInv'
  <2>1. /\ pc[r] \in {"receiving", "started", "required"} /\ Prunes
        /\ UNCHANGED <<grant, minting, live, now, cap, writes, spent, ahead>>
    BY <1>16 DEF StartWork, WorkRequire, WorkCheck, Goto, Prunes
  <2>2. PICK to \in {"started", "required", "checked", "drained"} :
          /\ pc' = [pc EXCEPT ![r] = to]
          /\ to = "started" => pc[r] = "receiving"
          /\ to = "required" => pc[r] = "started" /\ now < grant[cap[r]].expires_at
          /\ to = "checked" => pc[r] = "required"
    BY <1>16 DEF StartWork, WorkRequire, WorkCheck, Goto, Authorizes
  <2>3. /\ pc'[r] = to /\ Late(r) /\ cap[r] \in CapIds /\ grant[cap[r]] # None
    BY <1>0, <2>1, <2>2 DEF UseInv, UseTypes
  <2>4. grant[cap[r]].expires_at \in Nat
    BY <2>3, UseFacts
  <2>5. Late(r)'
    BY <1>2, <2>1, <2>2, <2>3, <2>4 DEF Late
  <2> QED
    BY <1>10, <2>1, <2>2, <2>5 DEF Steps
<1>17. ASSUME NEW r \in Requests, WorkWrite(r) PROVE UseInv'
  <2>1. CASE pc' = [pc EXCEPT ![r] = "drained"] /\ UNCHANGED writes
    <3>1. Late(r)'
      BY <1>0, <2>1 DEF Late, UseTypes
    <3> QED
      BY <1>10, <1>17, <2>1, <3>1 DEF WorkWrite, Prunes, Steps
  <2>2. CASE /\ writes' = [writes EXCEPT ![cap[r]] = More(cap[r])]
             /\ pc' = [pc EXCEPT ![r] = "written"]
    BY <1>0, <1>17, <2>2, WriteCommitted DEF WorkWrite
  <2> QED
    BY <1>17, <2>1, <2>2 DEF WorkWrite
<1>18. ASSUME NEW r \in Requests, WorkRecord(r) PROVE UseInv'
  <2>1. /\ pc[r] = "written" /\ pc' = [pc EXCEPT ![r] = "drained"] /\ Record(cap[r])
        /\ UNCHANGED <<grant, minting, live, now, writes, ahead>>
    BY <1>18 DEF WorkRecord, Goto
  <2>2. cap' = [cap EXCEPT ![r] = cap[r]]
    BY <1>0, <1>18 DEF WorkRecord, UseTypes
  <2> QED
    BY <1>0, <2>1, <2>2, Recorded
<1>19. ASSUME NEW r \in Requests, ReadRecord(r) PROVE UseInv'
  <2>1. /\ pc[r] = "reading" /\ pc' = [pc EXCEPT ![r] = "idle"] /\ Record(cap[r])
        /\ cap' = [cap EXCEPT ![r] = None] /\ ahead' = ahead \ {r}
        /\ UNCHANGED <<grant, minting, live, now, writes>>
    BY <1>19 DEF ReadRecord, Finish
  <2> QED
    BY <1>0, <2>1, Recorded
<1>20. CASE Restart
  BY <1>0, <1>20, AllGone
<1> QED
  BY <1>3, <1>4, <1>5, <1>6, <1>7, <1>8, <1>9, <1>12, <1>13, <1>14, <1>15, <1>16, <1>17,
     <1>18, <1>19, <1>20 DEF GatewayNext, WorkStep

\* At the start there are no capabilities.
LEMMA UseStart == GatewayInit => UseInv
<1> SUFFICES ASSUME GatewayInit PROVE UseInv
  OBVIOUS
<1>1. AdmInv
  BY AdmStart
<1>2. UseTypes
  BY GatewayAssumption DEF GatewayInit, UseTypes, Steps
<1>3. \A c \in CapIds : Uses(c)
  BY DEF GatewayInit, Uses
<1>4. \A r \in Requests : Late(r)
  BY DEF GatewayInit, Late
<1> QED
  BY <1>1, <1>2, <1>3, <1>4 DEF UseInv

\* For any number of slots, requests and capabilities, a single-use capability never
\* commits more writes than there are upload slots, whatever PUTs overlap, clients
\* leave, processes restart and capabilities expire between two checks
\* (guard.write_object checks, SingleUseLedger records).
THEOREM SingleUseSafe == GatewaySpec => []SingleUseWithinSlots
<1>1. UseInv => SingleUseWithinSlots
  <2> SUFFICES ASSUME UseInv, NEW c \in CapIds, grant[c] # None, grant[c].single_use
               PROVE  writes[c] <= limit
    BY DEF SingleUseWithinSlots
  <2>1. /\ writes[c] + Cardinality(Pending(c)) <= limit /\ writes[c] \in Nat
        /\ Cardinality(Pending(c)) \in Nat /\ limit \in Nat
    BY UseFacts DEF Uses
  <2> QED
    BY <2>1
<1> QED
  BY <1>1, UseStart, UseStep, PTL DEF GatewaySpec

\* For any constants, once a use of a single-use capability is recorded nobody passes
\* the guard with it while it lives; and when it expires between the guard's two
\* readings of the clock, of the writes only those cleared before the use was recorded
\* (Capability.require and SingleUseLedger.assert_unused).
THEOREM SpentSafe == GatewaySpec => SpentStaysSpent
<1>1. UseInv /\ [GatewayNext]_gatewayVars => [SpentStep]_gatewayVars
  <2> SUFFICES ASSUME UseInv, GatewayNext, NEW r \in Requests,
                      pc[r] \in {"required", "resolving"}, pc'[r] \in {"checked", "reading"},
                      cap[r] \in spent
               PROVE  /\ grant[cap[r]].expires_at <= now
                      /\ pc[r] = "required" => r \in ahead
    BY DEF SpentStep
  <2>0. UseTypes /\ pc'[r] # pc[r]
    BY DEF UseInv
  <2>1. pc[r] = "required" => r \in ahead
    BY <2>0 DEF UseInv, UseTypes, Late
  <2>2. ASSUME NEW q \in Requests, NEW to, to \notin {"checked", "reading"},
               pc' = [pc EXCEPT ![q] = to]
        PROVE  FALSE
    BY <2>0, <2>2 DEF UseTypes
  <2>3. ASSUME NEW q \in Requests, WorkCheck(q) \/ ReadCheck(q)
        PROVE  grant[cap[r]].expires_at <= now
    <3>1. q = r
      BY <2>0, <2>3 DEF WorkCheck, ReadCheck, Goto, UseTypes
    <3>2. Unused(cap[r])
      BY <2>0, <2>3, <3>1 DEF WorkCheck, ReadCheck, UseTypes
    <3> QED
      BY <3>2, LedgerSees
  <2>4. ASSUME UNCHANGED pc PROVE FALSE
    BY <2>0, <2>4
  <2>5. ASSUME NEW q \in Requests, Finish(q) PROVE FALSE
    BY <2>2, <2>5 DEF Finish
  <2>6. ASSUME NEW q \in Requests,
               \/ Require(q) \/ Clear(q) \/ TakeLease(q) \/ StartWork(q) \/ WorkRecord(q)
               \/ ReadRequire(q)
        PROVE  FALSE
    BY <2>2, <2>6 DEF Require, Clear, TakeLease, StartWork, WorkRecord, ReadRequire, Goto
  <2>7. ASSUME NEW q \in Requests, WorkRequire(q) \/ WorkWrite(q) PROVE FALSE
    BY <2>2, <2>7 DEF WorkRequire, WorkWrite
  <2>8. ASSUME NEW q \in Requests, Refuse(q) \/ Return(q) \/ ReadRecord(q)
        PROVE  FALSE
    BY <2>5, <2>8 DEF Refuse, Return, ReadRecord
  <2>9. ASSUME NEW q \in Requests, NEW c \in CapIds, Present(q, c) PROVE FALSE
    BY <2>2, <2>9 DEF Present
  <2>10. ASSUME NEW q \in Requests, Cancel(q) PROVE FALSE
    BY <2>4, <2>10 DEF Cancel
  <2>11. ASSUME Restart PROVE FALSE
    BY <2>11 DEF Restart
  <2>12. ASSUME NEW i \in Identities, NEW c \in CapIds, NEW op \in Operations, NEW ttl \in Ttls,
                NEW single \in BOOLEAN, MintAdmit(i, c, op, ttl, single)
         PROVE  FALSE
    BY <2>4, <2>12 DEF MintAdmit, reqVars
  <2>13. ASSUME NEW i \in Identities, MintRefused(i) PROVE FALSE
    BY <2>4, <2>13 DEF MintRefused, reqVars
  <2>14. ASSUME NEW c \in CapIds, MintIssue(c) PROVE FALSE
    BY <2>4, <2>14 DEF MintIssue, reqVars
  <2>15. ASSUME Clock PROVE FALSE
    BY <2>4, <2>15 DEF Clock, reqVars
  <2>16. grant[cap[r]].expires_at <= now
    BY <2>3, <2>6, <2>7, <2>8, <2>9, <2>10, <2>11, <2>12, <2>13, <2>14, <2>15
       DEF GatewayNext, WorkStep
  <2> QED
    BY <2>1, <2>16
<1> QED
  BY <1>1, UseStart, UseStep, PTL DEF GatewaySpec, SpentStaysSpent
=============================================================================
