------------------------------ MODULE Gateway -------------------------------
(***************************************************************************)
(* The storage guard's front door (api/app.py, capabilities.py,            *)
(* issuance_rate.py, admission.py): minting capabilities under a rate and  *)
(* a capacity limit, guarded uploads that hold an admission lease while    *)
(* their worker thread runs, and single-use consumption.  All of this      *)
(* state is local to the process and lost when it restarts; the audit log  *)
(* is durable.  Each step is one critical section of the code (a lock) or  *)
(* one reading of the clock, and the clock may tick between any two.       *)
(* Handlers of PUT run on the event loop, one at a time up to their next   *)
(* await; worker threads and handlers of GET run beside them.  What the    *)
(* admitted write does to the registry is in AssetStore; path scopes, the  *)
(* identity of the object and the lifetime of presigned URLs are left out. *)
(***************************************************************************)
EXTENDS Integers, FiniteSets

CONSTANTS
  Identities,       \* configured service identities
  Allowed,          \* (identity, operation) pairs the service policy permits
  CapIds,           \* capability ids uuid4 may return
  Requests,         \* data-plane requests in flight
  Ttls,             \* lifetimes asked for, in seconds
  MaxCapabilities,  \* ASSET_STORE_MAX_CAPABILITIES
  PerMinute,        \* ASSET_STORE_CAPABILITY_RATE_PER_MINUTE
  Burst,            \* ASSET_STORE_CAPABILITY_RATE_BURST
  Limits,           \* ASSET_STORE_MAX_INFLIGHT_UPLOADS, as deployed
  MaxTime,          \* bound on the clock
  MaxRestarts,      \* bound on process restarts
  None

Operations == {"read", "write"}
Grants == [op : Operations, expires_at : Nat, single_use : BOOLEAN]  \* what a Capability says

ASSUME GatewayAssumption ==
  /\ IsFiniteSet(CapIds) /\ IsFiniteSet(Requests)
  /\ Allowed \subseteq Identities \X Operations
  /\ Ttls \subseteq Nat \ {0}
  /\ MaxCapabilities \in Nat \ {0} /\ Limits \subseteq Nat \ {0}
  /\ PerMinute \in Nat \ {0} /\ Burst \in Nat \ {0}
  /\ MaxTime \in Nat /\ MaxRestarts \in Nat
  /\ None \notin CapIds /\ None \notin Grants

VARIABLES
  now,         \* seconds
  boot,        \* when this process started
  restarts,
  limit,       \* WorkAdmission._limit: one of Limits, never changed
  tokens,      \* _Credit.tokens in sixtieths of an attempt, per identity
  updated_at,  \* _Credit.updated_at
  since,       \* since[i][s]: i's attempts admitted at second s or later
  grant,       \* the Capability built for an id: operation, expires_at, single_use
  minting,     \* capabilities built and not yet issued
  live,        \* CapabilityStore._capabilities
  audited,     \* ids with a "granted" audit event
  consumed,    \* SingleUseLedger._consumed
  pc,          \* where a request is
  cap,         \* the capability it presented
  cancelled,   \* requests whose client has gone
  leases,      \* requests counted by WorkAdmission._active
  writes,      \* committed writes per single-use capability, counted up to limit + 1
  spent,       \* single-use capabilities of which a use has been recorded, ever
  ahead        \* uploads authorized before a use of their capability was recorded

rateVars == <<tokens, updated_at, since>>
mintVars == <<grant, minting, live, audited>>
reqVars == <<pc, cap, cancelled, leases, writes, spent, ahead>>
procVars == <<now, boot, restarts, limit>>
gatewayVars == <<now, boot, restarts, limit, tokens, updated_at, since, grant, minting, live,
                 audited, consumed, pc, cap, cancelled, leases, writes, spent, ahead>>

-----------------------------------------------------------------------------
(* Minting: POST /capabilities *)

\* Mutant: credit accrues without a ceiling.
Refilled_Unbounded(i) == tokens[i] + (now - updated_at[i]) * PerMinute

\* Credit of identity i after the refill, at most a full burst.
Refilled(i) ==
  LET t == tokens[i] + (now - updated_at[i]) * PerMinute IN
  IF t > 60 * Burst THEN 60 * Burst ELSE t

\* IssuanceRateLimiter.admit, the service policy, and the Capability object.
MintAdmit(i, c, op, ttl, single) ==
  /\ grant[c] = None
  /\ Refilled(i) >= 60
  /\ tokens' = [tokens EXCEPT ![i] = Refilled(i) - 60]
  /\ updated_at' = [updated_at EXCEPT ![i] = now]
  /\ since' = [since EXCEPT ![i] = [s \in 0..MaxTime |-> IF s <= now THEN @[s] + 1 ELSE @[s]]]
  /\ IF <<i, op>> \in Allowed
     THEN /\ grant' = [grant EXCEPT ![c] = [op |-> op, expires_at |-> now + ttl,
                                            single_use |-> single]]
          /\ minting' = minting \cup {c}
     ELSE UNCHANGED <<grant, minting>>
  /\ UNCHANGED <<live, audited, consumed, reqVars, procVars>>

\* Too little credit: the refill is kept, nothing is consumed.
MintRefused(i) ==
  /\ Refilled(i) < 60
  /\ tokens' = [tokens EXCEPT ![i] = Refilled(i)]
  /\ updated_at' = [updated_at EXCEPT ![i] = now]
  /\ UNCHANGED <<since, mintVars, consumed, reqVars, procVars>>

\* Mutant: an entry is dropped one second early.
Unexpired_Early(C) == {c \in C : grant[c].expires_at > now + 1}

\* What _prune_locked keeps.
Unexpired(C) == {c \in C : grant[c].expires_at > now}

\* Mutant: published first, audited when the audit write succeeds.
MintIssue_PublishFirst(c) ==
  /\ c \in minting
  /\ minting' = minting \ {c}
  /\ consumed' = Unexpired(consumed)
  /\ Cardinality(Unexpired(live)) < MaxCapabilities
  /\ live' = Unexpired(live) \cup {c}
  /\ audited' \in {audited, audited \cup {c}}
  /\ UNCHANGED <<grant, rateVars, reqVars, procVars>>

\* prune_consumed_capabilities and CapabilityStore.issue: retire, check, audit,
\* publish under the store's lock.  The audit write may fail.
MintIssue(c) ==
  /\ c \in minting
  /\ minting' = minting \ {c}
  /\ consumed' = Unexpired(consumed)
  /\ \/ /\ grant[c].expires_at > now
        /\ Cardinality(Unexpired(live)) < MaxCapabilities
        /\ audited' = audited \cup {c}
        /\ live' = Unexpired(live) \cup {c}
     \/ live' = Unexpired(live) /\ UNCHANGED audited
  /\ UNCHANGED <<grant, rateVars, reqVars, procVars>>

-----------------------------------------------------------------------------
(* Guarded requests *)

\* Counting stops above the number of upload slots.
More(c) == IF grant[c].single_use /\ writes[c] <= limit THEN writes[c] + 1 ELSE writes[c]

\* Capability.require, by the clock as it reads it
Authorizes(c, op) == grant[c].op = op /\ now < grant[c].expires_at
\* SingleUseLedger.assert_unused, which reads the clock again and prunes by it
Unused(c) == ~(grant[c].single_use /\ c \in Unexpired(consumed))

\* No PUT handler is between its authorization and its lease: the event loop is
\* free for the handler of r.
LoopFree(r) == \A q \in Requests \ {r} : pc[q] \notin {"authorizing", "cleared"}

Goto(r, from, to) == pc[r] = from /\ pc' = [pc EXCEPT ![r] = to]
Finish(r) ==
  /\ pc' = [pc EXCEPT ![r] = "idle"]
  /\ cap' = [cap EXCEPT ![r] = None]
  /\ cancelled' = cancelled \ {r}
  /\ leases' = leases \ {r}
  /\ ahead' = ahead \ {r}

\* require_capability: the bearer must be in the store.
Present(r, c) ==
  /\ pc[r] = "idle" /\ c \in Unexpired(live)
  /\ live' = Unexpired(live)
  /\ cap' = [cap EXCEPT ![r] = c]
  /\ pc' = [pc EXCEPT ![r] = "presented"]
  /\ UNCHANGED <<grant, minting, audited, consumed, rateVars, procVars,
                 cancelled, leases, writes, spent, ahead>>

\* PUT, on the event loop: authorize_write looks at the grant ...
Require(r) ==
  /\ Goto(r, "presented", "authorizing")
  /\ LoopFree(r) /\ Authorizes(cap[r], "write")
  /\ UNCHANGED <<mintVars, rateVars, procVars, consumed, cap, cancelled, leases, writes,
                 spent, ahead>>

\* ... then at the ledger ...
Clear(r) ==
  /\ Goto(r, "authorizing", "cleared")
  /\ Unused(cap[r])
  /\ consumed' = Unexpired(consumed)
  /\ ahead' = IF cap[r] \in spent THEN ahead ELSE ahead \cup {r}
  /\ UNCHANGED <<mintVars, rateVars, procVars, cap, cancelled, leases, writes, spent>>

\* ... and the lease is taken without waiting.  Then the body arrives.
TakeLease(r) ==
  /\ Goto(r, "cleared", "receiving")
  /\ Cardinality(leases) < limit
  /\ leases' = leases \cup {r}
  /\ UNCHANGED <<mintVars, rateVars, procVars, consumed, cap, cancelled, writes, spent,
                 ahead>>

\* Denied, saturated (503), too large, no such object, or the client leaves while
\* sending; and a presigned read, which ends without a use being recorded.
Refuse(r) ==
  /\ pc[r] \in {"presented", "authorizing", "cleared", "receiving", "resolving", "reading"}
  /\ pc[r] = "receiving" => LoopFree(r)
  /\ Finish(r)
  /\ UNCHANGED <<mintVars, rateVars, procVars, consumed, writes, spent>>

\* run_work_until_complete starts the thread.
StartWork(r) ==
  /\ Goto(r, "receiving", "started") /\ LoopFree(r)
  /\ UNCHANGED <<mintVars, rateVars, procVars, consumed, cap, cancelled, leases,
                 writes, spent, ahead>>

\* write_object authorizes again, by the grant and then by the ledger, at two
\* readings of the clock; if either raises the thread is done.
WorkRequire(r) ==
  /\ pc[r] = "started"
  /\ pc' = [pc EXCEPT ![r] = IF Authorizes(cap[r], "write") THEN "required" ELSE "drained"]
  /\ UNCHANGED <<mintVars, rateVars, procVars, consumed, cap, cancelled, leases, writes,
                 spent, ahead>>

WorkCheck(r) ==
  /\ pc[r] = "required"
  /\ consumed' = Unexpired(consumed)
  /\ pc' = [pc EXCEPT ![r] = IF Unused(cap[r]) THEN "checked" ELSE "drained"]
  /\ UNCHANGED <<mintVars, rateVars, procVars, cap, cancelled, leases, writes,
                 spent, ahead>>

\* reserve, put and commit succeed, or one of them raises.
WorkWrite(r) ==
  /\ pc[r] = "checked"
  /\ \/ /\ writes' = [writes EXCEPT ![cap[r]] = More(cap[r])]
        /\ pc' = [pc EXCEPT ![r] = "written"]
     \/ /\ pc' = [pc EXCEPT ![r] = "drained"]
        /\ UNCHANGED writes
  /\ UNCHANGED <<mintVars, rateVars, procVars, consumed, cap, cancelled, leases,
                 spent, ahead>>

\* record_successful_use; it raises when the capability is consumed already, and the
\* thread, or the read, is done either way.
Record(c) ==
  /\ consumed' = Unexpired(consumed) \cup (IF grant[c].single_use THEN {c} ELSE {})
  /\ spent' = spent \cup (IF grant[c].single_use THEN {c} ELSE {})

\* Mutant: the use is recorded by the request, which a cancellation has left.
WorkRecord_SkipsCancelled(r) ==
  /\ Goto(r, "written", "drained")
  /\ IF r \in cancelled THEN UNCHANGED <<consumed, spent>> ELSE Record(cap[r])
  /\ UNCHANGED <<mintVars, rateVars, procVars, cap, cancelled, leases, writes, ahead>>

WorkRecord(r) ==
  /\ Goto(r, "written", "drained")
  /\ Record(cap[r])
  /\ UNCHANGED <<mintVars, rateVars, procVars, cap, cancelled, leases, writes, ahead>>

Running == {r \in Requests : pc[r] \in {"started", "required", "checked", "written"}}

\* Mutant: the request's exit releases the lease while its thread runs on.
Cancel_Releases(r) ==
  /\ r \in Running \ cancelled /\ LoopFree(r)
  /\ cancelled' = cancelled \cup {r}
  /\ leases' = leases \ {r}
  /\ UNCHANGED <<mintVars, rateVars, procVars, consumed, pc, cap, writes,
                 spent, ahead>>

\* The request task is cancelled: it keeps its lease and waits for the thread.
Cancel(r) ==
  /\ r \in Running \ cancelled /\ LoopFree(r)
  /\ cancelled' = cancelled \cup {r}
  /\ UNCHANGED <<mintVars, rateVars, procVars, consumed, pc, cap, leases, writes,
                 spent, ahead>>

\* Mutant: a cancelled request does not release its lease.
Return_Leaks(r) ==
  /\ pc[r] = "drained" /\ LoopFree(r)
  /\ pc' = [pc EXCEPT ![r] = "idle"]
  /\ cap' = [cap EXCEPT ![r] = None]
  /\ cancelled' = cancelled \ {r}
  /\ leases' = IF r \in cancelled THEN leases ELSE leases \ {r}
  /\ ahead' = ahead \ {r}
  /\ UNCHANGED <<mintVars, rateVars, procVars, consumed, writes, spent>>

\* The thread is done: the response, the error or the cancellation goes out.
Return(r) ==
  /\ pc[r] = "drained" /\ LoopFree(r)
  /\ Finish(r)
  /\ UNCHANGED <<mintVars, rateVars, procVars, consumed, writes, spent>>

\* GET, in a thread of the pool: resolve_for_read authorizes by the grant and by
\* the ledger, and in proxy mode the use is recorded when the bytes are there.
ReadRequire(r) ==
  /\ Goto(r, "presented", "resolving")
  /\ Authorizes(cap[r], "read")
  /\ UNCHANGED <<mintVars, rateVars, procVars, consumed, cap, cancelled, leases, writes,
                 spent, ahead>>

ReadCheck(r) ==
  /\ Goto(r, "resolving", "reading")
  /\ Unused(cap[r])
  /\ consumed' = Unexpired(consumed)
  /\ UNCHANGED <<mintVars, rateVars, procVars, cap, cancelled, leases, writes,
                 spent, ahead>>

ReadRecord(r) ==
  /\ pc[r] = "reading"
  /\ Record(cap[r])
  /\ Finish(r)
  /\ UNCHANGED <<mintVars, rateVars, procVars, writes>>

-----------------------------------------------------------------------------
Clock ==
  /\ now < MaxTime
  /\ now' = now + 1
  /\ UNCHANGED <<boot, restarts, limit, rateVars, mintVars, consumed, reqVars>>

\* create_app in a new process.
Restart ==
  /\ restarts < MaxRestarts
  /\ restarts' = restarts + 1
  /\ boot' = now
  /\ tokens' = [i \in Identities |-> 60 * Burst]
  /\ updated_at' = [i \in Identities |-> now]
  /\ since' = [i \in Identities |-> [s \in 0..MaxTime |-> 0]]
  /\ minting' = {} /\ live' = {} /\ consumed' = {}
  /\ pc' = [r \in Requests |-> "idle"]
  /\ cap' = [r \in Requests |-> None]
  /\ cancelled' = {} /\ leases' = {} /\ ahead' = {}
  /\ UNCHANGED <<now, limit, grant, audited, writes, spent>>

GatewayInit ==
  /\ now = 0 /\ boot = 0 /\ restarts = 0 /\ limit \in Limits
  /\ tokens = [i \in Identities |-> 60 * Burst]
  /\ updated_at = [i \in Identities |-> 0]
  /\ since = [i \in Identities |-> [s \in 0..MaxTime |-> 0]]
  /\ grant = [c \in CapIds |-> None]
  /\ minting = {} /\ live = {} /\ audited = {} /\ consumed = {}
  /\ pc = [r \in Requests |-> "idle"]
  /\ cap = [r \in Requests |-> None]
  /\ cancelled = {} /\ leases = {}
  /\ writes = [c \in CapIds |-> 0]
  /\ spent = {}
  /\ ahead = {}

WorkStep(r) == WorkRequire(r) \/ WorkCheck(r) \/ WorkWrite(r) \/ WorkRecord(r) \/ Return(r)

GatewayNext ==
  \/ \E i \in Identities, c \in CapIds, op \in Operations, ttl \in Ttls, single \in BOOLEAN :
       MintAdmit(i, c, op, ttl, single)
  \/ \E i \in Identities : MintRefused(i)
  \/ \E c \in CapIds : MintIssue(c)
  \/ \E r \in Requests, c \in CapIds : Present(r, c)
  \/ \E r \in Requests : Require(r) \/ Clear(r) \/ TakeLease(r) \/ Refuse(r) \/ StartWork(r)
                         \/ WorkStep(r) \/ Cancel(r)
                         \/ ReadRequire(r) \/ ReadCheck(r) \/ ReadRecord(r)
  \/ Clock \/ Restart

GatewaySpec == GatewayInit /\ [][GatewayNext]_gatewayVars

\* A running thread finishes, a handler comes to its next await, and the event loop
\* gets to every callback that is ready; clients owe us nothing.
Handler(r) == pc[r] \in {"authorizing", "cleared"} /\ (Clear(r) \/ TakeLease(r) \/ Refuse(r))
LiveGateway ==
  GatewaySpec /\ \A r \in Requests : SF_gatewayVars(WorkStep(r)) /\ WF_gatewayVars(Handler(r))

-----------------------------------------------------------------------------
(* Properties *)

\* However mints interleave with the clock, in no stretch of time since the
\* process started is an identity admitted more often than its burst plus what
\* the rate allows for that stretch: credit is neither hoarded nor refunded.
RateBound ==
  \A i \in Identities, s \in boot..now :
    60 * since[i][s] <= 60 * Burst + PerMinute * (now - s)

StoreBounded == Cardinality(live) <= MaxCapabilities

AuditedBeforeUse ==
  live \subseteq audited /\ \A r \in Requests : cap[r] # None => cap[r] \in audited

\* Concurrent mints, the room they find and the audit write that may fail in
\* between: the bearer store never holds more than ASSET_STORE_MAX_CAPABILITIES
\* tokens, and every capability a request can present has its "granted" event.
BearersSound == StoreBounded /\ AuditedBeforeUse

\* A thread whose client has gone still counts: at most limit upload threads run,
\* and each of them, and nobody who is idle, holds a lease.
AdmissionHolds ==
  /\ Cardinality(Running) <= limit
  /\ Running \subseteq leases
  /\ \A r \in leases : pc[r] # "idle"

\* What SpentStaysSpent says of one step: r passes assert_unused before it writes,
\* or reads.
SpentStep ==
  \A r \in Requests : LET c == cap[r] IN
    /\ pc[r] \in {"required", "resolving"} /\ pc'[r] \in {"checked", "reading"}
    /\ c \in spent
    => grant[c].expires_at <= now /\ (pc[r] = "required" => r \in ahead)

\* Once a use of a single-use capability has been recorded, nobody passes the guard
\* with it while it lives.  The guard reads the clock twice, and a capability that
\* expires in between is no longer in the ledger: then a read may pass again, and of
\* the writes those that were authorized before the use was recorded, no other; and
\* a restart, which forgets ledger and bearers, lets nobody in.
SpentStaysSpent == [][SpentStep]_gatewayVars

\* An admitted upload whose thread has started returns and gives its lease back.
LeaseReturned ==
  \A r \in Requests : r \in Running ~> r \notin leases

\* A single-use capability is checked before the upload and recorded after it, so
\* PUTs in flight together may all use it; but only those that held a slot when
\* the first of them was recorded, so never more than there are slots, and with
\* one slot it is used once (FR-013), also if it expires between two checks.
SingleUseWithinSlots ==
  \A c \in CapIds : grant[c] # None /\ grant[c].single_use => writes[c] <= limit
=============================================================================
