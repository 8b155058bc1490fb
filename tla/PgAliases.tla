----------------------------- MODULE PgAliases ------------------------------
(***************************************************************************)
(* Alias operations of PostgresAssetRegistry, statement by statement.      *)
(* PostgreSQL runs each transaction at READ COMMITTED: a plain SELECT sees *)
(* what is committed when it runs (and the transaction's own writes) and   *)
(* locks nothing; UPDATE, DELETE and SELECT ... FOR UPDATE wait for the    *)
(* row and hold it to the end; writes of others appear when they commit.   *)
(* So an operation that reads a binding and then updates it may act on a   *)
(* value that has changed in between.  Registry has the same operations as *)
(* single steps.  Asset rows are locked in one exclusive mode; the shared  *)
(* key lock of a foreign key check is left out, since the statement that   *)
(* takes it is followed by an UPDATE of the same asset.  A grace period    *)
(* outlasts the transactions modelled, which carry their writes to their   *)
(* commit.  Each request thread takes one pooled connection for its        *)
(* outermost unit of work and gives it back when that ends; a thread that  *)
(* finds none is answered 503 in time, which changes nothing.              *)
(***************************************************************************)
EXTENDS Integers, Sequences, SequencesExt, FiniteSets

CONSTANTS
  AssetIds,  \* assets, committed and available at the start
  Fresh,     \* but for these, identifiers that raw reservations will draw
  Names,     \* alias names
  Mutable,   \* those created mutable; the others are immutable
  HomeOf,    \* HomeOf[k]: the asset k was created with, or None
  Txns,      \* request threads
  PoolSize,  \* connections of the pool
  OrderOf,   \* OrderOf[a]: the aliases of the reservation of a, in request order
  Ops,       \* the operations they run
  Detachable, Attachable,  \* names that detach and attach requests name
  Receiving, Expiring,     \* assets that rebind and attach, and expiry, name
  None

ASSUME PgAssumption ==
  /\ IsFiniteSet(AssetIds) /\ IsFiniteSet(Names) /\ Mutable \subseteq Names
  /\ Fresh \subseteq AssetIds /\ Receiving \cup Expiring \subseteq AssetIds \ Fresh
  /\ Detachable \cup Attachable \subseteq Names
  /\ HomeOf \in [Names -> (AssetIds \ Fresh) \cup {None}]
  /\ \A a \in AssetIds \ Fresh : \E k \in Names : HomeOf[k] = a
  /\ Ops \subseteq {"detach", "admin_detach", "rebind", "attach", "reserve", "expire"}
  /\ PoolSize \in Nat \ {0}
  /\ \A a \in Fresh : LET o == OrderOf[a] IN
                      o # <<>> /\ IsInjective(o) /\ o \in Seq(Names \ Mutable)
  /\ None \notin AssetIds \cup Names \cup Txns
  /\ AssetIds \cap Names = {}

VARIABLES
  state,     \* assets.state, or "absent" before the row is there
  used,      \* partition_quotas.used_asset_count
  rows,      \* names with a row in aliases
  asset_id,  \* aliases.asset_id of those rows
  tombstones,  \* detached immutable names in their grace period
  locked,    \* the transaction holding a row
  pool,      \* idle connections
  pc,        \* the next statement of a transaction
  op, name, asset,  \* its operation, and the name and asset it is about
  todo,      \* the names it has still to insert
  orphaned   \* it has found no remaining alias and marks its asset

tables == <<state, used, rows, asset_id, tombstones>>
local == <<op, name, asset, todo, orphaned>>
pgVars == <<state, used, rows, asset_id, tombstones, locked, pool, pc, op, name, asset, todo, orphaned>>

Grab(t, row) == locked[row] \in {None, t} /\ locked' = [locked EXCEPT ![row] = t]

\* The end of the outermost unit of work: the connection goes back to the pool
\* on every path.
End(t) ==
  /\ pc' = [pc EXCEPT ![t] = "idle"] /\ pool' = pool + 1
  /\ locked' = [row \in DOMAIN locked |-> IF locked[row] = t THEN None ELSE locked[row]]
  /\ op' = [op EXCEPT ![t] = None] /\ name' = [name EXCEPT ![t] = None]
  /\ asset' = [asset EXCEPT ![t] = None] /\ todo' = [todo EXCEPT ![t] = <<>>]
  /\ orphaned' = orphaned \ {t}

\* getconn, then the operation's first statement.
Begin(t, o, k, a, names, next) ==
  /\ pc[t] = "idle" /\ o \in Ops
  /\ pool > 0 /\ pool' = pool - 1
  /\ op' = [op EXCEPT ![t] = o] /\ name' = [name EXCEPT ![t] = k]
  /\ asset' = [asset EXCEPT ![t] = a] /\ todo' = [todo EXCEPT ![t] = names]
  /\ pc' = [pc EXCEPT ![t] = next]
  /\ UNCHANGED <<orphaned, tables>>
Step(t, from, to) == pc[t] = from /\ pc' = [pc EXCEPT ![t] = to] /\ UNCHANGED pool

-----------------------------------------------------------------------------
(* detach_alias, detach_mutable_alias *)

\* _load_binding, unlocked: the name must be bound.
DetachRead(t, k) ==
  /\ k \in rows /\ asset_id[k] # None
  /\ Begin(t, "detach", k, asset_id[k], <<>>, "update_alias")
  /\ UNCHANGED locked

\* The admin route: an asset the administrator has seen the name on.
AdminBegin(t, k) ==
  /\ k \in rows /\ asset_id[k] # None
  /\ Begin(t, "admin_detach", k, asset_id[k], <<>>, "lock_asset")
  /\ UNCHANGED locked

\* asset_lock; the locked asset must still list the name.  A stale
\* expected_updated_at refuses the request as well, which Rollback covers.
AdminLock(t) ==
  LET a == asset[t] IN
  /\ pc[t] = "lock_asset" /\ op[t] = "admin_detach" /\ locked[a] = None
  /\ IF name[t] \in rows /\ asset_id[name[t]] = a
     THEN Step(t, "lock_asset", "nested") /\ Grab(t, a) /\ UNCHANGED local
     ELSE End(t)
  /\ UNCHANGED tables

\* Mutant: the inner unit of work checks out a connection of its own.
AdminDetach_TakesAnother(t) ==
  /\ pc[t] = "nested" /\ pool > 0
  /\ pool' = pool - 1
  /\ pc' = [pc EXCEPT ![t] = "update_alias"]
  /\ UNCHANGED <<tables, locked, local>>

\* detach_alias inside that lock: the nested unit of work reuses the thread's
\* connection, and the binding is read again.
AdminDetach(t) ==
  LET k == name[t] IN
  /\ pc[t] = "nested"
  /\ IF k \in rows /\ asset_id[k] # None
     THEN /\ Step(t, "nested", "update_alias")
          /\ asset' = [asset EXCEPT ![t] = asset_id[k]]
          /\ UNCHANGED <<locked, op, name, todo, orphaned>>
     ELSE End(t)
  /\ UNCHANGED tables

\* Mutant: a plain detach locks the asset before the alias row.
UpdateAlias_AssetFirst(t) ==
  /\ pc[t] = "update_alias"
  /\ IF op[t] = "detach" /\ locked[asset[t]] # t
     THEN Grab(t, asset[t]) /\ UNCHANGED pc
     ELSE /\ pc' = [pc EXCEPT ![t] = "update_asset"]
          /\ IF name[t] \in rows THEN Grab(t, name[t]) ELSE UNCHANGED locked
  /\ UNCHANGED <<tables, pool, local>>

\* UPDATE or DELETE of the alias row by name: it matches no row when another
\* transaction has deleted the name since, and the operation goes on all the same.
UpdateAlias(t) ==
  /\ Step(t, "update_alias", "update_asset")
  /\ IF name[t] \in rows THEN Grab(t, name[t]) ELSE UNCHANGED locked
  /\ UNCHANGED <<tables, local>>

\* The transaction's UPDATE or DELETE has matched the row.
Matched(t) == locked[name[t]] = t

\* Rows of aliases this transaction sees bound to a.
Bound(t, a) == {k \in rows : asset_id[k] = a /\ ~(k = name[t] /\ Matched(t))}

\* Mutant: the remaining names are read before the asset row is locked.
UpdateAsset_ReadsFirst(t) ==
  /\ \/ /\ pc[t] = "update_asset"
        /\ orphaned' = IF Bound(t, asset[t]) = {} THEN orphaned \cup {t} ELSE orphaned
        /\ pc' = [pc EXCEPT ![t] = "locked_late"]
        /\ UNCHANGED locked
     \/ /\ pc[t] = "locked_late" /\ Grab(t, asset[t])
        /\ pc' = [pc EXCEPT ![t] = "commit"]
        /\ UNCHANGED orphaned
  /\ UNCHANGED <<tables, pool, op, name, asset, todo>>

\* UPDATE assets SET updated_at: from here on the asset is held.
UpdateAsset(t) ==
  /\ pc[t] = "update_asset" /\ Grab(t, asset[t])
  /\ pc' = [pc EXCEPT ![t] = IF op[t] \in {"detach", "admin_detach"} THEN "remaining"
                             ELSE "commit"]
  /\ UNCHANGED <<tables, pool, local>>

\* _mark_for_gc_if_orphaned
Remaining(t) ==
  /\ Step(t, "remaining", "commit")
  /\ orphaned' = IF Bound(t, asset[t]) = {} THEN orphaned \cup {t} ELSE orphaned
  /\ UNCHANGED <<tables, locked, op, name, asset, todo>>

\* The marked asset expires whatever state it is in; only an available one is
\* released from usage.
CommitDetach(t) ==
  LET k == name[t]  a == asset[t] IN
  /\ pc[t] = "commit" /\ op[t] \in {"detach", "admin_detach"}
  /\ rows' = IF Matched(t) /\ k \notin Mutable THEN rows \ {k} ELSE rows
  /\ tombstones' = IF k \in Mutable THEN tombstones ELSE tombstones \cup {k}
  /\ asset_id' = IF Matched(t) THEN [asset_id EXCEPT ![k] = None] ELSE asset_id
  /\ state' = IF t \in orphaned THEN [state EXCEPT ![a] = "expired"] ELSE state
  /\ used' = IF t \in orphaned /\ state[a] = "available" THEN used - 1 ELSE used
  /\ End(t)

-----------------------------------------------------------------------------
(* rebind_alias *)

\* _load_binding: mutable and detached.
RebindRead(t, k, a) ==
  /\ k \in rows /\ asset_id[k] = None
  /\ Begin(t, "rebind", k, a, <<>>, "load_asset")
  /\ UNCHANGED locked

\* _load_asset, unlocked: the target must be available.
RebindLoad(t) ==
  /\ pc[t] = "load_asset"
  /\ IF state[asset[t]] = "available"
     THEN Step(t, "load_asset", "update_alias") /\ UNCHANGED <<locked, local>>
     ELSE End(t)
  /\ UNCHANGED tables

CommitRebind(t) ==
  /\ pc[t] = "commit" /\ op[t] = "rebind"
  /\ asset_id' = [asset_id EXCEPT ![name[t]] = asset[t]]
  /\ End(t)
  /\ UNCHANGED <<state, used, rows, tombstones>>

-----------------------------------------------------------------------------
(* attach_alias, reserve_asset without a size, expire_asset *)

AttachBegin(t, k, a) ==
  /\ Begin(t, "attach", None, a, <<k>>, "lock_asset")
  /\ UNCHANGED locked

\* asset_lock, then the name is looked up, which locks nothing.
AttachCheck(t) ==
  LET a == asset[t] IN
  /\ pc[t] = "lock_asset" /\ op[t] = "attach" /\ locked[a] = None
  /\ IF Head(todo[t]) \notin rows \cup tombstones
     THEN Step(t, "lock_asset", "insert_alias") /\ Grab(t, a) /\ UNCHANGED local
     ELSE End(t)
  /\ UNCHANGED tables

\* All names are checked first, then the asset row is inserted under an
\* identifier nobody else draws; without a size no quota row is locked.
ReserveCheck(t, a) ==
  /\ state[a] = "absent" /\ locked[a] = None
  /\ Range(OrderOf[a]) \cap (rows \cup tombstones) = {}
  /\ Begin(t, "reserve", None, a, OrderOf[a], "insert_alias")
  /\ Grab(t, a)

\* Mutant: the insert takes over a row that is there already.
InsertAlias_Upserts(t) ==
  LET k == Head(todo[t]) IN
  /\ Step(t, "insert_alias", IF Len(todo[t]) = 1 THEN "commit" ELSE "insert_alias")
  /\ locked[k] = None /\ Grab(t, k)
  /\ todo' = [todo EXCEPT ![t] = Tail(@)]
  /\ UNCHANGED <<tables, op, name, asset, orphaned>>

\* INSERT of the next name waits for a transaction that is inserting or deleting
\* the same key, and raises if the key is there: UniqueViolation, which attach
\* turns into AliasConflictError and reserve leaves as it is.
InsertAlias(t) ==
  LET k == Head(todo[t]) IN
  /\ pc[t] = "insert_alias" /\ locked[k] = None
  /\ IF k \in rows
     THEN End(t)
     ELSE /\ Step(t, "insert_alias", IF Len(todo[t]) = 1 THEN "commit" ELSE "insert_alias")
          /\ Grab(t, k)
          /\ todo' = [todo EXCEPT ![t] = Tail(@)]
          /\ UNCHANGED <<op, name, asset, orphaned>>
  /\ UNCHANGED tables

CommitInserts(t) ==
  LET inserted == {k \in Names : locked[k] = t} IN
  /\ pc[t] = "commit" /\ op[t] \in {"attach", "reserve"}
  /\ rows' = rows \cup inserted
  /\ asset_id' = [k \in Names |-> IF k \in inserted THEN asset[t] ELSE asset_id[k]]
  /\ state' = IF op[t] = "reserve" THEN [state EXCEPT ![asset[t]] = "pending"] ELSE state
  /\ End(t)
  /\ UNCHANGED <<used, tombstones>>

\* Everything about one asset under its row lock.
Expire(a) ==
  /\ "expire" \in Ops /\ locked[a] = None /\ state[a] = "available"
  /\ state' = [state EXCEPT ![a] = "expired"]
  /\ used' = used - 1
  /\ UNCHANGED <<rows, asset_id, tombstones, locked, pool, pc, local>>

-----------------------------------------------------------------------------
(* Waiting *)

Wants(t) ==
  CASE pc[t] = "update_alias" /\ name[t] \in rows -> name[t]
    [] pc[t] = "insert_alias" -> Head(todo[t])
    [] pc[t] \in {"lock_asset", "update_asset"} -> asset[t]
    [] OTHER -> None

\* t waits for u's row.
WaitsFor(t, u) == Wants(t) # None /\ locked[Wants(t)] = u /\ t # u

\* Transactions that all wait for each other.
Circular(cycle) ==
  \A u \in cycle : (\E v \in cycle : WaitsFor(u, v)) /\ (\E v \in cycle : WaitsFor(v, u))

\* PostgreSQL aborts one of them.
Victim(t) == \E cycle \in SUBSET Txns : t \in cycle /\ Circular(cycle)

DeadlockAbort(t) == Victim(t) /\ End(t) /\ UNCHANGED tables

\* The connection or the server process goes away: rollback.
Rollback(t) == pc[t] # "idle" /\ End(t) /\ UNCHANGED tables

-----------------------------------------------------------------------------
PgInit ==
  /\ state = [a \in AssetIds |-> IF a \in Fresh THEN "absent" ELSE "available"]
  /\ used = Cardinality(AssetIds \ Fresh)
  /\ rows = {k \in Names : HomeOf[k] # None} /\ tombstones = {}
  /\ asset_id = HomeOf
  /\ locked = [row \in AssetIds \cup Names |-> None]
  /\ pc = [t \in Txns |-> "idle"] /\ pool = PoolSize
  /\ op = [t \in Txns |-> None] /\ name = [t \in Txns |-> None]
  /\ asset = [t \in Txns |-> None] /\ todo = [t \in Txns |-> <<>>] /\ orphaned = {}

Continue(t) ==
  \/ AdminLock(t) \/ AdminDetach(t) \/ AttachCheck(t) \/ UpdateAlias(t) \/ UpdateAsset(t) \/ Remaining(t) \/ CommitDetach(t)
  \/ RebindLoad(t) \/ CommitRebind(t) \/ InsertAlias(t) \/ CommitInserts(t)
  \/ DeadlockAbort(t)

PgNext ==
  \/ \E t \in Txns, k \in Detachable : DetachRead(t, k) \/ AdminBegin(t, k)
  \/ \E t \in Txns, k \in Mutable, a \in Receiving : RebindRead(t, k, a)
  \/ \E t \in Txns, k \in Attachable, a \in Receiving : AttachBegin(t, k, a)
  \/ \E t \in Txns, a \in Fresh : ReserveCheck(t, a)
  \/ \E t \in Txns : Continue(t) \/ Rollback(t)
  \/ \E a \in Expiring : Expire(a)

PgSpec == PgInit /\ [][PgNext]_pgVars

\* A request thread goes on, PostgreSQL grants a row lock to the waiters in the
\* order they came, so that a row released again and again reaches each of them
\* (strong fairness), and it detects deadlocks.
PgLiveSpec == PgSpec /\ \A t \in Txns : SF_pgVars(Continue(t))

-----------------------------------------------------------------------------
(* Properties *)

Bare(a) == \A k \in rows : asset_id[k] # a

\* Names that more than one request may give away.
Contested ==
  Mutable \cup Attachable \cup
  {k \in Names : \E a, b \in Fresh : a # b /\ k \in Range(OrderOf[a]) \cap Range(OrderOf[b])}

\* No other request gives a name to a, or gives a's reserved names to another asset.
Steady(a) == a \notin Receiving /\ (a \in Fresh => Range(OrderOf[a]) \cap Contested = {})

\* An asset whose names nobody else gives away is out of service, or never was in
\* it, when it has lost its last one, however the detaches of its names interleave:
\* the lock taken by "UPDATE assets" comes before the SELECT of the remaining names,
\* and an asset still pending is marked too.
LastDetachMarks ==
  \A a \in AssetIds : Steady(a) /\ Bare(a) => state[a] \in {"absent", "expired"}

\* FR-003: "An asset with zero remaining aliases is automatically marked for
\* garbage collection", also one that was given names by attach or rebind.
OrphansMarked == \A a \in AssetIds : Bare(a) => state[a] # "available"

\* An immutable name that is bound stays with its asset until it is detached:
\* attach_alias and reserve_asset find out that a name is free before they insert
\* it, and a request that got in between must not be overwritten.
NoNameStolen ==
  [][\A k \in (rows \cap rows') \ Mutable : asset_id'[k] = asset_id[k]]_pgVars

\* Deadlocks come in two kinds only.  Raw reservations that name the same aliases
\* in different orders wait for each other; and a request that has updated its alias
\* row waits for an asset held by the admin route or by an attach, which lock the
\* asset first.  Plain detaches, rebinds and a reservation never deadlock without one.
DeadlocksConfined ==
  \A cycle \in SUBSET Txns :
     Circular(cycle) =>
       \/ \A t \in cycle : op[t] = "reserve"
       \/ \E u, t \in cycle : /\ WaitsFor(u, t) /\ Wants(u) \in AssetIds
                              /\ op[t] \in {"admin_detach", "attach"}

\* An exhausted pool serves again: no unit of work waits for a second connection
\* while it keeps its first, and none is left checked out by a thread that failed.
PoolFrees == pool = 0 ~> pool > 0
=============================================================================
