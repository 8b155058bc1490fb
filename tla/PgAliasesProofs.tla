--------------------------- MODULE PgAliasesProofs --------------------------
(* Theorems about PgAliases, for any number of transactions, assets and names. *)
EXTENDS PgAliases, TLAPS

-----------------------------------------------------------------------------
(* Who holds what *)

PgTypes ==
  /\ state \in [AssetIds -> {"absent", "pending", "available", "expired"}]
  /\ rows \subseteq Names /\ tombstones \subseteq Names
  /\ asset_id \in [Names -> AssetIds \cup {None}]
  /\ locked \in [AssetIds \cup Names -> Txns \cup {None}]
  /\ pc \in [Txns -> {"idle", "lock_asset", "nested", "update_alias", "update_asset",
                      "remaining", "load_asset", "insert_alias", "commit"}]
  /\ op \in [Txns -> {"detach", "admin_detach", "rebind", "attach", "reserve", None}]
  /\ name \in [Txns -> Names \cup {None}]
  /\ asset \in [Txns -> AssetIds \cup {None}]
  /\ todo \in [Txns -> Seq(Names)]
  /\ orphaned \subseteq Txns

Detaching(t) == pc[t] # "idle" /\ op[t] \in {"detach", "admin_detach"}
Rebinding(t) == pc[t] # "idle" /\ op[t] = "rebind"
Inserting(t) == pc[t] # "idle" /\ op[t] \in {"attach", "reserve"}

\* The names an attach or a reservation was asked for.
Given(t) == IF op[t] = "attach" THEN Attachable ELSE Range(OrderOf[asset[t]])

\* What a transaction is about, by its operation and its next statement.
TxnShape(t) ==
  pc[t] # "idle" =>
    /\ asset[t] \in AssetIds
    /\ Detaching(t) \/ Rebinding(t) \/ Inserting(t)
    /\ Detaching(t) => name[t] \in Names
    /\ Rebinding(t) => name[t] \in Mutable /\ asset[t] \in Receiving
    /\ Inserting(t) => /\ name[t] = None /\ pc[t] \in {"lock_asset", "insert_alias", "commit"}
                       /\ Range(todo[t]) \subseteq Given(t)
                       /\ pc[t] \in {"lock_asset", "insert_alias"} => todo[t] # <<>>
    /\ op[t] = "attach" => asset[t] \in Receiving
    /\ op[t] = "reserve" => asset[t] \in Fresh /\ locked[asset[t]] = t
    /\ pc[t] = "load_asset" => Rebinding(t)
    /\ pc[t] = "insert_alias" => Inserting(t)
    /\ pc[t] \in {"nested", "remaining"} => Detaching(t)

\* What a transaction has locked: nothing before it begins; while it inserts, names it
\* was asked for that nobody else has a row for; otherwise the row of its own name.
TxnLocks(t) ==
  /\ pc[t] = "idle" => \A row \in AssetIds \cup Names : locked[row] # t
  /\ Inserting(t) => \A k \in Names : locked[k] = t => k \notin rows /\ k \in Given(t)
  /\ Detaching(t) \/ Rebinding(t) => \A k \in Names : locked[k] = t => k = name[t] /\ k \in rows
  /\ Inserting(t) /\ pc[t] = "commit" => \E k \in Names : locked[k] = t

LocksInv == PgTypes /\ \A t \in Txns : TxnShape(t) /\ TxnLocks(t)

\* The head of a non-empty sequence is one of its elements, and so are its tail's.
LEMMA HeadTail ==
  ASSUME NEW S, NEW s \in Seq(S), s # <<>>
  PROVE  /\ Head(s) \in S /\ Head(s) \in Range(s)
         /\ Tail(s) \in Seq(S) /\ Range(Tail(s)) \subseteq Range(s)
         /\ Len(s) # 1 => Tail(s) # <<>>
<1>1. Len(s) \in Nat /\ Len(s) # 0 /\ DOMAIN s = 1..Len(s)
  OBVIOUS
<1>2. Head(s) \in S /\ Tail(s) \in Seq(S) /\ Head(s) = s[1] /\ 1 \in DOMAIN s
  BY <1>1
<1>3. Len(Tail(s)) = Len(s) - 1 /\ \A i \in 1..Len(Tail(s)) : Tail(s)[i] = s[i + 1]
  BY <1>1
<1>4. \A i \in DOMAIN Tail(s) : Tail(s)[i] \in Range(s)
  BY <1>1, <1>2, <1>3 DEF Range
<1> QED
  BY <1>1, <1>2, <1>3, <1>4 DEF Range

\* A transaction that ends, committed or rolled back, leaves no lock behind.
LEMMA EndLocks ==
  ASSUME LocksInv, NEW t \in Txns, End(t),
         state' \in [AssetIds -> {"absent", "pending", "available", "expired"}],
         rows' \subseteq Names, tombstones' \subseteq Names,
         asset_id' \in [Names -> AssetIds \cup {None}],
         \A k \in Names : locked[k] # t => (k \in rows' <=> k \in rows)
  PROVE  LocksInv'
<1>0. None \notin Txns
  BY PgAssumption
<1>1. PgTypes'
  BY DEF LocksInv, PgTypes, End
<1>2. ASSUME NEW u \in Txns
      PROVE  TxnShape(u)' /\ TxnLocks(u)'
  <2>1. CASE u = t
    BY <1>0, <2>1 DEF LocksInv, PgTypes, End, TxnShape, TxnLocks, Detaching, Rebinding, Inserting
  <2>2. CASE u # t
    <3>1. /\ pc'[u] = pc[u] /\ op'[u] = op[u] /\ name'[u] = name[u] /\ asset'[u] = asset[u]
          /\ todo'[u] = todo[u]
          /\ \A row \in AssetIds \cup Names : locked'[row] = u <=> locked[row] = u
      BY <1>0, <2>2 DEF LocksInv, PgTypes, End
    <3>2. TxnShape(u)'
      BY <3>1 DEF LocksInv, TxnShape, Detaching, Rebinding, Inserting, Given
    <3>3. \A k \in Names : locked[k] = u => (k \in rows' <=> k \in rows)
      BY <2>2
    <3>4. TxnLocks(u)'
      BY <3>1, <3>3 DEF LocksInv, TxnLocks, Detaching, Rebinding, Inserting, Given
    <3> QED
      BY <3>2, <3>4
  <2> QED
    BY <2>1, <2>2
<1> QED
  BY <1>1, <1>2 DEF LocksInv

\* A statement of t that writes nothing others see, and takes only a free lock, is
\* nothing to the other transactions.
LEMMA StatementLocks ==
  ASSUME LocksInv, PgTypes', NEW t \in Txns, UNCHANGED rows,
         \A u \in Txns \ {t} : /\ pc'[u] = pc[u] /\ op'[u] = op[u] /\ name'[u] = name[u]
                               /\ asset'[u] = asset[u] /\ todo'[u] = todo[u],
         \A row \in AssetIds \cup Names :
           locked'[row] = locked[row] \/ (locked[row] \in {None, t} /\ locked'[row] = t),
         TxnShape(t)', TxnLocks(t)'
  PROVE  LocksInv'
<1>0. None \notin Txns
  BY PgAssumption
<1>1. ASSUME NEW u \in Txns \ {t}
      PROVE  TxnShape(u)' /\ TxnLocks(u)'
  <2>1. \A row \in AssetIds \cup Names : locked'[row] = u <=> locked[row] = u
    BY <1>0
  <2>2. TxnShape(u)'
    BY <2>1 DEF LocksInv, TxnShape, Detaching, Rebinding, Inserting, Given
  <2>3. TxnLocks(u)'
    BY <2>1 DEF LocksInv, TxnLocks, Detaching, Rebinding, Inserting, Given
  <2> QED
    BY <2>2, <2>3
<1> QED
  BY <1>1 DEF LocksInv

\* Every statement of every transaction keeps the account of who holds what.
LEMMA LocksStep ==
  ASSUME LocksInv, [PgNext]_pgVars
  PROVE  LocksInv'
<1>0. /\ PgTypes /\ None \notin Txns /\ None \notin AssetIds /\ None \notin Names
      /\ AssetIds \cap Names = {} /\ Mutable \subseteq Names /\ Fresh \subseteq AssetIds
      /\ Receiving \subseteq AssetIds /\ Attachable \subseteq Names /\ Detachable \subseteq Names
      /\ Expiring \subseteq AssetIds
  BY PgAssumption DEF LocksInv
<1>a. \A a \in Fresh : OrderOf[a] \in Seq(Names) /\ OrderOf[a] # <<>>
                       /\ Range(OrderOf[a]) \subseteq Names
  <2> TAKE a \in Fresh
  <2>1. OrderOf[a] \in Seq(Names \ Mutable) /\ OrderOf[a] # <<>>
    BY PgAssumption
  <2> QED
    BY <2>1 DEF Range
<1> USE <1>0
<1>b. ASSUME NEW t \in Txns
      PROVE  TxnShape(t) /\ TxnLocks(t)
  BY DEF LocksInv
<1>1. ASSUME NEW t \in Txns, NEW k \in Detachable, DetachRead(t, k) \/ AdminBegin(t, k)
      PROVE  LocksInv'
  <2>0. /\ asset_id[k] \in AssetIds /\ k \in Names /\ <<>> \in Seq(Names)
        /\ UNCHANGED <<state, rows, asset_id, tombstones, locked, orphaned>>
    BY <1>1 DEF PgTypes, DetachRead, AdminBegin, Begin, tables
  <2>1. PgTypes'
    <3>1. CASE DetachRead(t, k)
      BY <2>0, <3>1 DEF PgTypes, DetachRead, Begin
    <3>2. CASE AdminBegin(t, k)
      BY <2>0, <3>2 DEF PgTypes, AdminBegin, Begin
    <3> QED
      BY <1>1, <3>1, <3>2
  <2>2. TxnShape(t)' /\ TxnLocks(t)'
    BY <1>1, <1>b DEF PgTypes, DetachRead, AdminBegin, Begin, TxnShape, TxnLocks, Detaching,
       Rebinding, Inserting
  <2> QED
    BY <1>1, <2>1, <2>2, StatementLocks DEF PgTypes, DetachRead, AdminBegin, Begin, tables
<1>2. ASSUME NEW t \in Txns, NEW k \in Mutable, NEW a \in Receiving, RebindRead(t, k, a)
      PROVE  LocksInv'
  <2>1. PgTypes'
    BY <1>2 DEF PgTypes, RebindRead, Begin, tables
  <2>2. TxnShape(t)' /\ TxnLocks(t)'
    BY <1>2, <1>b DEF PgTypes, RebindRead, Begin, TxnShape, TxnLocks, Detaching,
       Rebinding, Inserting
  <2> QED
    BY <1>2, <2>1, <2>2, StatementLocks DEF PgTypes, RebindRead, Begin, tables
<1>3. ASSUME NEW t \in Txns, NEW k \in Attachable, NEW a \in Receiving, AttachBegin(t, k, a)
      PROVE  LocksInv'
  <2>0. <<k>> \in Seq(Names) /\ <<k>> # <<>> /\ Range(<<k>>) = {k}
    BY DEF Range
  <2>1. PgTypes'
    BY <1>3, <2>0 DEF PgTypes, AttachBegin, Begin, tables
  <2>a. /\ pc[t] = "idle" /\ pc'[t] = "lock_asset" /\ op'[t] = "attach" /\ name'[t] = None
        /\ asset'[t] = a /\ todo'[t] = <<k>> /\ UNCHANGED <<locked, rows>>
    BY <1>3 DEF PgTypes, AttachBegin, Begin, tables
  <2>b. TxnShape(t)'
    BY <2>a, <2>0 DEF TxnShape, Detaching, Rebinding, Inserting, Given
  <2>c. TxnLocks(t)'
    BY <2>a, <1>b DEF TxnLocks, Detaching, Rebinding, Inserting
  <2>2. TxnShape(t)' /\ TxnLocks(t)'
    BY <2>b, <2>c
  <2> QED
    BY <1>3, <2>1, <2>2, StatementLocks DEF PgTypes, AttachBegin, Begin, tables
<1>4. ASSUME NEW t \in Txns, NEW a \in Fresh, ReserveCheck(t, a)
      PROVE  LocksInv'
  <2>1. PgTypes'
    BY <1>4, <1>a DEF PgTypes, ReserveCheck, Begin, Grab, tables
  <2>2. TxnShape(t)' /\ TxnLocks(t)'
    BY <1>4, <1>a, <1>b DEF PgTypes, ReserveCheck, Begin, Grab, TxnShape, TxnLocks, Detaching,
       Rebinding, Inserting, Given
  <2> QED
    BY <1>4, <2>1, <2>2, StatementLocks DEF PgTypes, ReserveCheck, Begin, Grab, tables
<1>c. ASSUME NEW t \in Txns, End(t), UNCHANGED tables
      PROVE  LocksInv'
  BY <1>c, EndLocks DEF tables, PgTypes
<1>5. ASSUME NEW t \in Txns, AdminLock(t)
      PROVE  LocksInv'
  <2>1. CASE Step(t, "lock_asset", "nested") /\ Grab(t, asset[t]) /\ UNCHANGED local
    <3>0. asset[t] \in AssetIds /\ Detaching(t)
      BY <1>5, <1>b DEF AdminLock, TxnShape, Detaching
    <3>1. PgTypes'
      BY <1>5, <2>1, <3>0 DEF PgTypes, AdminLock, Step, Grab, tables, local
    <3>a. /\ pc[t] = "lock_asset" /\ pc'[t] = "nested" /\ op[t] = "admin_detach"
          /\ op'[t] = op[t] /\ name'[t] = name[t] /\ asset'[t] = asset[t] /\ UNCHANGED rows
          /\ \A k \in Names : locked'[k] = locked[k]
      BY <1>5, <2>1, <3>0 DEF PgTypes, AdminLock, Step, Grab, tables, local
    <3>b. TxnShape(t)'
      BY <1>b, <3>0, <3>a DEF TxnShape, Detaching, Rebinding, Inserting
    <3>c. TxnLocks(t)'
      BY <1>b, <3>0, <3>a DEF TxnLocks, Detaching, Rebinding, Inserting
    <3>2. TxnShape(t)' /\ TxnLocks(t)'
      BY <3>b, <3>c
    <3> QED
      BY <1>5, <2>1, <3>0, <3>1, <3>2, StatementLocks
         DEF PgTypes, AdminLock, Step, Grab, tables, local
  <2> QED
    BY <1>5, <1>c, <2>1 DEF AdminLock
<1>6. ASSUME NEW t \in Txns, AdminDetach(t)
      PROVE  LocksInv'
  <2>1. CASE /\ name[t] \in rows /\ asset_id[name[t]] # None /\ Step(t, "nested", "update_alias")
             /\ asset' = [asset EXCEPT ![t] = asset_id[name[t]]]
             /\ UNCHANGED <<locked, op, name, todo, orphaned>>
    <3>0. name[t] \in Names /\ Detaching(t)
      BY <1>6, <1>b DEF AdminDetach, TxnShape
    <3>1. PgTypes'
      BY <1>6, <2>1, <3>0 DEF PgTypes, AdminDetach, Step, tables
    <3>2. TxnShape(t)' /\ TxnLocks(t)'
      BY <1>6, <1>b, <2>1, <3>0 DEF PgTypes, AdminDetach, Step, tables, TxnShape, TxnLocks,
         Detaching, Rebinding, Inserting
    <3> QED
      BY <1>6, <2>1, <3>1, <3>2, StatementLocks DEF PgTypes, AdminDetach, Step, tables
  <2> QED
    BY <1>6, <1>c, <2>1 DEF AdminDetach
<1>7. ASSUME NEW t \in Txns, AttachCheck(t)
      PROVE  LocksInv'
  <2>1. CASE Step(t, "lock_asset", "insert_alias") /\ Grab(t, asset[t]) /\ UNCHANGED local
    <3>0. asset[t] \in AssetIds /\ Inserting(t)
      BY <1>7, <1>b DEF AttachCheck, TxnShape, Inserting
    <3>1. PgTypes'
      BY <1>7, <2>1, <3>0 DEF PgTypes, AttachCheck, Step, Grab, tables, local
    <3>2. TxnShape(t)' /\ TxnLocks(t)'
      BY <1>7, <1>b, <2>1, <3>0 DEF PgTypes, AttachCheck, Step, Grab, tables, local, TxnShape,
         TxnLocks, Detaching, Rebinding, Inserting, Given
    <3> QED
      BY <1>7, <2>1, <3>0, <3>1, <3>2, StatementLocks
         DEF PgTypes, AttachCheck, Step, Grab, tables, local
  <2> QED
    BY <1>7, <1>c, <2>1 DEF AttachCheck
<1>8. ASSUME NEW t \in Txns, UpdateAlias(t)
      PROVE  LocksInv'
  <2>0. name[t] \in Names /\ (Detaching(t) \/ Rebinding(t)) /\ ~Inserting(t)
    BY <1>8, <1>b DEF UpdateAlias, Step, TxnShape, Detaching, Rebinding, Inserting
  <2>1. PgTypes'
    BY <1>8, <2>0 DEF PgTypes, UpdateAlias, Step, Grab, tables, local
  <2>2. TxnShape(t)' /\ TxnLocks(t)'
    BY <1>8, <1>b, <2>0 DEF PgTypes, UpdateAlias, Step, Grab, tables, local, TxnShape,
       TxnLocks, Detaching, Rebinding, Inserting
  <2> QED
    BY <1>8, <2>0, <2>1, <2>2, StatementLocks DEF PgTypes, UpdateAlias, Step, Grab, tables, local
<1>9. ASSUME NEW t \in Txns, UpdateAsset(t)
      PROVE  LocksInv'
  <2>0. asset[t] \in AssetIds /\ (Detaching(t) \/ Rebinding(t)) /\ ~Inserting(t)
    BY <1>9, <1>b DEF UpdateAsset, TxnShape, Detaching, Rebinding, Inserting
  <2>1. PgTypes'
    BY <1>9, <2>0 DEF PgTypes, UpdateAsset, Grab, tables, local
  <2>a. /\ pc[t] = "update_asset" /\ op'[t] = op[t] /\ name'[t] = name[t]
        /\ pc'[t] = IF op[t] \in {"detach", "admin_detach"} THEN "remaining" ELSE "commit"
        /\ asset'[t] = asset[t] /\ UNCHANGED rows /\ \A k \in Names : locked'[k] = locked[k]
    BY <1>9, <2>0 DEF PgTypes, UpdateAsset, Grab, tables, local
  <2>b. TxnShape(t)'
    BY <1>b, <2>0, <2>a DEF TxnShape, Detaching, Rebinding, Inserting
  <2>c. TxnLocks(t)'
    BY <1>b, <2>0, <2>a DEF TxnLocks, Detaching, Rebinding, Inserting
  <2>2. TxnShape(t)' /\ TxnLocks(t)'
    BY <2>b, <2>c
  <2> QED
    BY <1>9, <2>0, <2>1, <2>2, StatementLocks DEF PgTypes, UpdateAsset, Grab, tables, local
<1>10. ASSUME NEW t \in Txns, Remaining(t)
       PROVE  LocksInv'
  <2>1. PgTypes'
    BY <1>10 DEF PgTypes, Remaining, Step, tables
  <2>2. TxnShape(t)' /\ TxnLocks(t)'
    BY <1>10, <1>b DEF PgTypes, Remaining, Step, tables, TxnShape, TxnLocks, Detaching,
       Rebinding, Inserting
  <2> QED
    BY <1>10, <2>1, <2>2, StatementLocks DEF PgTypes, Remaining, Step, tables
<1>11. ASSUME NEW t \in Txns, CommitDetach(t)
       PROVE  LocksInv'
  <2>0. name[t] \in Names /\ asset[t] \in AssetIds
    BY <1>11, <1>b DEF CommitDetach, TxnShape, Detaching
  <2>1. /\ state' \in [AssetIds -> {"absent", "pending", "available", "expired"}]
        /\ rows' \subseteq Names /\ tombstones' \subseteq Names
        /\ asset_id' \in [Names -> AssetIds \cup {None}]
    BY <1>11, <2>0 DEF CommitDetach, PgTypes
  <2> QED
    BY <1>11, <2>0, <2>1, EndLocks DEF CommitDetach, Matched
<1>12. ASSUME NEW t \in Txns, RebindLoad(t)
       PROVE  LocksInv'
  <2>1. CASE Step(t, "load_asset", "update_alias") /\ UNCHANGED <<locked, local>>
    <3>1. PgTypes'
      BY <1>12, <2>1 DEF PgTypes, RebindLoad, Step, tables, local
    <3>2. TxnShape(t)' /\ TxnLocks(t)'
      BY <1>12, <1>b, <2>1 DEF PgTypes, RebindLoad, Step, tables, local, TxnShape, TxnLocks,
         Detaching, Rebinding, Inserting
    <3> QED
      BY <1>12, <2>1, <3>1, <3>2, StatementLocks DEF PgTypes, RebindLoad, Step, tables, local
  <2> QED
    BY <1>12, <1>c, <2>1 DEF RebindLoad
<1>13. ASSUME NEW t \in Txns, CommitRebind(t)
       PROVE  LocksInv'
  <2>0. name[t] \in Names /\ asset[t] \in AssetIds
    BY <1>13, <1>b DEF CommitRebind, TxnShape, Rebinding
  <2> QED
    BY <1>13, <2>0, EndLocks DEF CommitRebind, PgTypes
<1>14. ASSUME NEW t \in Txns, InsertAlias(t)
       PROVE  LocksInv'
  <2>0. /\ Inserting(t) /\ ~Detaching(t) /\ ~Rebinding(t) /\ asset[t] \in AssetIds
        /\ todo[t] \in Seq(Names) /\ todo[t] # <<>> /\ Range(todo[t]) \subseteq Given(t)
    BY <1>14, <1>b DEF InsertAlias, TxnShape, Detaching, Rebinding, Inserting, PgTypes
  <2>1. /\ Head(todo[t]) \in Names /\ Head(todo[t]) \in Range(todo[t])
        /\ Tail(todo[t]) \in Seq(Names) /\ Range(Tail(todo[t])) \subseteq Range(todo[t])
        /\ Len(todo[t]) # 1 => Tail(todo[t]) # <<>>
    BY <2>0, HeadTail
  <2>2. CASE /\ Head(todo[t]) \notin rows
             /\ Step(t, "insert_alias", IF Len(todo[t]) = 1 THEN "commit" ELSE "insert_alias")
             /\ Grab(t, Head(todo[t]))
             /\ todo' = [todo EXCEPT ![t] = Tail(todo[t])]
             /\ UNCHANGED <<op, name, asset, orphaned>>
    <3>1. PgTypes'
      BY <1>14, <2>1, <2>2 DEF PgTypes, InsertAlias, Step, Grab, tables
    <3>2. TxnShape(t)'
      BY <1>14, <1>b, <2>0, <2>1, <2>2 DEF PgTypes, InsertAlias, Step, Grab, tables, TxnShape,
         Detaching, Rebinding, Inserting, Given
    <3>3. TxnLocks(t)'
      <4>1. /\ pc[t] # "idle" /\ pc'[t] # "idle" /\ op'[t] = op[t] /\ asset'[t] = asset[t]
            /\ UNCHANGED rows /\ locked'[Head(todo[t])] = t
            /\ \A k \in Names : k # Head(todo[t]) => locked'[k] = locked[k]
        BY <1>14, <2>1, <2>2 DEF PgTypes, InsertAlias, Step, Grab, tables
      <4>2. Head(todo[t]) \in Given(t) /\ ~Detaching(t)' /\ ~Rebinding(t)'
        BY <2>0, <2>1, <4>1 DEF Detaching, Rebinding, Inserting
      <4>3. \A k \in Names : locked'[k] = t => k \notin rows' /\ k \in Given(t)'
        BY <1>b, <2>0, <2>2, <4>1, <4>2 DEF TxnLocks, Given
      <4> QED
        BY <2>1, <4>1, <4>2, <4>3 DEF TxnLocks
    <3> QED
      BY <1>14, <2>1, <2>2, <3>1, <3>2, <3>3, StatementLocks
         DEF PgTypes, InsertAlias, Step, Grab, tables
  <2> QED
    BY <1>14, <1>c, <2>2 DEF InsertAlias
<1>15. ASSUME NEW t \in Txns, CommitInserts(t)
       PROVE  LocksInv'
  <2>0. asset[t] \in AssetIds
    BY <1>15, <1>b DEF CommitInserts, TxnShape
  <2>1. /\ state' \in [AssetIds -> {"absent", "pending", "available", "expired"}]
        /\ rows' \subseteq Names /\ asset_id' \in [Names -> AssetIds \cup {None}]
    BY <1>15, <2>0 DEF CommitInserts, PgTypes
  <2> QED
    BY <1>15, <2>1, EndLocks DEF CommitInserts, PgTypes
<1>16. ASSUME NEW t \in Txns, DeadlockAbort(t) \/ Rollback(t)
       PROVE  LocksInv'
  BY <1>16, <1>c DEF DeadlockAbort, Rollback
<1>17. ASSUME NEW a \in Expiring, Expire(a)
       PROVE  LocksInv'
  <2>1. PgTypes'
    BY <1>17 DEF PgTypes, Expire, local
  <2> QED
    BY <1>17, <2>1 DEF LocksInv, Expire, local, TxnShape, TxnLocks, Detaching, Rebinding,
       Inserting, Given
<1>18. CASE UNCHANGED pgVars
  BY <1>18 DEF pgVars, LocksInv, PgTypes, TxnShape, TxnLocks, Detaching, Rebinding, Inserting,
     Given
<1> QED
  BY <1>1, <1>2, <1>3, <1>4, <1>5, <1>6, <1>7, <1>8, <1>9, <1>10, <1>11, <1>12, <1>13,
     <1>14, <1>15, <1>16, <1>17, <1>18 DEF PgNext, Continue

-----------------------------------------------------------------------------
(* Names that are taken *)

\* Nobody holds anything at the start.
LEMMA LocksStart ==
  ASSUME PgInit
  PROVE  LocksInv
<1>0. None \notin Txns /\ <<>> \in Seq(Names)
  BY PgAssumption
<1>1. PgTypes
  BY <1>0, PgAssumption DEF PgInit, PgTypes
<1>2. \A t \in Txns : TxnShape(t) /\ TxnLocks(t)
  BY <1>0 DEF PgInit, TxnShape, TxnLocks, Detaching, Rebinding, Inserting
<1> QED
  BY <1>1, <1>2 DEF LocksInv

\* An immutable name that is bound stays with its asset until it is detached, for
\* any number of requests that found it free at the same time.
THEOREM NamesKept == PgSpec => NoNameStolen
<1> DEFINE Kept == \A k \in (rows \cap rows') \ Mutable : asset_id'[k] = asset_id[k]
<1>1. PgInit => LocksInv
  BY LocksStart
<1>2. LocksInv /\ [PgNext]_pgVars => LocksInv'
  BY LocksStep
<1>3. LocksInv /\ [PgNext]_pgVars => [Kept]_pgVars
  <2> SUFFICES ASSUME LocksInv, PgNext,
                      NEW k \in (rows \cap rows') \ Mutable, asset_id'[k] # asset_id[k]
               PROVE  FALSE
    BY DEF pgVars
  <2>0. k \in Names /\ \A t \in Txns : TxnShape(t) /\ TxnLocks(t)
    BY DEF LocksInv, PgTypes
  <2>1. ASSUME NEW t \in Txns, CommitDetach(t)
        PROVE  FALSE
    <3>1. Matched(t) => k # name[t]
      BY <2>1 DEF CommitDetach
    <3> QED
      BY <2>0, <2>1, <3>1 DEF CommitDetach, LocksInv, PgTypes
  <2>2. ASSUME NEW t \in Txns, CommitRebind(t)
        PROVE  FALSE
    <3>1. name[t] \in Mutable
      BY <2>0, <2>2 DEF CommitRebind, TxnShape, Rebinding
    <3> QED
      BY <2>0, <2>2, <3>1 DEF CommitRebind, LocksInv, PgTypes
  <2>3. ASSUME NEW t \in Txns, CommitInserts(t)
        PROVE  FALSE
    <3>1. locked[k] # t
      BY <2>0, <2>3 DEF CommitInserts, TxnLocks, Inserting
    <3> QED
      BY <2>0, <2>3, <3>1 DEF CommitInserts
  <2> QED
    BY <2>1, <2>2, <2>3 DEF PgNext, Continue, DetachRead, AdminBegin, Begin, RebindRead,
       AttachBegin, ReserveCheck, AdminLock, AdminDetach, AttachCheck, UpdateAlias, UpdateAsset,
       Remaining, RebindLoad, InsertAlias, DeadlockAbort, Rollback, Expire, tables
<1> QED
  BY <1>1, <1>2, <1>3, PTL DEF PgSpec, NoNameStolen

-----------------------------------------------------------------------------
(* The last name of an asset *)

\* What a transaction has read without a lock and still relies on:
\*   the name it is about, which a detach by another leaves in a tombstone;
\*   for a rebind, that a mutable name keeps its row and has at most been given to an
\*   asset that rebinds and attaches name;
\*   for a reservation whose names no other request gives away, that they are free;
\*   for a detach, the asset of the name.
Seen(t) ==
  pc[t] # "idle" =>
    /\ name[t] # None => name[t] \in rows \cup tombstones
    /\ op[t] = "rebind" => name[t] \in rows /\ asset_id[name[t]] \in {None} \cup Receiving
    /\ op[t] = "reserve" /\ Steady(asset[t]) =>
         Range(OrderOf[asset[t]]) \cap (rows \cup tombstones) = {}
    /\ Detaching(t) /\ name[t] \in rows =>
         LET a == asset_id[name[t]] IN a \in AssetIds /\ Steady(a) => asset[t] = a

\* From its UPDATE of the asset on a detach holds the asset, and what it has counted
\* under that lock is still so when it commits.
Counted(t) ==
  Detaching(t) =>
    /\ pc[t] \in {"remaining", "commit"} => locked[asset[t]] = t
    /\ pc[t] = "commit" /\ Steady(asset[t]) /\ Bound(t, asset[t]) = {} => t \in orphaned

MarksInv == LocksInv /\ LastDetachMarks /\ \A t \in Txns : Seen(t) /\ Counted(t)

\* What a step of t leaves alone: the other transactions.
Others(t) ==
  \A u \in Txns \ {t} :
    /\ pc'[u] = pc[u] /\ op'[u] = op[u] /\ name'[u] = name[u] /\ asset'[u] = asset[u]
    /\ todo'[u] = todo[u]
    /\ u \in orphaned' <=> u \in orphaned
    /\ \A row \in AssetIds \cup Names : locked'[row] = u <=> locked[row] = u

\* The end of t is nothing to the others.
LEMMA EndOthers ==
  ASSUME LocksInv, NEW t \in Txns, End(t)
  PROVE  Others(t) /\ pc'[t] = "idle"
<1>1. None \notin Txns
  BY PgAssumption
<1> QED
  BY <1>1 DEF End, Others, LocksInv, PgTypes

\* A transaction that others' steps leave alone, in tables that lose nothing it has
\* read, keeps what it relies on.
LEMMA SeenKept ==
  ASSUME LocksInv, LocksInv', NEW t \in Txns, NEW u \in Txns \ {t}, Others(t), Seen(u), Counted(u),
         UNCHANGED <<rows, asset_id, tombstones>>
  PROVE  Seen(u)' /\ Counted(u)'
<1>1. Seen(u)'
  BY DEF Seen, Others, Detaching
<1>2. asset[u] \in AssetIds \/ pc[u] = "idle"
  BY DEF LocksInv, TxnShape
<1>3. Detaching(u) => (locked'[name[u]] = u <=> locked[name[u]] = u)
  BY DEF LocksInv, TxnShape, Others, Detaching
<1>4. Counted(u)'
  BY <1>2, <1>3 DEF Counted, Others, Detaching, Bound, Matched
<1> QED
  BY <1>1, <1>4

\* A statement, and a rollback, moves no name and no state.
LEMMA QuietStep ==
  ASSUME MarksInv, LocksInv', NEW t \in Txns, Others(t), UNCHANGED tables, Seen(t)', Counted(t)'
  PROVE  MarksInv'
<1>1. LastDetachMarks'
  BY DEF MarksInv, LastDetachMarks, Bare, tables
<1>2. \A u \in Txns \ {t} : Seen(u)' /\ Counted(u)'
  BY SeenKept DEF MarksInv, tables
<1> QED
  BY <1>1, <1>2 DEF MarksInv

\* A detach that commits takes the last name of an asset only from one it marks.
LEMMA DetachStep ==
  ASSUME MarksInv, LocksInv', NEW t \in Txns, CommitDetach(t)
  PROVE  MarksInv'
<1>0. /\ Others(t) /\ pc[t] = "commit" /\ pc'[t] = "idle" /\ Detaching(t)
      /\ name[t] \in Names /\ asset[t] \in AssetIds /\ None \notin AssetIds /\ None \notin Names
      /\ LocksInv /\ Seen(t) /\ Counted(t) /\ PgTypes
  BY EndOthers, PgAssumption DEF MarksInv, CommitDetach, LocksInv, TxnShape, Detaching
<1>1. Matched(t) => name[t] \in rows
  BY <1>0 DEF LocksInv, TxnLocks, Matched
<1>2. /\ rows' = IF Matched(t) /\ name[t] \notin Mutable THEN rows \ {name[t]} ELSE rows
      /\ tombstones' = IF name[t] \in Mutable THEN tombstones ELSE tombstones \cup {name[t]}
      /\ \A k \in Names : asset_id'[k] = IF Matched(t) /\ k = name[t] THEN None ELSE asset_id[k]
  BY <1>0 DEF CommitDetach, PgTypes
<1>3. \A a \in AssetIds : state'[a] = IF t \in orphaned /\ a = asset[t] THEN "expired" ELSE state[a]
  BY <1>0 DEF CommitDetach, PgTypes
<1>4. LastDetachMarks'
  <2> SUFFICES ASSUME NEW a \in AssetIds, Steady(a), Bare(a)'
               PROVE  state'[a] \in {"absent", "expired"}
    BY DEF LastDetachMarks
  <2>1. CASE Bare(a)
    BY <1>3, <2>1 DEF MarksInv, LastDetachMarks
  <2>2. CASE ~Bare(a)
    <3>1. PICK k \in rows : asset_id[k] = a
      BY <2>2 DEF Bare
    <3>2. k \in Names
      BY <1>0 DEF PgTypes
    <3>3. k = name[t] /\ Matched(t)
      BY <1>2, <3>1, <3>2 DEF Bare
    <3>4. asset[t] = a
      BY <1>0, <3>1, <3>3 DEF Seen
    <3>5. Bound(t, a) = {}
      <4> SUFFICES ASSUME NEW h \in rows, asset_id[h] = a, h # name[t]
                   PROVE  FALSE
        BY <3>3 DEF Bound
      <4>1. h \in Names
        BY <1>0 DEF PgTypes
      <4> QED
        BY <1>2, <4>1 DEF Bare
    <3>6. t \in orphaned
      BY <1>0, <3>4, <3>5 DEF Counted
    <3> QED
      BY <1>3, <3>4, <3>6
  <2> QED
    BY <2>1, <2>2
<1>5. ASSUME NEW u \in Txns \ {t}, pc[u] # "idle"
      PROVE  Seen(u)' /\ Counted(u)'
  <2>0. /\ Seen(u) /\ Counted(u) /\ TxnShape(u) /\ TxnLocks(u)
        /\ pc'[u] = pc[u] /\ op'[u] = op[u] /\ name'[u] = name[u] /\ asset'[u] = asset[u]
        /\ asset[u] \in AssetIds /\ name[u] \in Names \cup {None}
        /\ u \in orphaned' <=> u \in orphaned
        /\ \A row \in AssetIds \cup Names : locked'[row] = u <=> locked[row] = u
    BY <1>0, <1>5 DEF MarksInv, LocksInv, PgTypes, TxnShape, Others
  <2>1. name[u] # None => name'[u] \in rows' \cup tombstones'
    BY <1>2, <1>5, <2>0 DEF Seen
  <2>2. op[u] = "rebind" => name[u] \in rows' /\ asset_id'[name[u]] \in {None} \cup Receiving
    <3>1. op[u] = "rebind" => name[u] \in Mutable /\ name[u] \in Names
      BY <1>5, <2>0, PgAssumption DEF TxnShape, Rebinding
    <3> QED
      BY <1>2, <1>5, <2>0, <3>1 DEF Seen
  <2>3. op[u] = "reserve" /\ Steady(asset[u]) =>
          Range(OrderOf[asset[u]]) \cap (rows' \cup tombstones') = {}
    <3>1. name[t] \in rows \cup tombstones
      BY <1>0 DEF Seen
    <3> QED
      BY <1>2, <1>5, <2>0, <3>1 DEF Seen
  <2>4. Detaching(u) /\ name[u] \in rows' /\ asset_id'[name[u]] \in AssetIds
          /\ Steady(asset_id'[name[u]]) => asset[u] = asset_id'[name[u]]
    <3>1. Detaching(u) => name[u] \in Names
      BY <1>5, <2>0 DEF TxnShape
    <3>2. Detaching(u) /\ name[u] \in rows' /\ asset_id'[name[u]] \in AssetIds =>
            name[u] \in rows /\ asset_id'[name[u]] = asset_id[name[u]]
      BY <1>0, <1>2, <3>1
    <3> QED
      BY <1>5, <2>0, <3>2 DEF Seen
  <2>5. Seen(u)'
    BY <2>0, <2>1, <2>2, <2>3, <2>4 DEF Seen, Detaching
  <2>6. ASSUME Detaching(u), pc[u] = "commit", Steady(asset[u]), Bound(u, asset[u])' = {}
        PROVE  u \in orphaned
    <3>1. locked[asset[u]] = u /\ locked[asset[t]] = t
      BY <1>0, <2>0, <2>6 DEF Counted
    <3>2. ASSUME NEW k \in Bound(u, asset[u])
          PROVE  FALSE
      <4>1. k \in rows /\ k \in Names /\ asset_id[k] = asset[u] /\ ~(k = name[u] /\ Matched(u))
        BY <1>0, <3>2 DEF Bound, PgTypes
      <4>2. ~(k = name'[u] /\ Matched(u)')
        BY <2>0, <4>1 DEF Matched
      <4>3. k \notin rows' \/ asset_id'[k] # asset[u]
        BY <2>0, <2>6, <4>2 DEF Bound
      <4>4. k = name[t] /\ Matched(t)
        BY <1>2, <4>1, <4>3
      <4>5. asset[t] = asset[u]
        BY <1>0, <2>0, <2>6, <4>1, <4>4 DEF Seen
      <4> QED
        BY <3>1, <4>5
    <3> QED
      BY <2>0, <2>6, <3>2 DEF Counted
  <2>7. Counted(u)'
    BY <2>0, <2>6 DEF Counted, Detaching
  <2> QED
    BY <2>5, <2>7
<1>6. ASSUME NEW u \in Txns, pc'[u] = "idle"
      PROVE  Seen(u)' /\ Counted(u)'
  BY <1>6 DEF Seen, Counted, Detaching
<1>7. \A u \in Txns : Seen(u)' /\ Counted(u)'
  BY <1>0, <1>5, <1>6 DEF Others
<1> QED
  BY <1>4, <1>7 DEF MarksInv

\* A rebind that commits takes its name from no asset that keeps its names to itself.
LEMMA RebindStep ==
  ASSUME MarksInv, LocksInv', NEW t \in Txns, CommitRebind(t)
  PROVE  MarksInv'
<1>0. /\ Others(t) /\ pc'[t] = "idle" /\ LocksInv /\ PgTypes
      /\ name[t] \in Names /\ asset[t] \in Receiving /\ Receiving \subseteq AssetIds
      /\ asset_id[name[t]] \in {None} \cup Receiving /\ None \notin AssetIds
  <2>1. pc[t] # "idle" /\ Rebinding(t) /\ TxnShape(t) /\ Seen(t)
    BY DEF CommitRebind, MarksInv, LocksInv, Rebinding
  <2> QED
    BY <2>1, EndOthers, PgAssumption DEF MarksInv, CommitRebind, LocksInv, TxnShape, Rebinding, Seen
<1>1. /\ UNCHANGED <<rows, tombstones, state>>
      /\ \A k \in Names : asset_id'[k] = IF k = name[t] THEN asset[t] ELSE asset_id[k]
  BY <1>0 DEF CommitRebind, PgTypes
<1>2. \A a \in AssetIds, k \in Names :
        Steady(a) => ((asset_id'[k] = a) <=> (asset_id[k] = a))
  BY <1>0, <1>1 DEF Steady
<1>3. LastDetachMarks'
  BY <1>0, <1>1, <1>2 DEF MarksInv, LastDetachMarks, Bare, PgTypes
<1>4. ASSUME NEW u \in Txns \ {t}, pc[u] # "idle"
      PROVE  Seen(u)' /\ Counted(u)'
  <2>0. /\ Seen(u) /\ Counted(u) /\ TxnShape(u)
        /\ pc'[u] = pc[u] /\ op'[u] = op[u] /\ name'[u] = name[u] /\ asset'[u] = asset[u]
        /\ asset[u] \in AssetIds
        /\ u \in orphaned' <=> u \in orphaned
        /\ \A row \in AssetIds \cup Names : locked'[row] = u <=> locked[row] = u
    BY <1>0, <1>4 DEF MarksInv, LocksInv, TxnShape, Others
  <2>1. op[u] = "rebind" => name[u] \in rows' /\ asset_id'[name[u]] \in {None} \cup Receiving
    <3>1. op[u] = "rebind" => name[u] \in Names
      BY <1>4, <2>0, PgAssumption DEF TxnShape, Rebinding
    <3> QED
      BY <1>0, <1>1, <1>4, <2>0, <3>1 DEF Seen
  <2>2. Detaching(u) /\ name[u] \in rows' /\ asset_id'[name[u]] \in AssetIds
          /\ Steady(asset_id'[name[u]]) => asset[u] = asset_id'[name[u]]
    <3>1. Detaching(u) => name[u] \in Names
      BY <1>4, <2>0 DEF TxnShape
    <3>2. Detaching(u) /\ asset_id'[name[u]] \in AssetIds /\ Steady(asset_id'[name[u]]) =>
            asset_id[name[u]] = asset_id'[name[u]]
      BY <1>2, <3>1
    <3> QED
      BY <1>1, <1>4, <2>0, <3>2 DEF Seen
  <2>3. Seen(u)'
    BY <1>1, <1>4, <2>0, <2>1, <2>2 DEF Seen, Detaching
  <2>4. Detaching(u) /\ Steady(asset[u]) => Bound(u, asset[u])' = Bound(u, asset[u])
    <3>1. Detaching(u) => Matched(u)' = Matched(u)
      BY <1>4, <2>0 DEF Matched, TxnShape
    <3>2. rows \subseteq Names
      BY <1>0 DEF PgTypes
    <3> QED
      BY <1>1, <1>2, <2>0, <3>1, <3>2 DEF Bound
  <2>5. Counted(u)'
    BY <2>0, <2>4 DEF Counted, Detaching
  <2> QED
    BY <2>3, <2>5
<1>5. ASSUME NEW u \in Txns, pc'[u] = "idle"
      PROVE  Seen(u)' /\ Counted(u)'
  BY <1>5 DEF Seen, Counted, Detaching
<1>6. \A u \in Txns : Seen(u)' /\ Counted(u)'
  BY <1>0, <1>4, <1>5 DEF Others
<1> QED
  BY <1>3, <1>6 DEF MarksInv

\* An attach or a reservation that commits takes no name away, and gives none that
\* another transaction has read to an asset that keeps its names to itself.
LEMMA InsertStep ==
  ASSUME MarksInv, LocksInv', NEW t \in Txns, CommitInserts(t)
  PROVE  MarksInv'
<1> DEFINE inserted == {k \in Names : locked[k] = t}
<1>0. /\ Others(t) /\ pc[t] # "idle" /\ pc[t] = "commit" /\ pc'[t] = "idle" /\ LocksInv /\ PgTypes
      /\ TxnShape(t) /\ TxnLocks(t) /\ Seen(t) /\ asset[t] \in AssetIds /\ Inserting(t)
  BY EndOthers DEF MarksInv, CommitInserts, LocksInv, TxnShape, Inserting
<1>1. /\ rows' = rows \cup inserted /\ UNCHANGED tombstones
      /\ \A k \in Names : asset_id'[k] = IF k \in inserted THEN asset[t] ELSE asset_id[k]
      /\ \A a \in AssetIds :
           state'[a] = IF op[t] = "reserve" /\ a = asset[t] THEN "pending" ELSE state[a]
  BY <1>0 DEF CommitInserts, PgTypes
<1>2. inserted # {} /\ inserted \cap rows = {} /\ inserted \subseteq Given(t) /\ rows \subseteq Names
  BY <1>0 DEF TxnLocks, PgTypes
<1>3. \A k \in rows : asset_id'[k] = asset_id[k] /\ k \in rows'
  BY <1>1, <1>2
<1>4. LastDetachMarks'
  <2> SUFFICES ASSUME NEW a \in AssetIds, Steady(a), Bare(a)'
               PROVE  state'[a] \in {"absent", "expired"}
    BY DEF LastDetachMarks
  <2>1. a # asset[t]
    BY <1>1, <1>2 DEF Bare
  <2>2. Bare(a)
    BY <1>3 DEF Bare
  <2> QED
    BY <1>1, <2>1, <2>2 DEF MarksInv, LastDetachMarks
<1>5. Steady(asset[t]) =>
        /\ op[t] = "reserve" /\ inserted \subseteq Range(OrderOf[asset[t]])
        /\ inserted \cap (rows \cup tombstones) = {}
  BY <1>0, <1>2 DEF Steady, Given, Seen, TxnShape, Inserting
<1>6. ASSUME NEW u \in Txns \ {t}, pc[u] # "idle"
      PROVE  Seen(u)' /\ Counted(u)'
  <2>0. /\ Seen(u) /\ Counted(u) /\ TxnShape(u) /\ TxnLocks(u)
        /\ pc'[u] = pc[u] /\ op'[u] = op[u] /\ name'[u] = name[u] /\ asset'[u] = asset[u]
        /\ asset[u] \in AssetIds
        /\ u \in orphaned' <=> u \in orphaned
        /\ \A row \in AssetIds \cup Names : locked'[row] = u <=> locked[row] = u
    BY <1>0, <1>6 DEF MarksInv, LocksInv, TxnShape, Others
  <2>1. op[u] = "rebind" => name[u] \in rows' /\ asset_id'[name[u]] \in {None} \cup Receiving
    BY <1>3, <1>6, <2>0 DEF Seen
  <2>2. op[u] = "reserve" /\ Steady(asset[u]) =>
          Range(OrderOf[asset[u]]) \cap (rows' \cup tombstones') = {}
    <3> SUFFICES ASSUME op[u] = "reserve", Steady(asset[u]),
                        NEW k \in inserted, k \in Range(OrderOf[asset[u]])
                 PROVE  FALSE
      BY <1>1, <1>6, <2>0 DEF Seen
    <3>1. asset[u] \in Fresh /\ locked[asset[u]] = u /\ k \notin Contested
      BY <1>6, <2>0 DEF TxnShape, Steady
    <3>2. op[t] = "reserve" /\ asset[t] \in Fresh /\ locked[asset[t]] = t
      BY <1>0, <1>2, <3>1 DEF TxnShape, Inserting, Given, Contested
    <3>3. k \in Range(OrderOf[asset[t]])
      BY <1>2, <3>2 DEF Given
    <3> QED
      BY <3>1, <3>2, <3>3 DEF Contested
  <2>3. Detaching(u) /\ name[u] \in rows' /\ asset_id'[name[u]] \in AssetIds
          /\ Steady(asset_id'[name[u]]) => asset[u] = asset_id'[name[u]]
    <3> SUFFICES ASSUME Detaching(u), name[u] \in rows', asset_id'[name[u]] \in AssetIds,
                        Steady(asset_id'[name[u]])
                 PROVE  asset[u] = asset_id'[name[u]]
      OBVIOUS
    <3>1. CASE name[u] \in rows
      <4>1. asset_id'[name[u]] = asset_id[name[u]]
        BY <1>3, <3>1
      <4> QED
        BY <1>6, <2>0, <3>1, <4>1 DEF Seen
    <3>2. CASE name[u] \in inserted
      <4>1. asset_id'[name[u]] = asset[t]
        BY <1>1, <3>2
      <4>2. name[u] \notin rows \cup tombstones
        BY <1>5, <3>2, <4>1
      <4>3. name[u] # None
        BY <3>2, PgAssumption
      <4> QED
        BY <1>6, <2>0, <4>2, <4>3 DEF Seen
    <3> QED
      BY <1>1, <3>1, <3>2
  <2>4. Seen(u)'
    BY <1>1, <1>6, <2>0, <2>1, <2>2, <2>3 DEF Seen, Detaching
  <2>5. Detaching(u) => Bound(u, asset[u]) \subseteq Bound(u, asset[u])'
    <3>1. Detaching(u) => Matched(u)' = Matched(u)
      BY <1>6, <2>0 DEF Matched, TxnShape
    <3> QED
      BY <1>3, <2>0, <3>1 DEF Bound
  <2>6. Counted(u)'
    BY <2>0, <2>5 DEF Counted, Detaching
  <2> QED
    BY <2>4, <2>6
<1>7. ASSUME NEW u \in Txns, pc'[u] = "idle"
      PROVE  Seen(u)' /\ Counted(u)'
  BY <1>7 DEF Seen, Counted, Detaching
<1>8. \A u \in Txns : Seen(u)' /\ Counted(u)'
  BY <1>0, <1>6, <1>7 DEF Others
<1> QED
  BY <1>4, <1>8 DEF MarksInv

\* Every statement of every transaction keeps the account.
LEMMA MarksStep ==
  ASSUME MarksInv, [PgNext]_pgVars
  PROVE  MarksInv'
<1>0. /\ LocksInv /\ LocksInv' /\ PgTypes /\ None \notin Txns /\ None \notin AssetIds
      /\ None \notin Names /\ AssetIds \cap Names = {}
  BY LocksStep, PgAssumption DEF MarksInv, LocksInv
<1> USE <1>0
<1>b. ASSUME NEW t \in Txns
      PROVE  TxnShape(t) /\ TxnLocks(t) /\ Seen(t) /\ Counted(t)
  BY DEF MarksInv, LocksInv
<1>c. ASSUME NEW t \in Txns, End(t), UNCHANGED tables
      PROVE  MarksInv'
  <2>1. Others(t) /\ pc'[t] = "idle"
    BY <1>c, EndOthers
  <2> QED
    BY <1>c, <2>1, QuietStep DEF Seen, Counted, Detaching
<1>1. ASSUME NEW t \in Txns, NEW k \in Detachable, DetachRead(t, k) \/ AdminBegin(t, k)
      PROVE  MarksInv'
  <2>1. Others(t) /\ UNCHANGED tables
    BY <1>1 DEF DetachRead, AdminBegin, Begin, Others, PgTypes
  <2>2. /\ pc'[t] \in {"update_alias", "lock_asset"} /\ op'[t] \in {"detach", "admin_detach"}
        /\ name'[t] = k /\ asset'[t] = asset_id[k] /\ k \in rows
    BY <1>1 DEF DetachRead, AdminBegin, Begin, PgTypes
  <2>3. Seen(t)' /\ Counted(t)'
    BY <2>1, <2>2 DEF Seen, Counted, Detaching, tables
  <2> QED
    BY <2>1, <2>3, QuietStep
<1>2. ASSUME NEW t \in Txns, NEW k \in Mutable, NEW a \in Receiving, RebindRead(t, k, a)
      PROVE  MarksInv'
  <2>1. Others(t) /\ UNCHANGED tables
    BY <1>2 DEF RebindRead, Begin, Others, PgTypes
  <2>2. pc'[t] = "load_asset" /\ op'[t] = "rebind" /\ name'[t] = k /\ k \in rows /\ asset_id[k] = None
    BY <1>2 DEF RebindRead, Begin, PgTypes
  <2>3. Seen(t)' /\ Counted(t)'
    BY <2>1, <2>2 DEF Seen, Counted, Detaching, tables
  <2> QED
    BY <2>1, <2>3, QuietStep
<1>3. ASSUME NEW t \in Txns, NEW k \in Attachable, NEW a \in Receiving, AttachBegin(t, k, a)
      PROVE  MarksInv'
  <2>1. Others(t) /\ UNCHANGED tables
    BY <1>3 DEF AttachBegin, Begin, Others, PgTypes
  <2>2. op'[t] = "attach" /\ name'[t] = None
    BY <1>3 DEF AttachBegin, Begin, PgTypes
  <2>3. Seen(t)' /\ Counted(t)'
    BY <2>2 DEF Seen, Counted, Detaching
  <2> QED
    BY <2>1, <2>3, QuietStep
<1>4. ASSUME NEW t \in Txns, NEW a \in Fresh, ReserveCheck(t, a)
      PROVE  MarksInv'
  <2>0. a \in AssetIds
    BY PgAssumption
  <2>1. Others(t) /\ UNCHANGED tables
    BY <1>4, <2>0 DEF ReserveCheck, Begin, Grab, Others, PgTypes
  <2>2. /\ op'[t] = "reserve" /\ name'[t] = None /\ asset'[t] = a
        /\ Range(OrderOf[a]) \cap (rows \cup tombstones) = {}
    BY <1>4 DEF ReserveCheck, Begin, PgTypes
  <2>3. Seen(t)' /\ Counted(t)'
    BY <2>1, <2>2 DEF Seen, Counted, Detaching, tables
  <2> QED
    BY <2>1, <2>3, QuietStep
<1>5. ASSUME NEW t \in Txns, AdminLock(t)
      PROVE  MarksInv'
  <2>1. CASE Step(t, "lock_asset", "nested") /\ Grab(t, asset[t]) /\ UNCHANGED local
    <3>0. asset[t] \in AssetIds /\ pc[t] # "idle" /\ op[t] = "admin_detach"
      BY <1>5, <1>b DEF AdminLock, TxnShape
    <3>1. Others(t) /\ UNCHANGED tables
      BY <1>5, <2>1, <3>0 DEF AdminLock, Step, Grab, local, Others, PgTypes
    <3>2. pc'[t] = "nested" /\ op'[t] = op[t] /\ name'[t] = name[t] /\ asset'[t] = asset[t]
      BY <2>1 DEF Step, local, PgTypes
    <3>3. Seen(t)' /\ Counted(t)'
      BY <1>b, <3>0, <3>1, <3>2 DEF Seen, Counted, Detaching, tables
    <3> QED
      BY <3>1, <3>3, QuietStep
  <2> QED
    BY <1>5, <1>c, <2>1 DEF AdminLock
<1>6. ASSUME NEW t \in Txns, AdminDetach(t)
      PROVE  MarksInv'
  <2>1. CASE /\ name[t] \in rows /\ asset_id[name[t]] # None /\ Step(t, "nested", "update_alias")
             /\ asset' = [asset EXCEPT ![t] = asset_id[name[t]]]
             /\ UNCHANGED <<locked, op, name, todo, orphaned>>
    <3>0. Detaching(t)
      BY <1>6, <1>b DEF AdminDetach, TxnShape
    <3>1. Others(t) /\ UNCHANGED tables
      BY <1>6, <2>1 DEF AdminDetach, Step, Others, PgTypes
    <3>2. /\ pc'[t] = "update_alias" /\ op'[t] = op[t] /\ name'[t] = name[t]
          /\ asset'[t] = asset_id[name[t]]
      BY <2>1 DEF Step, PgTypes
    <3>3. Seen(t)' /\ Counted(t)'
      BY <2>1, <3>0, <3>1, <3>2 DEF Seen, Counted, Detaching, tables
    <3> QED
      BY <3>1, <3>3, QuietStep
  <2> QED
    BY <1>6, <1>c, <2>1 DEF AdminDetach
<1>7. ASSUME NEW t \in Txns, AttachCheck(t)
      PROVE  MarksInv'
  <2>1. CASE Step(t, "lock_asset", "insert_alias") /\ Grab(t, asset[t]) /\ UNCHANGED local
    <3>0. asset[t] \in AssetIds /\ op[t] = "attach" /\ name[t] = None
      BY <1>7, <1>b DEF AttachCheck, TxnShape, Inserting
    <3>1. Others(t) /\ UNCHANGED tables
      BY <1>7, <2>1, <3>0 DEF AttachCheck, Step, Grab, local, Others, PgTypes
    <3>2. op'[t] = op[t] /\ name'[t] = name[t]
      BY <2>1 DEF local
    <3>3. Seen(t)' /\ Counted(t)'
      BY <3>0, <3>2 DEF Seen, Counted, Detaching
    <3> QED
      BY <3>1, <3>3, QuietStep
  <2> QED
    BY <1>7, <1>c, <2>1 DEF AttachCheck
<1>8. ASSUME NEW t \in Txns, UpdateAlias(t)
      PROVE  MarksInv'
  <2>0. name[t] \in Names /\ pc[t] # "idle"
    BY <1>8, <1>b, PgAssumption DEF UpdateAlias, Step, TxnShape, Detaching, Rebinding, Inserting
  <2>1. Others(t) /\ UNCHANGED tables
    BY <1>8, <2>0 DEF UpdateAlias, Step, Grab, local, Others, PgTypes
  <2>2. pc'[t] = "update_asset" /\ op'[t] = op[t] /\ name'[t] = name[t] /\ asset'[t] = asset[t]
    BY <1>8 DEF UpdateAlias, Step, local, PgTypes
  <2>3. Seen(t)' /\ Counted(t)'
    BY <1>b, <2>0, <2>1, <2>2 DEF Seen, Counted, Detaching, tables
  <2> QED
    BY <2>1, <2>3, QuietStep
<1>9. ASSUME NEW t \in Txns, UpdateAsset(t)
      PROVE  MarksInv'
  <2>0. asset[t] \in AssetIds /\ pc[t] # "idle"
    BY <1>9, <1>b DEF UpdateAsset, TxnShape
  <2>1. Others(t) /\ UNCHANGED tables
    BY <1>9, <2>0 DEF UpdateAsset, Grab, local, Others, PgTypes
  <2>2. /\ op'[t] = op[t] /\ name'[t] = name[t] /\ asset'[t] = asset[t] /\ locked'[asset[t]] = t
        /\ pc'[t] = IF op[t] \in {"detach", "admin_detach"} THEN "remaining" ELSE "commit"
    BY <1>9, <2>0 DEF UpdateAsset, Grab, local, PgTypes
  <2>3. Seen(t)'
    BY <1>b, <2>0, <2>1, <2>2 DEF Seen, Detaching, tables
  <2>4. Counted(t)'
    BY <2>2 DEF Counted, Detaching
  <2> QED
    BY <2>1, <2>3, <2>4, QuietStep
<1>10. ASSUME NEW t \in Txns, Remaining(t)
       PROVE  MarksInv'
  <2>0. pc[t] = "remaining" /\ Detaching(t)
    BY <1>10, <1>b DEF Remaining, Step, TxnShape
  <2>1. Others(t) /\ UNCHANGED tables
    BY <1>10 DEF Remaining, Step, Others, PgTypes
  <2>2. /\ pc'[t] = "commit" /\ UNCHANGED <<op, name, asset, locked, rows, asset_id>>
        /\ Bound(t, asset[t]) = {} => t \in orphaned'
    BY <1>10 DEF Remaining, Step, tables, PgTypes
  <2>3. Seen(t)'
    BY <1>b, <2>0, <2>1, <2>2 DEF Seen, Detaching, tables
  <2>4. Counted(t)'
    BY <1>b, <2>0, <2>2 DEF Counted, Detaching, Bound, Matched
  <2> QED
    BY <2>1, <2>3, <2>4, QuietStep
<1>11. ASSUME NEW t \in Txns, RebindLoad(t)
       PROVE  MarksInv'
  <2>1. CASE Step(t, "load_asset", "update_alias") /\ UNCHANGED <<locked, local>>
    <3>0. pc[t] # "idle" /\ op[t] = "rebind"
      BY <1>11, <1>b DEF RebindLoad, TxnShape, Rebinding
    <3>1. Others(t) /\ UNCHANGED tables
      BY <1>11, <2>1 DEF RebindLoad, Step, local, Others, PgTypes
    <3>2. pc'[t] = "update_alias" /\ op'[t] = op[t] /\ name'[t] = name[t] /\ asset'[t] = asset[t]
      BY <2>1 DEF Step, local, PgTypes
    <3>3. Seen(t)' /\ Counted(t)'
      BY <1>b, <3>0, <3>1, <3>2 DEF Seen, Counted, Detaching, tables
    <3> QED
      BY <3>1, <3>3, QuietStep
  <2> QED
    BY <1>11, <1>c, <2>1 DEF RebindLoad
<1>12. ASSUME NEW t \in Txns, InsertAlias(t)
       PROVE  MarksInv'
  <2>0. /\ Inserting(t) /\ pc[t] # "idle" /\ name[t] = None /\ todo[t] \in Seq(Names)
        /\ todo[t] # <<>>
    BY <1>12, <1>b DEF InsertAlias, TxnShape, PgTypes
  <2>1. CASE /\ Step(t, "insert_alias", IF Len(todo[t]) = 1 THEN "commit" ELSE "insert_alias")
             /\ Grab(t, Head(todo[t]))
             /\ todo' = [todo EXCEPT ![t] = Tail(@)]
             /\ UNCHANGED <<op, name, asset, orphaned>>
    <3>0. Head(todo[t]) \in Names
      BY <2>0, HeadTail
    <3>1. Others(t) /\ UNCHANGED tables
      BY <1>12, <2>1, <3>0 DEF InsertAlias, Step, Grab, Others, PgTypes
    <3>2. op'[t] = op[t] /\ name'[t] = name[t] /\ asset'[t] = asset[t]
      BY <2>1
    <3>3. Seen(t)' /\ Counted(t)'
      BY <1>b, <2>0, <3>1, <3>2 DEF Seen, Counted, Detaching, Inserting, tables
    <3> QED
      BY <3>1, <3>3, QuietStep
  <2> QED
    BY <1>12, <1>c, <2>1 DEF InsertAlias
<1>13. ASSUME NEW t \in Txns, CommitDetach(t) \/ CommitRebind(t) \/ CommitInserts(t)
       PROVE  MarksInv'
  BY <1>13, DetachStep, RebindStep, InsertStep
<1>14. ASSUME NEW t \in Txns, DeadlockAbort(t) \/ Rollback(t)
       PROVE  MarksInv'
  BY <1>14, <1>c DEF DeadlockAbort, Rollback
<1>15. ASSUME NEW a \in Expiring, Expire(a)
       PROVE  MarksInv'
  <2>1. LastDetachMarks'
    BY <1>15 DEF MarksInv, LastDetachMarks, Bare, Expire, PgTypes
  <2>2. \A t \in Txns : Seen(t)' /\ Counted(t)'
    BY <1>15 DEF MarksInv, Expire, local, Seen, Counted, Detaching, Bound, Matched
  <2> QED
    BY <2>1, <2>2 DEF MarksInv
<1>16. CASE UNCHANGED pgVars
  <2>1. LastDetachMarks'
    BY <1>16 DEF MarksInv, LastDetachMarks, Bare, pgVars
  <2>2. \A t \in Txns : Seen(t)' /\ Counted(t)'
    BY <1>16 DEF MarksInv, pgVars, Seen, Counted, Detaching, Bound, Matched
  <2> QED
    BY <2>1, <2>2 DEF MarksInv
<1> QED
  BY <1>1, <1>2, <1>3, <1>4, <1>5, <1>6, <1>7, <1>8, <1>9, <1>10, <1>11, <1>12, <1>13,
     <1>14, <1>15, <1>16 DEF PgNext, Continue

\* The account holds at the start.
LEMMA MarksStart ==
  ASSUME PgInit
  PROVE  MarksInv
<1>1. LocksInv
  BY LocksStart
<1>2. LastDetachMarks
  <2> SUFFICES ASSUME NEW a \in AssetIds, Bare(a), a \notin Fresh
               PROVE  FALSE
    BY DEF LastDetachMarks, PgInit
  <2>1. PICK k \in Names : HomeOf[k] = a
    BY PgAssumption
  <2> QED
    BY <2>1, PgAssumption DEF Bare, PgInit
<1> QED
  BY <1>1, <1>2 DEF MarksInv, PgInit, Seen, Counted, Detaching

\* An asset whose names no other request gives away has expired, or has never been
\* there, when it has lost its last name: for any number of requests, names and
\* assets, with every interleaving of their statements and every rollback.
THEOREM LastNameMarks == PgSpec => []LastDetachMarks
<1>1. MarksInv => LastDetachMarks
  BY DEF MarksInv
<1> QED
  BY <1>1, MarksStart, MarksStep, PTL DEF PgSpec

-----------------------------------------------------------------------------
(* Which deadlocks there can be *)

\* The rows a transaction holds while it may still wait.  Before its first lock it
\* holds none; on the way to its alias row none but the admin route's asset; and a
\* plain detach or a rebind no asset until its last wait is over.  An attach has one
\* name, so it holds none while it waits to insert it.  The row of a reservation is
\* seen by nobody else.
Holds(t) ==
  /\ pc[t] \in {"lock_asset", "load_asset"} => \A row \in AssetIds \cup Names : locked[row] # t
  /\ pc[t] \in {"nested", "update_alias"} => \A k \in Names : locked[k] # t
  /\ pc[t] \in {"load_asset", "update_alias", "update_asset"} /\ op[t] # "admin_detach" =>
       \A a \in AssetIds : locked[a] # t
  /\ pc[t] = "insert_alias" /\ op[t] = "attach" =>
       Len(todo[t]) = 1 /\ \A k \in Names : locked[k] # t
  /\ pc[t] = "lock_asset" /\ op[t] = "attach" => Len(todo[t]) = 1
  /\ pc[t] = "nested" => op[t] = "admin_detach"
  /\ pc[t] # "idle" /\ op[t] = "reserve" =>
       /\ state[asset[t]] = "absent" /\ pc[t] \in {"insert_alias", "commit"}
       /\ \A a \in AssetIds : locked[a] = t => a = asset[t]
  /\ Detaching(t) => state[asset[t]] # "absent"

\* Names are bound to rows that are there, and so are the assets of the start.
BoundRows ==
  /\ \A k \in Names : asset_id[k] # None => state[asset_id[k]] # "absent"
  /\ \A a \in AssetIds \ Fresh : state[a] # "absent"

HoldsInv == LocksInv /\ BoundRows /\ \A t \in Txns : Holds(t)

\* A statement of t that takes only a free lock and leaves the absent rows absent is
\* nothing to what the others hold.
LEMMA HoldsQuiet ==
  ASSUME HoldsInv, LocksInv', NEW t \in Txns, Others(t), UNCHANGED tables, Holds(t)'
  PROVE  HoldsInv'
<1>1. ASSUME NEW u \in Txns \ {t}
      PROVE  Holds(u)'
  <2>1. /\ pc'[u] = pc[u] /\ op'[u] = op[u] /\ name'[u] = name[u] /\ asset'[u] = asset[u]
        /\ todo'[u] = todo[u] /\ UNCHANGED state
        /\ \A row \in AssetIds \cup Names : locked'[row] = u <=> locked[row] = u
    BY DEF Others, tables
  <2> QED
    BY <2>1 DEF HoldsInv, Holds, Detaching
<1>2. BoundRows'
  BY DEF HoldsInv, BoundRows, tables
<1> QED
  BY <1>1, <1>2 DEF HoldsInv

\* Nor is the end of t, which adds to the rows that are there only its own.
LEMMA HoldsEnd ==
  ASSUME HoldsInv, LocksInv', NEW t \in Txns, Others(t), pc'[t] = "idle", BoundRows',
         \A a \in AssetIds : /\ state'[a] = "absent" => state[a] = "absent"
                             /\ locked[a] # t /\ state[a] = "absent" => state'[a] = "absent"
  PROVE  HoldsInv'
<1>1. ASSUME NEW u \in Txns \ {t}
      PROVE  Holds(u)'
  <2>1. /\ pc'[u] = pc[u] /\ op'[u] = op[u] /\ name'[u] = name[u] /\ asset'[u] = asset[u]
        /\ todo'[u] = todo[u]
        /\ \A row \in AssetIds \cup Names : locked'[row] = u <=> locked[row] = u
    BY DEF Others
  <2>2. pc[u] # "idle" =>
          /\ asset[u] \in AssetIds
          /\ op[u] = "reserve" => locked[asset[u]] # t
          /\ state'[asset[u]] = "absent" => state[asset[u]] = "absent"
    BY DEF HoldsInv, LocksInv, TxnShape
  <2>3. Holds(u)
    BY DEF HoldsInv
  <2>4. pc[u] # "idle" /\ op[u] = "reserve" => state'[asset[u]] = "absent"
    BY <2>2, <2>3 DEF Holds
  <2> QED
    BY <2>1, <2>2, <2>3, <2>4 DEF Holds, Detaching
<1>2. Holds(t)'
  <2>1. \A row \in AssetIds \cup Names : locked'[row] # t
    BY DEF LocksInv, TxnLocks
  <2> QED
    BY <2>1 DEF Holds, Detaching
<1> QED
  BY <1>1, <1>2 DEF HoldsInv

\* Every statement of every transaction keeps the account.
LEMMA HoldsStep ==
  ASSUME HoldsInv, [PgNext]_pgVars
  PROVE  HoldsInv'
<1>0. /\ LocksInv /\ LocksInv' /\ PgTypes /\ None \notin Txns /\ None \notin AssetIds
      /\ None \notin Names /\ AssetIds \cap Names = {} /\ BoundRows
  BY LocksStep, PgAssumption DEF HoldsInv, LocksInv
<1> USE <1>0
<1>b. ASSUME NEW t \in Txns
      PROVE  TxnShape(t) /\ TxnLocks(t) /\ Holds(t)
  BY DEF HoldsInv, LocksInv
<1>c. ASSUME NEW t \in Txns, End(t), UNCHANGED tables
      PROVE  HoldsInv'
  <2>1. Others(t) /\ pc'[t] = "idle"
    BY <1>c, EndOthers
  <2> QED
    BY <1>c, <2>1, HoldsEnd DEF tables, BoundRows
<1>1. ASSUME NEW t \in Txns, NEW k \in Detachable, DetachRead(t, k) \/ AdminBegin(t, k)
      PROVE  HoldsInv'
  <2>0. k \in Names
    BY PgAssumption
  <2>1. Others(t) /\ UNCHANGED tables /\ UNCHANGED locked
    BY <1>1 DEF DetachRead, AdminBegin, Begin, Others, PgTypes
  <2>2. /\ pc[t] = "idle" /\ name'[t] = k /\ asset'[t] = asset_id[k] /\ asset_id[k] # None
        /\ \/ pc'[t] = "update_alias" /\ op'[t] = "detach"
           \/ pc'[t] = "lock_asset" /\ op'[t] = "admin_detach"
    BY <1>1 DEF DetachRead, AdminBegin, Begin, PgTypes
  <2>3. Holds(t)'
    BY <1>b, <2>0, <2>1, <2>2 DEF TxnLocks, Holds, Detaching, tables, BoundRows
  <2> QED
    BY <2>1, <2>3, HoldsQuiet
<1>2. ASSUME NEW t \in Txns, NEW k \in Mutable, NEW a \in Receiving, RebindRead(t, k, a)
      PROVE  HoldsInv'
  <2>1. Others(t) /\ UNCHANGED tables /\ UNCHANGED locked
    BY <1>2 DEF RebindRead, Begin, Others, PgTypes
  <2>2. pc[t] = "idle" /\ pc'[t] = "load_asset" /\ op'[t] = "rebind"
    BY <1>2 DEF RebindRead, Begin, PgTypes
  <2>3. Holds(t)'
    BY <1>b, <2>1, <2>2 DEF TxnLocks, Holds, Detaching
  <2> QED
    BY <2>1, <2>3, HoldsQuiet
<1>3. ASSUME NEW t \in Txns, NEW k \in Attachable, NEW a \in Receiving, AttachBegin(t, k, a)
      PROVE  HoldsInv'
  <2>1. Others(t) /\ UNCHANGED tables /\ UNCHANGED locked
    BY <1>3 DEF AttachBegin, Begin, Others, PgTypes
  <2>2. pc[t] = "idle" /\ pc'[t] = "lock_asset" /\ op'[t] = "attach" /\ todo'[t] = <<k>>
    BY <1>3 DEF AttachBegin, Begin, PgTypes
  <2>3. Holds(t)'
    BY <1>b, <2>1, <2>2 DEF TxnLocks, Holds, Detaching
  <2> QED
    BY <2>1, <2>3, HoldsQuiet
<1>4. ASSUME NEW t \in Txns, NEW a \in Fresh, ReserveCheck(t, a)
      PROVE  HoldsInv'
  <2>0. a \in AssetIds
    BY PgAssumption
  <2>1. Others(t) /\ UNCHANGED tables
    BY <1>4, <2>0 DEF ReserveCheck, Begin, Grab, Others, PgTypes
  <2>2. /\ pc[t] = "idle" /\ pc'[t] = "insert_alias" /\ op'[t] = "reserve" /\ asset'[t] = a
        /\ state[a] = "absent" /\ locked' = [locked EXCEPT ![a] = t]
    BY <1>4 DEF ReserveCheck, Begin, Grab, PgTypes
  <2>3. Holds(t)'
    BY <1>b, <2>0, <2>1, <2>2 DEF TxnLocks, Holds, Detaching, tables, PgTypes
  <2> QED
    BY <2>1, <2>3, HoldsQuiet
<1>5. ASSUME NEW t \in Txns, AdminLock(t)
      PROVE  HoldsInv'
  <2>1. CASE Step(t, "lock_asset", "nested") /\ Grab(t, asset[t]) /\ UNCHANGED local
    <3>0. asset[t] \in AssetIds /\ pc[t] = "lock_asset" /\ op[t] = "admin_detach" /\ Detaching(t)
      BY <1>5, <1>b DEF AdminLock, TxnShape, Detaching
    <3>1. Others(t) /\ UNCHANGED tables
      BY <1>5, <2>1, <3>0 DEF AdminLock, Step, Grab, local, Others, PgTypes
    <3>2. /\ pc'[t] = "nested" /\ op'[t] = op[t] /\ asset'[t] = asset[t]
          /\ \A k \in Names : locked'[k] = locked[k]
      BY <2>1, <3>0 DEF Step, Grab, local, PgTypes
    <3>3. Holds(t)'
      BY <1>b, <3>0, <3>1, <3>2 DEF Holds, Detaching, tables
    <3> QED
      BY <3>1, <3>3, HoldsQuiet
  <2> QED
    BY <1>5, <1>c, <2>1 DEF AdminLock
<1>6. ASSUME NEW t \in Txns, AdminDetach(t)
      PROVE  HoldsInv'
  <2>1. CASE /\ name[t] \in rows /\ asset_id[name[t]] # None /\ Step(t, "nested", "update_alias")
             /\ asset' = [asset EXCEPT ![t] = asset_id[name[t]]]
             /\ UNCHANGED <<locked, op, name, todo, orphaned>>
    <3>0. pc[t] = "nested" /\ op[t] = "admin_detach" /\ name[t] \in Names
      BY <1>6, <1>b, <2>1 DEF AdminDetach, Holds, PgTypes
    <3>1. Others(t) /\ UNCHANGED tables
      BY <1>6, <2>1 DEF AdminDetach, Step, Others, PgTypes
    <3>2. /\ pc'[t] = "update_alias" /\ op'[t] = op[t] /\ asset'[t] = asset_id[name[t]]
          /\ UNCHANGED locked
      BY <2>1 DEF Step, PgTypes
    <3>3. Holds(t)'
      BY <1>b, <2>1, <3>0, <3>1, <3>2 DEF Holds, Detaching, tables, BoundRows
    <3> QED
      BY <3>1, <3>3, HoldsQuiet
  <2> QED
    BY <1>6, <1>c, <2>1 DEF AdminDetach
<1>7. ASSUME NEW t \in Txns, AttachCheck(t)
      PROVE  HoldsInv'
  <2>1. CASE Step(t, "lock_asset", "insert_alias") /\ Grab(t, asset[t]) /\ UNCHANGED local
    <3>0. asset[t] \in AssetIds /\ pc[t] = "lock_asset" /\ op[t] = "attach"
      BY <1>7, <1>b DEF AttachCheck, TxnShape
    <3>1. Others(t) /\ UNCHANGED tables
      BY <1>7, <2>1, <3>0 DEF AttachCheck, Step, Grab, local, Others, PgTypes
    <3>2. /\ pc'[t] = "insert_alias" /\ op'[t] = op[t] /\ todo'[t] = todo[t]
          /\ \A k \in Names : locked'[k] = locked[k]
      BY <2>1, <3>0 DEF Step, Grab, local, PgTypes
    <3>3. Holds(t)'
      BY <1>b, <3>0, <3>2 DEF Holds, Detaching
    <3> QED
      BY <3>1, <3>3, HoldsQuiet
  <2> QED
    BY <1>7, <1>c, <2>1 DEF AttachCheck
<1>8. ASSUME NEW t \in Txns, UpdateAlias(t)
      PROVE  HoldsInv'
  <2>0. name[t] \in Names /\ pc[t] = "update_alias" /\ op[t] # "reserve"
    BY <1>8, <1>b, PgAssumption
       DEF UpdateAlias, Step, TxnShape, Detaching, Rebinding, Inserting, Holds
  <2>1. Others(t) /\ UNCHANGED tables
    BY <1>8, <2>0 DEF UpdateAlias, Step, Grab, local, Others, PgTypes
  <2>2. /\ pc'[t] = "update_asset" /\ op'[t] = op[t] /\ asset'[t] = asset[t]
        /\ \A a \in AssetIds : locked'[a] = locked[a]
    BY <1>8, <2>0 DEF UpdateAlias, Step, Grab, local, PgTypes
  <2>3. Holds(t)'
    BY <1>b, <2>0, <2>1, <2>2 DEF Holds, Detaching, tables
  <2> QED
    BY <2>1, <2>3, HoldsQuiet
<1>9. ASSUME NEW t \in Txns, UpdateAsset(t)
      PROVE  HoldsInv'
  <2>0. asset[t] \in AssetIds /\ pc[t] = "update_asset" /\ op[t] # "reserve"
    BY <1>9, <1>b DEF UpdateAsset, TxnShape, Holds
  <2>1. Others(t) /\ UNCHANGED tables
    BY <1>9, <2>0 DEF UpdateAsset, Grab, local, Others, PgTypes
  <2>2. pc'[t] \in {"remaining", "commit"} /\ op'[t] = op[t] /\ asset'[t] = asset[t]
    BY <1>9, <2>0 DEF UpdateAsset, Grab, local, PgTypes
  <2>3. Holds(t)'
    BY <1>b, <2>0, <2>1, <2>2 DEF Holds, Detaching, tables
  <2> QED
    BY <2>1, <2>3, HoldsQuiet
<1>10. ASSUME NEW t \in Txns, Remaining(t)
       PROVE  HoldsInv'
  <2>0. pc[t] = "remaining" /\ op[t] # "reserve"
    BY <1>10, <1>b DEF Remaining, Step, Holds
  <2>1. Others(t) /\ UNCHANGED tables
    BY <1>10 DEF Remaining, Step, Others, PgTypes
  <2>2. pc'[t] = "commit" /\ UNCHANGED <<op, asset, locked>>
    BY <1>10 DEF Remaining, Step, PgTypes
  <2>3. Holds(t)'
    BY <1>b, <2>0, <2>1, <2>2 DEF Holds, Detaching, tables
  <2> QED
    BY <2>1, <2>3, HoldsQuiet
<1>11. ASSUME NEW t \in Txns, RebindLoad(t)
       PROVE  HoldsInv'
  <2>1. CASE Step(t, "load_asset", "update_alias") /\ UNCHANGED <<locked, local>>
    <3>0. pc[t] = "load_asset" /\ op[t] = "rebind"
      BY <1>11, <1>b DEF RebindLoad, TxnShape, Rebinding
    <3>1. Others(t) /\ UNCHANGED tables
      BY <1>11, <2>1 DEF RebindLoad, Step, local, Others, PgTypes
    <3>2. pc'[t] = "update_alias" /\ UNCHANGED <<op, asset, locked>>
      BY <2>1 DEF Step, local, PgTypes
    <3>3. Holds(t)'
      BY <1>b, <3>0, <3>2 DEF Holds, Detaching
    <3> QED
      BY <3>1, <3>3, HoldsQuiet
  <2> QED
    BY <1>11, <1>c, <2>1 DEF RebindLoad
<1>12. ASSUME NEW t \in Txns, InsertAlias(t)
       PROVE  HoldsInv'
  <2>0. /\ Inserting(t) /\ pc[t] = "insert_alias" /\ todo[t] \in Seq(Names) /\ todo[t] # <<>>
    BY <1>12, <1>b DEF InsertAlias, TxnShape, PgTypes
  <2>1. CASE /\ Step(t, "insert_alias", IF Len(todo[t]) = 1 THEN "commit" ELSE "insert_alias")
             /\ Grab(t, Head(todo[t]))
             /\ todo' = [todo EXCEPT ![t] = Tail(@)]
             /\ UNCHANGED <<op, name, asset, orphaned>>
    <3>0. Head(todo[t]) \in Names
      BY <2>0, HeadTail
    <3>1. Others(t) /\ UNCHANGED tables
      BY <1>12, <2>1, <3>0 DEF InsertAlias, Step, Grab, Others, PgTypes
    <3>2. /\ pc'[t] = (IF Len(todo[t]) = 1 THEN "commit" ELSE "insert_alias")
          /\ UNCHANGED <<op, asset>>
          /\ \A a \in AssetIds : locked'[a] = locked[a]
      BY <2>1, <3>0 DEF Step, Grab, PgTypes
    <3>3. Holds(t)'
      BY <1>b, <2>0, <3>1, <3>2 DEF Holds, Detaching, Inserting, tables
    <3> QED
      BY <3>1, <3>3, HoldsQuiet
  <2> QED
    BY <1>12, <1>c, <2>1 DEF InsertAlias
<1>13. ASSUME NEW t \in Txns, CommitDetach(t)
       PROVE  HoldsInv'
  <2>0. /\ Others(t) /\ pc'[t] = "idle" /\ name[t] \in Names /\ asset[t] \in AssetIds
        /\ state[asset[t]] # "absent"
    BY <1>13, <1>b, EndOthers DEF CommitDetach, TxnShape, Detaching, Holds
  <2>1. /\ \A k \in Names : asset_id'[k] # None => asset_id'[k] = asset_id[k]
        /\ \A a \in AssetIds : state'[a] = state[a] \/ (a = asset[t] /\ state'[a] = "expired")
    BY <1>13, <2>0 DEF CommitDetach, PgTypes
  <2>2. BoundRows'
    BY <2>1 DEF BoundRows, PgTypes
  <2> QED
    BY <2>0, <2>1, <2>2, HoldsEnd
<1>14. ASSUME NEW t \in Txns, CommitRebind(t)
       PROVE  HoldsInv'
  <2>0. /\ Others(t) /\ pc'[t] = "idle" /\ name[t] \in Names /\ asset[t] \in Receiving
    BY <1>14, <1>b, EndOthers, PgAssumption DEF CommitRebind, TxnShape, Rebinding
  <2>1. /\ UNCHANGED state
        /\ \A k \in Names : asset_id'[k] = IF k = name[t] THEN asset[t] ELSE asset_id[k]
    BY <1>14, <2>0 DEF CommitRebind, PgTypes
  <2>2. BoundRows'
    BY <2>0, <2>1, PgAssumption DEF BoundRows
  <2> QED
    BY <2>0, <2>1, <2>2, HoldsEnd
<1>15. ASSUME NEW t \in Txns, CommitInserts(t)
       PROVE  HoldsInv'
  <2>0. /\ Others(t) /\ pc'[t] = "idle" /\ asset[t] \in AssetIds
        /\ op[t] = "reserve" => locked[asset[t]] = t
        /\ op[t] = "attach" => asset[t] \in Receiving
    BY <1>15, <1>b, EndOthers DEF CommitInserts, TxnShape
  <2>1. /\ \A k \in Names : asset_id'[k] \in {asset[t], asset_id[k]}
        /\ \A a \in AssetIds : state'[a] = IF op[t] = "reserve" /\ a = asset[t]
                                           THEN "pending" ELSE state[a]
    BY <1>15, <2>0 DEF CommitInserts, PgTypes
  <2>2. state'[asset[t]] # "absent"
    BY <1>15, <2>0, <2>1, PgAssumption DEF CommitInserts, BoundRows
  <2>3. BoundRows'
    <3>1. \A k \in Names : asset_id[k] # None => asset_id[k] \in AssetIds
      BY DEF PgTypes
    <3> QED
      BY <2>0, <2>1, <2>2, <3>1, PgAssumption DEF BoundRows
  <2> QED
    BY <2>0, <2>1, <2>2, <2>3, HoldsEnd
<1>16. ASSUME NEW t \in Txns, DeadlockAbort(t) \/ Rollback(t)
       PROVE  HoldsInv'
  BY <1>16, <1>c DEF DeadlockAbort, Rollback
<1>17. ASSUME NEW a \in Expiring, Expire(a)
       PROVE  HoldsInv'
  <2>1. /\ UNCHANGED <<asset_id, locked, pc, op, name, asset, todo>>
        /\ \A b \in AssetIds : state'[b] = "absent" <=> state[b] = "absent"
    BY <1>17 DEF Expire, local, PgTypes
  <2>2. ASSUME NEW t \in Txns
        PROVE  Holds(t)'
    <3>1. pc[t] # "idle" => asset[t] \in AssetIds
      BY <1>b DEF TxnShape
    <3> QED
      BY <1>b, <2>1, <3>1 DEF Holds, Detaching
  <2>3. BoundRows'
    BY <2>1 DEF BoundRows, PgTypes
  <2> QED
    BY <2>2, <2>3 DEF HoldsInv
<1>18. CASE UNCHANGED pgVars
  BY <1>18 DEF HoldsInv, pgVars, Holds, Detaching, BoundRows
<1> QED
  BY <1>1, <1>2, <1>3, <1>4, <1>5, <1>6, <1>7, <1>8, <1>9, <1>10, <1>11, <1>12, <1>13,
     <1>14, <1>15, <1>16, <1>17, <1>18 DEF PgNext, Continue

\* The account holds at the start.
LEMMA HoldsStart ==
  ASSUME PgInit
  PROVE  HoldsInv
<1>1. LocksInv
  BY LocksStart
<1>2. BoundRows
  <2>1. \A k \in Names : asset_id[k] # None => asset_id[k] \in AssetIds \ Fresh
    BY PgAssumption DEF PgInit
  <2> QED
    BY <2>1 DEF PgInit, BoundRows
<1>3. \A t \in Txns : Holds(t)
  BY PgAssumption DEF PgInit, Holds, Detaching
<1> QED
  BY <1>1, <1>2, <1>3 DEF HoldsInv

\* Whoever waits for a row that a waiting transaction holds: an alias row is held by
\* a detach or rebind that waits for its asset, or by a reservation; an asset row by
\* the admin route or by an attach.
LEMMA WaitKinds ==
  ASSUME HoldsInv, NEW u \in Txns, NEW v \in Txns, NEW w \in Txns,
         WaitsFor(u, v), WaitsFor(v, w)
  PROVE  \/ pc[u] = "update_asset" /\ op[v] \in {"admin_detach", "attach"}
         \/ pc[u] = "update_alias" /\ pc[v] = "update_asset"
         \/ pc[u] = "insert_alias" /\ pc[v] = "update_asset"
         \/ pc[u] = "insert_alias" /\ pc[v] = "insert_alias" /\ op[v] = "reserve"
         \/ pc[u] = "lock_asset"
<1>0. /\ PgTypes /\ None \notin Txns /\ None \notin AssetIds /\ None \notin Names
      /\ TxnShape(u) /\ TxnLocks(u) /\ Holds(u) /\ TxnShape(v) /\ TxnLocks(v) /\ Holds(v)
  BY PgAssumption DEF HoldsInv, LocksInv
<1>1. /\ pc[u] \in {"update_alias", "insert_alias", "lock_asset", "update_asset"}
      /\ pc[v] \in {"update_alias", "insert_alias", "lock_asset", "update_asset"}
  BY DEF WaitsFor, Wants
<1>2. CASE pc[u] = "update_alias"
  <2>1. name[u] \in rows /\ name[u] \in Names /\ locked[name[u]] = v
    BY <1>0, <1>2 DEF WaitsFor, Wants, PgTypes
  <2>2. ~Inserting(v) /\ pc[v] # "insert_alias"
    BY <1>0, <2>1 DEF TxnLocks, TxnShape
  <2> QED
    BY <1>0, <1>1, <1>2, <2>1, <2>2 DEF Holds
<1>3. CASE pc[u] = "insert_alias"
  <2>1. Head(todo[u]) \in Names
    BY <1>0, <1>3, HeadTail DEF TxnShape, PgTypes
  <2>2. locked[Head(todo[u])] = v
    BY <1>3 DEF WaitsFor, Wants
  <2>3. pc[v] = "insert_alias" => op[v] = "reserve"
    BY <1>0, <2>1, <2>2 DEF TxnShape, Inserting, Holds
  <2> QED
    BY <1>0, <1>1, <1>3, <2>1, <2>2, <2>3 DEF Holds
<1>4. CASE pc[u] = "update_asset"
  <2>1. asset[u] \in AssetIds /\ locked[asset[u]] = v
    BY <1>0, <1>4 DEF WaitsFor, Wants, TxnShape
  <2>2. op[v] # "reserve"
    <3> SUFFICES ASSUME op[v] = "reserve" PROVE FALSE
      OBVIOUS
    <3>1. asset[u] = asset[v] /\ state[asset[u]] = "absent"
      BY <1>0, <1>1, <2>1 DEF Holds
    <3>2. ~Detaching(u) /\ ~Inserting(u)
      BY <1>0, <1>4, <3>1 DEF Holds, TxnShape
    <3>3. asset[u] \in Receiving /\ asset[v] \in Fresh
      BY <1>0, <1>1, <1>4, <3>2 DEF TxnShape, Rebinding
    <3> QED
      BY <3>1, <3>3, PgAssumption
  <2>3. op[v] \in {"detach", "admin_detach", "rebind", "attach"}
    BY <1>0, <1>1, <2>2 DEF TxnShape, Detaching, Rebinding, Inserting
  <2>4. op[v] \in {"detach", "rebind"} => FALSE
    <3> SUFFICES ASSUME op[v] \in {"detach", "rebind"} PROVE FALSE
      OBVIOUS
    <3>1. pc[v] # "insert_alias"
      BY <1>0 DEF TxnShape, Inserting
    <3> QED
      BY <1>0, <1>1, <2>1, <3>1 DEF Holds
  <2> QED
    BY <1>4, <2>3, <2>4
<1> QED
  BY <1>1, <1>2, <1>3, <1>4

\* A circular wait goes through an asset row that the admin route or an attach has
\* locked ahead of its alias, or consists of raw reservations: for any number of
\* transactions, names and assets.
THEOREM DeadlocksKnown == PgSpec => []DeadlocksConfined
<1>1. HoldsInv => DeadlocksConfined
  <2> SUFFICES ASSUME HoldsInv, NEW cycle \in SUBSET Txns, Circular(cycle),
                      NEW x \in cycle, op[x] # "reserve"
               PROVE  \E u, t \in cycle : /\ WaitsFor(u, t) /\ Wants(u) \in AssetIds
                                          /\ op[t] \in {"admin_detach", "attach"}
    BY DEF DeadlocksConfined
  <2>0. \A u \in cycle : /\ \E v \in cycle : WaitsFor(u, v)
                         /\ \E v \in cycle : WaitsFor(v, u)
    BY DEF Circular
  <2>1. ASSUME NEW u \in cycle, pc[u] = "update_asset"
        PROVE  \E v \in cycle : /\ WaitsFor(u, v) /\ Wants(u) \in AssetIds
                                 /\ op[v] \in {"admin_detach", "attach"}
    <3>1. PICK v \in cycle : WaitsFor(u, v)
      BY <2>0
    <3>2. PICK w \in cycle : WaitsFor(v, w)
      BY <2>0
    <3>3. op[v] \in {"admin_detach", "attach"}
      BY <2>1, <3>1, <3>2, WaitKinds
    <3>4. Wants(u) \in AssetIds
      BY <2>1 DEF Wants, HoldsInv, LocksInv, TxnShape
    <3> QED
      BY <3>1, <3>3, <3>4
  <2>2. ASSUME \A u \in cycle : pc[u] # "update_asset"
        PROVE  FALSE
    <3>1. PICK y \in cycle : WaitsFor(y, x)
      BY <2>0
    <3>2. PICK z \in cycle : WaitsFor(x, z)
      BY <2>0
    <3>3. pc[y] = "lock_asset"
      BY <2>2, <3>1, <3>2, WaitKinds
    <3>4. PICK w \in cycle : WaitsFor(w, y)
      BY <2>0
    <3>5. /\ locked[Wants(w)] = y /\ Wants(w) # None /\ Holds(y) /\ PgTypes /\ TxnShape(w)
      BY <3>4 DEF WaitsFor, HoldsInv, LocksInv
    <3>6. Wants(w) \in AssetIds \cup Names
      BY <3>5, HeadTail, PgAssumption DEF Wants, TxnShape, PgTypes
    <3> QED
      BY <3>3, <3>5, <3>6 DEF Holds
  <2> QED
    BY <2>1, <2>2
<1> QED
  BY <1>1, HoldsStart, HoldsStep, PTL DEF PgSpec
=============================================================================
