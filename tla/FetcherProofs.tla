---------------------------- MODULE FetcherProofs ---------------------------
(* Theorems about Fetcher, for any number of URLs, jobs, assets and outages. *)
EXTENDS Fetcher, TLAPS

-----------------------------------------------------------------------------
(* Bytes: what a job has in hand, and what the asset store holds *)

Steps == {"idle", "resolve", "fetch", "compare", "mint_write", "put", "writing", "reresolve",
          "token", "mint_read", "get", "verify", "stored", "read", "failed"}

StoreTypes ==
  /\ origin \in [Urls -> Contents]
  /\ alias \in [Urls -> {"free", "pending", "available", "expired", "deleted"}]
  /\ id \in [Urls -> 0..MaxAssets]
  /\ content \in [Urls -> [1..MaxAssets -> Contents \cup {None}]]
JobTypes ==
  /\ pc \in [Jobs -> Steps] /\ url \in [Jobs -> Urls \cup {None}]
  /\ found \in [Jobs -> (1..MaxAssets) \cup {None}]
  /\ body \in [Jobs -> Contents \cup {None}]

\* An asset has bytes once it is available, none while it is pending, and the ones
\* still to come have none.
Slot(u) ==
  /\ alias[u] = "free" => id[u] < MaxAssets
  /\ alias[u] \in {"pending", "available"} => id[u] # 0
  /\ alias[u] = "pending" => content[u][id[u]] = None
  /\ alias[u] = "available" => content[u][id[u]] # None
  /\ \A n \in 1..MaxAssets : n > id[u] => content[u][n] = None

Named(j) == content[url[j]][found[j]]

\* What a job may rely on at each of its steps, whatever happens to the alias.
Claim(j) ==
  /\ pc[j] # "idle" => url[j] \in Urls
  /\ pc[j] \in {"idle", "resolve"} => found[j] = None
  /\ pc[j] = "fetch" /\ found[j] # None => Named(j) # None
  /\ pc[j] = "compare" => found[j] # None /\ Named(j) # None
  /\ pc[j] \in {"mint_write", "put", "writing"} => body[j] # None
  /\ pc[j] = "writing" => found[j] # None
  /\ pc[j] = "stored" => found[j] # None /\ Named(j) # None /\ (j \notin hit => body[j] = Named(j))
  /\ pc[j] \in {"token", "mint_read", "get", "verify", "read"} =>
       found[j] # None /\ Named(j) \in Images
  /\ pc[j] = "read" => body[j] = Named(j)

BytesInv ==
  /\ StoreTypes /\ JobTypes
  /\ \A u \in Urls : Slot(u)
  /\ \A j \in Jobs : Claim(j)

\* Committed bytes are never written over.
BytesKept ==
  \A u \in Urls, n \in 1..MaxAssets : content[u][n] # None => content'[u][n] = content[u][n]

\* The other jobs stay where they are.
Apart(j) ==
  \A i \in Jobs \ {j} :
    /\ pc'[i] = pc[i] /\ url'[i] = url[i] /\ found'[i] = found[i] /\ body'[i] = body[i]
    /\ i \in hit' <=> i \in hit

\* None is no bytes, no asset and no URL.
LEMMA NoneApart ==
  /\ None \notin Contents /\ None \notin Images /\ None \notin Urls /\ Images \subseteq Contents
  /\ None \notin 1..MaxAssets /\ MaxAssets \in Nat /\ None \notin Jobs /\ None \notin Nat
<1>1. None \notin Nat /\ 1..MaxAssets \subseteq Nat
  BY FetcherAssumption
<1> QED
  BY <1>1, FetcherAssumption

\* A job keeps what it relies on while others step, as long as no bytes are lost.
LEMMA ClaimKept ==
  ASSUME BytesInv, NEW i \in Jobs, BytesKept,
         pc'[i] = pc[i], url'[i] = url[i], found'[i] = found[i], body'[i] = body[i],
         i \in hit' <=> i \in hit
  PROVE  Claim(i)'
<1>1. Claim(i)
  BY DEF BytesInv
<1>2. url[i] \in Urls /\ found[i] # None /\ Named(i) # None => Named(i)' = Named(i)
  BY DEF BytesInv, JobTypes, BytesKept, Named
<1> QED
  BY <1>1, <1>2, NoneApart DEF Claim

\* A step of job j.
LEMMA JobStep ==
  ASSUME BytesInv, NEW j \in Jobs, Apart(j), StoreTypes', JobTypes', BytesKept,
         \A u \in Urls : Slot(u)', Claim(j)'
  PROVE  BytesInv'
<1>1. \A i \in Jobs \ {j} : Claim(i)'
  BY ClaimKept DEF Apart
<1> QED
  BY <1>1 DEF BytesInv

\* A step of job j that leaves the asset store alone.
LEMMA QuietStep ==
  ASSUME BytesInv, NEW j \in Jobs, Apart(j), JobTypes', UNCHANGED <<origin, alias, id, content>>,
         Claim(j)'
  PROVE  BytesInv'
<1>1. StoreTypes' /\ BytesKept /\ \A u \in Urls : Slot(u)'
  BY DEF BytesInv, StoreTypes, BytesKept, Slot
<1> QED
  BY <1>1, JobStep

\* A job that fails relies on nothing.
LEMMA FailStep ==
  ASSUME BytesInv, NEW j \in Jobs, Fail(j), UNCHANGED url, url[j] \in Urls
  PROVE  Apart(j) /\ JobTypes' /\ Claim(j)'
<1>1. /\ Apart(j) /\ JobTypes' /\ pc'[j] = "failed" /\ url'[j] = url[j]
  BY DEF BytesInv, JobTypes, Steps, Fail, Goto, Forget, Apart
<1> QED
  BY <1>1 DEF Claim

\* Every step of every job, and of everyone else, keeps the account of the bytes.
LEMMA BytesStep ==
  ASSUME BytesInv, [FetcherNext]_fetcherVars
  PROVE  BytesInv'
<1>0. StoreTypes /\ JobTypes
  BY DEF BytesInv
<1> USE <1>0, NoneApart
<1>b. ASSUME NEW j \in Jobs, pc[j] # "idle"
      PROVE  url[j] \in Urls /\ Claim(j) /\ Slot(url[j])
  BY <1>b DEF BytesInv, Claim
<1>c. ASSUME NEW j \in Jobs, pc[j] # "idle", Fail(j), UNCHANGED <<origin, alias, id, content, url>>
      PROVE  BytesInv'
  BY <1>b, <1>c, FailStep, QuietStep
<1>1. ASSUME NEW j \in Jobs, NEW k \in Kinds, NEW u \in Urls, Start(j, k, u)
      PROVE  BytesInv'
  <2>1. Apart(j) /\ JobTypes' /\ UNCHANGED <<origin, alias, id, content>>
    BY <1>1 DEF Start, Goto, world, store, Apart, JobTypes, Steps
  <2>2. pc[j] = "idle" /\ pc'[j] = "resolve" /\ url'[j] = u /\ found'[j] = found[j]
    BY <1>1 DEF Start, Goto, JobTypes
  <2>3. Claim(j)'
    BY <2>2 DEF BytesInv, Claim
  <2> QED
    BY <2>1, <2>3, QuietStep
<1>2. ASSUME NEW j \in Jobs, Respond(j)
      PROVE  BytesInv'
  <2>1. Apart(j) /\ JobTypes' /\ UNCHANGED <<origin, alias, id, content>>
    BY <1>2 DEF Respond, Goto, Forget, world, store, Apart, JobTypes, Steps
  <2>2. pc'[j] = "idle" /\ found'[j] = None
    BY <1>2 DEF Respond, Goto, Forget, JobTypes
  <2> QED
    BY <2>1, <2>2, QuietStep DEF Claim
<1>3. ASSUME NEW j \in Jobs, Refused(j) \/ FetchFails(j) \/ MintReadFails(j) \/ MintReadLost(j)
      PROVE  BytesInv'
  BY <1>3, <1>c DEF Refused, FetchFails, MintReadFails, MintReadLost, world, store, request
<1>d. ASSUME NEW j \in Jobs, pc[j] # "idle", Conflict(j), UNCHANGED <<origin, alias, id,
             content, url>>
      PROVE  BytesInv'
  <2>1. CASE Fail(j)
    BY <1>c, <1>d, <2>1
  <2>2. CASE Goto(j, "reresolve") /\ UNCHANGED <<found, body, token, retried, hit>>
    <3>1. Apart(j) /\ JobTypes' /\ pc'[j] = "reresolve" /\ url'[j] \in Urls
      BY <1>b, <1>d, <2>2 DEF Goto, Apart, JobTypes, Steps
    <3> QED
      BY <1>d, <3>1, QuietStep DEF Claim
  <2> QED
    BY <1>d, <2>1, <2>2 DEF Conflict
<1>e. \* a lookup that finds an available asset
      ASSUME NEW u \in Urls, Slot(u), Lookup(u) = "200"
      PROVE  id[u] \in 1..MaxAssets /\ content[u][id[u]] # None /\ alias[u] = "available"
  <2>1. alias[u] = "available"
    BY <1>e DEF StoreTypes, Lookup
  <2> QED
    BY <1>e, <2>1 DEF StoreTypes, Slot
<1>4. ASSUME NEW j \in Jobs, Resolve(j)
      PROVE  BytesInv'
  <2>0. /\ pc[j] = "resolve" /\ UNCHANGED <<origin, alias, id, content, url>>
        /\ url[j] \in Urls /\ Slot(url[j]) /\ found[j] = None
    BY <1>4, <1>b DEF Resolve, world, store, request, Claim
  <2>1. CASE /\ Lookup(url[j]) = "200" /\ found' = [found EXCEPT ![j] = id[url[j]]]
             /\ UNCHANGED body
             /\ \/ Goto(j, "fetch") /\ UNCHANGED hit
                \/ Goto(j, "stored") /\ hit' = hit \cup {j}
    <3>1. id[url[j]] \in 1..MaxAssets /\ content[url[j]][id[url[j]]] # None
      BY <1>e, <2>0, <2>1
    <3>2. Apart(j) /\ JobTypes'
      BY <2>0, <2>1, <3>1 DEF Goto, Apart, JobTypes, Steps
    <3>a. found'[j] = id[url[j]]
      BY <2>1 DEF JobTypes
    <3>b. pc'[j] = "fetch" \/ (pc'[j] = "stored" /\ j \in hit')
      BY <2>1 DEF Goto, JobTypes
    <3>4. Claim(j)'
      BY <2>0, <3>1, <3>a, <3>b DEF Claim, Named
    <3> QED
      BY <2>0, <3>2, <3>4, QuietStep
  <2>2. CASE Goto(j, "fetch") /\ UNCHANGED <<found, body, token, retried, hit>>
    <3>1. Apart(j) /\ JobTypes' /\ pc'[j] = "fetch" /\ found'[j] = None /\ url'[j] \in Urls
      BY <2>0, <2>2 DEF Goto, Apart, JobTypes, Steps
    <3> QED
      BY <2>0, <3>1, QuietStep DEF Claim
  <2>3. \/ /\ Lookup(url[j]) = "200" /\ found' = [found EXCEPT ![j] = id[url[j]]]
           /\ UNCHANGED body
           /\ \/ Goto(j, "fetch") /\ UNCHANGED hit
              \/ Goto(j, "stored") /\ hit' = hit \cup {j}
        \/ Goto(j, "fetch") /\ UNCHANGED <<found, body, token, retried, hit>>
        \/ Conflict(j) \/ Fail(j)
    BY <1>4 DEF Resolve
  <2> QED
    BY <1>c, <1>d, <2>0, <2>1, <2>2, <2>3
<1>5. ASSUME NEW j \in Jobs, Fetch(j)
      PROVE  BytesInv'
  <2>0. /\ pc[j] = "fetch" /\ UNCHANGED <<origin, alias, id, content, url>>
        /\ url[j] \in Urls /\ Claim(j) /\ origin[url[j]] \in Contents
    BY <1>5, <1>b DEF Fetch, world, store, request, StoreTypes
  <2>1. CASE /\ body' = [body EXCEPT ![j] = origin[url[j]]]
             /\ Goto(j, IF found[j] # None THEN "compare" ELSE "mint_write")
             /\ UNCHANGED <<found, token, retried, hit>>
    <3>1. Apart(j) /\ JobTypes'
      BY <2>0, <2>1 DEF Goto, Apart, JobTypes, Steps
    <3>2. /\ found'[j] = found[j] /\ body'[j] # None
          /\ pc'[j] = IF found[j] # None THEN "compare" ELSE "mint_write"
      BY <2>0, <2>1 DEF Goto, JobTypes
    <3>3. Claim(j)'
      BY <2>0, <3>2 DEF Claim, Named
    <3> QED
      BY <2>0, <3>1, <3>3, QuietStep
  <2> QED
    BY <1>5, <1>c, <2>0, <2>1 DEF Fetch
<1>6. ASSUME NEW j \in Jobs, Compare(j) \/ Verify(j)
      PROVE  BytesInv'
  <2>0. /\ pc[j] \in {"compare", "verify"} /\ UNCHANGED <<origin, alias, id, content, url>>
        /\ url[j] \in Urls /\ Claim(j)
    BY <1>6, <1>b DEF Compare, Verify, world, store, request
  <2>1. CASE /\ body[j] = Named(j) /\ Goto(j, IF pc[j] = "compare" THEN "stored" ELSE "read")
             /\ UNCHANGED <<found, body, token, retried, hit>>
    <3>1. Apart(j) /\ JobTypes'
      BY <2>0, <2>1 DEF Goto, Apart, JobTypes, Steps
    <3>2. /\ found'[j] = found[j] /\ body'[j] = body[j]
          /\ pc'[j] = IF pc[j] = "compare" THEN "stored" ELSE "read"
      BY <2>0, <2>1 DEF Goto, JobTypes
    <3>3. Claim(j)'
      BY <2>0, <2>1, <3>2 DEF Claim, Named
    <3> QED
      BY <2>0, <3>1, <3>3, QuietStep
  <2> QED
    BY <1>6, <1>c, <2>0, <2>1 DEF Compare, Verify, Named
<1>7. ASSUME NEW j \in Jobs, MintWrite(j)
      PROVE  BytesInv'
  <2>0. url[j] \in Urls /\ Claim(j) /\ pc[j] = "mint_write"
    BY <1>7, <1>b DEF MintWrite
  <2>1. Apart(j) /\ JobTypes' /\ UNCHANGED <<origin, alias, id, content, url>>
    BY <1>7 DEF MintWrite, Goto, world, store, request, Apart, JobTypes, Steps
  <2>2. pc'[j] = "put" /\ body'[j] = body[j] /\ url'[j] = url[j]
    BY <1>7 DEF MintWrite, Goto, request, JobTypes
  <2>3. Claim(j)'
    BY <2>0, <2>2 DEF Claim
  <2> QED
    BY <2>1, <2>3, QuietStep
<1>8. ASSUME NEW j \in Jobs, PutReserve(j)
      PROVE  BytesInv'
  <2>0. pc[j] = "put" /\ url[j] \in Urls /\ Claim(j) /\ Slot(url[j]) /\ UNCHANGED <<origin, url>>
    BY <1>8, <1>b DEF PutReserve, world, request
  <2>1. CASE /\ alias[url[j]] = "free"
             /\ alias' = [alias EXCEPT ![url[j]] = "pending"]
             /\ id' = [id EXCEPT ![url[j]] = id[url[j]] + 1]
             /\ found' = [found EXCEPT ![j] = id'[url[j]]]
             /\ Goto(j, "writing") /\ UNCHANGED <<content, body, token, retried, hit>>
    <3>1. id[url[j]] + 1 \in 1..MaxAssets /\ content[url[j]][id[url[j]] + 1] = None
      BY <2>0, <2>1 DEF Slot, StoreTypes
    <3>2. StoreTypes' /\ JobTypes' /\ Apart(j) /\ BytesKept
      BY <2>0, <2>1, <3>1 DEF StoreTypes, JobTypes, Apart, Goto, Steps, BytesKept
    <3>3. \A u \in Urls : Slot(u)'
      BY <2>0, <2>1, <3>1 DEF BytesInv, Slot, StoreTypes
    <3>4. pc'[j] = "writing" /\ found'[j] = id[url[j]] + 1 /\ body'[j] = body[j] /\ url'[j] = url[j]
      BY <2>0, <2>1 DEF Goto, JobTypes, StoreTypes
    <3>5. Claim(j)'
      BY <2>0, <3>1, <3>4 DEF Claim
    <3> QED
      BY <3>2, <3>3, <3>5, JobStep
  <2> QED
    BY <1>8, <1>d, <2>0, <2>1 DEF PutReserve, store
<1>9. ASSUME NEW j \in Jobs, NEW delivered \in BOOLEAN, PutCommit(j, delivered)
      PROVE  BytesInv'
  <2>0. /\ pc[j] = "writing" /\ url[j] \in Urls /\ Claim(j) /\ Slot(url[j])
        /\ UNCHANGED <<origin, id, url>> /\ alias[url[j]] = "pending" /\ found[j] = id[url[j]]
        /\ alias' = [alias EXCEPT ![url[j]] = "available"]
        /\ content' = [content EXCEPT ![url[j]][found[j]] = body[j]]
    BY <1>9, <1>b DEF PutCommit, world, request
  <2>1. /\ found[j] \in 1..MaxAssets /\ body[j] \in Contents /\ body[j] # None
        /\ content[url[j]][found[j]] = None
    BY <2>0 DEF Slot, Claim, JobTypes
  <2>2. StoreTypes' /\ BytesKept /\ content'[url[j]][found[j]] = body[j]
    BY <2>0, <2>1 DEF StoreTypes, BytesKept
  <2>3. ASSUME NEW u \in Urls
        PROVE  Slot(u)'
    <3>1. CASE u = url[j]
      BY <2>0, <2>1, <2>2, <3>1 DEF Slot, StoreTypes
    <3>2. CASE u # url[j]
      BY <2>0, <3>2 DEF BytesInv, Slot, StoreTypes
    <3> QED
      BY <3>1, <3>2
  <2>4. CASE Goto(j, "stored") /\ UNCHANGED <<found, body, token, retried, hit>>
    <3>1. /\ JobTypes' /\ Apart(j) /\ pc'[j] = "stored" /\ url'[j] = url[j]
          /\ found'[j] = found[j] /\ body'[j] = body[j]
      BY <2>0, <2>4 DEF Goto, Apart, JobTypes, Steps
    <3>2. Claim(j)'
      BY <2>0, <2>1, <2>2, <3>1 DEF Claim, Named
    <3> QED
      BY <2>2, <2>3, <3>1, <3>2, JobStep
  <2>5. CASE Fail(j)
    BY <2>0, <2>2, <2>3, <2>5, FailStep, JobStep
  <2> QED
    BY <1>9, <2>4, <2>5 DEF PutCommit
<1>10. ASSUME NEW j \in Jobs, PutFails(j)
       PROVE  BytesInv'
  <2>0. /\ pc[j] = "writing" /\ url[j] \in Urls /\ UNCHANGED <<origin, id, content, url>> /\ Fail(j)
        /\ alias' = alias \/ alias' = [alias EXCEPT ![url[j]] = "deleted"]
    BY <1>10, <1>b DEF PutFails, world, request
  <2>1. StoreTypes' /\ BytesKept /\ \A u \in Urls : Slot(u)'
    BY <2>0 DEF BytesInv, StoreTypes, BytesKept, Slot
  <2> QED
    BY <2>0, <2>1, FailStep, JobStep
<1>11. ASSUME NEW j \in Jobs, Reresolve(j)
       PROVE  BytesInv'
  <2>0. /\ pc[j] = "reresolve" /\ UNCHANGED <<origin, alias, id, content, url>>
        /\ url[j] \in Urls /\ Slot(url[j])
    BY <1>11, <1>b DEF Reresolve, world, store, request
  <2>1. CASE /\ Lookup(url[j]) = "200" /\ found' = [found EXCEPT ![j] = id[url[j]]]
             /\ UNCHANGED body /\ Goto(j, "stored") /\ hit' = hit \cup {j}
    <3>1. id[url[j]] \in 1..MaxAssets /\ content[url[j]][id[url[j]]] # None
      BY <1>e, <2>0, <2>1
    <3>2. Apart(j) /\ JobTypes'
      BY <2>0, <2>1, <3>1 DEF Goto, Apart, JobTypes, Steps
    <3>3. found'[j] = id[url[j]] /\ pc'[j] = "stored" /\ j \in hit'
      BY <2>1 DEF Goto, JobTypes
    <3>4. Claim(j)'
      BY <2>0, <3>1, <3>3 DEF Claim, Named
    <3> QED
      BY <2>0, <3>2, <3>4, QuietStep
  <2> QED
    BY <1>11, <1>c, <2>0, <2>1 DEF Reresolve
<1>12. ASSUME NEW j \in Jobs, ReadResolve(j)
       PROVE  BytesInv'
  <2>0. /\ pc[j] = "resolve" /\ UNCHANGED <<origin, alias, id, content, url>>
        /\ url[j] \in Urls /\ Slot(url[j])
    BY <1>12, <1>b DEF ReadResolve, world, store, request
  <2>1. CASE /\ Lookup(url[j]) = "200" /\ content[url[j]][id[url[j]]] \in Images
             /\ found' = [found EXCEPT ![j] = id[url[j]]] /\ Goto(j, "token")
             /\ UNCHANGED <<body, token, retried, hit>>
    <3>1. id[url[j]] \in 1..MaxAssets
      BY <1>e, <2>0, <2>1
    <3>2. Apart(j) /\ JobTypes'
      BY <2>0, <2>1, <3>1 DEF Goto, Apart, JobTypes, Steps
    <3>3. found'[j] = id[url[j]] /\ pc'[j] = "token"
      BY <2>1 DEF Goto, JobTypes
    <3>4. Claim(j)'
      BY <2>0, <2>1, <3>1, <3>3 DEF Claim, Named
    <3> QED
      BY <2>0, <3>2, <3>4, QuietStep
  <2> QED
    BY <1>12, <1>c, <2>0, <2>1 DEF ReadResolve
<1>f. \* on to the next step of a read, with the same asset
      ASSUME NEW j \in Jobs, pc[j] \in {"token", "mint_read", "get"},
             NEW next \in {"token", "mint_read", "get", "verify"}, Goto(j, next),
             UNCHANGED <<origin, alias, id, content, url, found, hit>>,
             JobTypes', \A i \in Jobs \ {j} : body'[i] = body[i]
      PROVE  BytesInv'
  <2>1. url[j] \in Urls /\ Claim(j) /\ pc'[j] = next
    BY <1>b, <1>f DEF Goto, JobTypes
  <2>2. Apart(j)
    BY <1>f DEF Goto, Apart, JobTypes
  <2>3. Claim(j)'
    BY <1>f, <2>1 DEF Claim, Named
  <2> QED
    BY <1>f, <2>2, <2>3, QuietStep
<1>13. ASSUME NEW j \in Jobs, ReadToken(j) \/ MintRead(j)
       PROVE  BytesInv'
  <2>1. /\ pc[j] \in {"token", "mint_read"} /\ (Goto(j, "get") \/ Goto(j, "mint_read"))
        /\ UNCHANGED <<origin, alias, id, content, url, found, hit, body>>
    BY <1>13 DEF ReadToken, MintRead, world, store, request
  <2>2. JobTypes'
    BY <2>1 DEF JobTypes, Goto, Steps
  <2> QED
    BY <1>f, <2>1, <2>2
<1>14. ASSUME NEW j \in Jobs, ReadObject(j)
       PROVE  BytesInv'
  <2>0. /\ pc[j] = "get" /\ UNCHANGED <<origin, alias, id, content, url>>
        /\ url[j] \in Urls /\ Slot(url[j])
    BY <1>14, <1>b DEF ReadObject, world, store, request
  <2>1. CASE Goto(j, "token") /\ UNCHANGED <<found, body, token, hit>>
    <3>1. JobTypes'
      BY <2>0, <2>1 DEF JobTypes, Goto, Steps
    <3> QED
      BY <1>f, <2>0, <2>1, <3>1
  <2>2. CASE /\ Lookup(url[j]) = "200" /\ body' = [body EXCEPT ![j] = content[url[j]][id[url[j]]]]
             /\ Goto(j, "verify") /\ UNCHANGED <<found, hit>>
    <3>1. content[url[j]][id[url[j]]] \in Contents
      BY <1>e, <2>0, <2>2 DEF StoreTypes
    <3>2. JobTypes' /\ \A i \in Jobs \ {j} : body'[i] = body[i]
      BY <2>0, <2>2, <3>1 DEF JobTypes, Goto, Steps
    <3> QED
      BY <1>f, <2>0, <2>2, <3>2
  <2> QED
    BY <1>14, <1>c, <2>0, <2>1, <2>2 DEF ReadObject
<1>g. \* a step of somebody else
      ASSUME UNCHANGED <<pc, url, found, body, hit>>, StoreTypes', BytesKept,
             \A u \in Urls : Slot(u)'
      PROVE  BytesInv'
  <2>1. JobTypes' /\ \A j \in Jobs : Claim(j)'
    BY <1>g, ClaimKept DEF JobTypes
  <2> QED
    BY <1>g, <2>1 DEF BytesInv
<1>15. ASSUME NEW u \in Urls, NEW c \in Contents, OriginChanges(u, c)
       PROVE  BytesInv'
  <2>1. /\ UNCHANGED <<pc, url, found, body, hit, alias, id, content>>
        /\ origin' = [origin EXCEPT ![u] = c]
    BY <1>15 DEF OriginChanges, store, Others, request
  <2>2. StoreTypes' /\ BytesKept /\ \A v \in Urls : Slot(v)'
    BY <2>1 DEF BytesInv, StoreTypes, BytesKept, Slot
  <2> QED
    BY <1>g, <2>1, <2>2
<1>16. ASSUME NEW u \in Urls, NEW c \in Contents, Import(u, c)
       PROVE  BytesInv'
  <2>0. /\ UNCHANGED <<pc, url, found, body, hit, origin>> /\ alias[u] = "free" /\ Slot(u)
        /\ alias' = [alias EXCEPT ![u] = "available"] /\ id' = [id EXCEPT ![u] = id[u] + 1]
        /\ content' = [content EXCEPT ![u][id[u] + 1] = c]
    BY <1>16 DEF Import, world, Others, request, BytesInv, StoreTypes
  <2>1. id[u] + 1 \in 1..MaxAssets /\ content[u][id[u] + 1] = None
    BY <2>0 DEF Slot, StoreTypes
  <2>2. StoreTypes' /\ BytesKept
    BY <2>0, <2>1 DEF StoreTypes, BytesKept
  <2>3. ASSUME NEW v \in Urls
        PROVE  Slot(v)'
    <3>1. CASE v = u
      BY <2>0, <2>1, <3>1 DEF Slot, StoreTypes
    <3>2. CASE v # u
      BY <2>0, <3>2 DEF BytesInv, Slot, StoreTypes
    <3> QED
      BY <3>1, <3>2
  <2> QED
    BY <1>g, <2>0, <2>2, <2>3
<1>17. ASSUME NEW u \in Urls, Detach(u) \/ \E s \in {"expired", "deleted"} : Retire(u, s)
       PROVE  BytesInv'
  <2>0. /\ UNCHANGED <<pc, url, found, body, hit, origin, id, content>>
        /\ \/ alias' = [alias EXCEPT ![u] = "free"] /\ id[u] < MaxAssets
           \/ \E s \in {"expired", "deleted"} : alias' = [alias EXCEPT ![u] = s]
    BY <1>17 DEF Detach, Retire, world, Others, request
  <2>1. StoreTypes' /\ BytesKept
    BY <2>0 DEF StoreTypes, BytesKept
  <2>2. \A v \in Urls : Slot(v)'
    BY <2>0 DEF BytesInv, Slot, StoreTypes
  <2> QED
    BY <1>g, <2>0, <2>1, <2>2
<1>18. CASE Outage \/ UNCHANGED fetcherVars
  <2>1. UNCHANGED <<pc, url, found, body, hit, origin, alias, id, content>>
    BY <1>18 DEF Outage, fetcherVars, store, Others, request
  <2>2. StoreTypes' /\ BytesKept /\ \A v \in Urls : Slot(v)'
    BY <2>1 DEF BytesInv, StoreTypes, BytesKept, Slot
  <2> QED
    BY <1>g, <2>1, <2>2
<1>19. ASSUME NEW j \in Jobs, Work(j) \/ Faults(j)
       PROVE  BytesInv'
  BY <1>19, <1>2, <1>3, <1>4, <1>5, <1>6, <1>7, <1>8, <1>9, <1>10, <1>11, <1>12, <1>13,
     <1>14 DEF Work, Faults
<1> QED
  BY <1>1, <1>15, <1>16, <1>17, <1>18, <1>19 DEF FetcherNext

\* The account of the bytes holds throughout.
LEMMA BytesSound == FetcherSpec => []BytesInv
<1>1. FetcherInit => BytesInv
  <2> SUFFICES ASSUME FetcherInit PROVE BytesInv
    OBVIOUS
  <2>1. StoreTypes /\ JobTypes
    BY FetcherAssumption, NoneApart DEF FetcherInit, StoreTypes, JobTypes, Steps
  <2>2. \A u \in Urls : Slot(u)
    BY FetcherAssumption DEF FetcherInit, Slot
  <2>3. \A j \in Jobs : Claim(j)
    BY DEF FetcherInit, Claim
  <2> QED
    BY <2>1, <2>2, <2>3 DEF BytesInv
<1> QED
  BY <1>1, BytesStep, PTL DEF FetcherSpec

\* A cached read answers with the bytes of the asset its lookup named, and those
\* are an image, whatever is detached, expired or stored in between.
THEOREM ReadsMatch == FetcherSpec => []ReadMatchesAsset
<1>1. BytesInv => ReadMatchesAsset
  BY NoneApart DEF BytesInv, Claim, Named, ReadMatchesAsset
<1> QED
  BY <1>1, BytesSound, PTL

\* A preload names a committed asset, and what it fetched itself is what is stored.
THEOREM PreloadsVouch == FetcherSpec => []StoredMeansFetched
<1>1. BytesInv => StoredMeansFetched
  BY DEF BytesInv, Claim, Named, StoredMeansFetched
<1> QED
  BY <1>1, BytesSound, PTL

-----------------------------------------------------------------------------
(* Tokens: how often the shared read capability is minted *)

TokenTypes ==
  /\ pc \in [Jobs -> Steps] /\ retried \subseteq Jobs
  /\ minted \in Nat /\ lost \in Nat /\ outages \in Nat /\ token_lock \in Jobs \cup {None}
  /\ token \in [Jobs -> Nat \cup {None}]
  /\ read_capability \in 1..minted \cup {None}
  /\ valid \subseteq 1..minted

\* Each mint is paid for by the store having forgotten the one in use, or by an
\* answer that got lost.
MintsPaid == minted <= outages + lost + (IF read_capability \in valid THEN 1 ELSE 0)

\* A job that mints holds the lock, and the token in use is worthless; a job sent
\* back for a new token presents one that stays worthless.
Holds(j) ==
  /\ token[j] # None => token[j] <= minted
  /\ pc[j] \in {"idle", "resolve"} => j \notin retried
  /\ pc[j] = "token" /\ j \in retried => token[j] \notin valid
  /\ pc[j] = "mint_read" => token_lock = j /\ read_capability \notin valid

TokensInv == TokenTypes /\ MintsPaid /\ \A j \in Jobs : Holds(j)

\* What a step of job j leaves alone of the other jobs.
Aside(j) ==
  \A i \in Jobs \ {j} :
    pc'[i] = pc[i] /\ token'[i] = token[i] /\ (i \in retried' <=> i \in retried)

\* A step of job j that mints nothing and takes no lock.
LEMMA TokenQuiet ==
  ASSUME TokensInv, NEW j \in Jobs, Aside(j), UNCHANGED <<tokens, valid, outages>>,
         pc' \in [Jobs -> Steps], retried' \subseteq Jobs, token' \in [Jobs -> Nat \cup {None}],
         Holds(j)'
  PROVE  TokensInv'
<1>1. TokenTypes' /\ MintsPaid'
  BY DEF TokensInv, TokenTypes, MintsPaid, tokens
<1>2. \A i \in Jobs \ {j} : Holds(i)'
  BY DEF TokensInv, Aside, Holds, tokens
<1> QED
  BY <1>1, <1>2 DEF TokensInv

\* Only the token, the lock and the tries of reads matter: a job that goes from one
\* step to another, neither of them to do with tokens, changes nothing.
LEMMA TokenElsewhere ==
  ASSUME TokensInv, NEW j \in Jobs, NEW next \in Steps \ {"resolve", "token", "mint_read"},
         Goto(j, next), UNCHANGED <<tokens, valid, outages>>,
         \/ UNCHANGED <<token, retried>> /\ next # "idle"
         \/ token' = [token EXCEPT ![j] = None] /\ retried' = retried \ {j}
  PROVE  TokensInv'
<1>1. /\ Aside(j) /\ pc' \in [Jobs -> Steps] /\ retried' \subseteq Jobs
      /\ token' \in [Jobs -> Nat \cup {None}] /\ pc'[j] = next
      /\ token'[j] \in {None, token[j]} /\ (next = "idle" => j \notin retried')
  BY DEF TokensInv, TokenTypes, Goto, Aside
<1>2. Holds(j)'
  BY <1>1 DEF TokensInv, Holds, tokens
<1> QED
  BY <1>1, <1>2, TokenQuiet

\* Every step keeps the account of the tokens.
LEMMA TokensStep ==
  ASSUME TokensInv, [FetcherNext]_fetcherVars
  PROVE  TokensInv'
<1>0. TokenTypes /\ MintsPaid /\ \A j \in Jobs : Holds(j)
  BY DEF TokensInv
<1> USE <1>0, NoneApart
<1>c. ASSUME NEW j \in Jobs, Fail(j), UNCHANGED <<tokens, valid, outages>>
      PROVE  TokensInv'
  BY <1>c, TokenElsewhere DEF Fail, Forget, Steps
<1>d. ASSUME NEW j \in Jobs, Conflict(j), UNCHANGED <<tokens, valid, outages>>
      PROVE  TokensInv'
  <2>1. CASE Fail(j)
    BY <1>c, <1>d, <2>1
  <2>2. CASE Goto(j, "reresolve") /\ UNCHANGED <<found, body, token, retried, hit>>
    BY <1>d, <2>2, TokenElsewhere DEF Steps
  <2> QED
    BY <1>d, <2>1, <2>2 DEF Conflict
<1>1. ASSUME NEW j \in Jobs, NEW k \in Kinds, NEW u \in Urls, Start(j, k, u)
      PROVE  TokensInv'
  <2>1. /\ Aside(j) /\ pc' \in [Jobs -> Steps] /\ UNCHANGED <<token, retried, tokens, valid, outages>>
        /\ pc[j] = "idle" /\ pc'[j] = "resolve"
    BY <1>1 DEF Start, Goto, world, Aside, TokenTypes, Steps
  <2>2. Holds(j)'
    BY <2>1 DEF Holds, tokens
  <2> QED
    BY <2>1, <2>2, TokenQuiet DEF TokenTypes
<1>2. ASSUME NEW j \in Jobs, Respond(j)
      PROVE  TokensInv'
  BY <1>2, TokenElsewhere DEF Respond, Forget, world, Steps
<1>3. ASSUME NEW j \in Jobs, Refused(j) \/ FetchFails(j)
      PROVE  TokensInv'
  BY <1>3, <1>c DEF Refused, FetchFails, world
<1>4. ASSUME NEW j \in Jobs, Resolve(j)
      PROVE  TokensInv'
  <2>1. UNCHANGED <<tokens, valid, outages>>
    BY <1>4 DEF Resolve, world
  <2>2. \/ (Goto(j, "fetch") \/ Goto(j, "stored")) /\ UNCHANGED <<token, retried>>
        \/ Conflict(j) \/ Fail(j)
    BY <1>4 DEF Resolve
  <2> QED
    BY <1>c, <1>d, <2>1, <2>2, TokenElsewhere DEF Steps
<1>5. ASSUME NEW j \in Jobs, Fetch(j) \/ Compare(j) \/ MintWrite(j) \/ Reresolve(j) \/ Verify(j)
      PROVE  TokensInv'
  <2>1. UNCHANGED <<tokens, valid, outages>>
    BY <1>5 DEF Fetch, Compare, MintWrite, Reresolve, Verify, world
  <2>2. \/ /\ \E next \in {"compare", "mint_write", "stored", "put", "read"} : Goto(j, next)
           /\ UNCHANGED <<token, retried>>
        \/ Fail(j)
    BY <1>5 DEF Fetch, Compare, MintWrite, Reresolve, Verify
  <2> QED
    BY <1>c, <2>1, <2>2, TokenElsewhere DEF Steps
<1>6. ASSUME NEW j \in Jobs, PutReserve(j)
      PROVE  TokensInv'
  <2>1. UNCHANGED <<tokens, valid, outages>>
    BY <1>6 DEF PutReserve, world
  <2>2. (Goto(j, "writing") /\ UNCHANGED <<token, retried>>) \/ Conflict(j)
    BY <1>6 DEF PutReserve
  <2> QED
    BY <1>d, <2>1, <2>2, TokenElsewhere DEF Steps
<1>7. ASSUME NEW j \in Jobs, PutFails(j) \/ \E delivered \in BOOLEAN : PutCommit(j, delivered)
      PROVE  TokensInv'
  <2>1. UNCHANGED <<tokens, valid, outages>>
    BY <1>7 DEF PutFails, PutCommit, world
  <2>2. (Goto(j, "stored") /\ UNCHANGED <<token, retried>>) \/ Fail(j)
    BY <1>7 DEF PutFails, PutCommit
  <2> QED
    BY <1>c, <2>1, <2>2, TokenElsewhere DEF Steps
<1>8. ASSUME NEW j \in Jobs, ReadResolve(j)
      PROVE  TokensInv'
  <2>1. UNCHANGED <<tokens, valid, outages>> /\ pc[j] = "resolve"
    BY <1>8 DEF ReadResolve, world
  <2>2. CASE Goto(j, "token") /\ UNCHANGED <<body, token, retried, hit>>
    <3>1. Aside(j) /\ pc' \in [Jobs -> Steps] /\ pc'[j] = "token"
      BY <2>2 DEF Goto, Aside, TokenTypes, Steps
    <3>2. Holds(j)'
      BY <2>1, <2>2, <3>1 DEF Holds, tokens
    <3> QED
      BY <2>1, <2>2, <3>1, <3>2, TokenQuiet DEF TokenTypes
  <2> QED
    BY <1>8, <1>c, <2>1, <2>2 DEF ReadResolve
<1>9. ASSUME NEW j \in Jobs, ReadToken(j)
      PROVE  TokensInv'
  <2>0. /\ pc[j] = "token" /\ token_lock = None
        /\ UNCHANGED <<valid, outages, minted, lost, read_capability, retried>>
    BY <1>9 DEF ReadToken, world
  <2>1. CASE NeedsMint(j) /\ token_lock' = j /\ Goto(j, "mint_read") /\ UNCHANGED token
    <3>1. read_capability \notin valid
      BY <2>0, <2>1 DEF NeedsMint, Holds, TokenTypes
    <3>2. TokenTypes' /\ MintsPaid' /\ Aside(j) /\ pc'[j] = "mint_read"
      BY <2>0, <2>1 DEF TokenTypes, MintsPaid, Aside, Goto, Steps
    <3>3. Holds(j)'
      BY <2>0, <2>1, <3>1, <3>2 DEF Holds
    <3>4. \A i \in Jobs \ {j} : Holds(i)'
      BY <2>0, <2>1, <3>2 DEF Holds, Aside
    <3> QED
      BY <3>2, <3>3, <3>4 DEF TokensInv
  <2>2. CASE /\ ~NeedsMint(j) /\ token' = [token EXCEPT ![j] = read_capability]
             /\ Goto(j, "get") /\ UNCHANGED token_lock
    <3>1. read_capability \in 1..minted
      BY <2>2 DEF NeedsMint, TokenTypes
    <3>2. /\ Aside(j) /\ pc' \in [Jobs -> Steps] /\ token' \in [Jobs -> Nat \cup {None}]
          /\ pc'[j] = "get" /\ token'[j] = read_capability
      BY <2>0, <2>2, <3>1 DEF Aside, Goto, TokenTypes, Steps
    <3>3. Holds(j)'
      BY <2>0, <3>1, <3>2 DEF Holds, TokenTypes
    <3> QED
      BY <2>0, <2>2, <3>2, <3>3, TokenQuiet DEF TokenTypes, tokens
  <2> QED
    BY <1>9, <2>1, <2>2 DEF ReadToken
<1>10. ASSUME NEW j \in Jobs, MintRead(j)
       PROVE  TokensInv'
  <2>0. /\ pc[j] = "mint_read" /\ minted' = minted + 1 /\ read_capability' = minted + 1
        /\ valid' = valid \cup {minted + 1} /\ token' = [token EXCEPT ![j] = minted + 1]
        /\ token_lock' = None /\ UNCHANGED <<outages, lost, retried>> /\ Goto(j, "get")
    BY <1>10 DEF MintRead
  <2>1. read_capability \notin valid /\ \A i \in Jobs \ {j} : pc[i] # "mint_read"
    BY <2>0 DEF Holds
  <2>2. TokenTypes' /\ MintsPaid'
    BY <2>0, <2>1 DEF TokenTypes, MintsPaid, Goto, Steps
  <2>3. Aside(j) /\ pc'[j] = "get" /\ token'[j] = minted'
    BY <2>0 DEF Aside, Goto, TokenTypes
  <2>4. Holds(j)'
    BY <2>2, <2>3 DEF Holds, TokenTypes
  <2>5. ASSUME NEW i \in Jobs \ {j}
        PROVE  Holds(i)'
    <3>1. token[i] \in Nat \cup {None} /\ (token[i] # None => token[i] <= minted) /\ minted \in Nat
      BY DEF Holds, TokenTypes
    <3>2. token[i] # minted + 1
      BY <3>1
    <3> QED
      BY <2>0, <2>1, <2>3, <3>1, <3>2 DEF Holds, Aside
  <2> QED
    BY <2>2, <2>4, <2>5 DEF TokensInv
<1>11. ASSUME NEW j \in Jobs, MintReadFails(j)
       PROVE  TokensInv'
  <2>0. /\ pc[j] = "mint_read" /\ token_lock' = None /\ Fail(j)
        /\ UNCHANGED <<valid, outages, minted, lost, read_capability>>
    BY <1>11 DEF MintReadFails, world
  <2>1. \A i \in Jobs \ {j} : pc[i] # "mint_read"
    BY <2>0 DEF Holds
  <2>2. TokenTypes' /\ MintsPaid' /\ Aside(j) /\ pc'[j] = "failed" /\ token'[j] = None
    BY <2>0 DEF TokenTypes, MintsPaid, Fail, Goto, Forget, Aside, Steps
  <2>3. Holds(j)'
    BY <2>2 DEF Holds
  <2>4. \A i \in Jobs \ {j} : Holds(i)'
    BY <2>0, <2>1, <2>2 DEF Holds, Aside
  <2> QED
    BY <2>2, <2>3, <2>4 DEF TokensInv
<1>18. ASSUME NEW j \in Jobs, MintReadLost(j)
       PROVE  TokensInv'
  <2>0. /\ pc[j] = "mint_read" /\ token_lock' = None /\ Fail(j) /\ lost' = lost + 1
        /\ minted' = minted + 1 /\ valid' = valid \cup {minted + 1}
        /\ UNCHANGED <<outages, read_capability>>
    BY <1>18 DEF MintReadLost
  <2>1. read_capability \notin valid /\ \A i \in Jobs \ {j} : pc[i] # "mint_read"
    BY <2>0 DEF Holds
  <2>2. TokenTypes' /\ Aside(j) /\ pc'[j] = "failed" /\ token'[j] = None
    BY <2>0 DEF TokenTypes, Fail, Goto, Forget, Aside, Steps
  <2>3. MintsPaid'
    BY <2>0, <2>1 DEF TokenTypes, MintsPaid
  <2>4. Holds(j)'
    BY <2>2 DEF Holds
  <2>5. ASSUME NEW i \in Jobs \ {j}
        PROVE  Holds(i)'
    <3>1. token[i] \in Nat \cup {None} /\ (token[i] # None => token[i] <= minted) /\ minted \in Nat
      BY DEF Holds, TokenTypes
    <3>2. token[i] # minted + 1
      BY <3>1
    <3> QED
      BY <2>0, <2>1, <2>2, <3>1, <3>2 DEF Holds, Aside
  <2> QED
    BY <2>2, <2>3, <2>4, <2>5 DEF TokensInv
<1>12. ASSUME NEW j \in Jobs, ReadObject(j)
       PROVE  TokensInv'
  <2>0. pc[j] = "get" /\ UNCHANGED <<tokens, valid, outages>>
    BY <1>12 DEF ReadObject, world
  <2>1. CASE /\ token[j] \notin valid /\ Goto(j, "token") /\ retried' = retried \cup {j}
             /\ UNCHANGED <<found, body, token, hit>>
    <3>1. Aside(j) /\ pc' \in [Jobs -> Steps] /\ retried' \subseteq Jobs /\ pc'[j] = "token"
      BY <2>1 DEF Goto, Aside, TokenTypes, Steps
    <3>2. Holds(j)'
      BY <2>0, <2>1, <3>1 DEF Holds, tokens
    <3> QED
      BY <2>0, <2>1, <3>1, <3>2, TokenQuiet DEF TokenTypes
  <2>2. CASE /\ Goto(j, "verify") /\ token' = [token EXCEPT ![j] = None]
             /\ retried' = retried \ {j}
    BY <2>0, <2>2, TokenElsewhere DEF Steps
  <2> QED
    BY <1>12, <1>c, <2>0, <2>1, <2>2 DEF ReadObject
<1>13. CASE Outage
  <2>0. valid' = {} /\ outages' = outages + 1 /\ UNCHANGED <<tokens, pc, token, retried>>
    BY <1>13 DEF Outage, Others
  <2>1. TokenTypes'
    BY <2>0 DEF TokenTypes, tokens
  <2>2. MintsPaid'
    BY <2>0 DEF TokenTypes, MintsPaid, tokens
  <2>3. \A j \in Jobs : Holds(j)'
    BY <2>0 DEF Holds, tokens
  <2> QED
    BY <2>1, <2>2, <2>3 DEF TokensInv
<1>14. ASSUME UNCHANGED <<tokens, valid, outages, pc, token, retried>>
       PROVE  TokensInv'
  BY <1>14 DEF TokensInv, TokenTypes, MintsPaid, Holds, tokens
<1>15. ASSUME NEW u \in Urls, \/ \E c \in Contents : OriginChanges(u, c) \/ Import(u, c)
                              \/ Detach(u) \/ \E s \in {"expired", "deleted"} : Retire(u, s)
       PROVE  TokensInv'
  BY <1>14, <1>15 DEF OriginChanges, Import, Detach, Retire, world, Others
<1>16. CASE UNCHANGED fetcherVars
  BY <1>14, <1>16 DEF fetcherVars
<1>17. ASSUME NEW j \in Jobs, Work(j) \/ Faults(j)
       PROVE  TokensInv'
  BY <1>17, <1>2, <1>3, <1>4, <1>5, <1>6, <1>7, <1>8, <1>9, <1>10, <1>11, <1>12,
     <1>18 DEF Work, Faults
<1> QED
  BY <1>1, <1>13, <1>15, <1>16, <1>17 DEF FetcherNext

\* However many reads meet a 403 together, the shared capability is minted at most
\* once at the start, once for every time the asset store forgot it and once for
\* every answer that got lost.
THEOREM MintsBounded == FetcherSpec => []MintedOnce
<1>1. FetcherInit => TokensInv
  BY NoneApart DEF FetcherInit, TokensInv, TokenTypes, MintsPaid, Holds, Steps
<1>2. TokensInv => MintedOnce
  BY DEF TokensInv, TokenTypes, MintsPaid, MintedOnce
<1> QED
  BY <1>1, <1>2, TokensStep, PTL DEF FetcherSpec
=============================================================================
