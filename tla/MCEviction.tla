----------------------------- MODULE MCEviction -----------------------------
(* Small instances of Eviction: one evictable bucket and two partitions. *)
EXTENDS Eviction, FiniteSetsExt, TLC

CONSTANTS cache, users

\* Two assets share partition 1, whose quota both together fill.
mcSpaceOf == (1 :> cache) @@ (2 :> cache)
mcPartitionOf == (1 :> 1) @@ (2 :> 1) @@ (3 :> 2)
mcSizeOf == (1 :> 3) @@ (2 :> 5) @@ (3 :> 10)
mcQuota == (1 :> 8) @@ (2 :> None)
\* All 18 of 20 bytes are at the trigger of 90 percent and below the ceiling of 95.
\* The low-water mark of 70 percent lies between what is left once the larger asset
\* of partition 1 has gone and once the smaller has.
mcCapacity == (cache :> 20) @@ (users :> 20)

\* Counting bytes is summing sizes.
ASSUME BytesAreSums ==
  \A S \in SUBSET AssetIds : Bytes(S) = MapThenSumSet(LAMBDA a : SizeOf[a], S)
=============================================================================
