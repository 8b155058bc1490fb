----------------------------- MODULE MCPgQuota ------------------------------
(* Small instances of PgQuota. *)
EXTENDS PgQuota, FiniteSetsExt, TLC

\* A partition has a ceiling of three bytes, or room for one asset.
mcLimits == {<<3, None>>, <<None, 1>>}

QuotaSymmetry ==
  Permutations(AssetIds) \cup Permutations(Partitions) \cup Permutations(Names)
  \cup Permutations(Txns)

\* Counting units is summing sizes.
ASSUME \A s \in SUBSET AssetIds, f \in [AssetIds -> Sizes \cup {None}] :
         SumOf(f, s) = MapThenSumSet(LAMBDA a : IF f[a] = None THEN 0 ELSE f[a], s)
=============================================================================
