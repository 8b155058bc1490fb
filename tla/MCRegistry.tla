----------------------------- MODULE MCRegistry -----------------------------
(* Small instances of Registry. *)
EXTENDS Registry, FiniteSetsExt, TLC

CONSTANTS p1, p2, s1, k1, k2

\* One bucket with a partition p1 and a second one, p2.
mcSpaceOf == (p1 :> s1) @@ (p2 :> s1)

\* p2 is the nested partition "p1/x", so the name k2 = "p1/x/..." lies
\* under both and its first segment is p1.
nestedUnder == (p1 :> {k1, k2}) @@ (p2 :> {k2})
nestedFirst == (k1 :> p1) @@ (k2 :> p1)

noCapacity == (s1 :> None)
mcCapacity == (s1 :> 22)

Symmetry == Permutations(AssetIds)

\* Counting units is summing weights.
ASSUME \A S \in SUBSET AssetIds, w \in [AssetIds -> 0..2] :
         MaxBytes >= 2 => Total(S, w) = MapThenSumSet(LAMBDA a : w[a], S)
=============================================================================
