---------------------------- MODULE MCAssetStore ----------------------------
(* Small instances of AssetStore: one bucket, one partition. *)
EXTENDS AssetStore, TLC

CONSTANTS p1, s1

mcSpaceOf == p1 :> s1
mcUnder == p1 :> Aliases
mcFirst == [k \in Aliases |-> p1]
noCapacity == s1 :> None

Symmetry == Permutations(AssetIds) \cup Permutations(Uploaders) \cup Permutations(Aliases)
=============================================================================
