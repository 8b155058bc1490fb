----------------------------- MODULE MCFetcher ------------------------------
(* Small instances of Fetcher. *)
EXTENDS Fetcher, TLC

FetcherSymmetry == Permutations(Jobs)
=============================================================================
