------------------------------ MODULE MCGateway -----------------------------
(* Small instances of Gateway. *)
EXTENDS Gateway, TLC

CONSTANTS i1

\* i1 may do both, as the identities of service_policy.py that serve uploads.
mcAllowed == {<<i1, "read">>, <<i1, "write">>}

GatewaySymmetry == Permutations(CapIds) \cup Permutations(Requests)
=============================================================================
