---------------------------- MODULE MCPgAliases -----------------------------
(* Small instances of PgAliases. *)
EXTENDS PgAliases, TLC

CONSTANTS a1, a2, a3, a4, a5, k1, k2, k3, k4, k5, k6

\* a1 has an immutable name k1 and a mutable one k2; a2 has k3; k4 to k6 are new.
mcHome == (k1 :> a1) @@ (k2 :> a1) @@ (k3 :> a2) @@ (k4 :> None) @@ (k5 :> None)
          @@ (k6 :> None)

\* Two reservations name the same aliases in opposite orders, a third a name of
\* its own.
mcOrder == (a3 :> <<k4, k5>>) @@ (a4 :> <<k5, k4>>) @@ (a5 :> <<k6>>)
=============================================================================
