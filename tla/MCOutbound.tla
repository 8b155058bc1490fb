----------------------------- MODULE MCOutbound -----------------------------
(* A small instance of Outbound. *)
EXTENDS Outbound, TLC

CONSTANTS u1, u2, x, h1, h2

\* Two approved URLs and one that is not, which shares a host with u2.
mcHostOf == (u1 :> h1) @@ (u2 :> h2) @@ (x :> h2)
=============================================================================
