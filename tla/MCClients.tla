----------------------------- MODULE MCClients ------------------------------
(* A manifest with two rows for one name; two attempts at a task share a prefix. *)
EXTENDS Clients, TLC

CONSTANTS l1, w1, w2, k1, o1, o2, mf, good, bad

mcRows == l1 :> <<[name |-> k1, data |-> good], [name |-> k1, data |-> bad]>>
input == [name |-> k1, checksum |-> good]
mcInputs == [w \in Workers |-> <<input, input>>]
mcOutputs == [w \in Workers |-> <<o1, o2>>]
mcManifestOf == [w \in Workers |-> mf]
=============================================================================
