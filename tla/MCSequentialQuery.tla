-------------------------- MODULE MCSequentialQuery --------------------------
(* Small instances of SequentialQuery for TLC. *)
EXTENDS SequentialQuery, TLC

CONSTANTS s1, s2

TwoServers == <<s1, s2>>

QuerySymmetry == Permutations(Query)
=============================================================================
