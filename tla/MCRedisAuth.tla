----------------------------- MODULE MCRedisAuth -----------------------------
(* RedisAuth for TLC: two workers serving one user, whose tokens and        *)
(* workers are interchangeable in every safety property.                    *)
EXTENDS RedisAuth, TLC

Symmetry == Permutations(Workers) \cup Permutations(Digests)
=============================================================================
