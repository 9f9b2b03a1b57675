------------------------------ MODULE MCCacheGc ------------------------------
(* Instances of CacheGc for TLC: one depot that two apps own, manifests that  *)
(* each keep a chunk of the one before, and a chunk that no manifest has.     *)
EXTENDS CacheGc

CONSTANTS a1, a2, d1, c1, c2, c3

MCOwns == [a \in App |-> Depot]
MCHome == [d \in Depot |-> a1]
MCChunksOf == [m \in Manifest |-> IF m = 1 THEN {c1, c2} ELSE {c2, c3}]
MCPublished == [m \in Manifest |-> m]
=============================================================================
