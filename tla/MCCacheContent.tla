--------------------------- MODULE MCCacheContent ---------------------------
(* CacheContent for TLC: app a1 consists of depot d1 and of the shared      *)
(* depot s (a redistributable), app a2 of s alone, which is its home.       *)
EXTENDS CacheContent, TLC

CONSTANTS a1, a2, d1, s

MCOwns == [a \in App |-> IF a = a2 THEN Depot \ {d1} ELSE Depot]
MCHome == [d \in Depot |-> IF d = d1 THEN a1 ELSE a2]
RequestSymmetry == Permutations(Request)
=============================================================================
