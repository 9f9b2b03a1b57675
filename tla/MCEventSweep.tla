---------------------------- MODULE MCEventSweep ----------------------------
(* EventSweep on small instances, for TLC.  Apps are interchangeable.       *)
EXTENDS EventSweep, TLC

AppSymmetry == Permutations(App)
=============================================================================
