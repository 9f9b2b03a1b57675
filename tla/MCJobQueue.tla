----------------------------- MODULE MCJobQueue -----------------------------
(* JobQueue on small instances, for TLC.  Apps and runner instances are     *)
(* interchangeable; job ids are not, the queue is ordered by them.          *)
EXTENDS JobQueue, TLC

AppSymmetry == Permutations(App)
RunnerSymmetry == Permutations(Runner)
=============================================================================
