---------------------------- MODULE JobLifecycle ----------------------------
(***************************************************************************)
(* What the job queue of vault-api promises to whoever submits a job: the  *)
(* life of a row of the jobs table, with no worker, no runner process, no  *)
(* hand-off and no crash in it.  JobQueue, the model of the code, is shown *)
(* to implement it under life[j] = status and slot[j] = what was asked.    *)
(***************************************************************************)
EXTENDS Naturals, FiniteSets

CONSTANTS
  App,          \* app ids
  MaxJobs,      \* how many rows may ever be inserted
  Exclusive     \* TRUE: at most one job runs at a time (subprocess mode)

VARIABLES
  life,         \* job id -> "absent" or the status of its row
  slot          \* job id -> the app, job type and GC mode it was queued for

lifecycleVars == <<life, slot>>

JobId == 1..MaxJobs
Active == {"queued", "running", "paused"}
Terminal == {"done", "error", "cancelled"}
Life == {"absent"} \cup Active \cup Terminal
Slot == [app : App, type : {"prefill", "gc"}, execute : BOOLEAN]

LifecycleTypeOK ==
  /\ life \in [JobId -> Life]
  /\ slot \in [JobId -> Slot]

LifecycleInit ==
  /\ life = [j \in JobId |-> "absent"]
  /\ slot \in [JobId -> Slot]

\* A new row takes the next id; what is already active is not queued again.
Submit(j, s) ==
  /\ life[j] = "absent"
  /\ \A k \in JobId : k < j => life[k] # "absent"
  /\ \A k \in JobId : life[k] \in Active => slot[k] # s
  /\ life' = [life EXCEPT ![j] = "queued"]
  /\ slot' = [slot EXCEPT ![j] = s]

\* The oldest queued job starts; a resumed one keeps its id and so its place.
Start(j) ==
  /\ life[j] = "queued"
  /\ \A k \in JobId : life[k] = "queued" => j <= k
  /\ Exclusive => \A k \in JobId : life[k] # "running"
  /\ life' = [life EXCEPT ![j] = "running"]
  /\ UNCHANGED slot

Finish(j, outcome) ==
  /\ life[j] = "running"
  /\ life' = [life EXCEPT ![j] = outcome]
  /\ UNCHANGED slot

Park(j) ==
  /\ life[j] = "running"
  /\ slot[j].type = "prefill"
  /\ life' = [life EXCEPT ![j] = "paused"]
  /\ UNCHANGED slot

Withdraw(j) ==
  /\ life[j] \in {"queued", "paused"}
  /\ life' = [life EXCEPT ![j] = "cancelled"]
  /\ UNCHANGED slot

Requeue(j) ==
  /\ life[j] = "paused"
  /\ life' = [life EXCEPT ![j] = "queued"]
  /\ UNCHANGED slot

\* A restart fails some of the jobs that were running, all in one commit, and
\* touches nothing else: queued and paused jobs survive it.
FailOrphans(orphans) ==
  /\ \A j \in orphans : life[j] = "running"
  /\ life' = [j \in JobId |-> IF j \in orphans THEN "error" ELSE life[j]]
  /\ UNCHANGED slot

LifecycleNext ==
  \/ \E j \in JobId :
       \/ \E s \in Slot : Submit(j, s)
       \/ Start(j)
       \/ \E outcome \in Terminal : Finish(j, outcome)
       \/ Park(j)
       \/ Withdraw(j)
       \/ Requeue(j)
  \/ \E orphans \in SUBSET JobId : FailOrphans(orphans)

LifecycleSpec == LifecycleInit /\ [][LifecycleNext]_lifecycleVars

-----------------------------------------------------------------------------
(* The consequences that callers of the API lean on.                       *)

\* No two active jobs answer the same request: same app, same type and, for a
\* GC job, same mode.
NoDuplicateActive ==
  \A j, k \in JobId :
    (j # k /\ life[j] \in Active /\ life[k] \in Active) => slot[j] # slot[k]

\* An outcome that was recorded is never rewritten.
OutcomeIsFinal ==
  [][\A j \in JobId : life[j] \in Terminal => life'[j] = life[j]]_lifecycleVars
=============================================================================
