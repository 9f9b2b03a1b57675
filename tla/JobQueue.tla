------------------------------ MODULE JobQueue ------------------------------
(***************************************************************************)
(* The job queue of vault-api: the jobs table and apps.status (jobs.py),   *)
(* the one worker thread (worker.py), the hand-off to separate             *)
(* prefill_runner processes (prefill_queue.py, prefill_runner.py), the     *)
(* operator's cancel, pause and resume, the apps row reset at the end of   *)
(* DELETE /v1/cache, and kills and restarts of both kinds of process.      *)
(*                                                                         *)
(* Every database transaction is one action; what a function does between  *)
(* two commits belongs to the action of the second.  SteamPrefill itself   *)
(* is a process that runs until it exits with some result or is stopped.   *)
(* What a prefill or a GC run does to the disk is left out here.           *)
(***************************************************************************)
EXTENDS Naturals, FiniteSets

CONSTANTS
  App,            \* app ids
  Runner,         \* prefill_runner process instances; a restart is a new one
  NoRunner,       \* run_claimed_by IS NULL
  QueueMode,      \* VAULT_PREFILL_MODE = queue (FALSE: subprocess)
  AutoGC,         \* VAULT_AUTO_GC: "off", "dry-run" or "execute"
  Deletes,        \* whether DELETE /v1/cache is called in this instance
  MaxJobs,        \* bound: rows ever inserted
  MaxAttempts,    \* bound: times one job may be started (1 + resumes)
  MaxRestarts,    \* bound: kills and shutdowns of vault-api
  MaxFaults       \* bound: worker exceptions and stalls of a live runner

ASSUME JobQueueAssumption ==
  /\ App # {}
  /\ NoRunner \notin Runner
  /\ QueueMode \in BOOLEAN /\ Deletes \in BOOLEAN
  /\ AutoGC \in {"off", "dry-run", "execute"}
  /\ MaxJobs \in Nat /\ MaxAttempts \in Nat
  /\ MaxRestarts \in Nat /\ MaxFaults \in Nat

VARIABLES
  jobs,           \* the jobs table: id -> row
  apps,           \* apps.status, "absent" when the app has no row
  api,            \* the vault-api process: "down", "up" or "stopping"
  worker,         \* the worker thread: program counter, job, result in hand
  runner,         \* the runner processes
  deletion,       \* app -> how far a DELETE /v1/cache of it has come
  restarts,       \* kills and shutdowns of vault-api so far
  faults          \* exceptions and stalls so far

vars == <<jobs, apps, api, worker, runner, deletion, restarts, faults>>

JobId == 1..MaxJobs
NoJob == 0
ACTIVE_STATUSES == {"queued", "running", "paused"}
TERMINAL_STATUSES == {"done", "error", "cancelled"}
JobStatus == {"absent"} \cup ACTIVE_STATUSES \cup TERMINAL_STATUSES
StopRequest == {"null", "cancel", "pause"}

(***************************************************************************)
(* What a run can report: a parsed summary with updated > 0, one with only *)
(* up-to-date depots, an unparsable one, the 0/0 of an app that was not    *)
(* considered; a failure (exit code, login, setup, timeout, abort); a stop *)
(* that was honored; and the worker's own verdict on a silent runner.      *)
(***************************************************************************)
SuccessKind == {"updated", "current", "unparsed"}
StopKind == {"cancelled", "paused"}
ExitKind == SuccessKind \cup {"unowned", "failed"}
RunKind == ExitKind \cup StopKind
GcKind == {"gc_ok", "gc_failed", "gc_cancelled"}
ResultKind == {"null", "runner_lost"} \cup RunKind \cup GcKind

\* A result remembers the attempt that produced it (a history variable).
Result == [kind : ResultKind, attempt : Nat]
NoResult == [kind |-> "null", attempt |-> 0]

(***************************************************************************)
(* attempt counts the times the row was claimed (a history variable), and  *)
(* handoff is the attempt that was last handed off: 0 is run_use_force IS  *)
(* NULL.  result stands for run_completed_at and run_result_json, lapsed   *)
(* for "heartbeat, claim and start are older than the lease".              *)
(***************************************************************************)
Row == [appid : App, type : {"prefill", "gc"}, gc_execute : BOOLEAN,
        status : JobStatus, stop_request : StopRequest,
        handoff : Nat, claimed_by : Runner \cup {NoRunner},
        result : Result, lapsed : BOOLEAN, attempt : Nat]

\* A row as INSERT leaves it: every run_* column NULL
NewRow(a, type, execute, status) ==
  [appid |-> a, type |-> type, gc_execute |-> execute, status |-> status,
   stop_request |-> "null", handoff |-> 0, claimed_by |-> NoRunner,
   result |-> NoResult, lapsed |-> FALSE, attempt |-> 0]

WorkerPC == {"off", "loop", "claimed", "started", "exec", "wait", "result",
             "stopped", "filled", "closing", "failing", "gc", "gc_end"}

TypeOK ==
  /\ jobs \in [JobId -> Row]
  /\ apps \in [App -> {"absent", "idle", "running", "done", "error"}]
  /\ api \in {"down", "up", "stopping"}
  /\ worker \in [pc : WorkerPC, job : JobId \cup {NoJob}, result : Result]
  /\ runner \in [Runner ->
        [pc : {"new", "idle", "exec", "record", "gone"},
         job : JobId \cup {NoJob}, result : Result]]
  /\ deletion \in [App -> {"none", "removing"}]
  /\ restarts \in Nat /\ faults \in Nat

Init ==
  /\ \E a \in App :
       jobs = [j \in JobId |-> NewRow(a, "prefill", FALSE, "absent")]
  /\ apps = [a \in App |-> "absent"]
  /\ api = "down"
  /\ worker = [pc |-> "off", job |-> NoJob, result |-> NoResult]
  /\ runner = [r \in Runner |->
                 [pc |-> "new", job |-> NoJob, result |-> NoResult]]
  /\ deletion = [a \in App |-> "none"]
  /\ restarts = 0 /\ faults = 0

-----------------------------------------------------------------------------
(* Reading and writing the tables.                                         *)

\* Mutant: the worker claims prefill jobs only
Queued_PrefillOnly ==
  {j \in JobId : jobs[j].status = "queued" /\ jobs[j].type = "prefill"}

Queued == {j \in JobId : jobs[j].status = "queued"}

Running == {j \in JobId : jobs[j].status = "running"}

\* Mutant: a paused job does not count as active
ActiveJobs_NotPaused(a, type, execute) ==
  {j \in JobId : /\ jobs[j].appid = a
                 /\ jobs[j].type = type
                 /\ jobs[j].gc_execute = execute
                 /\ jobs[j].status \in {"queued", "running"}}

\* jobs of this app, type and mode that are queued, running or paused
ActiveJobs(a, type, execute) ==
  {j \in JobId : /\ jobs[j].appid = a
                 /\ jobs[j].type = type
                 /\ jobs[j].gc_execute = execute
                 /\ jobs[j].status \in ACTIVE_STATUSES}

active_job_for_app(a) ==
  \E j \in JobId : jobs[j].appid = a /\ jobs[j].status \in ACTIVE_STATUSES

\* INSERT INTO jobs: the next id
IsNextId(j) ==
  /\ jobs[j].status = "absent"
  /\ \A k \in JobId : k < j => jobs[k].status # "absent"

\* UPDATE jobs SET ... WHERE id = j
UpdateRow(j, row) == jobs' = [jobs EXCEPT ![j] = row]

InsertJob(j, a, type, execute) ==
  /\ IsNextId(j)
  /\ UpdateRow(j, NewRow(a, type, execute, "queued"))

\* Mutant: a status of the jobs table in the apps table
ensure_app_row_AsJob(a) ==
  IF apps[a] = "absent" THEN "queued" ELSE apps[a]

ensure_app_row(a) ==
  IF apps[a] = "absent" THEN "idle" ELSE apps[a]

\* finish_job: a terminal status, and no stop request left pending on it
finish_job(j, status) ==
  UpdateRow(j, [jobs[j] EXCEPT !.status = status, !.stop_request = "null"])

\* Mutant: only a claimed run can be stale
run_is_stale_IfClaimed(j) ==
  /\ jobs[j].lapsed
  /\ jobs[j].result.kind = "null"
  /\ jobs[j].claimed_by # NoRunner

\* run_completed_at IS NOT NULL
completed(j) == jobs[j].result.kind # "null"

\* a completed run never is stale
run_is_stale(j) == jobs[j].lapsed /\ ~completed(j)

GoTo(pc) == worker' = [worker EXCEPT !.pc = pc]

\* The job body is over: back to the top of _run
BackToLoop ==
  worker' = [pc |-> "loop", job |-> NoJob, result |-> NoResult]

-----------------------------------------------------------------------------
(* Requests.  The scheduler and the miss trigger call enqueue_prefill the  *)
(* way POST /v1/prefill does.                                              *)

enqueue_prefill(a) ==
  /\ api = "up"
  /\ apps' = [apps EXCEPT ![a] = ensure_app_row(a)]
  /\ \/ /\ ActiveJobs(a, "prefill", FALSE) # {}
        /\ UNCHANGED jobs
     \/ /\ ActiveJobs(a, "prefill", FALSE) = {}
        /\ \E j \in JobId : InsertJob(j, a, "prefill", FALSE)
  /\ UNCHANGED <<api, worker, runner, deletion, restarts, faults>>

\* POST /v1/cache/{appid}/gc: 404 for an unknown app, then enqueue_gc
enqueue_gc(a, execute) ==
  /\ api = "up"
  /\ apps[a] # "absent"
  /\ ActiveJobs(a, "gc", execute) = {}
  /\ \E j \in JobId : InsertJob(j, a, "gc", execute)
  /\ UNCHANGED <<apps, api, worker, runner, deletion, restarts, faults>>

\* Mutant: a running job is finalized by the request as well
cancel_now_Running(j) ==
  /\ api = "up"
  /\ jobs[j].status \in ACTIVE_STATUSES
  /\ finish_job(j, "cancelled")
  /\ UNCHANGED <<apps, api, worker, runner, deletion, restarts, faults>>

\* DELETE /v1/jobs/{id} on a queued or paused job: final at once
cancel_now(j) ==
  /\ api = "up"
  /\ jobs[j].status \in {"queued", "paused"}
  /\ finish_job(j, "cancelled")
  /\ apps' = IF apps[jobs[j].appid] = "running"
             THEN [apps EXCEPT ![jobs[j].appid] = "idle"]
             ELSE apps
  /\ UNCHANGED <<api, worker, runner, deletion, restarts, faults>>

\* DELETE /v1/jobs/{id} on a running job: a request, for its executor to see
cancel_running(j) ==
  /\ api = "up"
  /\ jobs[j].status = "running"
  /\ UpdateRow(j, [jobs[j] EXCEPT !.stop_request = "cancel"])
  /\ UNCHANGED <<apps, api, worker, runner, deletion, restarts, faults>>

\* Mutant: the row is parked by the request, not once the child is gone
request_pause_Parks(j) ==
  /\ api = "up"
  /\ jobs[j].type = "prefill"
  /\ jobs[j].status = "running"
  /\ UpdateRow(j, [jobs[j] EXCEPT !.stop_request = "pause",
                                 !.status = "paused"])
  /\ UNCHANGED <<apps, api, worker, runner, deletion, restarts, faults>>

request_pause(j) ==
  /\ api = "up"
  /\ jobs[j].type = "prefill"
  /\ jobs[j].status = "running"
  /\ UpdateRow(j, [jobs[j] EXCEPT !.stop_request = "pause"])
  /\ UNCHANGED <<apps, api, worker, runner, deletion, restarts, faults>>

\* The run_* columns of the attempt that was paused stay as they are.
resume_job(j) ==
  /\ api = "up"
  /\ jobs[j].status = "paused"
  /\ jobs[j].attempt < MaxAttempts
  /\ UpdateRow(j, [jobs[j] EXCEPT !.status = "queued",
                                 !.stop_request = "null"])
  /\ UNCHANGED <<apps, api, worker, runner, deletion, restarts, faults>>

\* DELETE /v1/cache/{appid}: the checks, on a connection of their own ...
delete_check(a) ==
  /\ api = "up"
  /\ Deletes
  /\ deletion[a] = "none"
  /\ apps[a] # "absent"
  /\ ~active_job_for_app(a)
  /\ deletion' = [deletion EXCEPT ![a] = "removing"]
  /\ UNCHANGED <<jobs, apps, api, worker, runner, restarts, faults>>

\* ... and reset_app_after_deletion once the directories are gone, or not
delete_reset(a) ==
  /\ api = "up"
  /\ deletion[a] = "removing"
  /\ \E status \in {"idle", "error"} : apps' = [apps EXCEPT ![a] = status]
  /\ deletion' = [deletion EXCEPT ![a] = "none"]
  /\ UNCHANGED <<jobs, api, worker, runner, restarts, faults>>

-----------------------------------------------------------------------------
(* The worker thread: PrefillWorker._run and what it dispatches to.        *)

\* rows find_active_run returns: handed off, still running, no result yet
ActiveRuns ==
  {j \in JobId : /\ jobs[j].status = "running"
                 /\ jobs[j].type = "prefill"
                 /\ jobs[j].handoff # 0
                 /\ ~completed(j)}

Oldest(ids, j) == j \in ids /\ \A k \in ids : j <= k

\* _resume_prefill: wait again for a run handed off by an earlier process
WorkerReattach(j) ==
  /\ api = "up"
  /\ worker.pc = "loop"
  /\ QueueMode
  /\ Oldest(ActiveRuns, j)
  /\ worker' = [pc |-> "wait", job |-> j, result |-> NoResult]
  /\ UNCHANGED <<jobs, apps, api, runner, deletion, restarts, faults>>

\* claim_next_job and the dispatch on its type
claim_next_job(j) ==
  /\ api = "up"
  /\ worker.pc = "loop"
  /\ QueueMode => ActiveRuns = {}
  /\ Oldest(Queued, j)
  /\ UpdateRow(j, [jobs[j] EXCEPT !.status = "running",
                                 !.attempt = jobs[j].attempt + 1])
  /\ worker' = [pc |-> IF jobs[j].type = "gc" THEN "gc" ELSE "claimed",
                job |-> j, result |-> NoResult]
  /\ UNCHANGED <<apps, api, runner, deletion, restarts, faults>>

\* _execute_prefill: the app is shown as running before anything else
WorkerStart ==
  /\ worker.pc = "claimed"
  /\ apps' = [apps EXCEPT ![jobs[worker.job].appid] = "running"]
  /\ GoTo("started")
  /\ UNCHANGED <<jobs, api, runner, deletion, restarts, faults>>

\* Subprocess mode: run_prefill starts SteamPrefill as a child
WorkerSpawn ==
  /\ worker.pc = "started"
  /\ ~QueueMode
  /\ GoTo("exec")
  /\ UNCHANGED <<jobs, apps, api, runner, deletion, restarts, faults>>

\* Mutant: the columns of the earlier attempt stay
handoff_run_KeepsResult ==
  /\ worker.pc = "started"
  /\ QueueMode
  /\ UpdateRow(worker.job, [jobs[worker.job] EXCEPT
                               !.handoff = jobs[worker.job].attempt])
  /\ GoTo("wait")
  /\ UNCHANGED <<apps, api, runner, deletion, restarts, faults>>

\* Queue mode: a fresh hand-off resets every column the runner owns.  The
\* lease now counts from started_at, which a slow scan may have used up.
handoff_run ==
  /\ worker.pc = "started"
  /\ QueueMode
  /\ \E late \in BOOLEAN :
       UpdateRow(worker.job, [jobs[worker.job] EXCEPT
                                !.handoff = jobs[worker.job].attempt,
                                !.claimed_by = NoRunner,
                                !.result = NoResult,
                                !.lapsed = late])
  /\ GoTo("wait")
  /\ UNCHANGED <<apps, api, runner, deletion, restarts, faults>>

\* _wait_for_process in the worker: the child exits by itself, is aborted by
\* a shutdown or runs out of time (both "failed") ...
ExecExit ==
  /\ worker.pc = "exec"
  /\ \E kind \in ExitKind :
       worker' = [worker EXCEPT !.pc = "result",
                    !.result = [kind |-> kind,
                                attempt |-> jobs[worker.job].attempt]]
  /\ UNCHANGED <<jobs, apps, api, runner, deletion, restarts, faults>>

\* the outcome of a stop request: _STOP_REASONS
StopReason(request) == IF request = "cancel" THEN "cancelled" ELSE "paused"

\* ... or a tick sees a stop request, terminates it and waits for it.
ExecStop ==
  /\ worker.pc = "exec"
  /\ api = "up"
  /\ jobs[worker.job].stop_request # "null"
  /\ worker' = [worker EXCEPT !.pc = "result",
                  !.result = [kind |-> StopReason(jobs[worker.job].stop_request),
                              attempt |-> jobs[worker.job].attempt]]
  /\ UNCHANGED <<jobs, apps, api, runner, deletion, restarts, faults>>

\* await_run_result, one poll: a completed run ...
AwaitResult ==
  /\ worker.pc = "wait"
  /\ api = "up"
  /\ completed(worker.job)
  /\ worker' = [worker EXCEPT !.pc = "result",
                              !.result = jobs[worker.job].result]
  /\ UNCHANGED <<jobs, apps, api, runner, deletion, restarts, faults>>

\* ... or a lease that ran out: FAILURE_RUNNER_LOST
AwaitLost ==
  /\ worker.pc = "wait"
  /\ api = "up"
  /\ run_is_stale(worker.job)
  /\ worker' = [worker EXCEPT !.pc = "result",
                  !.result = [kind |-> "runner_lost",
                              attempt |-> jobs[worker.job].attempt]]
  /\ UNCHANGED <<jobs, apps, api, runner, deletion, restarts, faults>>

-----------------------------------------------------------------------------
(* _finalize_prefill_result: apps.status and the job row are written by    *)
(* separate commits, in this order.                                        *)

\* Mutant: apps.status is left alone
FinalizeStopped_NoReset ==
  /\ worker.pc = "result"
  /\ worker.result.kind \in StopKind
  /\ GoTo("stopped")
  /\ UNCHANGED <<jobs, apps, api, runner, deletion, restarts, faults>>

\* _finish_stopped_prefill, reset_app_status_if_running
FinalizeStopped ==
  /\ worker.pc = "result"
  /\ worker.result.kind \in StopKind
  /\ apps' = IF apps[jobs[worker.job].appid] = "running"
             THEN [apps EXCEPT ![jobs[worker.job].appid] = "idle"]
             ELSE apps
  /\ GoTo("stopped")
  /\ UNCHANGED <<jobs, api, runner, deletion, restarts, faults>>

\* park_paused: conditional on the row still running
park_paused ==
  /\ worker.pc = "stopped"
  /\ worker.result.kind = "paused"
  /\ IF jobs[worker.job].status = "running"
     THEN UpdateRow(worker.job, [jobs[worker.job] EXCEPT
                                   !.status = "paused",
                                   !.stop_request = "null"])
     ELSE UNCHANGED jobs
  /\ BackToLoop
  /\ UNCHANGED <<apps, api, runner, deletion, restarts, faults>>

FinishCancelled ==
  /\ worker.pc = "stopped"
  /\ worker.result.kind = "cancelled"
  /\ finish_job(worker.job, "cancelled")
  /\ BackToLoop
  /\ UNCHANGED <<apps, api, runner, deletion, restarts, faults>>

FinalizeFailed ==
  /\ worker.pc = "result"
  /\ worker.result.kind \in {"failed", "runner_lost", "unowned"}
  /\ apps' = [apps EXCEPT ![jobs[worker.job].appid] = "error"]
  /\ GoTo("failing")
  /\ UNCHANGED <<jobs, api, runner, deletion, restarts, faults>>

FinalizeSuccess ==
  /\ worker.pc = "result"
  /\ worker.result.kind \in SuccessKind
  /\ apps' = [apps EXCEPT ![jobs[worker.job].appid] = "done"]
  /\ GoTo("filled")
  /\ UNCHANGED <<jobs, api, runner, deletion, restarts, faults>>

\* _maybe_queue_auto_gc: only after a parsed summary with updated > 0; the
\* dedupe of enqueue_gc applies.  A full table stands for an insert that
\* failed, which the method logs and ignores.
MaybeQueueAutoGc ==
  /\ worker.pc = "filled"
  /\ LET a == jobs[worker.job].appid
         execute == AutoGC = "execute"
         wanted == /\ AutoGC # "off"
                   /\ worker.result.kind = "updated"
                   /\ ActiveJobs(a, "gc", execute) = {}
     IN  IF wanted /\ \E j \in JobId : IsNextId(j)
         THEN \E j \in JobId : InsertJob(j, a, "gc", execute)
         ELSE UNCHANGED jobs
  /\ GoTo("closing")
  /\ UNCHANGED <<apps, api, runner, deletion, restarts, faults>>

FinishDone ==
  /\ worker.pc = "closing"
  /\ finish_job(worker.job, "done")
  /\ BackToLoop
  /\ UNCHANGED <<apps, api, runner, deletion, restarts, faults>>

FinishError ==
  /\ worker.pc = "failing"
  /\ finish_job(worker.job, "error")
  /\ BackToLoop
  /\ UNCHANGED <<apps, api, runner, deletion, restarts, faults>>

\* The last-resort net of the prefill path: any exception in the body
WorkerException ==
  /\ worker.pc \in {"claimed", "started", "exec", "wait", "result",
                   "stopped", "filled", "closing"}
  /\ faults < MaxFaults
  /\ apps' = [apps EXCEPT ![jobs[worker.job].appid] = "error"]
  /\ GoTo("failing")
  /\ faults' = faults + 1
  /\ UNCHANGED <<jobs, api, runner, deletion, restarts>>

\* run_gc_job: should_cancel is read between depots ...
GcStop ==
  /\ worker.pc = "gc"
  /\ jobs[worker.job].stop_request = "cancel"
  /\ worker' = [worker EXCEPT !.pc = "gc_end",
                  !.result = [kind |-> "gc_cancelled",
                              attempt |-> jobs[worker.job].attempt]]
  /\ UNCHANGED <<jobs, apps, api, runner, deletion, restarts, faults>>

\* ... the last depot is done, with or without failures, or run_gc raised
GcRunEnds ==
  /\ worker.pc = "gc"
  /\ \E kind \in {"gc_ok", "gc_failed"} :
       worker' = [worker EXCEPT !.pc = "gc_end",
                    !.result = [kind |-> kind,
                                attempt |-> jobs[worker.job].attempt]]
  /\ UNCHANGED <<jobs, apps, api, runner, deletion, restarts, faults>>

\* apps.status is not the collector's business
GcFinish ==
  /\ worker.pc = "gc_end"
  /\ finish_job(worker.job,
       CASE worker.result.kind = "gc_cancelled" -> "cancelled"
         [] worker.result.kind = "gc_ok" -> "done"
         [] OTHER -> "error")
  /\ BackToLoop
  /\ UNCHANGED <<apps, api, runner, deletion, restarts, faults>>

-----------------------------------------------------------------------------
(* prefill_runner processes.                                               *)

RunnerBoot(r) ==
  /\ QueueMode
  /\ runner[r].pc = "new"
  /\ runner' = [runner EXCEPT ![r].pc = "idle"]
  /\ UNCHANGED <<jobs, apps, api, worker, deletion, restarts, faults>>

\* Mutant: no check that nobody claimed it
Claimable_Stolen == ActiveRuns

\* rows claim_run may take: handed off, running, unclaimed, not completed
Claimable == {j \in ActiveRuns : jobs[j].claimed_by = NoRunner}

claim_run(r, j) ==
  /\ runner[r].pc = "idle"
  /\ Oldest(Claimable, j)
  /\ UpdateRow(j, [jobs[j] EXCEPT !.claimed_by = r, !.lapsed = FALSE])
  /\ runner' = [runner EXCEPT ![r] =
       [pc |-> "exec", job |-> j,
        result |-> [kind |-> "null", attempt |-> jobs[j].attempt]]]
  /\ UNCHANGED <<apps, api, worker, deletion, restarts, faults>>

\* The row this runner may still write to
Holds(r, j) == jobs[j].claimed_by = r /\ jobs[j].status = "running"

record_run_heartbeat(r) ==
  /\ runner[r].pc = "exec"
  /\ Holds(r, runner[r].job)
  /\ UpdateRow(runner[r].job, [jobs[runner[r].job] EXCEPT !.lapsed = FALSE])
  /\ UNCHANGED <<apps, api, worker, runner, deletion, restarts, faults>>

\* run_prefill returned: the process is gone, its result not yet in the row
RunnerReports(r, kind) ==
  runner' = [runner EXCEPT ![r] =
    [pc |-> "record", job |-> runner[r].job,
     result |-> [kind |-> kind, attempt |-> runner[r].result.attempt]]]

\* SteamPrefill exits, times out or is aborted by the runner's own shutdown
RunnerExit(r) ==
  /\ runner[r].pc = "exec"
  /\ \E kind \in ExitKind : RunnerReports(r, kind)
  /\ UNCHANGED <<jobs, apps, api, worker, deletion, restarts, faults>>

\* stop_request_with_heartbeat returned a request: SteamPrefill is stopped
RunnerStop(r) ==
  /\ runner[r].pc = "exec"
  /\ jobs[runner[r].job].stop_request # "null"
  /\ RunnerReports(r, StopReason(jobs[runner[r].job].stop_request))
  /\ UNCHANGED <<jobs, apps, api, worker, deletion, restarts, faults>>

\* A no-op on a row that was declared dead in the meantime
record_run_result(r) ==
  /\ runner[r].pc = "record"
  /\ IF Holds(r, runner[r].job)
     THEN UpdateRow(runner[r].job, [jobs[runner[r].job] EXCEPT
                                      !.result = runner[r].result])
     ELSE UNCHANGED jobs
  /\ runner' = [runner EXCEPT ![r] =
       [pc |-> "idle", job |-> NoJob, result |-> NoResult]]
  /\ UNCHANGED <<apps, api, worker, deletion, restarts, faults>>

\* Stopped between jobs, or killed at any time with its SteamPrefill
RunnerGone(r) ==
  /\ runner[r].pc \in {"idle", "exec", "record"}
  /\ runner' = [runner EXCEPT ![r] =
       [pc |-> "gone", job |-> NoJob, result |-> NoResult]]
  /\ UNCHANGED <<jobs, apps, api, worker, deletion, restarts, faults>>

\* This runner has the job in hand, up to the write of its result
Busy(r, j) == runner[r].pc \in {"exec", "record"} /\ runner[r].job = j

\* Time: the newest of heartbeat, claim and start grows older than
\* VAULT_RUNNER_LEASE_TIMEOUT_SECONDS.  Nothing refreshes a row that nobody
\* claimed, or whose runner is gone.
LeaseRunsOut(j) ==
  /\ j \in ActiveRuns
  /\ ~jobs[j].lapsed
  /\ \A r \in Runner : ~Busy(r, j)
  /\ UpdateRow(j, [jobs[j] EXCEPT !.lapsed = TRUE])
  /\ UNCHANGED <<apps, api, worker, runner, deletion, restarts, faults>>

\* A runner that is alive misses its heartbeats for that long: a suspended
\* container, a locked database, a clock step.
RunnerStalls(j) ==
  /\ j \in ActiveRuns
  /\ ~jobs[j].lapsed
  /\ \E r \in Runner : Busy(r, j)
  /\ faults < MaxFaults
  /\ UpdateRow(j, [jobs[j] EXCEPT !.lapsed = TRUE])
  /\ faults' = faults + 1
  /\ UNCHANGED <<apps, api, worker, runner, deletion, restarts>>

-----------------------------------------------------------------------------
(* The vault-api process.                                                  *)

\* Mutant: paused jobs are taken for orphans
StaleJobs_Paused == {j \in JobId : jobs[j].status \in {"running", "paused"}}

\* Mutant: only prefill jobs are recovered
StaleJobs_PrefillOnly == {j \in Running : jobs[j].type = "prefill"}

\* Rows recover_stale_jobs fails: every running one, except, in queue mode, a
\* prefill that was handed off
StaleJobs ==
  {j \in Running : ~(QueueMode /\ jobs[j].type = "prefill"
                               /\ jobs[j].handoff # 0)}

\* _lifespan: recover_stale_jobs commits, then the worker thread starts
ApiStart ==
  /\ api = "down"
  /\ api' = "up"
  /\ jobs' = [j \in JobId |-> IF j \in StaleJobs
                              THEN [jobs[j] EXCEPT !.status = "error"]
                              ELSE jobs[j]]
  /\ apps' = [a \in App |->
       IF apps[a] = "running" /\ \E j \in StaleJobs : jobs[j].appid = a
       THEN "error" ELSE apps[a]]
  /\ BackToLoop
  /\ UNCHANGED <<runner, deletion, restarts, faults>>

\* worker.stop(): requests are no longer served, the thread is asked to stop
ApiStop ==
  /\ api = "up"
  /\ restarts < MaxRestarts
  /\ deletion = [a \in App |-> "none"]
  /\ api' = "stopping"
  /\ restarts' = restarts + 1
  /\ UNCHANGED <<jobs, apps, worker, runner, deletion, faults>>

\* The thread leaves its loop; while it waits on a runner it leaves the job
\* as it is
ApiStopped ==
  /\ api = "stopping"
  /\ worker.pc \in {"loop", "wait"}
  /\ api' = "down"
  /\ worker' = [pc |-> "off", job |-> NoJob, result |-> NoResult]
  /\ UNCHANGED <<jobs, apps, runner, deletion, restarts, faults>>

\* Killed, at any point of anything it was doing
ApiKill ==
  /\ api \in {"up", "stopping"}
  /\ restarts < MaxRestarts
  /\ api' = "down"
  /\ restarts' = restarts + 1
  /\ worker' = [pc |-> "off", job |-> NoJob, result |-> NoResult]
  /\ deletion' = [a \in App |-> "none"]
  /\ UNCHANGED <<jobs, apps, runner, faults>>

-----------------------------------------------------------------------------
Requests ==
  \/ \E a \in App : \/ enqueue_prefill(a)
                    \/ \E execute \in BOOLEAN : enqueue_gc(a, execute)
                    \/ delete_check(a)
                    \/ delete_reset(a)
  \/ \E j \in JobId : \/ cancel_now(j)
                      \/ cancel_running(j)
                      \/ request_pause(j)
                      \/ resume_job(j)

WorkerStep ==
  \/ \E j \in JobId : WorkerReattach(j) \/ claim_next_job(j)
  \/ WorkerStart \/ WorkerSpawn \/ handoff_run
  \/ ExecExit \/ ExecStop \/ AwaitResult \/ AwaitLost
  \/ FinalizeStopped \/ park_paused \/ FinishCancelled
  \/ FinalizeFailed \/ FinalizeSuccess \/ MaybeQueueAutoGc
  \/ FinishDone \/ FinishError
  \/ GcStop \/ GcRunEnds \/ GcFinish

RunnerStep(r) ==
  \/ \E j \in JobId : claim_run(r, j)
  \/ RunnerExit(r) \/ RunnerStop(r) \/ record_run_result(r)

Faults ==
  \/ WorkerException \/ ApiStop \/ ApiKill
  \/ \E r \in Runner : RunnerGone(r)
  \/ \E j \in JobId : RunnerStalls(j)

Next ==
  \/ Requests
  \/ WorkerStep
  \/ \E r \in Runner : RunnerBoot(r) \/ RunnerStep(r) \/ record_run_heartbeat(r)
  \/ \E j \in JobId : LeaseRunsOut(j)
  \/ ApiStart \/ ApiStopped
  \/ Faults

Spec == Init /\ [][Next]_vars

(***************************************************************************)
(* The worker thread, the runners and time go on; a vault-api that is down *)
(* is started again.  Requests, faults and new runners need not happen.    *)
(***************************************************************************)
Fairness ==
  /\ WF_vars(WorkerStep)
  /\ WF_vars(ApiStart)
  /\ WF_vars(ApiStopped)
  /\ \A r \in Runner : WF_vars(RunnerStep(r))
  /\ \A j \in JobId : WF_vars(LeaseRunsOut(j))

FairSpec == Spec /\ Fairness

-----------------------------------------------------------------------------
(* Properties.                                                             *)

\* The abstract specification of the queue, over the rows of the table.
Lifecycle == INSTANCE JobLifecycle WITH
  Exclusive <- ~QueueMode,
  life <- [j \in JobId |-> jobs[j].status],
  slot <- [j \in JobId |-> [app |-> jobs[j].appid, type |-> jobs[j].type,
                            execute |-> jobs[j].gc_execute]]

\* Every step of requests, worker, runners, kills and restarts moves the rows
\* as JobLifecycle allows: outcomes are final, paused jobs survive restarts,
\* the oldest queued job starts first, requests are deduplicated and, in
\* subprocess mode, nothing starts while something runs (jobs.py, worker.py).
ImplementsLifecycle == Lifecycle!LifecycleSpec

\* enqueue_prefill and enqueue_gc never stack a second active job for the
\* same request, whatever pauses, resumes and recoveries came before.
NoDuplicateActive == Lifecycle!NoDuplicateActive

\* claim_run's unclaimed check excludes two runner processes from having the
\* same job in hand, without any lease stealing, across lost leases, pauses,
\* resumes and restarts of vault-api (the note above _RUN_COLUMNS).
RunnerExclusion ==
  \A r, s \in Runner, j \in JobId : Busy(r, j) /\ Busy(s, j) => r = s

\* The result the worker finalizes was produced by the attempt it claimed, not
\* left over from the one before a pause (handoff_run, blocker B1).
ResultOfThisAttempt ==
  worker.pc \in {"result", "stopped", "filled", "closing"} =>
    worker.result.attempt = jobs[worker.job].attempt

\* A paused job has no SteamPrefill behind it (_wait_for_process,
\* recover_stale_jobs): no runner has it in hand and the worker is not on it.
PausedIsQuiet ==
  \A j \in JobId : jobs[j].status = "paused" =>
    /\ \A r \in Runner : ~Busy(r, j)
    /\ worker.job # j

\* While vault-api serves requests, an app shown as running has a running
\* prefill job: no badge is left behind by a stop, a failure or a recovery.
BadgeHasRun ==
  api = "up" =>
    \A a \in App : apps[a] = "running" =>
      \E j \in Running : jobs[j].appid = a /\ jobs[j].type = "prefill"

\* The worker's job is running as long as the worker is on it, so finish_job,
\* which has no guard of its own, never overwrites an outcome.
WorkerOwnsItsJob ==
  worker.job # NoJob => jobs[worker.job].status = "running"

\* A job does not run for ever: the run ends, its runner is declared lost, or
\* a restart fails or reattaches it (recover_stale_jobs, await_run_result).
RunningEnds ==
  \A j \in JobId : jobs[j].status = "running" ~> jobs[j].status # "running"

\* A result was recorded that no worker is going to collect
Uncollected(j) == worker.job # j /\ jobs[j].result # NoResult

\* With runners in other processes there is one way only for a job to run for
\* ever: its row carries a result and the worker is not on it, because
\* find_active_run and recover_stale_jobs both pass over such a row.  Runners
\* that die, stall or never come, lost leases, pauses and restarts all end.
EndsUnlessUncollected ==
  \A j \in JobId :
    jobs[j].status = "running" ~> jobs[j].status # "running" \/ Uncollected(j)

\* A queued job is eventually claimed or cancelled.
QueuedStarts ==
  \A j \in JobId : jobs[j].status = "queued" ~> jobs[j].status # "queued"

\* What the docstring of recover_stale_jobs says of a start: a running prefill
\* that was not handed off yet, in the attempt that claimed it, is failed.
OrphansAreFailed ==
  api = "up" => \A j \in Running :
    j = worker.job \/ jobs[j].handoff = jobs[j].attempt

\* What the docstring of finish_job says: no request stays pending on a job
\* that has an outcome.
NoStopRequestOnOutcome ==
  \A j \in JobId :
    jobs[j].status \in TERMINAL_STATUSES => jobs[j].stop_request = "null"

\* What cancel_job answers for a running job: poll until it is cancelled.  A
\* run may end by itself first, but a cancel is not turned into a pause.
CancelIsNotPause ==
  [][\A j \in JobId : jobs[j].stop_request = "cancel" =>
                         jobs'[j].status # "paused"]_vars

\* What the comments on JOB_TYPE_GC and gc_execute say: the collector never
\* runs beside a SteamPrefill that fills the cache.
NoGcBesideRun ==
  worker.pc = "gc" => \A r \in Runner : runner[r].pc # "exec"

\* What the comment in cancel_job says: cancelling a queued job does not touch
\* the status of an app whose prefill runs.
BadgeFollowsRun ==
  worker.pc \in {"exec", "wait"} => apps[jobs[worker.job].appid] = "running"
=============================================================================
