--------------------------- MODULE JobQueueProofs ---------------------------
(***************************************************************************)
(* Proofs about JobQueue, for every number of apps, runners, jobs,         *)
(* attempts, restarts and faults, and for both modes.                      *)
(***************************************************************************)
EXTENDS JobQueue, TLAPS

(***************************************************************************)
(* The statuses, program counters and result kinds stay opaque sets in     *)
(* most steps; these are the facts about them that the steps use.          *)
(***************************************************************************)
LEMMA StatusWrite ==
  ASSUME NEW row \in Row, NEW status \in JobStatus, NEW request \in StopRequest
  PROVE  /\ [row EXCEPT !.status = status] \in Row
         /\ [row EXCEPT !.stop_request = request] \in Row
         /\ [row EXCEPT !.status = status, !.stop_request = request] \in Row
         /\ [row EXCEPT !.status = status, !.attempt = row.attempt + 1] \in Row
<1>1. row.attempt + 1 \in Nat
  BY DEF Row
<1> QED BY <1>1 DEF Row

LEMMA RunColumnWrite ==
  ASSUME NEW row \in Row, NEW who \in Runner \cup {NoRunner},
         NEW result \in Result, NEW flag \in BOOLEAN
  PROVE  /\ [row EXCEPT !.lapsed = flag] \in Row
         /\ [row EXCEPT !.result = result] \in Row
         /\ [row EXCEPT !.claimed_by = who, !.lapsed = flag] \in Row
         /\ [row EXCEPT !.handoff = row.attempt, !.claimed_by = who,
                        !.result = result, !.lapsed = flag] \in Row
BY DEF Row

LEMMA NoResultIsTyped == NoResult \in Result
BY DEF NoResult, Result, ResultKind

LEMMA RowsAreTyped ==
  ASSUME NEW a \in App, NEW type \in {"prefill", "gc"}, NEW execute \in BOOLEAN,
         NEW status \in JobStatus
  PROVE  NewRow(a, type, execute, status) \in Row
BY DEF NewRow, Row, Result, NoResult, ResultKind, StopRequest

LEMMA UpdateIsTyped ==
  ASSUME TypeOK, NEW j \in JobId, NEW row \in Row, UpdateRow(j, row)
  PROVE  jobs' \in [JobId -> Row]
BY DEF UpdateRow, TypeOK

LEMMA InsertIsTyped ==
  ASSUME TypeOK, NEW j \in JobId, NEW a \in App, NEW type \in {"prefill", "gc"},
         NEW execute \in BOOLEAN, InsertJob(j, a, type, execute)
  PROVE  jobs' \in [JobId -> Row]
<1>1. NewRow(a, type, execute, "queued") \in Row
  BY RowsAreTyped DEF JobStatus, ACTIVE_STATUSES
<1> QED BY <1>1, UpdateIsTyped DEF InsertJob

LEMMA FinishIsTyped ==
  ASSUME TypeOK, NEW j \in JobId, NEW status \in TERMINAL_STATUSES,
         finish_job(j, status)
  PROVE  jobs' \in [JobId -> Row]
<1>1. jobs[j] \in Row /\ status \in JobStatus /\ "null" \in StopRequest
  BY DEF TypeOK, JobStatus, StopRequest
<1>2. [jobs[j] EXCEPT !.status = status, !.stop_request = "null"] \in Row
  BY <1>1, StatusWrite
<1> QED BY <1>2, UpdateIsTyped DEF finish_job

\* The worker is on a job whenever its program counter is inside a job body.
WorkerHasJob == worker.pc \notin {"off", "loop"} => worker.job \in JobId

\* So is a runner.
RunnerHasJob ==
  \A r \in Runner : runner[r].pc \in {"exec", "record"} => runner[r].job \in JobId

TypeInv == TypeOK /\ WorkerHasJob /\ RunnerHasJob

LEMMA RequestsAreTyped ==
  ASSUME TypeInv, Requests
  PROVE  TypeOK'
<1> USE DEF TypeInv
<1>1. ASSUME NEW a \in App, enqueue_prefill(a) PROVE TypeOK'
  <2>1. apps' \in [App -> {"absent", "idle", "running", "done", "error"}]
    BY <1>1 DEF enqueue_prefill, ensure_app_row, TypeOK
  <2>2. jobs' \in [JobId -> Row]
    BY <1>1, InsertIsTyped DEF enqueue_prefill, TypeOK
  <2> QED BY <1>1, <2>1, <2>2 DEF enqueue_prefill, TypeOK
<1>2. ASSUME NEW a \in App, NEW execute \in BOOLEAN, enqueue_gc(a, execute)
      PROVE  TypeOK'
  BY <1>2, InsertIsTyped DEF enqueue_gc, TypeOK
<1>3. ASSUME NEW a \in App, delete_check(a) \/ delete_reset(a) PROVE TypeOK'
  BY <1>3 DEF delete_check, delete_reset, TypeOK
<1>4. ASSUME NEW j \in JobId, cancel_now(j) PROVE TypeOK'
  <2>1. jobs' \in [JobId -> Row]
    BY <1>4, FinishIsTyped DEF cancel_now, TERMINAL_STATUSES
  <2>2. apps' \in [App -> {"absent", "idle", "running", "done", "error"}]
    BY <1>4 DEF cancel_now, TypeOK
  <2> QED BY <1>4, <2>1, <2>2 DEF cancel_now, TypeOK
<1>5. ASSUME NEW j \in JobId,
             cancel_running(j) \/ request_pause(j) \/ resume_job(j)
      PROVE  TypeOK'
  <2>1. /\ [jobs[j] EXCEPT !.stop_request = "cancel"] \in Row
        /\ [jobs[j] EXCEPT !.stop_request = "pause"] \in Row
        /\ [jobs[j] EXCEPT !.status = "queued", !.stop_request = "null"] \in Row
    <3>1. jobs[j] \in Row
      BY DEF TypeOK
    <3>2. "queued" \in JobStatus /\ {"null", "cancel", "pause"} = StopRequest
      BY DEF JobStatus, ACTIVE_STATUSES, StopRequest
    <3> QED BY <3>1, <3>2, StatusWrite
  <2>2. jobs' \in [JobId -> Row]
    BY <1>5, <2>1, UpdateIsTyped DEF cancel_running, request_pause, resume_job
  <2> QED BY <1>5, <2>2 DEF cancel_running, request_pause, resume_job, TypeOK
<1> QED BY <1>1, <1>2, <1>3, <1>4, <1>5 DEF Requests

LEMMA WorkerStepIsTyped ==
  ASSUME TypeInv, WorkerStep
  PROVE  TypeOK'
<1> USE DEF TypeInv, WorkerHasJob
<1>1. ASSUME NEW j \in JobId, WorkerReattach(j) \/ claim_next_job(j)
      PROVE  TypeOK'
  <2>1. worker' \in [pc : WorkerPC, job : JobId \cup {NoJob}, result : Result]
    BY <1>1 DEF WorkerReattach, claim_next_job, WorkerPC, Result, NoResult,
                ResultKind
  <2>2. jobs' \in [JobId -> Row]
    <3>1. [jobs[j] EXCEPT !.status = "running", !.attempt = jobs[j].attempt + 1] \in Row
      <4>1. jobs[j] \in Row
        BY DEF TypeOK
      <4>2. "running" \in JobStatus /\ "null" \in StopRequest
        BY DEF JobStatus, ACTIVE_STATUSES, StopRequest
      <4> QED BY <4>1, <4>2, StatusWrite
    <3> QED BY <1>1, <3>1, UpdateIsTyped
            DEF WorkerReattach, claim_next_job, TypeOK
  <2> QED BY <1>1, <2>1, <2>2 DEF WorkerReattach, claim_next_job, TypeOK
<1>2. ASSUME WorkerStart \/ WorkerSpawn PROVE TypeOK'
  BY <1>2 DEF WorkerStart, WorkerSpawn, GoTo, TypeOK, WorkerPC
<1>3. ASSUME handoff_run PROVE TypeOK'
  <2>1. jobs' \in [JobId -> Row]
    <3>1. worker.job \in JobId /\ jobs[worker.job] \in Row
      BY <1>3 DEF handoff_run, TypeOK
    <3>2. PICK late \in BOOLEAN : UpdateRow(worker.job,
            [jobs[worker.job] EXCEPT !.handoff = jobs[worker.job].attempt,
               !.claimed_by = NoRunner, !.result = NoResult, !.lapsed = late])
      BY <1>3 DEF handoff_run
    <3>3. [jobs[worker.job] EXCEPT !.handoff = jobs[worker.job].attempt,
               !.claimed_by = NoRunner, !.result = NoResult, !.lapsed = late]
            \in Row
      BY <3>1, RunColumnWrite, NoResultIsTyped
    <3> QED BY <3>1, <3>2, <3>3, UpdateIsTyped
  <2> QED BY <1>3, <2>1 DEF handoff_run, GoTo, TypeOK, WorkerPC
<1>4. ASSUME ExecExit \/ ExecStop \/ AwaitResult \/ AwaitLost PROVE TypeOK'
  <2>1. jobs[worker.job].attempt \in Nat /\ jobs[worker.job].result \in Result
    <3>1. jobs[worker.job] \in Row
      BY <1>4 DEF ExecExit, ExecStop, AwaitResult, AwaitLost, TypeOK
    <3> QED BY <3>1 DEF Row
  <2>2. PICK result \in Result :
          worker' = [worker EXCEPT !.pc = "result", !.result = result]
    <3>1. \A kind \in ResultKind :
            [kind |-> kind, attempt |-> jobs[worker.job].attempt] \in Result
      BY <2>1 DEF Result
    <3>2. ExitKind \cup StopKind \cup {"runner_lost"} \subseteq ResultKind
      BY DEF ResultKind, RunKind
    <3>3. \A request : StopReason(request) \in StopKind
      BY DEF StopReason, StopKind
    <3> QED BY <1>4, <2>1, <3>1, <3>2, <3>3
            DEF ExecExit, ExecStop, AwaitResult, AwaitLost
  <2>3. worker' \in [pc : WorkerPC, job : JobId \cup {NoJob}, result : Result]
    BY <2>2 DEF TypeOK, WorkerPC
  <2> QED BY <1>4, <2>3 DEF ExecExit, ExecStop, AwaitResult, AwaitLost, TypeOK
<1>5. ASSUME FinalizeStopped \/ FinalizeFailed \/ FinalizeSuccess PROVE TypeOK'
  BY <1>5 DEF FinalizeStopped, FinalizeFailed, FinalizeSuccess, GoTo, TypeOK,
              WorkerPC
<1>6. ASSUME park_paused PROVE TypeOK'
  <2>1. jobs' \in [JobId -> Row]
    <3>1. /\ worker.job \in JobId /\ jobs[worker.job] \in Row
          /\ "paused" \in JobStatus /\ "null" \in StopRequest
      BY <1>6 DEF park_paused, TypeOK, JobStatus, ACTIVE_STATUSES, StopRequest
    <3>2. [jobs[worker.job] EXCEPT !.status = "paused", !.stop_request = "null"]
            \in Row
      BY <3>1, StatusWrite
    <3> QED BY <1>6, <3>1, <3>2, UpdateIsTyped DEF park_paused, TypeOK
  <2> QED BY <1>6, <2>1 DEF park_paused, BackToLoop, TypeOK, WorkerPC, Result,
                            NoResult, ResultKind
<1>7. ASSUME FinishCancelled \/ FinishDone \/ FinishError \/ GcFinish
      PROVE  TypeOK'
  <2>1. worker.job \in JobId
    BY <1>7 DEF FinishCancelled, FinishDone, FinishError, GcFinish
  <2>2. jobs' \in [JobId -> Row]
    <3>1. PICK status \in TERMINAL_STATUSES : finish_job(worker.job, status)
      BY <1>7 DEF FinishCancelled, FinishDone, FinishError, GcFinish,
                  TERMINAL_STATUSES
    <3> QED BY <2>1, <3>1, FinishIsTyped
  <2> QED BY <1>7, <2>2 DEF FinishCancelled, FinishDone, FinishError, GcFinish,
                            BackToLoop, TypeOK, WorkerPC, Result, NoResult,
                            ResultKind
<1>8. ASSUME MaybeQueueAutoGc PROVE TypeOK'
  <2>1. jobs[worker.job].appid \in App
    BY <1>8 DEF MaybeQueueAutoGc, TypeOK, Row
  <2>2. jobs' \in [JobId -> Row]
    BY <1>8, <2>1, InsertIsTyped DEF MaybeQueueAutoGc, TypeOK
  <2> QED BY <1>8, <2>2 DEF MaybeQueueAutoGc, GoTo, TypeOK, WorkerPC
<1>9. ASSUME GcStop \/ GcRunEnds PROVE TypeOK'
  <2>1. jobs[worker.job].attempt \in Nat
    BY <1>9 DEF GcStop, GcRunEnds, TypeOK, Row
  <2>2. PICK result \in Result :
          worker' = [worker EXCEPT !.pc = "gc_end", !.result = result]
    <3>1. \A kind \in ResultKind :
            [kind |-> kind, attempt |-> jobs[worker.job].attempt] \in Result
      BY <2>1 DEF Result
    <3>2. {"gc_ok", "gc_failed", "gc_cancelled"} \subseteq ResultKind
      BY DEF ResultKind, GcKind
    <3> QED BY <1>9, <3>1, <3>2 DEF GcStop, GcRunEnds
  <2>3. worker' \in [pc : WorkerPC, job : JobId \cup {NoJob}, result : Result]
    BY <2>2 DEF TypeOK, WorkerPC
  <2> QED BY <1>9, <2>3 DEF GcStop, GcRunEnds, TypeOK
<1> QED BY <1>1, <1>2, <1>3, <1>4, <1>5, <1>6, <1>7, <1>8, <1>9 DEF WorkerStep

LEMMA RunnersAreTyped ==
  ASSUME TypeInv, NEW r \in Runner,
         RunnerBoot(r) \/ RunnerStep(r) \/ record_run_heartbeat(r) \/ RunnerGone(r)
  PROVE  TypeOK'
<1> USE DEF TypeInv, RunnerHasJob
<1> DEFINE Processes == [Runner ->
        [pc : {"new", "idle", "exec", "record", "gone"},
         job : JobId \cup {NoJob}, result : Result]]
<1>1. CASE RunnerBoot(r)
  BY <1>1 DEF RunnerBoot, TypeOK
<1>2. ASSUME NEW j \in JobId, claim_run(r, j) PROVE TypeOK'
  <2>1. jobs[j].attempt \in Nat
    BY DEF TypeOK, Row
  <2>2. runner' \in Processes
    BY <1>2, <2>1 DEF claim_run, TypeOK, Result, ResultKind
  <2>3. jobs' \in [JobId -> Row]
    <3>1. [jobs[j] EXCEPT !.claimed_by = r, !.lapsed = FALSE] \in Row
      <4>1. jobs[j] \in Row
        BY DEF TypeOK
      <4> QED BY <4>1, RunColumnWrite, NoResultIsTyped
    <3> QED BY <1>2, <3>1, UpdateIsTyped DEF claim_run
  <2> QED BY <1>2, <2>2, <2>3 DEF claim_run, TypeOK
<1>3. CASE record_run_heartbeat(r)
  <2>1. runner[r].job \in JobId /\ jobs[runner[r].job] \in Row
    BY <1>3 DEF record_run_heartbeat, TypeOK
  <2>2. [jobs[runner[r].job] EXCEPT !.lapsed = FALSE] \in Row
    BY <2>1, RunColumnWrite, NoResultIsTyped
  <2>3. jobs' \in [JobId -> Row]
    BY <1>3, <2>1, <2>2, UpdateIsTyped DEF record_run_heartbeat
  <2> QED BY <1>3, <2>3 DEF record_run_heartbeat, TypeOK
<1>4. CASE RunnerExit(r) \/ RunnerStop(r)
  <2>1. runner' \in Processes
    <3>1. PICK kind \in ResultKind : RunnerReports(r, kind)
      BY <1>4 DEF RunnerExit, RunnerStop, StopReason, ResultKind, RunKind,
                  ExitKind, SuccessKind, StopKind
    <3> QED BY <1>4, <3>1 DEF RunnerExit, RunnerStop, RunnerReports, TypeOK,
                              Result
  <2> QED BY <1>4, <2>1 DEF RunnerExit, RunnerStop, TypeOK
<1>5. CASE record_run_result(r)
  <2>1. runner' \in Processes
    BY <1>5 DEF record_run_result, TypeOK, Result, NoResult, ResultKind
  <2>2. jobs' \in [JobId -> Row]
    <3>1. /\ runner[r].job \in JobId /\ jobs[runner[r].job] \in Row
          /\ runner[r].result \in Result
      BY <1>5 DEF record_run_result, TypeOK
    <3>2. [jobs[runner[r].job] EXCEPT !.result = runner[r].result] \in Row
      BY <3>1, RunColumnWrite
    <3> QED BY <1>5, <3>1, <3>2, UpdateIsTyped DEF record_run_result, TypeOK
  <2> QED BY <1>5, <2>1, <2>2 DEF record_run_result, TypeOK
<1>6. CASE RunnerGone(r)
  BY <1>6 DEF RunnerGone, TypeOK, Result, NoResult, ResultKind
<1> QED BY <1>1, <1>2, <1>3, <1>4, <1>5, <1>6 DEF RunnerStep

LEMMA EnvironmentIsTyped ==
  ASSUME TypeInv,
         \/ \E j \in JobId : LeaseRunsOut(j) \/ RunnerStalls(j)
         \/ ApiStart \/ ApiStop \/ ApiStopped \/ ApiKill \/ WorkerException
  PROVE  TypeOK'
<1> USE DEF TypeInv, WorkerHasJob
<1>1. ASSUME NEW j \in JobId, LeaseRunsOut(j) \/ RunnerStalls(j) PROVE TypeOK'
  <2>1. [jobs[j] EXCEPT !.lapsed = TRUE] \in Row
    <3>1. jobs[j] \in Row
      BY DEF TypeOK
    <3> QED BY <3>1, RunColumnWrite, NoResultIsTyped
  <2>2. jobs' \in [JobId -> Row]
    BY <1>1, <2>1, UpdateIsTyped DEF LeaseRunsOut, RunnerStalls
  <2> QED BY <1>1, <2>2 DEF LeaseRunsOut, RunnerStalls, TypeOK
<1>2. CASE ApiStart
  <2>1. jobs' \in [JobId -> Row]
    <3>1. \A j \in JobId : [jobs[j] EXCEPT !.status = "error"] \in Row
      <4>1. \A j \in JobId : jobs[j] \in Row
        BY DEF TypeOK
      <4>2. "error" \in JobStatus /\ "null" \in StopRequest
        BY DEF JobStatus, TERMINAL_STATUSES, StopRequest
      <4> QED BY <4>1, <4>2, StatusWrite
    <3> QED BY <1>2, <3>1 DEF ApiStart, TypeOK
  <2>2. apps' \in [App -> {"absent", "idle", "running", "done", "error"}]
    BY <1>2 DEF ApiStart, TypeOK
  <2> QED BY <1>2, <2>1, <2>2 DEF ApiStart, BackToLoop, TypeOK, WorkerPC,
                                  Result, NoResult, ResultKind
<1>3. CASE ApiStop \/ ApiStopped \/ ApiKill
  <2>1. [pc |-> "off", job |-> NoJob, result |-> NoResult]
          \in [pc : WorkerPC, job : JobId \cup {NoJob}, result : Result]
    BY NoResultIsTyped DEF WorkerPC
  <2>2. CASE ApiStop
    BY <2>2 DEF ApiStop, TypeOK
  <2>3. CASE ApiStopped \/ ApiKill
    BY <2>1, <2>3 DEF ApiStopped, ApiKill, TypeOK
  <2> QED BY <1>3, <2>2, <2>3
<1>4. CASE WorkerException
  <2>1. apps' \in [App -> {"absent", "idle", "running", "done", "error"}]
    BY <1>4 DEF WorkerException, TypeOK
  <2>2. worker' \in [pc : WorkerPC, job : JobId \cup {NoJob}, result : Result]
    BY <1>4 DEF WorkerException, GoTo, TypeOK, WorkerPC
  <2>3. faults' \in Nat
    BY <1>4 DEF WorkerException, TypeOK
  <2> QED BY <1>4, <2>1, <2>2, <2>3 DEF WorkerException, TypeOK
<1>5. CASE \E j \in JobId : LeaseRunsOut(j) \/ RunnerStalls(j)
  BY <1>1, <1>5
<1> QED BY <1>2, <1>3, <1>4, <1>5

LEMMA HasJobStep ==
  ASSUME TypeInv, Next
  PROVE  WorkerHasJob' /\ RunnerHasJob'
<1> USE DEF TypeInv, WorkerHasJob, RunnerHasJob
<1>1. CASE Requests
  BY <1>1 DEF Requests, enqueue_prefill, enqueue_gc, delete_check, delete_reset,
       cancel_now, cancel_running, request_pause, resume_job
<1>2. CASE WorkerStep
  <2>1. ASSUME NEW j \in JobId, WorkerReattach(j) \/ claim_next_job(j)
        PROVE  WorkerHasJob' /\ UNCHANGED runner
    BY <2>1 DEF WorkerReattach, claim_next_job
  <2>2. CASE WorkerStart \/ WorkerSpawn \/ handoff_run
    BY <2>2 DEF WorkerStart, WorkerSpawn, handoff_run, GoTo, TypeOK
  <2>3. CASE ExecExit \/ ExecStop \/ AwaitResult \/ AwaitLost
    BY <2>3 DEF ExecExit, ExecStop, AwaitResult, AwaitLost, TypeOK
  <2>4. CASE FinalizeStopped \/ FinalizeFailed \/ FinalizeSuccess
             \/ MaybeQueueAutoGc
    BY <2>4 DEF FinalizeStopped, FinalizeFailed, FinalizeSuccess,
         MaybeQueueAutoGc, GoTo, TypeOK
  <2>5. CASE park_paused \/ FinishCancelled \/ FinishDone \/ FinishError
             \/ GcFinish
    BY <2>5 DEF park_paused, FinishCancelled, FinishDone, FinishError, GcFinish,
         BackToLoop
  <2>6. CASE GcStop \/ GcRunEnds
    BY <2>6 DEF GcStop, GcRunEnds, TypeOK
  <2> QED BY <1>2, <2>1, <2>2, <2>3, <2>4, <2>5, <2>6 DEF WorkerStep
<1>3. ASSUME NEW r \in Runner,
             RunnerBoot(r) \/ RunnerStep(r) \/ record_run_heartbeat(r)
               \/ RunnerGone(r)
      PROVE  WorkerHasJob' /\ RunnerHasJob'
  <2>1. UNCHANGED worker
    BY <1>3 DEF RunnerBoot, RunnerStep, claim_run, RunnerExit, RunnerStop,
         record_run_result, record_run_heartbeat, RunnerGone
  <2>2. \A s \in Runner : s # r => runner'[s] = runner[s]
    BY <1>3 DEF RunnerBoot, RunnerStep, claim_run, RunnerExit, RunnerStop,
         RunnerReports, record_run_result, record_run_heartbeat, RunnerGone,
         TypeOK
  <2>3. runner'[r].pc \in {"exec", "record"} => runner'[r].job \in JobId
    <3>1. CASE RunnerBoot(r) \/ RunnerGone(r) \/ record_run_result(r)
      BY <3>1 DEF RunnerBoot, RunnerGone, record_run_result, TypeOK
    <3>2. ASSUME NEW j \in JobId, claim_run(r, j) PROVE runner'[r].job \in JobId
      BY <3>2 DEF claim_run, TypeOK
    <3>3. CASE RunnerExit(r) \/ RunnerStop(r)
      BY <3>3 DEF RunnerExit, RunnerStop, RunnerReports, TypeOK
    <3>4. CASE record_run_heartbeat(r)
      BY <3>4 DEF record_run_heartbeat
    <3> QED BY <1>3, <3>1, <3>2, <3>3, <3>4 DEF RunnerStep
  <2> QED BY <2>1, <2>2, <2>3
<1>4. ASSUME NEW j \in JobId, LeaseRunsOut(j) \/ RunnerStalls(j)
      PROVE  WorkerHasJob' /\ RunnerHasJob'
  BY <1>4 DEF LeaseRunsOut, RunnerStalls
<1>5. CASE ApiStart \/ ApiStop \/ ApiStopped \/ ApiKill
  BY <1>5 DEF ApiStart, ApiStop, ApiStopped, ApiKill, BackToLoop
<1>6. CASE WorkerException
  BY <1>6 DEF WorkerException, GoTo, TypeOK
<1> QED BY <1>1, <1>2, <1>3, <1>4, <1>5, <1>6 DEF Next, Faults

LEMMA TypeInvInit ==
  ASSUME Init
  PROVE  TypeInv
<1>1. jobs \in [JobId -> Row]
  <2>1. PICK a \in App :
          jobs = [j \in JobId |-> NewRow(a, "prefill", FALSE, "absent")]
    BY DEF Init
  <2>2. NewRow(a, "prefill", FALSE, "absent") \in Row
    BY RowsAreTyped DEF JobStatus
  <2> QED BY <2>1, <2>2
<1> QED BY <1>1 DEF Init, TypeInv, TypeOK, WorkerHasJob, RunnerHasJob, Result,
                    NoResult, ResultKind, WorkerPC

\* TypeOK needs to know that the worker and the runners are on a job when their
\* program counters say so, or a write to that row could leave the table.
LEMMA TypeInvStep ==
  ASSUME TypeInv, [Next]_vars
  PROVE  TypeInv'
<1>1. CASE UNCHANGED vars
  BY <1>1 DEF vars, TypeInv, TypeOK, WorkerHasJob, RunnerHasJob
<1>2. CASE Next
  <2>1. TypeOK'
    BY <1>2, RequestsAreTyped, WorkerStepIsTyped, RunnersAreTyped,
       EnvironmentIsTyped DEF Next, Faults
  <2>2. WorkerHasJob'
    BY <1>2, HasJobStep
  <2>3. RunnerHasJob'
    BY <1>2, HasJobStep
  <2> QED BY <2>1, <2>2, <2>3 DEF TypeInv
<1> QED BY <1>1, <1>2

\* The tables and the processes only ever hold what their columns and program
\* counters can hold, in every state and for every size of the system.
THEOREM TypeCorrect == Spec => []TypeOK
<1>1. Init => TypeInv
  BY TypeInvInit
<1>2. TypeInv => TypeOK
  BY DEF TypeInv
<1> QED BY <1>1, <1>2, TypeInvStep, PTL DEF Spec
=============================================================================
