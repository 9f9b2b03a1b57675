--------------------------- MODULE JobQueueSafety ---------------------------
(***************************************************************************)
(* Why the hand-off to the runners is safe, for every number of apps,      *)
(* runners, jobs, attempts, restarts and faults: no two runners have one   *)
(* job in hand, a paused job has nobody behind it, the worker's job is     *)
(* running as long as the worker is on it, and it never finalizes the      *)
(* result of an earlier attempt.                                           *)
(*                                                                         *)
(* None of the four is inductive.  What carries them is a statement about  *)
(* the run_* columns of a row: they are settled when the row was never     *)
(* handed off, or carries a result.  A runner's row is never settled, a    *)
(* waiting row always is, and so is the worker's between its claim of a    *)
(* job and the hand-off, and once a stop was honored.                      *)
(***************************************************************************)
EXTENDS JobQueueProofs

Settled(j) == jobs[j].handoff # 0 => completed(j)

RunnersHoldTheirRow ==
  \A r \in Runner, j \in JobId : Busy(r, j) =>
    /\ jobs[j].claimed_by = r
    /\ ~Settled(j)
    /\ jobs[j].status \notin {"absent", "queued", "paused"}
    /\ runner[r].result.attempt = jobs[j].attempt

WaitingRowsAreSettled ==
  \A j \in JobId : jobs[j].status \in {"queued", "paused"} => Settled(j)

WorkerRowIsSettled ==
  \/ worker.pc \in {"claimed", "started", "exec"}
  \/ worker.pc \in {"result", "stopped"} /\ worker.result.kind \in StopKind
  => Settled(worker.job)

AwaitedResultIsFresh ==
  worker.pc = "wait" /\ completed(worker.job) =>
    jobs[worker.job].result.attempt = jobs[worker.job].attempt

\* The conjuncts that speak of the worker
WorkerInv ==
  /\ WorkerOwnsItsJob
  /\ WorkerRowIsSettled
  /\ AwaitedResultIsFresh
  /\ ResultOfThisAttempt

QueueInv == WorkerInv /\ RunnersHoldTheirRow /\ WaitingRowsAreSettled

-----------------------------------------------------------------------------
(* What an action does to a row, as far as QueueInv can tell.              *)

SameRun(j) ==
  /\ jobs'[j].handoff = jobs[j].handoff
  /\ jobs'[j].claimed_by = jobs[j].claimed_by
  /\ jobs'[j].result = jobs[j].result
  /\ jobs'[j].attempt = jobs[j].attempt

Moves(j, status) == SameRun(j) /\ jobs'[j].status = status

Keeps(j) == SameRun(j) /\ jobs'[j].status = jobs[j].status

KeepsOthers(j) == \A k \in JobId : k # j => Keeps(k)

LEMMA RowUpdate ==
  ASSUME TypeOK, NEW j \in JobId, NEW row, UpdateRow(j, row)
  PROVE  jobs'[j] = row /\ KeepsOthers(j)
BY DEF TypeOK, UpdateRow, KeepsOthers, Keeps, SameRun

LEMMA FinishMoves ==
  ASSUME TypeOK, NEW j \in JobId, NEW status, finish_job(j, status)
  PROVE  Moves(j, status) /\ KeepsOthers(j)
<1>1. jobs[j] \in Row
  BY DEF TypeOK
<1>2. jobs'[j] = [jobs[j] EXCEPT !.status = status, !.stop_request = "null"]
      /\ KeepsOthers(j)
  BY RowUpdate DEF finish_job
<1> QED BY <1>1, <1>2 DEF Moves, SameRun, Row

\* A step that leaves the rows, the worker and the runners as they are
LEMMA KeepStep ==
  ASSUME QueueInv, TypeInv, UNCHANGED <<worker, runner>>,
         \A j \in JobId : Keeps(j)
  PROVE  QueueInv'
<1>1. RunnersHoldTheirRow'
  BY DEF QueueInv, RunnersHoldTheirRow, Busy, Settled, completed, Keeps, SameRun
<1>2. WaitingRowsAreSettled'
  BY DEF QueueInv, WaitingRowsAreSettled, Settled, completed, Keeps, SameRun
<1>3. worker.pc \notin {"off", "loop"} => worker.job \in JobId
  BY DEF TypeInv, WorkerHasJob
<1>4. worker.job # NoJob => worker.job \in JobId
  BY DEF TypeInv, TypeOK
<1>5. WorkerInv'
  BY <1>3, <1>4 DEF QueueInv, WorkerInv, WorkerOwnsItsJob, WorkerRowIsSettled,
     AwaitedResultIsFresh, ResultOfThisAttempt, Settled, completed, Keeps, SameRun
<1> QED BY <1>1, <1>2, <1>5 DEF QueueInv

\* Any write to a row that no runner has in hand
LEMMA QuietRowStep ==
  ASSUME QueueInv, UNCHANGED runner, NEW j \in JobId, KeepsOthers(j),
         \A r \in Runner : ~Busy(r, j),
         jobs'[j].status \in {"queued", "paused"} => Settled(j)'
  PROVE  RunnersHoldTheirRow' /\ WaitingRowsAreSettled'
<1>1. RunnersHoldTheirRow'
  BY DEF QueueInv, RunnersHoldTheirRow, Busy, Settled, completed, KeepsOthers,
     Keeps, SameRun
<1>2. WaitingRowsAreSettled'
  BY DEF QueueInv, WaitingRowsAreSettled, Settled, completed, KeepsOthers,
     Keeps, SameRun
<1> QED BY <1>1, <1>2

\* A row that is not the worker's moves: it was waiting, or it is waiting now
\* and is settled
LEMMA MoveStep ==
  ASSUME QueueInv, TypeInv, UNCHANGED <<worker, runner>>,
         NEW j \in JobId, NEW status, Moves(j, status), KeepsOthers(j),
         jobs[j].status \in {"queued", "paused"}
  PROVE  QueueInv'
<1>1. Settled(j) /\ \A r \in Runner : ~Busy(r, j)
  BY DEF QueueInv, WaitingRowsAreSettled, RunnersHoldTheirRow
<1>2. Settled(j)'
  BY <1>1 DEF Settled, completed, Moves, SameRun
<1>3. RunnersHoldTheirRow' /\ WaitingRowsAreSettled'
  BY <1>1, <1>2, QuietRowStep
<1>5. /\ worker.pc \notin {"off", "loop"} => worker.job \in JobId
      /\ worker.job # NoJob => worker.job \in JobId /\ worker.job # j
      /\ worker.job \in JobId => worker.job # NoJob
  BY DEF TypeInv, TypeOK, WorkerHasJob, QueueInv, WorkerInv, WorkerOwnsItsJob,
     JobId, NoJob
<1>6. WorkerInv'
  BY <1>5 DEF QueueInv, WorkerInv, WorkerOwnsItsJob, WorkerRowIsSettled,
     AwaitedResultIsFresh, ResultOfThisAttempt, Settled, completed, KeepsOthers,
     Keeps, SameRun
<1> QED BY <1>3, <1>6 DEF QueueInv

\* A new row
LEMMA InsertStep ==
  ASSUME QueueInv, TypeInv, UNCHANGED runner,
         NEW j \in JobId, NEW a, NEW type, NEW execute,
         InsertJob(j, a, type, execute)
  PROVE  /\ RunnersHoldTheirRow' /\ WaitingRowsAreSettled'
         /\ worker.job # j /\ KeepsOthers(j)
<1>1. jobs[j].status = "absent"
  BY DEF InsertJob, IsNextId
<1>2. jobs'[j] = NewRow(a, type, execute, "queued") /\ KeepsOthers(j)
  BY RowUpdate DEF InsertJob, TypeInv
<1>3. \A r \in Runner : ~Busy(r, j)
  BY <1>1 DEF QueueInv, RunnersHoldTheirRow
<1>4. Settled(j)'
  BY <1>2 DEF Settled, NewRow
<1>5. RunnersHoldTheirRow' /\ WaitingRowsAreSettled'
  BY <1>2, <1>3, <1>4, QuietRowStep
<1>6. worker.job # j
  BY <1>1 DEF QueueInv, WorkerInv, WorkerOwnsItsJob, JobId, NoJob
<1> QED BY <1>2, <1>5, <1>6

LEMMA RequestsKeepQueueInv ==
  ASSUME QueueInv, TypeInv, Requests
  PROVE  QueueInv'
<1>1. ASSUME NEW j \in JobId, NEW a, NEW type, NEW execute,
             InsertJob(j, a, type, execute), UNCHANGED <<worker, runner>>
      PROVE  QueueInv'
  <2>1. RunnersHoldTheirRow' /\ WaitingRowsAreSettled' /\ worker.job # j
        /\ KeepsOthers(j)
    BY <1>1, InsertStep
  <2>2. /\ worker.pc \notin {"off", "loop"} => worker.job \in JobId
        /\ worker.job # NoJob => worker.job \in JobId
    BY DEF TypeInv, TypeOK, WorkerHasJob
  <2>3. WorkerInv'
    BY <1>1, <2>1, <2>2 DEF QueueInv, WorkerInv, WorkerOwnsItsJob,
       WorkerRowIsSettled, AwaitedResultIsFresh, ResultOfThisAttempt, Settled,
       completed, KeepsOthers, Keeps, SameRun
  <2> QED BY <2>1, <2>3 DEF QueueInv
<1>2. ASSUME UNCHANGED <<jobs, worker, runner>> PROVE QueueInv'
  BY <1>2, KeepStep DEF Keeps, SameRun
<1>3. ASSUME NEW a \in App, enqueue_prefill(a) PROVE QueueInv'
  BY <1>1, <1>2, <1>3 DEF enqueue_prefill
<1>4. ASSUME NEW a \in App, NEW execute \in BOOLEAN, enqueue_gc(a, execute)
      PROVE  QueueInv'
  BY <1>1, <1>4 DEF enqueue_gc
<1>5. ASSUME NEW a \in App, delete_check(a) \/ delete_reset(a) PROVE QueueInv'
  BY <1>2, <1>5 DEF delete_check, delete_reset
<1>6. ASSUME NEW j \in JobId, cancel_now(j) \/ resume_job(j) PROVE QueueInv'
  <2>1. jobs[j] \in Row
    BY DEF TypeInv, TypeOK
  <2>2. jobs[j].status \in {"queued", "paused"} /\ UNCHANGED <<worker, runner>>
    BY <1>6 DEF cancel_now, resume_job
  <2>3. \E status : Moves(j, status) /\ KeepsOthers(j)
    <3>1. CASE cancel_now(j)
      BY <3>1, FinishMoves DEF cancel_now, TypeInv
    <3>2. CASE resume_job(j)
      <4>1. jobs'[j] = [jobs[j] EXCEPT !.status = "queued",
                                       !.stop_request = "null"]
            /\ KeepsOthers(j)
        BY <3>2, RowUpdate DEF resume_job, TypeInv
      <4> QED BY <2>1, <4>1 DEF Moves, SameRun, Row
    <3> QED BY <1>6, <3>1, <3>2
  <2> QED BY <2>2, <2>3, MoveStep
<1>7. ASSUME NEW j \in JobId, cancel_running(j) \/ request_pause(j)
      PROVE  QueueInv'
  <2>1. jobs[j] \in Row
    BY DEF TypeInv, TypeOK
  <2>2. PICK request : UpdateRow(j, [jobs[j] EXCEPT !.stop_request = request])
    BY <1>7 DEF cancel_running, request_pause
  <2>3. \A k \in JobId : Keeps(k)
    BY <2>1, <2>2, RowUpdate DEF TypeInv, Keeps, SameRun, KeepsOthers, Row
  <2> QED BY <1>7, <2>3, KeepStep DEF cancel_running, request_pause
<1> QED BY <1>3, <1>4, <1>5, <1>6, <1>7 DEF Requests

-----------------------------------------------------------------------------
\* The worker leaves a job: its row moves to the status it is left at
LEMMA LeaveStep ==
  ASSUME QueueInv, TypeInv, UNCHANGED runner, BackToLoop,
         NEW j \in JobId, NEW status, Moves(j, status), KeepsOthers(j),
         \/ status \in TERMINAL_STATUSES
         \/ status = "running"
         \/ status = "paused" /\ Settled(j)
  PROVE  QueueInv'
<1>1. worker.pc' = "loop" /\ worker.job' = NoJob
  BY DEF BackToLoop
<1>2. WorkerInv'
  BY <1>1 DEF WorkerInv, WorkerOwnsItsJob, WorkerRowIsSettled,
     AwaitedResultIsFresh, ResultOfThisAttempt
<1>3. /\ Settled(j)' <=> Settled(j)
      /\ status = "paused" => Settled(j)
      /\ status \notin {"absent", "queued"}
  BY <1>1 DEF Moves, SameRun, Settled, completed, TERMINAL_STATUSES
<1>4. ASSUME NEW r \in Runner, NEW k \in JobId, Busy(r, k)'
      PROVE  /\ jobs'[k].claimed_by = r /\ ~Settled(k)'
             /\ jobs'[k].status \notin {"absent", "queued", "paused"}
             /\ runner'[r].result.attempt = jobs'[k].attempt
  <2>1. /\ jobs[k].claimed_by = r /\ ~Settled(k)
        /\ jobs[k].status \notin {"absent", "queued", "paused"}
        /\ runner[r].result.attempt = jobs[k].attempt
    BY <1>4 DEF QueueInv, RunnersHoldTheirRow, Busy
  <2>2. CASE k = j
    BY <2>1, <2>2, <1>3 DEF Moves, SameRun, Settled, completed
  <2>3. CASE k # j
    BY <2>1, <2>3 DEF KeepsOthers, Keeps, SameRun, Settled, completed
  <2> QED BY <2>2, <2>3
<1>5. ASSUME NEW k \in JobId, jobs'[k].status \in {"queued", "paused"}
      PROVE  Settled(k)'
  <2>1. CASE k = j
    BY <2>1, <1>3, <1>5 DEF Moves, SameRun, Settled, completed
  <2>2. CASE k # j
    BY <2>2, <1>5 DEF QueueInv, WaitingRowsAreSettled, KeepsOthers, Keeps,
       SameRun, Settled, completed
  <2> QED BY <2>1, <2>2
<1> QED BY <1>2, <1>4, <1>5 DEF QueueInv, RunnersHoldTheirRow,
        WaitingRowsAreSettled

LEMMA WorkerStepKeepsQueueInv ==
  ASSUME QueueInv, TypeInv, WorkerStep \/ WorkerException
  PROVE  QueueInv'
<1>1. /\ worker.pc \notin {"off", "loop"} => worker.job \in JobId
      /\ worker.job # NoJob => worker.job \in JobId
      /\ \A j \in JobId : j # NoJob /\ jobs[j] \in Row
  BY DEF TypeInv, TypeOK, WorkerHasJob, JobId, NoJob
<1>2. ASSUME NEW j \in JobId, WorkerReattach(j) PROVE QueueInv'
  <2>1. /\ jobs[j].status = "running" /\ ~completed(j)
        /\ UNCHANGED <<jobs, runner>>
        /\ worker'.pc = "wait" /\ worker'.job = j
    BY <1>2 DEF WorkerReattach, Oldest, ActiveRuns
  <2>2. RunnersHoldTheirRow' /\ WaitingRowsAreSettled'
    BY <2>1 DEF QueueInv, RunnersHoldTheirRow, WaitingRowsAreSettled, Busy,
       Settled, completed
  <2>3. WorkerInv'
    BY <2>1 DEF WorkerInv, WorkerOwnsItsJob, WorkerRowIsSettled,
       AwaitedResultIsFresh, ResultOfThisAttempt, completed
  <2> QED BY <2>2, <2>3 DEF QueueInv
<1>3. ASSUME NEW j \in JobId, claim_next_job(j) PROVE QueueInv'
  <2>1. /\ jobs[j].status = "queued" /\ UNCHANGED runner
        /\ worker'.pc \in {"gc", "claimed"} /\ worker'.job = j
    BY <1>3 DEF claim_next_job, Oldest, Queued
  <2>2. /\ jobs'[j] = [jobs[j] EXCEPT !.status = "running",
                                      !.attempt = jobs[j].attempt + 1]
        /\ KeepsOthers(j)
    BY <1>3, RowUpdate DEF claim_next_job, TypeInv
  <2>3. Settled(j) /\ \A r \in Runner : ~Busy(r, j)
    BY <2>1 DEF QueueInv, WaitingRowsAreSettled, RunnersHoldTheirRow
  <2>4. Settled(j)' /\ jobs'[j].status = "running"
    BY <1>1, <2>2, <2>3 DEF Settled, completed, Row
  <2>5. RunnersHoldTheirRow' /\ WaitingRowsAreSettled'
    BY <2>1, <2>2, <2>3, <2>4, QuietRowStep
  <2>6. WorkerInv'
    BY <2>1, <2>4 DEF WorkerInv, WorkerOwnsItsJob, WorkerRowIsSettled,
       AwaitedResultIsFresh, ResultOfThisAttempt, Settled
  <2> QED BY <2>5, <2>6 DEF QueueInv
<1>4. ASSUME UNCHANGED <<jobs, runner>> PROVE RunnersHoldTheirRow' /\ WaitingRowsAreSettled'
  BY <1>4 DEF QueueInv, RunnersHoldTheirRow, WaitingRowsAreSettled, Busy,
     Settled, completed
<1>5. ASSUME UNCHANGED jobs, worker'.job = worker.job
      PROVE  /\ WorkerOwnsItsJob'
             /\ Settled(worker.job)' <=> Settled(worker.job)
  BY <1>5 DEF QueueInv, WorkerInv, WorkerOwnsItsJob, Settled, completed
<1>6. CASE WorkerStart \/ WorkerSpawn
  <2>1. UNCHANGED <<jobs, runner>> /\ worker'.job = worker.job
        /\ worker.pc \in {"claimed", "started"}
        /\ worker'.pc \in {"started", "exec"}
    BY <1>6 DEF WorkerStart, WorkerSpawn, GoTo, TypeInv, TypeOK
  <2>2. WorkerInv'
    BY <2>1, <1>5 DEF QueueInv, WorkerInv, WorkerRowIsSettled,
       AwaitedResultIsFresh, ResultOfThisAttempt
  <2> QED BY <2>1, <2>2, <1>4 DEF QueueInv
<1>7. CASE ExecExit \/ ExecStop \/ AwaitResult \/ AwaitLost
  <2>1. UNCHANGED <<jobs, runner>> /\ worker'.job = worker.job
        /\ worker'.pc = "result"
    BY <1>7 DEF ExecExit, ExecStop, AwaitResult, AwaitLost, TypeInv, TypeOK
  <2>2. worker'.result.kind \in StopKind => Settled(worker.job)
    <3>1. CASE ExecExit \/ ExecStop
      BY <3>1 DEF ExecExit, ExecStop, QueueInv, WorkerInv, WorkerRowIsSettled
    <3>2. CASE AwaitResult
      BY <3>2 DEF AwaitResult, Settled
    <3>3. CASE AwaitLost
      BY <3>3 DEF AwaitLost, StopKind, TypeInv, TypeOK
    <3> QED BY <1>7, <3>1, <3>2, <3>3
  <2>3. worker'.result.attempt = jobs[worker.job].attempt
    <3>1. CASE ExecExit \/ ExecStop \/ AwaitLost
      <4>1. worker \in [pc : WorkerPC, job : JobId \cup {NoJob}, result : Result]
        BY DEF TypeInv, TypeOK
      <4>2. \E kind : worker' = [worker EXCEPT !.pc = "result",
              !.result = [kind |-> kind, attempt |-> jobs[worker.job].attempt]]
        BY <3>1 DEF ExecExit, ExecStop, AwaitLost
      <4>3. \E kind : worker'.result =
              [kind |-> kind, attempt |-> jobs[worker.job].attempt]
        BY <4>1, <4>2
      <4> QED BY <4>3
    <3>2. CASE AwaitResult
      BY <3>2 DEF AwaitResult, QueueInv, WorkerInv, AwaitedResultIsFresh,
         TypeInv, TypeOK
    <3> QED BY <1>7, <3>1, <3>2
  <2>4. WorkerInv'
    BY <2>1, <2>2, <2>3, <1>5 DEF WorkerInv, WorkerRowIsSettled,
       AwaitedResultIsFresh, ResultOfThisAttempt
  <2> QED BY <2>1, <2>4, <1>4 DEF QueueInv
<1>8. CASE FinalizeStopped \/ FinalizeFailed \/ FinalizeSuccess
           \/ GcStop \/ GcRunEnds \/ WorkerException
  <2>1. /\ UNCHANGED <<jobs, runner>> /\ worker'.job = worker.job
        /\ \/ /\ worker'.pc \in {"stopped", "filled"}
              /\ worker.pc = "result" /\ worker'.result = worker.result
           \/ worker'.pc \in {"failing", "gc_end"}
    BY <1>8 DEF FinalizeStopped, FinalizeFailed, FinalizeSuccess, GcStop,
       GcRunEnds, WorkerException, GoTo, TypeInv, TypeOK
  <2>2. WorkerInv'
    BY <2>1, <1>5 DEF QueueInv, WorkerInv, WorkerRowIsSettled,
       AwaitedResultIsFresh, ResultOfThisAttempt
  <2> QED BY <2>1, <2>2, <1>4 DEF QueueInv
<1>9. CASE MaybeQueueAutoGc
  <2>1. /\ UNCHANGED runner /\ worker.pc = "filled" /\ worker'.pc = "closing"
        /\ worker'.job = worker.job /\ worker'.result = worker.result
    BY <1>9 DEF MaybeQueueAutoGc, GoTo, TypeInv, TypeOK
  <2>2. /\ RunnersHoldTheirRow' /\ WaitingRowsAreSettled'
        /\ Keeps(worker.job)
    <3>1. CASE UNCHANGED jobs
      BY <2>1, <3>1, <1>4 DEF Keeps, SameRun
    <3>2. CASE \E j \in JobId : \E a, execute : InsertJob(j, a, "gc", execute)
      BY <2>1, <3>2, <1>1, InsertStep DEF KeepsOthers
    <3> QED BY <1>9, <3>1, <3>2 DEF MaybeQueueAutoGc
  <2>3. WorkerInv'
    BY <2>1, <2>2 DEF QueueInv, WorkerInv, WorkerOwnsItsJob, WorkerRowIsSettled,
       AwaitedResultIsFresh, ResultOfThisAttempt, Keeps, SameRun
  <2> QED BY <2>2, <2>3 DEF QueueInv
<1>10. CASE handoff_run
  <2>1. PICK late \in BOOLEAN : UpdateRow(worker.job,
            [jobs[worker.job] EXCEPT !.handoff = jobs[worker.job].attempt,
               !.claimed_by = NoRunner, !.result = NoResult, !.lapsed = late])
    BY <1>10 DEF handoff_run
  <2>2. /\ UNCHANGED runner /\ worker.pc = "started" /\ worker'.pc = "wait"
        /\ worker'.job = worker.job /\ worker.job \in JobId
    BY <1>1, <1>10 DEF handoff_run, GoTo, TypeInv, TypeOK
  <2>3. /\ jobs'[worker.job] =
             [jobs[worker.job] EXCEPT !.handoff = jobs[worker.job].attempt,
               !.claimed_by = NoRunner, !.result = NoResult, !.lapsed = late]
        /\ KeepsOthers(worker.job)
    BY <2>1, <2>2, RowUpdate DEF TypeInv
  <2>4. jobs'[worker.job].status = "running" /\ ~completed(worker.job)'
    BY <1>1, <2>2, <2>3 DEF Row, completed, NoResult, QueueInv, WorkerInv,
       WorkerOwnsItsJob
  <2>5. \A r \in Runner : ~Busy(r, worker.job)
    BY <2>2 DEF QueueInv, WorkerInv, WorkerRowIsSettled, RunnersHoldTheirRow
  <2>6. RunnersHoldTheirRow' /\ WaitingRowsAreSettled'
    BY <2>2, <2>3, <2>4, <2>5, QuietRowStep
  <2>7. WorkerInv'
    BY <2>2, <2>4 DEF WorkerInv, WorkerOwnsItsJob, WorkerRowIsSettled,
       AwaitedResultIsFresh, ResultOfThisAttempt, completed
  <2> QED BY <2>6, <2>7 DEF QueueInv
<1>11. CASE park_paused
  <2>1. /\ worker.job \in JobId /\ Settled(worker.job)
        /\ UNCHANGED runner /\ BackToLoop
    BY <1>1, <1>11 DEF park_paused, QueueInv, WorkerInv, WorkerRowIsSettled,
       StopKind
  <2>2. CASE jobs[worker.job].status = "running"
    <3>1. /\ jobs'[worker.job] = [jobs[worker.job] EXCEPT !.status = "paused",
                                                          !.stop_request = "null"]
          /\ KeepsOthers(worker.job)
      BY <1>11, <2>1, <2>2, RowUpdate DEF park_paused, TypeInv
    <3>2. Moves(worker.job, "paused")
      BY <1>1, <2>1, <3>1 DEF Moves, SameRun, Row
    <3> QED BY <2>1, <3>1, <3>2, LeaveStep
  <2>3. CASE jobs[worker.job].status # "running"
    BY <2>1, <2>3, <1>1 DEF QueueInv, WorkerInv, WorkerOwnsItsJob
  <2> QED BY <2>2, <2>3
<1>12. CASE FinishCancelled \/ FinishDone \/ FinishError \/ GcFinish
  <2>1. worker.job \in JobId /\ UNCHANGED runner /\ BackToLoop
    BY <1>1, <1>12 DEF FinishCancelled, FinishDone, FinishError, GcFinish
  <2>2. PICK status \in TERMINAL_STATUSES : finish_job(worker.job, status)
    BY <1>12 DEF FinishCancelled, FinishDone, FinishError, GcFinish,
       TERMINAL_STATUSES
  <2>3. Moves(worker.job, status) /\ KeepsOthers(worker.job)
    BY <2>1, <2>2, FinishMoves DEF TypeInv
  <2> QED BY <2>1, <2>3, LeaveStep
<1> QED BY <1>2, <1>3, <1>6, <1>7, <1>8, <1>9, <1>10, <1>11, <1>12 DEF WorkerStep

-----------------------------------------------------------------------------
LEMMA RunnersKeepQueueInv ==
  ASSUME QueueInv, TypeInv, NEW r \in Runner,
         RunnerBoot(r) \/ RunnerStep(r) \/ record_run_heartbeat(r) \/ RunnerGone(r)
  PROVE  QueueInv'
<1>1. /\ worker.pc \notin {"off", "loop"} => worker.job \in JobId
      /\ worker.job # NoJob => worker.job \in JobId
      /\ \A j \in JobId : jobs[j] \in Row
      /\ runner[r].pc \in {"exec", "record"} => runner[r].job \in JobId
  BY DEF TypeInv, TypeOK, WorkerHasJob, RunnerHasJob
<1>2. UNCHANGED worker /\ \A s \in Runner : s # r => runner'[s] = runner[s]
  BY DEF RunnerBoot, RunnerStep, claim_run, RunnerExit, RunnerStop,
     RunnerReports, record_run_result, record_run_heartbeat, RunnerGone,
     TypeInv, TypeOK
<1>3. ASSUME NEW s \in Runner, s # r, NEW k \in JobId
      PROVE  Busy(s, k)' <=> Busy(s, k)
  BY <1>2, <1>3 DEF Busy
<1>4. CASE RunnerBoot(r) \/ RunnerGone(r) \/ RunnerExit(r) \/ RunnerStop(r)
  <2>1. UNCHANGED jobs
    BY <1>4 DEF RunnerBoot, RunnerGone, RunnerExit, RunnerStop
  <2>2. ASSUME NEW k \in JobId, Busy(r, k)'
        PROVE  Busy(r, k) /\ runner'[r].result.attempt = runner[r].result.attempt
    BY <1>4, <2>2 DEF RunnerBoot, RunnerGone, RunnerExit, RunnerStop,
       RunnerReports, Busy, TypeInv, TypeOK
  <2>3. RunnersHoldTheirRow'
    BY <1>2, <1>3, <2>1, <2>2 DEF QueueInv, RunnersHoldTheirRow, Settled,
       completed
  <2>4. WaitingRowsAreSettled' /\ WorkerInv'
    BY <1>2, <2>1 DEF QueueInv, WaitingRowsAreSettled, WorkerInv,
       WorkerOwnsItsJob, WorkerRowIsSettled, AwaitedResultIsFresh,
       ResultOfThisAttempt, Settled, completed
  <2> QED BY <2>3, <2>4 DEF QueueInv
<1>5. CASE record_run_heartbeat(r)
  <2>1. runner[r].job \in JobId /\ UNCHANGED <<worker, runner>>
        /\ UpdateRow(runner[r].job, [jobs[runner[r].job] EXCEPT !.lapsed = FALSE])
    BY <1>1, <1>5 DEF record_run_heartbeat
  <2>2. \A k \in JobId : Keeps(k)
    BY <1>1, <2>1, RowUpdate DEF TypeInv, Keeps, SameRun, KeepsOthers, Row
  <2> QED BY <2>1, <2>2, KeepStep
<1>6. ASSUME NEW j \in JobId, claim_run(r, j) PROVE QueueInv'
  <2>1. /\ jobs[j].status = "running" /\ ~Settled(j)
        /\ jobs[j].claimed_by = NoRunner
    BY <1>6 DEF claim_run, Oldest, Claimable, ActiveRuns, Settled
  <2>2. /\ jobs'[j] = [jobs[j] EXCEPT !.claimed_by = r, !.lapsed = FALSE]
        /\ KeepsOthers(j)
    BY <1>6, RowUpdate DEF claim_run, TypeInv
  <2>3. /\ jobs'[j].status = "running" /\ ~Settled(j)' /\ ~completed(j)'
        /\ jobs'[j].claimed_by = r /\ jobs'[j].attempt = jobs[j].attempt
    BY <1>1, <2>1, <2>2 DEF Row, Settled, completed
  <2>4. runner'[r].job = j /\ runner'[r].result.attempt = jobs[j].attempt
    BY <1>6 DEF claim_run, TypeInv, TypeOK
  <2>5. \A s \in Runner : ~Busy(s, j)
    BY <2>1, JobQueueAssumption DEF QueueInv, RunnersHoldTheirRow
  <2>6. RunnersHoldTheirRow'
    <3>1. ASSUME NEW s \in Runner, NEW k \in JobId, Busy(s, k)'
          PROVE  /\ jobs'[k].claimed_by = s /\ ~Settled(k)'
                 /\ jobs'[k].status \notin {"absent", "queued", "paused"}
                 /\ runner'[s].result.attempt = jobs'[k].attempt
      <4>1. CASE s = r
        <5>1. k = j
          BY <2>4, <3>1, <4>1 DEF Busy
        <5> QED BY <2>3, <2>4, <4>1, <5>1
      <4>2. CASE s # r
        <5>1. Busy(s, k) /\ k # j /\ runner'[s] = runner[s]
          BY <1>2, <1>3, <2>5, <3>1, <4>2
        <5> QED BY <2>2, <5>1 DEF QueueInv, RunnersHoldTheirRow, KeepsOthers,
                Keeps, SameRun, Settled, completed
      <4> QED BY <4>1, <4>2
    <3> QED BY <3>1 DEF RunnersHoldTheirRow
  <2>7. WaitingRowsAreSettled'
    BY <2>2, <2>3 DEF QueueInv, WaitingRowsAreSettled, KeepsOthers, Keeps,
       SameRun, Settled, completed
  <2>8. WorkerInv'
    <3>1. CASE worker.job = j
      BY <1>2, <2>1, <2>3, <3>1 DEF QueueInv, WorkerInv, WorkerOwnsItsJob,
         WorkerRowIsSettled, AwaitedResultIsFresh, ResultOfThisAttempt
    <3>2. CASE worker.job # j
      BY <1>1, <1>2, <2>2, <3>2 DEF QueueInv, WorkerInv, WorkerOwnsItsJob,
         WorkerRowIsSettled, AwaitedResultIsFresh, ResultOfThisAttempt,
         KeepsOthers, Keeps, SameRun, Settled, completed
    <3> QED BY <3>1, <3>2
  <2> QED BY <2>6, <2>7, <2>8 DEF QueueInv
<1>7. CASE record_run_result(r)
  <2> DEFINE j == runner[r].job
  <2>1. /\ j \in JobId /\ Busy(r, j)
        /\ runner'[r].pc = "idle"
    BY <1>1, <1>7 DEF record_run_result, Busy, TypeInv, TypeOK
  <2>2. CASE ~Holds(r, j)
    <3>1. UNCHANGED jobs
      BY <1>7, <2>2 DEF record_run_result
    <3>2. RunnersHoldTheirRow'
      BY <1>2, <1>3, <2>1, <3>1 DEF QueueInv, RunnersHoldTheirRow, Settled,
         completed, Busy
    <3>3. WaitingRowsAreSettled' /\ WorkerInv'
      BY <1>2, <3>1 DEF QueueInv, WaitingRowsAreSettled, WorkerInv,
         WorkerOwnsItsJob, WorkerRowIsSettled, AwaitedResultIsFresh,
         ResultOfThisAttempt, Settled, completed
    <3> QED BY <3>2, <3>3 DEF QueueInv
  <2>3. CASE Holds(r, j)
    <3>1. /\ jobs'[j] = [jobs[j] EXCEPT !.result = runner[r].result]
          /\ KeepsOthers(j) /\ jobs[j].status = "running"
      BY <1>7, <2>1, <2>3, RowUpdate DEF record_run_result, TypeInv, Holds
    <3>2. /\ jobs'[j].status = "running" /\ jobs'[j].attempt = jobs[j].attempt
          /\ jobs'[j].result = runner[r].result
          /\ runner[r].result.attempt = jobs[j].attempt /\ ~Settled(j)
      BY <1>1, <2>1, <3>1 DEF Row, QueueInv, RunnersHoldTheirRow
    <3>3. RunnersHoldTheirRow'
      <4>1. ASSUME NEW s \in Runner, NEW k \in JobId, Busy(s, k)'
            PROVE  /\ jobs'[k].claimed_by = s /\ ~Settled(k)'
                   /\ jobs'[k].status \notin {"absent", "queued", "paused"}
                   /\ runner'[s].result.attempt = jobs'[k].attempt
        <5>1. s # r
          BY <2>1, <4>1 DEF Busy
        <5>2. Busy(s, k) /\ runner'[s] = runner[s]
          BY <1>2, <1>3, <4>1, <5>1
        <5>3. k # j
          BY <2>1, <5>1, <5>2 DEF QueueInv, RunnersHoldTheirRow
        <5> QED BY <3>1, <5>2, <5>3 DEF QueueInv, RunnersHoldTheirRow,
                KeepsOthers, Keeps, SameRun, Settled, completed
      <4> QED BY <4>1 DEF RunnersHoldTheirRow
    <3>4. WaitingRowsAreSettled'
      BY <3>1, <3>2 DEF QueueInv, WaitingRowsAreSettled, KeepsOthers, Keeps,
         SameRun, Settled, completed
    <3>5. WorkerInv'
      <4>1. CASE worker.job = j
        BY <1>2, <3>1, <3>2, <4>1 DEF QueueInv, WorkerInv, WorkerOwnsItsJob,
           WorkerRowIsSettled, AwaitedResultIsFresh, ResultOfThisAttempt
      <4>2. CASE worker.job # j
        BY <1>1, <1>2, <3>1, <4>2 DEF QueueInv, WorkerInv, WorkerOwnsItsJob,
           WorkerRowIsSettled, AwaitedResultIsFresh, ResultOfThisAttempt,
           KeepsOthers, Keeps, SameRun, Settled, completed
      <4> QED BY <4>1, <4>2
    <3> QED BY <3>3, <3>4, <3>5 DEF QueueInv
  <2> QED BY <2>2, <2>3
<1> QED BY <1>4, <1>5, <1>6, <1>7 DEF RunnerStep

LEMMA EnvironmentKeepsQueueInv ==
  ASSUME QueueInv, TypeInv,
         \/ \E j \in JobId : LeaseRunsOut(j) \/ RunnerStalls(j)
         \/ ApiStart \/ ApiStop \/ ApiStopped \/ ApiKill
  PROVE  QueueInv'
<1>1. \A j \in JobId : jobs[j] \in Row
  BY DEF TypeInv, TypeOK
<1>2. ASSUME NEW j \in JobId, LeaseRunsOut(j) \/ RunnerStalls(j) PROVE QueueInv'
  <2>1. UpdateRow(j, [jobs[j] EXCEPT !.lapsed = TRUE])
        /\ UNCHANGED <<worker, runner>>
    BY <1>2 DEF LeaseRunsOut, RunnerStalls
  <2>2. \A k \in JobId : Keeps(k)
    BY <1>1, <2>1, RowUpdate DEF TypeInv, Keeps, SameRun, KeepsOthers, Row
  <2> QED BY <2>1, <2>2, KeepStep
<1>3. ASSUME UNCHANGED runner, worker'.pc \in {"off", "loop"},
             worker'.job = NoJob,
             \A j \in JobId :
               Keeps(j) \/ (jobs[j].status = "running" /\ Moves(j, "error"))
      PROVE  QueueInv'
  <2>1. RunnersHoldTheirRow' /\ WaitingRowsAreSettled'
    BY <1>3 DEF QueueInv, RunnersHoldTheirRow, WaitingRowsAreSettled, Busy,
       Keeps, Moves, SameRun, Settled, completed
  <2>2. WorkerInv'
    BY <1>3 DEF WorkerInv, WorkerOwnsItsJob, WorkerRowIsSettled,
       AwaitedResultIsFresh, ResultOfThisAttempt
  <2> QED BY <2>1, <2>2 DEF QueueInv
<1>4. CASE ApiStart
  <2>1. \A j \in JobId :
          Keeps(j) \/ (jobs[j].status = "running" /\ Moves(j, "error"))
    BY <1>1, <1>4 DEF ApiStart, StaleJobs, Running, Keeps, Moves, SameRun, Row
  <2> QED BY <1>3, <1>4, <2>1 DEF ApiStart, BackToLoop
<1>5. CASE ApiStop
  BY <1>5, KeepStep DEF ApiStop, Keeps, SameRun
<1>6. CASE ApiStopped \/ ApiKill
  BY <1>3, <1>6 DEF ApiStopped, ApiKill, Keeps, SameRun
<1> QED BY <1>2, <1>4, <1>5, <1>6

\* QueueInv is inductive on top of the types.
LEMMA QueueInvariant == Spec => [](TypeInv /\ QueueInv)
<1>1. Init => TypeInv /\ QueueInv
  <2> SUFFICES ASSUME Init PROVE TypeInv /\ QueueInv
    OBVIOUS
  <2>1. TypeInv
    BY TypeInvInit
  <2>2. \A j \in JobId : jobs[j].status = "absent"
    BY DEF Init, NewRow
  <2> QED BY <2>1, <2>2 DEF Init, QueueInv, WorkerInv, RunnersHoldTheirRow,
       WaitingRowsAreSettled, WorkerOwnsItsJob, WorkerRowIsSettled,
       AwaitedResultIsFresh, ResultOfThisAttempt, Busy
<1>2. TypeInv /\ QueueInv /\ [Next]_vars => (TypeInv /\ QueueInv)'
  <2> SUFFICES ASSUME TypeInv, QueueInv, [Next]_vars PROVE QueueInv'
    BY TypeInvStep
  <2>1. CASE UNCHANGED vars
    BY <2>1, KeepStep DEF vars, Keeps, SameRun
  <2>2. CASE Next
    BY <2>2, RequestsKeepQueueInv, WorkerStepKeepsQueueInv,
       RunnersKeepQueueInv, EnvironmentKeepsQueueInv DEF Next, Faults
  <2> QED BY <2>1, <2>2
<1> QED BY <1>1, <1>2, PTL DEF Spec

\* claim_run lets no two runner processes have one job in hand, whatever
\* leases, pauses, resumes and restarts came before.
THEOREM RunnersExclude == Spec => []RunnerExclusion
<1>1. QueueInv => RunnerExclusion
  BY DEF QueueInv, RunnersHoldTheirRow, RunnerExclusion
<1> QED BY <1>1, QueueInvariant, PTL

\* A job that is paused has no runner and not the worker behind it.
THEOREM PausedJobsAreQuiet == Spec => []PausedIsQuiet
<1>1. QueueInv => PausedIsQuiet
  BY DEF QueueInv, RunnersHoldTheirRow, WorkerInv, WorkerOwnsItsJob,
     PausedIsQuiet, JobId, NoJob
<1> QED BY <1>1, QueueInvariant, PTL

\* The job the worker is on is running, so its unconditional finish_job never
\* overwrites an outcome.
THEOREM WorkerOwnership == Spec => []WorkerOwnsItsJob
<1>1. QueueInv => WorkerOwnsItsJob
  BY DEF QueueInv, WorkerInv
<1> QED BY <1>1, QueueInvariant, PTL

\* What the worker finalizes was produced by the attempt it claimed.
THEOREM ResultsAreFresh == Spec => []ResultOfThisAttempt
<1>1. QueueInv => ResultOfThisAttempt
  BY DEF QueueInv, WorkerInv
<1> QED BY <1>1, QueueInvariant, PTL
=============================================================================
