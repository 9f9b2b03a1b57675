------------------------- MODULE JobQueueRefinement -------------------------
(***************************************************************************)
(* JobQueue implements JobLifecycle, for every number of apps, runners,    *)
(* jobs, restarts and faults and in both modes: every step of requests,    *)
(* worker, runners, kills and restarts is one of the moves that            *)
(* JobLifecycle allows a row, or none.  From that, no request has two      *)
(* active jobs; and, on the way, no badge is left behind.                  *)
(*                                                                         *)
(* Beyond JobQueueSafety it takes what the worker's program counter says   *)
(* of the job's type, and that in subprocess mode nothing runs but the     *)
(* worker's job.                                                           *)
(***************************************************************************)
EXTENDS JobQueueSafety

\* The two functions that JobQueue substitutes for life and slot
StatusOf == [j \in JobId |-> jobs[j].status]
SlotOf == [j \in JobId |-> [app |-> jobs[j].appid, type |-> jobs[j].type,
                            execute |-> jobs[j].gc_execute]]

\* All that a step does to the statuses is to give j this one
OnlyMoves(j, status) ==
  /\ StatusOf' = [StatusOf EXCEPT ![j] = status]
  /\ SlotOf' = SlotOf

NothingMoves == StatusOf' = StatusOf /\ SlotOf' = SlotOf

LEMMA Fields ==
  ASSUME TypeOK, NEW j \in JobId
  PROVE  /\ StatusOf[j] = jobs[j].status
         /\ SlotOf[j] = [app |-> jobs[j].appid, type |-> jobs[j].type,
                         execute |-> jobs[j].gc_execute]
         /\ jobs[j] \in Row /\ jobs[j].type \in {"prefill", "gc"}
         /\ jobs[j].appid \in App /\ jobs[j].gc_execute \in BOOLEAN
BY DEF TypeOK, Row, StatusOf, SlotOf

-----------------------------------------------------------------------------
(* The moves of JobLifecycle, over these two functions.                    *)

LEMMA Stutters == NothingMoves => UNCHANGED Lifecycle!lifecycleVars
BY DEF StatusOf, SlotOf, NothingMoves, JobId, Lifecycle!lifecycleVars

LEMMA Finishes ==
  ASSUME NEW j \in JobId, NEW s \in TERMINAL_STATUSES,
         StatusOf[j] = "running", OnlyMoves(j, s)
  PROVE  Lifecycle!LifecycleNext
<1>1. Lifecycle!Finish(j, s)
  BY DEF StatusOf, SlotOf, OnlyMoves, JobId, Lifecycle!Finish, Lifecycle!JobId
<1> QED BY <1>1 DEF Lifecycle!LifecycleNext, Lifecycle!JobId, Lifecycle!Terminal,
                    JobId, TERMINAL_STATUSES

LEMMA Parks ==
  ASSUME NEW j \in JobId, StatusOf[j] = "running", SlotOf[j].type = "prefill",
         OnlyMoves(j, "paused")
  PROVE  Lifecycle!LifecycleNext
<1>1. Lifecycle!Park(j)
  BY DEF StatusOf, SlotOf, OnlyMoves, JobId, Lifecycle!Park, Lifecycle!JobId
<1> QED BY <1>1 DEF Lifecycle!LifecycleNext, Lifecycle!JobId, JobId

LEMMA Withdraws ==
  ASSUME NEW j \in JobId, StatusOf[j] \in {"queued", "paused"},
         OnlyMoves(j, "cancelled")
  PROVE  Lifecycle!LifecycleNext
<1>1. Lifecycle!Withdraw(j)
  BY DEF StatusOf, SlotOf, OnlyMoves, JobId, Lifecycle!Withdraw, Lifecycle!JobId
<1> QED BY <1>1 DEF Lifecycle!LifecycleNext, Lifecycle!JobId, JobId

LEMMA Requeues ==
  ASSUME NEW j \in JobId, StatusOf[j] = "paused", OnlyMoves(j, "queued")
  PROVE  Lifecycle!LifecycleNext
<1>1. Lifecycle!Requeue(j)
  BY DEF StatusOf, SlotOf, OnlyMoves, JobId, Lifecycle!Requeue, Lifecycle!JobId
<1> QED BY <1>1 DEF Lifecycle!LifecycleNext, Lifecycle!JobId, JobId

LEMMA Starts ==
  ASSUME NEW j \in JobId, StatusOf[j] = "queued",
         \A k \in JobId : StatusOf[k] = "queued" => j <= k,
         ~QueueMode => \A k \in JobId : StatusOf[k] # "running",
         OnlyMoves(j, "running")
  PROVE  Lifecycle!LifecycleNext
<1>1. Lifecycle!Start(j)
  BY DEF StatusOf, SlotOf, OnlyMoves, JobId, Lifecycle!Start, Lifecycle!JobId
<1> QED BY <1>1 DEF Lifecycle!LifecycleNext, Lifecycle!JobId, JobId

LEMMA Submits ==
  ASSUME TypeOK, NEW j \in JobId, NEW a \in App, NEW type \in {"prefill", "gc"},
         NEW execute \in BOOLEAN, InsertJob(j, a, type, execute),
         ActiveJobs(a, type, execute) = {}
  PROVE  Lifecycle!LifecycleNext
<1> DEFINE s == [app |-> a, type |-> type, execute |-> execute]
<1>1. /\ jobs[j].status = "absent"
      /\ \A k \in JobId : k < j => jobs[k].status # "absent"
      /\ \A k \in JobId : jobs'[k] = IF k = j THEN NewRow(a, type, execute, "queued")
                                              ELSE jobs[k]
  BY DEF InsertJob, IsNextId, UpdateRow, TypeOK
<1>2. \A k \in JobId : StatusOf[k] \in ACTIVE_STATUSES => SlotOf[k] # s
  BY DEF ActiveJobs, StatusOf, SlotOf
<1>3. StatusOf' = [StatusOf EXCEPT ![j] = "queued"]
  <2>1. \A k \in JobId : jobs'[k].status = IF k = j THEN "queued" ELSE jobs[k].status
    BY <1>1 DEF NewRow
  <2> QED BY <2>1 DEF StatusOf
<1>4. SlotOf' = [SlotOf EXCEPT ![j] = s]
  <2>1. /\ jobs'[j].appid = a /\ jobs'[j].type = type
        /\ jobs'[j].gc_execute = execute
    BY <1>1 DEF NewRow
  <2>2. \A k \in JobId : k # j => jobs'[k] = jobs[k]
    BY <1>1
  <2>3. \A k \in JobId : SlotOf'[k] = IF k = j THEN s ELSE SlotOf[k]
    BY <2>1, <2>2 DEF SlotOf
  <2> QED BY <2>3 DEF SlotOf
<1>5. \A k \in JobId : StatusOf[k] = jobs[k].status
  BY DEF StatusOf
<1>6. /\ StatusOf[j] = "absent"
      /\ \A k \in JobId : k < j => StatusOf[k] # "absent"
  BY <1>1, <1>5
<1>7. s \in Lifecycle!Slot
  BY DEF Lifecycle!Slot
<1> HIDE DEF s
<1>8. Lifecycle!Submit(j, s)
  BY <1>2, <1>3, <1>4, <1>6 DEF StatusOf, SlotOf, ACTIVE_STATUSES, JobId,
     Lifecycle!Submit, Lifecycle!Active, Lifecycle!JobId
<1> QED BY <1>7, <1>8 DEF Lifecycle!LifecycleNext, Lifecycle!JobId, JobId

LEMMA FailsOrphans ==
  ASSUME TypeOK, ApiStart
  PROVE  Lifecycle!LifecycleNext
<1>1. \A j \in JobId : jobs'[j] = IF j \in StaleJobs
                                  THEN [jobs[j] EXCEPT !.status = "error"] ELSE jobs[j]
  BY DEF ApiStart
<1>2. StatusOf' = [j \in JobId |-> IF j \in StaleJobs THEN "error" ELSE StatusOf[j]]
  <2>1. \A j \in JobId : jobs[j] \in Row
    BY DEF TypeOK
  <2> QED BY <1>1, <2>1 DEF StatusOf, Row
<1>3. SlotOf' = SlotOf
  <2>1. \A j \in JobId : jobs[j] \in Row
    BY DEF TypeOK
  <2> QED BY <1>1, <2>1 DEF SlotOf, Row
<1>4. StaleJobs \subseteq JobId /\ \A j \in StaleJobs : StatusOf[j] = "running"
  BY DEF StaleJobs, Running, StatusOf
<1>5. PICK orphans \in SUBSET JobId : orphans = StaleJobs
  BY <1>4
<1>6. Lifecycle!FailOrphans(orphans)
  BY <1>2, <1>3, <1>4, <1>5 DEF StatusOf, SlotOf, JobId, Lifecycle!FailOrphans,
     Lifecycle!JobId
<1> QED BY <1>5, <1>6 DEF Lifecycle!LifecycleNext, Lifecycle!JobId, JobId

-----------------------------------------------------------------------------
(* What the worker's program counter says.                                 *)

PrefillPC == {"claimed", "started", "exec", "wait", "result", "stopped",
              "filled", "closing", "failing"}

OnlyWorkersJobRuns ==
  ~QueueMode /\ api # "down" =>
    \A j \in JobId : jobs[j].status = "running" => j = worker.job

TaskInv ==
  /\ worker.pc \in {"off", "loop"} => worker.job = NoJob
  /\ worker.pc \in {"gc", "gc_end"} => jobs[worker.job].type = "gc"
  /\ worker.pc \in PrefillPC => jobs[worker.job].type = "prefill"
  /\ worker.pc = "wait" => QueueMode
  /\ api = "down" => worker.pc = "off"
  /\ OnlyWorkersJobRuns

\* No job of another type, and none that starts
NoneStarts ==
  \A j \in JobId :
    /\ jobs[j].status # "absent" => jobs'[j].type = jobs[j].type
    /\ jobs'[j].status = "running" => jobs[j].status = "running"

\* A step that writes at most one row, and keeps its type
LEMMA RowStartsNothing ==
  ASSUME TypeOK, NEW j \in JobId, NEW row \in Row, UpdateRow(j, row),
         row.type = jobs[j].type \/ jobs[j].status = "absent",
         row.status = "running" => jobs[j].status = "running"
  PROVE  NoneStarts
<1>1. \A k \in JobId : jobs'[k] = IF k = j THEN row ELSE jobs[k]
  BY DEF UpdateRow, TypeOK
<1> QED BY <1>1 DEF NoneStarts

LEMMA InsertStartsNothing ==
  ASSUME TypeOK, NEW j \in JobId, NEW a \in App, NEW type \in {"prefill", "gc"},
         NEW execute \in BOOLEAN, InsertJob(j, a, type, execute)
  PROVE  NoneStarts
<1>1. NewRow(a, type, execute, "queued") \in Row
  BY RowsAreTyped DEF JobStatus, ACTIVE_STATUSES
<1>2. NewRow(a, type, execute, "queued").status = "queued"
  BY DEF NewRow
<1>3. jobs[j].status = "absent" /\ UpdateRow(j, NewRow(a, type, execute, "queued"))
  BY DEF InsertJob, IsNextId
<1> QED BY <1>1, <1>2, <1>3, RowStartsNothing

LEMMA NothingStarts ==
  ASSUME NothingMoves
  PROVE  NoneStarts
<1> SUFFICES ASSUME NEW j \in JobId
             PROVE  jobs'[j].type = jobs[j].type /\ jobs'[j].status = jobs[j].status
  BY DEF NoneStarts
<1>1. StatusOf'[j] = StatusOf[j] /\ SlotOf'[j].type = SlotOf[j].type
  BY DEF NothingMoves
<1>2. StatusOf'[j] = jobs'[j].status /\ SlotOf'[j].type = jobs'[j].type
  BY DEF StatusOf, SlotOf
<1>3. StatusOf[j] = jobs[j].status /\ SlotOf[j].type = jobs[j].type
  BY DEF StatusOf, SlotOf
<1> QED BY <1>1, <1>2, <1>3

\* A step of somebody else
LEMMA TaskKeep ==
  ASSUME TypeInv, QueueInv, TaskInv, NoneStarts, UNCHANGED <<worker, api>>
  PROVE  TaskInv'
<1>1. worker.job # NoJob => /\ worker.job \in JobId
                            /\ jobs[worker.job].status = "running"
  BY DEF TypeInv, TypeOK, QueueInv, WorkerInv, WorkerOwnsItsJob
<1>2. worker.pc \notin {"off", "loop"} => worker.job \in JobId
  BY DEF TypeInv, WorkerHasJob
<1>3. \A k \in JobId : k # NoJob
  BY DEF JobId, NoJob
<1>4. worker.pc \notin {"off", "loop"} => jobs'[worker.job].type = jobs[worker.job].type
  BY <1>1, <1>2, <1>3 DEF NoneStarts
<1>5. OnlyWorkersJobRuns'
  BY DEF TaskInv, OnlyWorkersJobRuns, NoneStarts
<1> QED BY <1>4, <1>5 DEF TaskInv, PrefillPC

\* The worker goes on with its prefill
LEMMA TaskGoesOn ==
  ASSUME TypeInv, QueueInv, TaskInv, NoneStarts, UNCHANGED api,
         worker.pc \in PrefillPC, worker'.pc \in PrefillPC,
         worker'.job = worker.job, worker'.pc = "wait" => QueueMode
  PROVE  TaskInv'
<1>1. worker.job \in JobId /\ jobs[worker.job].status = "running"
  BY DEF TypeInv, TypeOK, QueueInv, WorkerInv, WorkerOwnsItsJob, WorkerHasJob,
     PrefillPC, JobId, NoJob
<1>2. jobs'[worker.job].type = "prefill"
  BY <1>1 DEF NoneStarts, TaskInv
<1>3. OnlyWorkersJobRuns'
  BY DEF TaskInv, OnlyWorkersJobRuns, NoneStarts
<1> QED BY <1>2, <1>3 DEF TaskInv, PrefillPC

\* The worker lets go of its job, which no longer runs
LEMMA TaskEnds ==
  ASSUME TypeInv, QueueInv, TaskInv, NoneStarts, UNCHANGED api, BackToLoop,
         worker.job \in JobId, jobs'[worker.job].status # "running",
         worker.pc # "off"
  PROVE  TaskInv'
<1>1. worker'.pc = "loop" /\ worker'.job = NoJob
  BY DEF BackToLoop
<1>2. OnlyWorkersJobRuns'
  BY DEF TaskInv, OnlyWorkersJobRuns, NoneStarts
<1> QED BY <1>1, <1>2 DEF TaskInv, PrefillPC

-----------------------------------------------------------------------------
(* The badges.                                                             *)

ClosingPC == {"stopped", "filled", "closing", "failing"}

\* No badge without a run, whether or not anybody can see it, and none on the
\* app of a job whose last commit is due
BadgeInv ==
  /\ \A a \in App : apps[a] = "running" =>
       \E j \in JobId : /\ jobs[j].status = "running"
                        /\ jobs[j].appid = a /\ jobs[j].type = "prefill"
  /\ worker.pc \in ClosingPC => apps[jobs[worker.job].appid] # "running"

\* No running job ends or becomes another one
NoneStops ==
  \A j \in JobId : jobs[j].status = "running" =>
    /\ jobs'[j].status = "running" /\ jobs'[j].type = jobs[j].type
    /\ jobs'[j].appid = jobs[j].appid

NoNewBadge == \A a \in App : apps'[a] = "running" => apps[a] = "running"

LEMMA NothingStops ==
  ASSUME NothingMoves
  PROVE  NoneStops
<1> SUFFICES ASSUME NEW j \in JobId
             PROVE  /\ jobs'[j].type = jobs[j].type
                    /\ jobs'[j].appid = jobs[j].appid
                    /\ jobs'[j].status = jobs[j].status
  BY DEF NoneStops
<1>1. StatusOf'[j] = StatusOf[j] /\ SlotOf'[j] = SlotOf[j]
  BY DEF NothingMoves
<1>2. /\ StatusOf'[j] = jobs'[j].status /\ SlotOf'[j].type = jobs'[j].type
      /\ SlotOf'[j].app = jobs'[j].appid
  BY DEF StatusOf, SlotOf
<1>3. /\ StatusOf[j] = jobs[j].status /\ SlotOf[j].type = jobs[j].type
      /\ SlotOf[j].app = jobs[j].appid
  BY DEF StatusOf, SlotOf
<1> QED BY <1>1, <1>2, <1>3

LEMMA RowStopsNothing ==
  ASSUME TypeOK, NEW j \in JobId, NEW row, UpdateRow(j, row),
         jobs[j].status # "running"
  PROVE  NoneStops
<1>1. \A k \in JobId : jobs'[k] = IF k = j THEN row ELSE jobs[k]
  BY DEF UpdateRow, TypeOK
<1> QED BY <1>1 DEF NoneStops

LEMMA BadgeKeep ==
  ASSUME TypeInv, QueueInv, BadgeInv, NoneStops, NoNewBadge,
         worker'.pc \in ClosingPC =>
           /\ worker'.job = worker.job
           /\ worker.pc \notin {"off", "loop"}
           /\ worker.pc \in ClosingPC \/ apps'[jobs[worker.job].appid] # "running"
  PROVE  BadgeInv'
<1>1. ASSUME NEW a \in App, apps'[a] = "running"
      PROVE  \E j \in JobId : /\ jobs'[j].status = "running"
                              /\ jobs'[j].appid = a /\ jobs'[j].type = "prefill"
  BY <1>1 DEF BadgeInv, NoneStops, NoNewBadge
<1>2. ASSUME worker'.pc \in ClosingPC
      PROVE  apps'[jobs'[worker'.job].appid] # "running"
  <2>1. /\ worker.job \in JobId /\ jobs[worker.job].status = "running"
        /\ jobs[worker.job].appid \in App
    BY <1>2 DEF TypeInv, TypeOK, WorkerHasJob, QueueInv, WorkerInv, Row,
       WorkerOwnsItsJob, JobId, NoJob
  <2>2. jobs'[worker.job].appid = jobs[worker.job].appid
    BY <2>1 DEF NoneStops
  <2> QED BY <1>2, <2>1, <2>2 DEF BadgeInv, NoNewBadge
<1> QED BY <1>1, <1>2 DEF BadgeInv

\* The worker's job ends; its app has no badge
LEMMA BadgeEnds ==
  ASSUME TypeInv, QueueInv, TaskInv, BadgeInv, UNCHANGED apps,
         worker.pc \in ClosingPC \cup {"gc_end"}, worker'.pc \notin ClosingPC,
         NEW row, UpdateRow(worker.job, row)
  PROVE  BadgeInv'
<1>1. worker.job \in JobId
  BY DEF TypeInv, WorkerHasJob, ClosingPC
<1>2. ASSUME NEW a \in App, apps[a] = "running"
      PROVE  \E j \in JobId : /\ jobs'[j].status = "running"
                              /\ jobs'[j].appid = a /\ jobs'[j].type = "prefill"
  <2>1. PICK j \in JobId : /\ jobs[j].status = "running"
                           /\ jobs[j].appid = a /\ jobs[j].type = "prefill"
    BY <1>2 DEF BadgeInv
  <2>2. j # worker.job
    BY <1>2, <2>1 DEF BadgeInv, TaskInv, ClosingPC
  <2>3. jobs'[j] = jobs[j]
    BY <1>1, <2>2 DEF UpdateRow, TypeInv, TypeOK
  <2> QED BY <2>1, <2>3
<1> QED BY <1>2 DEF BadgeInv

-----------------------------------------------------------------------------
(* The steps, group by group.                                              *)

\* All that Lifecycle sees of a row
SameRequest(row, old) ==
  /\ row.appid = old.appid /\ row.type = old.type
  /\ row.gc_execute = old.gc_execute

LEMMA RowMoves ==
  ASSUME TypeOK, NEW j \in JobId, NEW row, UpdateRow(j, row),
         SameRequest(row, jobs[j])
  PROVE  /\ OnlyMoves(j, row.status)
         /\ row.status = jobs[j].status => NothingMoves
<1>1. \A k \in JobId : jobs'[k] = IF k = j THEN row ELSE jobs[k]
  BY DEF UpdateRow, TypeOK
<1>2. SlotOf' = SlotOf
  BY <1>1 DEF SlotOf, SameRequest
<1>3. StatusOf' = [StatusOf EXCEPT ![j] = row.status]
  BY <1>1 DEF StatusOf
<1>4. row.status = jobs[j].status => StatusOf' = StatusOf
  BY <1>1 DEF StatusOf
<1> QED BY <1>2, <1>3, <1>4 DEF OnlyMoves, NothingMoves

LEMMA NoWrite == UNCHANGED jobs => NothingMoves
BY DEF NothingMoves, StatusOf, SlotOf

LEMMA QuietRequests ==
  ASSUME TypeOK, NEW j \in JobId,
         cancel_running(j) \/ request_pause(j) \/ LeaseRunsOut(j) \/ RunnerStalls(j)
  PROVE  NothingMoves
<1>1. jobs[j] \in Row
  BY DEF TypeOK
<1>2. \E request, flag : \/ UpdateRow(j, [jobs[j] EXCEPT !.stop_request = request])
                        \/ UpdateRow(j, [jobs[j] EXCEPT !.lapsed = flag])
  BY DEF cancel_running, request_pause, LeaseRunsOut, RunnerStalls
<1>3. PICK row : /\ UpdateRow(j, row)
                 /\ SameRequest(row, jobs[j]) /\ row.status = jobs[j].status
  BY <1>1, <1>2 DEF SameRequest, Row
<1> QED BY <1>3, RowMoves

LEMMA QuietHandoff ==
  ASSUME TypeInv, handoff_run
  PROVE  NothingMoves
<1>1. worker.job \in JobId /\ jobs[worker.job] \in Row
  BY DEF handoff_run, TypeInv, TypeOK, WorkerHasJob
<1>2. PICK late \in BOOLEAN : UpdateRow(worker.job,
          [jobs[worker.job] EXCEPT !.handoff = jobs[worker.job].attempt,
             !.claimed_by = NoRunner, !.result = NoResult, !.lapsed = late])
  BY DEF handoff_run
<1> DEFINE row == [jobs[worker.job] EXCEPT !.handoff = jobs[worker.job].attempt,
                     !.claimed_by = NoRunner, !.result = NoResult, !.lapsed = late]
<1>3. SameRequest(row, jobs[worker.job]) /\ row.status = jobs[worker.job].status
  BY <1>1 DEF SameRequest, Row
<1>4. UpdateRow(worker.job, row)
  BY <1>2
<1> HIDE DEF row
<1> QED BY <1>1, <1>3, <1>4, RowMoves DEF TypeInv

LEMMA QuietRunners ==
  ASSUME TypeInv, NEW r \in Runner,
         RunnerBoot(r) \/ RunnerStep(r) \/ record_run_heartbeat(r) \/ RunnerGone(r)
  PROVE  NothingMoves
<1>1. CASE UNCHANGED jobs
  BY <1>1, NoWrite
<1>2. ASSUME NEW j \in JobId, claim_run(r, j) PROVE NothingMoves
  <2>1. jobs[j] \in Row /\ UpdateRow(j, [jobs[j] EXCEPT !.claimed_by = r,
                                                       !.lapsed = FALSE])
    BY <1>2 DEF claim_run, TypeInv, TypeOK
  <2> DEFINE row == [jobs[j] EXCEPT !.claimed_by = r, !.lapsed = FALSE]
  <2>2. SameRequest(row, jobs[j]) /\ row.status = jobs[j].status
    BY <2>1 DEF SameRequest, Row
  <2>3. UpdateRow(j, row)
    BY <2>1
  <2> HIDE DEF row
  <2> QED BY <2>2, <2>3, RowMoves DEF TypeInv
<1>3. CASE record_run_heartbeat(r)
  <2>1. /\ runner[r].job \in JobId /\ jobs[runner[r].job] \in Row
        /\ UpdateRow(runner[r].job, [jobs[runner[r].job] EXCEPT !.lapsed = FALSE])
    BY <1>3 DEF record_run_heartbeat, TypeInv, TypeOK, RunnerHasJob
  <2>2. PICK row : /\ UpdateRow(runner[r].job, row)
                   /\ SameRequest(row, jobs[runner[r].job])
                   /\ row.status = jobs[runner[r].job].status
    BY <2>1 DEF SameRequest, Row
  <2> QED BY <2>1, <2>2, RowMoves DEF TypeInv
<1>4. CASE record_run_result(r) /\ Holds(r, runner[r].job)
  <2>1. /\ runner[r].job \in JobId /\ jobs[runner[r].job] \in Row
        /\ UpdateRow(runner[r].job, [jobs[runner[r].job] EXCEPT
                                       !.result = runner[r].result])
    BY <1>4 DEF record_run_result, TypeInv, TypeOK, RunnerHasJob
  <2>2. PICK row : /\ UpdateRow(runner[r].job, row)
                   /\ SameRequest(row, jobs[runner[r].job])
                   /\ row.status = jobs[runner[r].job].status
    BY <2>1 DEF SameRequest, Row
  <2> QED BY <2>1, <2>2, RowMoves DEF TypeInv
<1>5. CASE record_run_result(r) /\ ~Holds(r, runner[r].job)
  BY <1>1, <1>5 DEF record_run_result
<1>6. CASE RunnerBoot(r) \/ RunnerExit(r) \/ RunnerStop(r) \/ RunnerGone(r)
  BY <1>1, <1>6 DEF RunnerBoot, RunnerExit, RunnerStop, RunnerGone
<1> QED BY <1>2, <1>3, <1>4, <1>5, <1>6 DEF RunnerStep

\* One row moves, and not to or from running
LEMMA OneMove ==
  ASSUME NEW j \in JobId, NEW status, OnlyMoves(j, status)
  PROVE  /\ status # "running" => NoneStarts
         /\ jobs[j].status # "running" => NoneStops
         /\ jobs'[j].status = status
<1>1. \A k \in JobId : /\ StatusOf'[k] = IF k = j THEN status ELSE StatusOf[k]
                       /\ SlotOf'[k].type = SlotOf[k].type
                       /\ SlotOf'[k].app = SlotOf[k].app
  BY DEF OnlyMoves, StatusOf
<1>2. \A k \in JobId : /\ StatusOf'[k] = jobs'[k].status
                       /\ SlotOf'[k].type = jobs'[k].type
                       /\ SlotOf'[k].app = jobs'[k].appid
  BY DEF StatusOf, SlotOf
<1>3. \A k \in JobId : /\ StatusOf[k] = jobs[k].status
                       /\ SlotOf[k].type = jobs[k].type
                       /\ SlotOf[k].app = jobs[k].appid
  BY DEF StatusOf, SlotOf
<1>4. \A k \in JobId : /\ jobs'[k].status = IF k = j THEN status ELSE jobs[k].status
                       /\ jobs'[k].type = jobs[k].type
                       /\ jobs'[k].appid = jobs[k].appid
  BY <1>1, <1>2, <1>3
<1> QED BY <1>4 DEF NoneStarts, NoneStops

LEMMA FinishWrites ==
  ASSUME TypeOK, NEW j \in JobId, NEW status, finish_job(j, status)
  PROVE  OnlyMoves(j, status)
<1>1. jobs[j] \in Row
  BY DEF TypeOK
<1> DEFINE row == [jobs[j] EXCEPT !.status = status, !.stop_request = "null"]
<1>2. SameRequest(row, jobs[j]) /\ row.status = status
  BY <1>1 DEF SameRequest, Row
<1>3. UpdateRow(j, row)
  BY DEF finish_job
<1> HIDE DEF row
<1> QED BY <1>2, <1>3, RowMoves

\* One row moves between "queued", "paused" and what a request asks for
LEMMA RequestsMove ==
  ASSUME TypeInv, Requests
  PROVE  /\ Lifecycle!LifecycleNext \/ NothingMoves
         /\ NoneStarts /\ NoneStops /\ NoNewBadge
<1> USE DEF TypeInv
<1>1. ASSUME NothingMoves, NoNewBadge
      PROVE  /\ NothingMoves /\ NoneStarts /\ NoneStops /\ NoNewBadge
  BY <1>1, NothingStarts, NothingStops
<1>2. ASSUME NEW j \in JobId, NEW a \in App, NEW type \in {"prefill", "gc"},
             NEW execute \in BOOLEAN, ActiveJobs(a, type, execute) = {},
             InsertJob(j, a, type, execute)
      PROVE  Lifecycle!LifecycleNext /\ NoneStarts /\ NoneStops
  <2>1. Lifecycle!LifecycleNext
    BY <1>2, Submits
  <2>2. NoneStarts
    BY <1>2, InsertStartsNothing
  <2>3. NoneStops
    BY <1>2, RowStopsNothing DEF InsertJob, IsNextId
  <2> QED BY <2>1, <2>2, <2>3
<1>3. ASSUME NEW a \in App, enqueue_prefill(a)
      PROVE  /\ Lifecycle!LifecycleNext \/ NothingMoves
             /\ NoneStarts /\ NoneStops /\ NoNewBadge
  <2>1. NoNewBadge
    BY <1>3 DEF enqueue_prefill, ensure_app_row, NoNewBadge, TypeOK
  <2>2. CASE UNCHANGED jobs
    BY <1>1, <2>1, <2>2, NoWrite
  <2>3. CASE /\ ActiveJobs(a, "prefill", FALSE) = {}
             /\ \E j \in JobId : InsertJob(j, a, "prefill", FALSE)
    BY <1>2, <2>1, <2>3
  <2> QED BY <1>3, <2>2, <2>3 DEF enqueue_prefill
<1>4. ASSUME NEW a \in App, NEW execute \in BOOLEAN, enqueue_gc(a, execute)
      PROVE  /\ Lifecycle!LifecycleNext
             /\ NoneStarts /\ NoneStops /\ NoNewBadge
  <2>1. NoNewBadge
    BY <1>4 DEF enqueue_gc, NoNewBadge
  <2> QED BY <1>2, <1>4, <2>1 DEF enqueue_gc
<1>5. ASSUME NEW a \in App, delete_check(a) \/ delete_reset(a)
      PROVE  NothingMoves /\ NoneStarts /\ NoneStops /\ NoNewBadge
  <2>1. UNCHANGED jobs /\ NoNewBadge
    BY <1>5 DEF delete_check, delete_reset, NoNewBadge, TypeOK
  <2> QED BY <1>1, <2>1, NoWrite
<1>6. ASSUME NEW j \in JobId, cancel_now(j)
      PROVE  /\ Lifecycle!LifecycleNext
             /\ NoneStarts /\ NoneStops /\ NoNewBadge
  <2>1. OnlyMoves(j, "cancelled") /\ jobs[j].status \in {"queued", "paused"}
    BY <1>6, FinishWrites DEF cancel_now
  <2>2. StatusOf[j] \in {"queued", "paused"}
    BY <2>1 DEF StatusOf
  <2>3. Lifecycle!LifecycleNext
    BY <2>1, <2>2, Withdraws
  <2>4. NoneStarts /\ NoneStops
    BY <2>1, OneMove
  <2>5. NoNewBadge
    BY <1>6 DEF cancel_now, NoNewBadge, TypeOK
  <2> QED BY <2>3, <2>4, <2>5
<1>7. ASSUME NEW j \in JobId, resume_job(j)
      PROVE  /\ Lifecycle!LifecycleNext
             /\ NoneStarts /\ NoneStops /\ NoNewBadge
  <2> DEFINE row == [jobs[j] EXCEPT !.status = "queued", !.stop_request = "null"]
  <2>1. jobs[j] \in Row /\ jobs[j].status = "paused"
    BY <1>7 DEF resume_job, TypeOK
  <2>2. SameRequest(row, jobs[j]) /\ row.status = "queued"
    BY <2>1 DEF SameRequest, Row
  <2>3. UpdateRow(j, row)
    BY <1>7 DEF resume_job
  <2> HIDE DEF row
  <2>4. OnlyMoves(j, "queued")
    BY <2>2, <2>3, RowMoves
  <2>5. Lifecycle!LifecycleNext
    <3>1. StatusOf[j] = "paused"
      BY <2>1 DEF StatusOf
    <3> QED BY <2>4, <3>1, Requeues
  <2>6. NoneStarts /\ NoneStops
    BY <2>1, <2>4, OneMove
  <2>7. NoNewBadge
    BY <1>7 DEF resume_job, NoNewBadge
  <2> QED BY <2>5, <2>6, <2>7
<1>8. ASSUME NEW j \in JobId, cancel_running(j) \/ request_pause(j)
      PROVE  NothingMoves /\ NoneStarts /\ NoneStops /\ NoNewBadge
  <2>1. NothingMoves
    BY <1>8, QuietRequests
  <2>2. NoNewBadge
    BY <1>8 DEF cancel_running, request_pause, NoNewBadge
  <2> QED BY <1>1, <2>1, <2>2
<1> QED BY <1>3, <1>4, <1>5, <1>6, <1>7, <1>8 DEF Requests

Invariant == TypeInv /\ QueueInv /\ TaskInv /\ BadgeInv

\* The worker takes a job
LEMMA TakesMove ==
  ASSUME Invariant, NEW j \in JobId, WorkerReattach(j) \/ claim_next_job(j)
  PROVE  /\ Lifecycle!LifecycleNext \/ NothingMoves
         /\ TaskInv' /\ BadgeInv'
<1> USE DEF Invariant
<1>1. CASE WorkerReattach(j)
  <2>1. /\ NothingMoves /\ NoneStops /\ NoNewBadge
        /\ worker'.pc = "wait" /\ worker'.job = j /\ QueueMode
        /\ jobs'[j].type = "prefill" /\ api' = "up"
    BY <1>1, NoWrite, NothingStops DEF WorkerReattach, Oldest, ActiveRuns, NoNewBadge
  <2>2. TaskInv'
    BY <2>1 DEF TaskInv, PrefillPC, OnlyWorkersJobRuns
  <2>3. BadgeInv'
    BY <2>1, BadgeKeep DEF ClosingPC
  <2> QED BY <2>1, <2>2, <2>3
<1>2. CASE claim_next_job(j)
  <2> DEFINE row == [jobs[j] EXCEPT !.status = "running",
                                    !.attempt = jobs[j].attempt + 1]
  <2>1. /\ jobs[j] \in Row /\ jobs[j].status = "queued" /\ worker.pc = "loop"
        /\ \A k \in JobId : jobs[k].status = "queued" => j <= k
        /\ UNCHANGED <<apps, api>> /\ api = "up"
    BY <1>2 DEF claim_next_job, Oldest, Queued, TypeInv, TypeOK
  <2>2. SameRequest(row, jobs[j]) /\ row.status = "running"
    BY <2>1 DEF SameRequest, Row
  <2>3. UpdateRow(j, row)
    BY <1>2 DEF claim_next_job
  <2> HIDE DEF row
  <2>4. OnlyMoves(j, "running")
    BY <2>2, <2>3, RowMoves DEF TypeInv
  <2>5. ~QueueMode => \A k \in JobId : jobs[k].status # "running"
    BY <2>1 DEF TaskInv, OnlyWorkersJobRuns, JobId, NoJob
  <2>6. Lifecycle!LifecycleNext
    <3>1. \A k \in JobId : StatusOf[k] = jobs[k].status
      BY DEF StatusOf
    <3> QED BY <2>1, <2>4, <2>5, <3>1, Starts
  <2>7. /\ worker'.job = j
        /\ worker'.pc = IF jobs[j].type = "gc" THEN "gc" ELSE "claimed"
    BY <1>2 DEF claim_next_job
  <2>8. \A k \in JobId : jobs'[k] = IF k = j THEN row ELSE jobs[k]
    BY <2>3 DEF UpdateRow, TypeInv, TypeOK
  <2>9. TaskInv'
    <3>1. jobs'[j].type = jobs[j].type /\ jobs[j].type \in {"prefill", "gc"}
      BY <2>1, <2>2, <2>8 DEF SameRequest, Row
    <3>2. OnlyWorkersJobRuns'
      BY <2>5, <2>7, <2>8 DEF OnlyWorkersJobRuns
    <3> QED BY <2>1, <2>7, <3>1, <3>2 DEF TaskInv, PrefillPC
  <2>10. NoneStops /\ NoNewBadge
    BY <2>1, <2>4, OneMove DEF NoNewBadge
  <2>11. BadgeInv'
    BY <2>7, <2>10, BadgeKeep DEF ClosingPC
  <2> QED BY <2>6, <2>9, <2>11
<1> QED BY <1>1, <1>2

\* The worker goes on with a prefill
LEMMA GoesOnMoves ==
  ASSUME Invariant,
         \/ WorkerStart \/ WorkerSpawn \/ handoff_run
         \/ ExecExit \/ ExecStop \/ AwaitResult \/ AwaitLost
         \/ FinalizeStopped \/ FinalizeFailed \/ FinalizeSuccess
         \/ MaybeQueueAutoGc \/ WorkerException
  PROVE  /\ Lifecycle!LifecycleNext \/ NothingMoves
         /\ TaskInv' /\ BadgeInv'
<1> USE DEF Invariant
<1>1. /\ worker.pc \in PrefillPC /\ worker'.pc \in PrefillPC
      /\ worker'.job = worker.job /\ UNCHANGED api
      /\ worker'.pc = "wait" => QueueMode
  <2>1. CASE WorkerStart \/ WorkerSpawn \/ handoff_run \/ WorkerException
    BY <2>1 DEF WorkerStart, WorkerSpawn, handoff_run, WorkerException, GoTo,
       PrefillPC, TypeInv, TypeOK
  <2>2. CASE ExecExit \/ ExecStop \/ AwaitResult \/ AwaitLost
    BY <2>2 DEF ExecExit, ExecStop, AwaitResult, AwaitLost, PrefillPC, TypeInv,
       TypeOK
  <2>3. CASE FinalizeStopped \/ FinalizeFailed \/ FinalizeSuccess
             \/ MaybeQueueAutoGc
    BY <2>3 DEF FinalizeStopped, FinalizeFailed, FinalizeSuccess,
       MaybeQueueAutoGc, GoTo, PrefillPC, TypeInv, TypeOK
  <2> QED BY <2>1, <2>2, <2>3
<1>2. /\ worker.job \in JobId /\ jobs[worker.job] \in Row
      /\ jobs[worker.job].status = "running"
      /\ jobs[worker.job].type = "prefill"
      /\ jobs[worker.job].appid \in App
  BY <1>1 DEF TypeInv, TypeOK, WorkerHasJob, PrefillPC, TaskInv, QueueInv,
     WorkerInv, WorkerOwnsItsJob, JobId, NoJob, Row
<1>3. /\ Lifecycle!LifecycleNext \/ NothingMoves
      /\ NoneStarts /\ NoneStops
  <2>1. CASE UNCHANGED jobs
    BY <2>1, NoWrite, NothingStarts, NothingStops
  <2>2. CASE handoff_run
    BY <2>2, QuietHandoff, NothingStarts, NothingStops
  <2>3. CASE MaybeQueueAutoGc /\ ~UNCHANGED jobs
    <3>1. PICK j \in JobId, execute \in BOOLEAN :
            /\ InsertJob(j, jobs[worker.job].appid, "gc", execute)
            /\ ActiveJobs(jobs[worker.job].appid, "gc", execute) = {}
      BY <2>3 DEF MaybeQueueAutoGc
    <3>2. Lifecycle!LifecycleNext
      BY <1>2, <3>1, Submits DEF TypeInv
    <3>3. NoneStarts
      BY <1>2, <3>1, InsertStartsNothing DEF TypeInv
    <3>4. NoneStops
      BY <3>1, RowStopsNothing DEF InsertJob, IsNextId, TypeInv
    <3> QED BY <3>2, <3>3, <3>4
  <2>4. \/ UNCHANGED jobs \/ handoff_run \/ MaybeQueueAutoGc
    BY DEF WorkerStart, WorkerSpawn, ExecExit, ExecStop, AwaitResult, AwaitLost,
       FinalizeStopped, FinalizeFailed, FinalizeSuccess, WorkerException
  <2> QED BY <2>1, <2>2, <2>3, <2>4
<1>4. TaskInv'
  BY <1>1, <1>3, TaskGoesOn
<1>5. BadgeInv'
  <2>1. CASE WorkerStart
    <3>1. /\ apps' = [apps EXCEPT ![jobs[worker.job].appid] = "running"]
          /\ worker'.pc = "started" /\ UNCHANGED jobs
      BY <2>1 DEF WorkerStart, GoTo, TypeInv, TypeOK
    <3>2. \A a \in App : apps'[a] = "running" =>
            a = jobs[worker.job].appid \/ apps[a] = "running"
      BY <3>1 DEF TypeInv, TypeOK
    <3> QED BY <1>2, <3>1, <3>2 DEF BadgeInv, ClosingPC
  <2>2. CASE ~WorkerStart
    <3>1. NoNewBadge
      <4>1. CASE UNCHANGED apps
        BY <4>1 DEF NoNewBadge
      <4>2. CASE FinalizeStopped
        BY <4>2 DEF FinalizeStopped, NoNewBadge, TypeInv, TypeOK
      <4>3. CASE FinalizeFailed \/ FinalizeSuccess \/ WorkerException
        BY <4>3 DEF FinalizeFailed, FinalizeSuccess, WorkerException,
           NoNewBadge, TypeInv, TypeOK
      <4> QED BY <2>2, <4>1, <4>2, <4>3 DEF WorkerSpawn, handoff_run, ExecExit,
              ExecStop, AwaitResult, AwaitLost, MaybeQueueAutoGc
    <3>2. worker'.pc \in ClosingPC =>
            \/ worker.pc \in ClosingPC
            \/ apps'[jobs[worker.job].appid] # "running"
      <4>1. CASE WorkerSpawn \/ handoff_run \/ ExecExit \/ ExecStop
                 \/ AwaitResult \/ AwaitLost
        BY <4>1 DEF WorkerSpawn, handoff_run, ExecExit, ExecStop, AwaitResult,
           AwaitLost, GoTo, ClosingPC, TypeInv, TypeOK
      <4>2. CASE FinalizeStopped
        BY <1>2, <4>2 DEF FinalizeStopped, TypeInv, TypeOK
      <4>3. CASE FinalizeFailed \/ FinalizeSuccess \/ WorkerException
        BY <1>2, <4>3 DEF FinalizeFailed, FinalizeSuccess, WorkerException,
           TypeInv, TypeOK
      <4>4. CASE MaybeQueueAutoGc
        BY <4>4 DEF MaybeQueueAutoGc, ClosingPC
      <4> QED BY <2>2, <4>1, <4>2, <4>3, <4>4
    <3>3. worker.pc \notin {"off", "loop"}
      BY <1>1 DEF PrefillPC
    <3> QED BY <1>1, <1>3, <3>1, <3>2, <3>3, BadgeKeep
  <2> QED BY <2>1, <2>2
<1> QED BY <1>3, <1>4, <1>5

\* The worker is done with its job
LEMMA EndsMove ==
  ASSUME Invariant,
         \/ park_paused \/ FinishCancelled \/ FinishDone \/ FinishError
         \/ GcFinish
  PROVE  Lifecycle!LifecycleNext /\ TaskInv' /\ BadgeInv'
<1> USE DEF Invariant
<1>1. /\ worker.pc \in ClosingPC \cup {"gc_end"} /\ worker.pc # "off"
      /\ BackToLoop /\ UNCHANGED <<apps, api>>
  BY DEF park_paused, FinishCancelled, FinishDone, FinishError, GcFinish, ClosingPC
<1>2. /\ worker.job \in JobId /\ jobs[worker.job] \in Row
      /\ jobs[worker.job].status = "running"
  BY <1>1 DEF TypeInv, TypeOK, WorkerHasJob, ClosingPC, QueueInv, WorkerInv,
     WorkerOwnsItsJob, JobId, NoJob
<1>3. /\ StatusOf[worker.job] = "running"
      /\ SlotOf[worker.job].type = jobs[worker.job].type
  BY <1>2 DEF StatusOf, SlotOf
<1>4. \E status : /\ OnlyMoves(worker.job, status) /\ status # "running"
                  /\ Lifecycle!LifecycleNext
  <2>1. CASE park_paused
    <3> DEFINE row == [jobs[worker.job] EXCEPT !.status = "paused",
                                               !.stop_request = "null"]
    <3>1. SameRequest(row, jobs[worker.job]) /\ row.status = "paused"
      BY <1>2 DEF SameRequest, Row
    <3>2. UpdateRow(worker.job, row) /\ worker.pc = "stopped"
      BY <1>2, <2>1 DEF park_paused
    <3> HIDE DEF row
    <3>3. OnlyMoves(worker.job, "paused")
      BY <1>2, <3>1, <3>2, RowMoves DEF TypeInv
    <3>4. SlotOf[worker.job].type = "prefill"
      BY <1>3, <3>2 DEF TaskInv, PrefillPC
    <3>5. Lifecycle!LifecycleNext
      BY <1>2, <1>3, <3>3, <3>4, Parks
    <3> QED BY <3>3, <3>5
  <2>2. CASE ~park_paused
    <3>1. PICK status \in TERMINAL_STATUSES : finish_job(worker.job, status)
      BY <2>2 DEF FinishCancelled, FinishDone, FinishError, GcFinish,
         TERMINAL_STATUSES
    <3>2. OnlyMoves(worker.job, status)
      BY <1>2, <3>1, FinishWrites DEF TypeInv
    <3>3. Lifecycle!LifecycleNext
      BY <1>2, <1>3, <3>2, Finishes
    <3>4. status # "running"
      BY DEF TERMINAL_STATUSES
    <3> QED BY <3>2, <3>3, <3>4
  <2> QED BY <2>1, <2>2
<1>5. NoneStarts /\ jobs'[worker.job].status # "running"
  BY <1>2, <1>4, OneMove
<1>6. TaskInv'
  BY <1>1, <1>2, <1>5, TaskEnds
<1>7. BadgeInv'
  <2>1. \E row : UpdateRow(worker.job, row)
    BY <1>2 DEF park_paused, FinishCancelled, FinishDone, FinishError, GcFinish,
       finish_job
  <2>2. worker'.pc \notin ClosingPC
    BY <1>1 DEF BackToLoop, ClosingPC
  <2> QED BY <1>1, <2>1, <2>2, BadgeEnds
<1> QED BY <1>4, <1>6, <1>7

LEMMA GcMoves ==
  ASSUME Invariant, GcStop \/ GcRunEnds
  PROVE  NothingMoves /\ TaskInv' /\ BadgeInv'
<1> USE DEF Invariant
<1>1. /\ worker.pc = "gc" /\ worker'.pc = "gc_end" /\ worker'.job = worker.job
      /\ UNCHANGED <<jobs, apps, api>>
  BY DEF GcStop, GcRunEnds, TypeInv, TypeOK
<1>2. NothingMoves /\ NoneStops /\ NoNewBadge
  BY <1>1, NoWrite, NothingStops DEF NoNewBadge
<1>3. TaskInv'
  BY <1>1 DEF TaskInv, PrefillPC, OnlyWorkersJobRuns
<1>4. BadgeInv'
  BY <1>1, <1>2, BadgeKeep DEF ClosingPC
<1> QED BY <1>2, <1>3, <1>4

\* Steps of others, that leave the worker where it is
LEMMA OthersMove ==
  ASSUME Invariant,
         \/ Requests
         \/ \E r \in Runner : \/ RunnerBoot(r) \/ RunnerStep(r)
                              \/ record_run_heartbeat(r) \/ RunnerGone(r)
         \/ \E j \in JobId : LeaseRunsOut(j) \/ RunnerStalls(j)
  PROVE  /\ Lifecycle!LifecycleNext \/ NothingMoves
         /\ TaskInv' /\ BadgeInv'
<1> USE DEF Invariant
<1>1. UNCHANGED <<worker, api>>
  BY DEF Requests, enqueue_prefill, enqueue_gc, delete_check, delete_reset,
     cancel_now, cancel_running, request_pause, resume_job, RunnerBoot,
     RunnerStep, claim_run, RunnerExit, RunnerStop, record_run_result,
     record_run_heartbeat, RunnerGone, LeaseRunsOut, RunnerStalls
<1>2. /\ Lifecycle!LifecycleNext \/ NothingMoves
      /\ NoneStarts /\ NoneStops /\ NoNewBadge
  <2>1. CASE Requests
    BY <2>1, RequestsMove
  <2>2. CASE ~Requests
    <3>1. NothingMoves
      BY <2>2, QuietRunners, QuietRequests DEF TypeInv
    <3>2. NoNewBadge
      BY <2>2 DEF RunnerBoot, RunnerStep, claim_run, RunnerExit, RunnerStop,
         record_run_result, record_run_heartbeat, RunnerGone, LeaseRunsOut,
         RunnerStalls, NoNewBadge
    <3> QED BY <3>1, <3>2, NothingStarts, NothingStops
  <2> QED BY <2>1, <2>2
<1>3. TaskInv'
  BY <1>1, <1>2, TaskKeep
<1>4. worker.pc \in ClosingPC => worker.pc \notin {"off", "loop"}
  BY DEF ClosingPC
<1>5. BadgeInv'
  BY <1>1, <1>2, <1>4, BadgeKeep
<1> QED BY <1>2, <1>3, <1>5

LEMMA RestartsMove ==
  ASSUME Invariant, ApiStart \/ ApiStop \/ ApiStopped \/ ApiKill
  PROVE  /\ Lifecycle!LifecycleNext \/ NothingMoves
         /\ TaskInv' /\ BadgeInv'
<1> USE DEF Invariant
<1>1. CASE ApiStart
  <2>1. Lifecycle!LifecycleNext
    BY <1>1, FailsOrphans DEF TypeInv
  <2>2. /\ worker'.pc = "loop" /\ worker'.job = NoJob /\ api' = "up"
    BY <1>1 DEF ApiStart, BackToLoop
  <2>3. \A j \in JobId :
          /\ j \in StaleJobs => jobs'[j].status = "error"
          /\ j \notin StaleJobs => jobs'[j] = jobs[j]
    BY <1>1 DEF ApiStart, TypeInv, TypeOK, Row
  <2>4. OnlyWorkersJobRuns'
    BY <2>3 DEF OnlyWorkersJobRuns, StaleJobs, Running
  <2>5. TaskInv'
    BY <2>2, <2>4 DEF TaskInv, PrefillPC
  <2>6. ASSUME NEW a \in App, apps'[a] = "running"
        PROVE  \E j \in JobId : /\ jobs'[j].status = "running"
                                /\ jobs'[j].appid = a /\ jobs'[j].type = "prefill"
    <3>1. apps[a] = "running" /\ \A j \in StaleJobs : jobs[j].appid # a
      BY <1>1, <2>6 DEF ApiStart
    <3> QED BY <2>3, <3>1 DEF BadgeInv
  <2>7. BadgeInv'
    BY <2>2, <2>6 DEF BadgeInv, ClosingPC
  <2> QED BY <2>1, <2>5, <2>7
<1>2. CASE ApiStop \/ ApiStopped \/ ApiKill
  <2>1. /\ UNCHANGED <<jobs, apps>>
        /\ \/ UNCHANGED worker /\ api = "up" /\ api' = "stopping"
           \/ worker'.pc = "off" /\ worker'.job = NoJob /\ api' = "down"
    BY <1>2 DEF ApiStop, ApiStopped, ApiKill
  <2>2. NothingMoves /\ NoneStarts /\ NoneStops /\ NoNewBadge
    BY <2>1, NoWrite, NothingStarts, NothingStops DEF NoNewBadge
  <2>3. TaskInv'
    BY <2>1 DEF TaskInv, PrefillPC, OnlyWorkersJobRuns
  <2>4. worker'.pc \in ClosingPC => UNCHANGED worker /\ worker.pc \notin {"off", "loop"}
    BY <2>1 DEF ClosingPC
  <2>5. BadgeInv'
    BY <2>2, <2>4, BadgeKeep
  <2> QED BY <2>2, <2>3, <2>5
<1> QED BY <1>1, <1>2

-----------------------------------------------------------------------------
LEMMA EveryStep ==
  ASSUME Invariant, [Next]_vars
  PROVE  /\ Lifecycle!LifecycleNext \/ NothingMoves
         /\ Invariant'
<1>1. /\ Lifecycle!LifecycleNext \/ NothingMoves
      /\ TaskInv' /\ BadgeInv'
  <2>1. CASE UNCHANGED vars
    BY <2>1, NoWrite DEF vars, Invariant, TaskInv, BadgeInv, OnlyWorkersJobRuns
  <2>2. CASE Next
    BY <2>2, TakesMove, GoesOnMoves, EndsMove, GcMoves, OthersMove, RestartsMove
       DEF Next, WorkerStep, Faults
  <2> QED BY <2>1, <2>2
<1>2. TypeInv' /\ QueueInv'
  <2>1. TypeInv'
    BY TypeInvStep DEF Invariant
  <2>2. CASE UNCHANGED vars
    BY <2>1, <2>2, KeepStep DEF vars, Keeps, SameRun, Invariant
  <2>3. CASE Next
    BY <2>1, <2>3, RequestsKeepQueueInv, WorkerStepKeepsQueueInv, RunnersKeepQueueInv,
       EnvironmentKeepsQueueInv DEF Next, Faults, Invariant
  <2> QED BY <2>1, <2>2, <2>3
<1> QED BY <1>1, <1>2 DEF Invariant

LEMMA InvariantHolds == Spec => []Invariant
<1>1. Init => Invariant
  <2> SUFFICES ASSUME Init PROVE Invariant
    OBVIOUS
  <2>1. TypeInv
    BY TypeInvInit
  <2>2. \A j \in JobId : jobs[j].status = "absent"
    BY DEF Init, NewRow
  <2>3. QueueInv
    BY <2>1, <2>2 DEF Init, QueueInv, WorkerInv, RunnersHoldTheirRow,
       WaitingRowsAreSettled, WorkerOwnsItsJob, WorkerRowIsSettled,
       AwaitedResultIsFresh, ResultOfThisAttempt, Busy
  <2>4. TaskInv /\ BadgeInv
    BY <2>2 DEF Init, TaskInv, BadgeInv, PrefillPC, ClosingPC, OnlyWorkersJobRuns
  <2> QED BY <2>1, <2>3, <2>4 DEF Invariant
<1>2. Invariant /\ [Next]_vars => Invariant'
  BY EveryStep
<1> QED BY <1>1, <1>2, PTL DEF Spec

\* Nothing that requests, worker, runners, kills and restarts do to the jobs
\* table goes beyond what JobLifecycle allows.
THEOREM LifecycleIsImplemented == Spec => ImplementsLifecycle
<1>1. Init => Lifecycle!LifecycleInit
  <2> SUFFICES ASSUME Init PROVE Lifecycle!LifecycleInit
    OBVIOUS
  <2>1. TypeOK
    BY TypeInvInit DEF TypeInv
  <2>2. \A j \in JobId : jobs[j].status = "absent"
    BY DEF Init, NewRow
  <2>3. StatusOf = [j \in JobId |-> "absent"]
    BY <2>2 DEF StatusOf
  <2>4. SlotOf \in [JobId -> Lifecycle!Slot]
    <3>1. \A j \in JobId : SlotOf[j] \in Lifecycle!Slot
      <4> SUFFICES ASSUME NEW j \in JobId PROVE SlotOf[j] \in Lifecycle!Slot
        OBVIOUS
      <4>1. /\ SlotOf[j] = [app |-> jobs[j].appid, type |-> jobs[j].type,
                            execute |-> jobs[j].gc_execute]
            /\ jobs[j].type \in {"prefill", "gc"}
            /\ jobs[j].appid \in App /\ jobs[j].gc_execute \in BOOLEAN
        BY <2>1, Fields
      <4> QED BY <4>1 DEF Lifecycle!Slot
    <3> QED BY <3>1 DEF SlotOf
  <2> QED BY <2>3, <2>4 DEF StatusOf, SlotOf, JobId, Lifecycle!LifecycleInit,
          Lifecycle!JobId
<1>2. Invariant /\ [Next]_vars =>
        [Lifecycle!LifecycleNext]_(Lifecycle!lifecycleVars)
  BY EveryStep, Stutters
<1> QED BY <1>1, <1>2, InvariantHolds, PTL DEF Spec, ImplementsLifecycle,
        Lifecycle!LifecycleSpec

\* NoDuplicateActive over the two functions
DistinctRequests(life, slot) ==
  \A j, k \in JobId :
    j # k /\ life[j] \in ACTIVE_STATUSES /\ life[k] \in ACTIVE_STATUSES =>
      slot[j] # slot[k]

LEMMA DuplicateView ==
  /\ NoDuplicateActive <=> DistinctRequests(StatusOf, SlotOf)
  /\ NoDuplicateActive' <=> DistinctRequests(StatusOf', SlotOf')
BY DEF NoDuplicateActive, Lifecycle!NoDuplicateActive, Lifecycle!Active,
       Lifecycle!JobId, JobId, ACTIVE_STATUSES, DistinctRequests, StatusOf, SlotOf

LEMMA DuplicateMove ==
  ASSUME NEW life, DOMAIN life = JobId, NEW slot, DistinctRequests(life, slot),
         NEW j \in JobId, NEW status,
         life[j] \in ACTIVE_STATUSES \/ status \notin ACTIVE_STATUSES
  PROVE  DistinctRequests([life EXCEPT ![j] = status], slot)
BY DEF DistinctRequests

LEMMA DuplicateSubmit ==
  ASSUME NEW life, DOMAIN life = JobId, NEW slot, DOMAIN slot = JobId,
         DistinctRequests(life, slot), NEW j \in JobId, NEW s,
         \A k \in JobId : life[k] \in ACTIVE_STATUSES => slot[k] # s
  PROVE  DistinctRequests([life EXCEPT ![j] = "queued"], [slot EXCEPT ![j] = s])
BY DEF DistinctRequests

\* What carries the next theorem: no move of JobLifecycle makes a duplicate
LEMMA NoDuplicateStep ==
  ASSUME NoDuplicateActive, Lifecycle!LifecycleNext
  PROVE  NoDuplicateActive'
<1> SUFFICES DistinctRequests(StatusOf', SlotOf')
  BY DuplicateView
<1>1. /\ DistinctRequests(StatusOf, SlotOf)
      /\ DOMAIN StatusOf = JobId /\ DOMAIN SlotOf = JobId
  BY DuplicateView DEF StatusOf, SlotOf
<1>2. ASSUME NEW j \in JobId, NEW s, Lifecycle!Submit(j, s)
      PROVE  DistinctRequests(StatusOf', SlotOf')
  <2>1. /\ StatusOf' = [StatusOf EXCEPT ![j] = "queued"]
        /\ SlotOf' = [SlotOf EXCEPT ![j] = s]
        /\ \A k \in JobId : StatusOf[k] \in ACTIVE_STATUSES => SlotOf[k] # s
    BY <1>2 DEF Lifecycle!Submit, Lifecycle!Active, Lifecycle!JobId, JobId,
       StatusOf, SlotOf, ACTIVE_STATUSES
  <2> QED BY <1>1, <2>1, DuplicateSubmit
<1>3. ASSUME NEW j \in JobId, NEW status, OnlyMoves(j, status),
             StatusOf[j] \in ACTIVE_STATUSES \/ status \notin ACTIVE_STATUSES
      PROVE  DistinctRequests(StatusOf', SlotOf')
  BY <1>1, <1>3, DuplicateMove DEF OnlyMoves
<1>4. ASSUME NEW j \in JobId,
             Lifecycle!Start(j) \/ Lifecycle!Park(j) \/ Lifecycle!Requeue(j)
      PROVE  DistinctRequests(StatusOf', SlotOf')
  <2>1. PICK status : OnlyMoves(j, status)
    BY <1>4 DEF Lifecycle!Start, Lifecycle!Park, Lifecycle!Requeue, OnlyMoves,
       StatusOf, SlotOf, JobId, Lifecycle!JobId
  <2>2. StatusOf[j] \in ACTIVE_STATUSES
    BY <1>4 DEF Lifecycle!Start, Lifecycle!Park, Lifecycle!Requeue, StatusOf,
       ACTIVE_STATUSES, JobId, Lifecycle!JobId
  <2> QED BY <1>3, <2>1, <2>2
<1>5. ASSUME NEW j \in JobId, NEW outcome \in TERMINAL_STATUSES,
             Lifecycle!Finish(j, outcome) \/ Lifecycle!Withdraw(j)
      PROVE  DistinctRequests(StatusOf', SlotOf')
  <2>1. OnlyMoves(j, outcome) \/ OnlyMoves(j, "cancelled")
    BY <1>5 DEF Lifecycle!Finish, Lifecycle!Withdraw, OnlyMoves, StatusOf,
       SlotOf, JobId, Lifecycle!JobId
  <2>2. outcome \notin ACTIVE_STATUSES /\ "cancelled" \notin ACTIVE_STATUSES
    BY DEF TERMINAL_STATUSES, ACTIVE_STATUSES
  <2> QED BY <1>3, <2>1, <2>2
<1>6. ASSUME NEW orphans \in SUBSET JobId, Lifecycle!FailOrphans(orphans)
      PROVE  DistinctRequests(StatusOf', SlotOf')
  <2>1. /\ StatusOf' = [j \in JobId |-> IF j \in orphans THEN "error"
                                                         ELSE StatusOf[j]]
        /\ SlotOf' = SlotOf
    BY <1>6 DEF Lifecycle!FailOrphans, StatusOf, SlotOf, JobId, Lifecycle!JobId
  <2> QED BY <1>1, <2>1 DEF DistinctRequests, ACTIVE_STATUSES
<1> QED BY <1>2, <1>4, <1>5, <1>6 DEF Lifecycle!LifecycleNext, Lifecycle!JobId,
        Lifecycle!Terminal, JobId, TERMINAL_STATUSES

\* enqueue_prefill and enqueue_gc never stack a second active job for one
\* request, in any number of pauses, resumes and recoveries.
THEOREM RequestsAreDeduplicated == Spec => []NoDuplicateActive
<1>1. Init => NoDuplicateActive
  <2> SUFFICES ASSUME Init PROVE NoDuplicateActive
    OBVIOUS
  <2>1. \A j \in JobId : jobs[j].status = "absent"
    BY DEF Init, NewRow
  <2> QED BY <2>1 DEF NoDuplicateActive, Lifecycle!NoDuplicateActive,
          Lifecycle!Active, Lifecycle!JobId, JobId
<1>2. Invariant /\ NoDuplicateActive /\ [Next]_vars => NoDuplicateActive'
  <2> SUFFICES ASSUME Invariant, NoDuplicateActive, [Next]_vars
               PROVE  NoDuplicateActive'
    OBVIOUS
  <2>1. CASE Lifecycle!LifecycleNext
    BY <2>1, NoDuplicateStep
  <2>2. CASE NothingMoves
    BY <2>2, DuplicateView DEF NothingMoves
  <2> QED BY <2>1, <2>2, EveryStep
<1> QED BY <1>1, <1>2, InvariantHolds, PTL DEF Spec

\* No badge outlives its run: stops, failures, recoveries, cancellations and
\* deletions take it off.
THEOREM BadgesHaveRuns == Spec => []BadgeHasRun
<1>1. Invariant => BadgeHasRun
  BY DEF Invariant, BadgeInv, BadgeHasRun, Running
<1> QED BY <1>1, InvariantHolds, PTL

=============================================================================
