---------------------------- MODULE CacheContent ----------------------------
(***************************************************************************)
(* What is on disk under depot/<id>/ and what vault-api believes about it: *)
(* the depot->app mapping (mapping.py, prefill.apply_observed_mapping),    *)
(* apps.status, last_prefill_at and needs_force, read and written by       *)
(* prefill jobs (worker.py), executing GC jobs (gc_execute.py) and         *)
(* DELETE /v1/cache/{appid} (routers/cache.py, deletion.py).               *)
(*                                                                         *)
(* The hazard: SteamPrefill keeps its own record of the depots it has      *)
(* downloaded and skips them in a run without --force.  A depot whose      *)
(* content vault-api removes must therefore leave needs_force set on every *)
(* app that owns it, or no later run fills it again.                       *)
(*                                                                         *)
(* Jobs are abstracted to a set of active types per app; JobQueue has      *)
(* their lives.  SteamPrefill, Steam and the clients are external.         *)
(***************************************************************************)
EXTENDS Naturals, FiniteSets

CONSTANTS
  App, Depot,
  NoApp, NoDepot,
  Owns,           \* app -> the depots Steam says it consists of
  Home,           \* depot -> the app its manifest belongs to
  Swept,          \* the apps the scheduler's sweep enqueues again and again
  Request,        \* DELETE /v1/cache/{appid} requests that may run at once
  MaxDeletes,     \* bound: DELETE requests
  MaxGc,          \* bound: executing GC jobs
  MaxFaults,      \* bound: failed or stopped runs, removals that fail
  MaxUpdates,     \* bound: updates Steam publishes
  MaxCrashes,     \* bound: kills of vault-api, exceptions out of run_gc
  MaxTrouble      \* bound: faults and crashes together

ASSUME CacheContentAssumption ==
  /\ Owns \in [App -> SUBSET Depot]
  /\ Home \in [Depot -> App]
  /\ Swept \subseteq App
  /\ NoApp \notin App /\ NoDepot \notin Depot
  /\ {MaxDeletes, MaxGc, MaxFaults, MaxUpdates, MaxCrashes, MaxTrouble} \subseteq Nat

VARIABLES
  disk,           \* depot -> how much of its current content is stored
  recorded,       \* depots in SteamPrefill's successfullyDownloadedDepots
  apps,           \* app -> status, last_prefill_at set, needs_force
  map,            \* depot_app_map: pairs <<depot, app>>
  job,            \* app -> types of its active jobs
  worker,         \* the job the worker executes
  del,            \* request -> how far it has come
  used,           \* how much of each bound is used up
  lost,           \* history: <<depot, app>> that lost content (see Loses)
  masked,         \* history: apps flagged during a forced run of theirs
  orphaned        \* history: losses whose remover crashed before it flagged

vars ==
  <<disk, recorded, apps, map, job, worker, del, used, lost, masked, orphaned>>

IdleWorker == [pc |-> "loop", app |-> NoApp, force |-> FALSE,
               todo |-> {}, changed |-> {}, got |-> {}]
NoDelete == [pc |-> "none", app |-> NoApp, todo |-> {}, cur |-> NoDepot,
             owners |-> {}, touched |-> FALSE, failed |-> FALSE,
             flagged |-> {}]

Bound == [delete |-> MaxDeletes, gc |-> MaxGc, fault |-> MaxFaults,
          update |-> MaxUpdates, crash |-> MaxCrashes]

AppRow == [status : {"idle", "running", "done", "error"},
           prefilled : BOOLEAN, needs_force : BOOLEAN]
Worker == [pc : {"loop", "claimed", "started", "run", "filled", "mapped",
                 "done", "gc", "gc_run", "closing"},
           app : App \cup {NoApp}, force : BOOLEAN,
           todo : SUBSET Depot, changed : SUBSET Depot, got : SUBSET Depot]
DeleteRow == [pc : {"none", "recheck", "remove", "flag"},
              app : App \cup {NoApp}, todo : SUBSET Depot,
              cur : Depot \cup {NoDepot}, owners : SUBSET App,
              touched : BOOLEAN, failed : BOOLEAN, flagged : SUBSET App]

TypeOK ==
  /\ disk \in [Depot -> {"absent", "partial", "full"}]
  /\ recorded \subseteq Depot
  /\ apps \in [App -> AppRow]
  /\ map \subseteq Depot \X App
  /\ job \in [App -> SUBSET {"prefill", "gc"}]
  /\ worker \in Worker
  /\ del \in [Request -> DeleteRow]
  /\ used \in [{"delete", "gc", "fault", "update", "crash"} -> Nat]
  /\ lost \subseteq Depot \X App
  /\ masked \subseteq App
  /\ orphaned \subseteq Depot \X App

Init ==
  /\ disk = [d \in Depot |-> "absent"]
  /\ recorded = {}
  /\ apps = [a \in App |-> [status |-> "idle", prefilled |-> FALSE,
                            needs_force |-> TRUE]]
  /\ map = {}
  /\ job = [a \in App |-> {}]
  /\ worker = IdleWorker
  /\ del = [r \in Request |-> NoDelete]
  /\ used = [k \in {"delete", "gc", "fault", "update", "crash"} |-> 0]
  /\ lost = {} /\ masked = {} /\ orphaned = {}

-----------------------------------------------------------------------------
(* Reading the tables.                                                     *)

Mapped(a) == {d \in Depot : <<d, a>> \in map}
OwnersOf(d) == {a \in App : <<d, a>> \in map}

\* _has_cache_content: false only when idle, never prefilled and job-free
has_cache_content(a) ==
  ~(apps[a].status = "idle" /\ ~apps[a].prefilled /\ job[a] = {})

\* The outcome is in apps; what is left of the job is its row.
Closing == worker' = [IdleWorker EXCEPT !.pc = "closing", !.app = worker.app]

Trouble == used["fault"] + used["crash"]
Spend(k) ==
  /\ used[k] < Bound[k]
  /\ k \in {"fault", "crash"} => Trouble < MaxTrouble
  /\ used' = [used EXCEPT ![k] = used[k] + 1]

\* A forced run of a between its read of needs_force and its clear
InForcedRun(a) ==
  worker.app = a /\ worker.force /\ worker.pc \in {"run", "filled", "mapped", "done"}

\* Content of d is gone and the apps of as must be told, if it is theirs
Loses(d, as) == lost' = lost \cup ({d} \X {a \in as : d \in Owns[a]})

\* d is complete again: nobody misses anything
Refilled(d) ==
  /\ lost' = {p \in lost : p[1] # d}
  /\ orphaned' = {p \in orphaned : p[1] # d}

\* UPDATE apps SET needs_force = 1, with the history of it
SetsForce(as) ==
  masked' = {a \in masked \cup as : a \in as => InForcedRun(a)}

\* Somebody who removed content is still about to flag a for it: the requester
\* of a DELETE, a co-owner it saw, an owner of what the collector removed.
WillFlag(r, a) ==
  \/ /\ del[r].pc \in {"recheck", "remove"} /\ del[r].app = a
     /\ del[r].touched \/ del[r].failed
  \/ del[r].pc # "none" /\ a \in del[r].flagged

FlagPending(d, a) ==
  \/ \E r \in Request : WillFlag(r, a)
  \/ worker.pc = "gc_run" /\ d \in worker.got /\ <<d, a>> \in map

\* Depots whose signature differs from the snapshot before the run
Changes(d) ==
  worker' = IF worker.pc = "run"
            THEN [worker EXCEPT !.changed = worker.changed \cup {d}]
            ELSE worker

-----------------------------------------------------------------------------
(* Requests, clients and Steam.                                            *)

EnqueuePrefill(a) ==
  /\ "prefill" \notin job[a]
  /\ job' = [job EXCEPT ![a] = job[a] \cup {"prefill"}]
  /\ UNCHANGED <<disk, recorded, apps, map, worker, del, used, lost, masked, orphaned>>

EnqueueGc(a) ==
  /\ "gc" \notin job[a]
  /\ Spend("gc")
  /\ job' = [job EXCEPT ![a] = job[a] \cup {"gc"}]
  /\ UNCHANGED <<disk, recorded, apps, map, worker, del, lost, masked, orphaned>>

\* A LAN client misses in the cache and vault-core stores what it fetches.
ClientMiss(d) ==
  /\ disk[d] # "full"
  /\ disk' = [disk EXCEPT ![d] = IF @ = "absent" THEN "partial" ELSE "full"]
  /\ Changes(d)
  /\ IF disk[d] = "partial" THEN Refilled(d) ELSE UNCHANGED <<lost, orphaned>>
  /\ UNCHANGED <<recorded, apps, map, job, del, used, masked>>

\* Steam publishes a new manifest: some chunks of it are not stored, and
\* SteamPrefill's record of the old manifest no longer counts.
Publish(d) ==
  /\ Spend("update")
  /\ disk' = [disk EXCEPT ![d] = IF disk[d] = "full" THEN "partial" ELSE disk[d]]
  /\ recorded' = recorded \ {d}
  /\ worker' = IF worker.pc = "run"
               THEN [worker EXCEPT !.got = worker.got \ {d}] ELSE worker
  /\ UNCHANGED <<apps, map, job, del, lost, masked, orphaned>>

-----------------------------------------------------------------------------
(* A prefill job: _execute_prefill and _finalize_prefill_result.           *)

Claim(a, type) ==
  /\ worker.pc = "loop"
  /\ type \in job[a]
  /\ worker' = [IdleWorker EXCEPT !.pc = IF type = "gc" THEN "gc" ELSE "claimed",
                                  !.app = a]
  /\ UNCHANGED <<disk, recorded, apps, map, job, del, used, lost, masked, orphaned>>

\* Mutant: a status of the jobs table in the apps table
WorkerStart_AsJob ==
  /\ worker.pc = "claimed"
  /\ apps' = [apps EXCEPT ![worker.app].status = "queued"]
  /\ worker' = [worker EXCEPT !.pc = "started"]
  /\ UNCHANGED <<disk, recorded, map, job, del, used, lost, masked, orphaned>>

WorkerStart ==
  /\ worker.pc = "claimed"
  /\ apps' = [apps EXCEPT ![worker.app].status = "running"]
  /\ worker' = [worker EXCEPT !.pc = "started"]
  /\ UNCHANGED <<disk, recorded, map, job, del, used, lost, masked, orphaned>>

\* get_app_needs_force, the snapshot before the run, and SteamPrefill's own
\* choice of depots: with --force all of them.
RunBegins ==
  /\ worker.pc = "started"
  /\ LET a == worker.app
         force == apps[a].needs_force
     IN  /\ worker' = [worker EXCEPT !.pc = "run", !.force = force,
                         !.todo = IF force THEN Owns[a] ELSE Owns[a] \ recorded]
         /\ masked' = IF force THEN masked \ {a} ELSE masked
  /\ UNCHANGED <<disk, recorded, apps, map, job, del, used, lost, orphaned>>

\* One depot: every chunk is a HIT, or something is stored
Download(d) ==
  /\ worker.pc = "run"
  /\ d \in worker.todo
  /\ disk' = [disk EXCEPT ![d] = "full"]
  /\ worker' = [worker EXCEPT
                  !.todo = worker.todo \ {d}, !.got = worker.got \cup {d},
                  !.changed = IF disk[d] = "full" THEN worker.changed
                              ELSE worker.changed \cup {d}]
  /\ Refilled(d)
  /\ UNCHANGED <<recorded, apps, map, job, del, used, masked>>

\* Exit code 0: SteamPrefill has updated its record.
RunSucceeds ==
  /\ worker.pc = "run"
  /\ worker.todo = {}
  /\ recorded' = recorded \cup worker.got
  /\ worker' = [worker EXCEPT !.pc = "filled", !.got = {}]
  /\ UNCHANGED <<disk, apps, map, job, del, used, lost, masked, orphaned>>

\* The run fails, or the worker's net catches an exception: apps.status only
RunFails ==
  /\ worker.pc \in {"claimed", "started", "run", "filled", "mapped", "done"}
  /\ Spend("fault")
  /\ apps' = [apps EXCEPT ![worker.app].status = "error"]
  /\ Closing
  /\ UNCHANGED <<disk, recorded, map, job, del, lost, masked, orphaned>>

\* Stopped by a cancel (the job is over) or a pause (it stays active)
RunStops ==
  /\ worker.pc = "run"
  /\ Spend("fault")
  /\ apps' = [apps EXCEPT ![worker.app].status =
                IF @ = "running" THEN "idle" ELSE @]
  /\ \/ Closing
     \/ worker' = IdleWorker
  /\ UNCHANGED <<disk, recorded, map, job, del, lost, masked, orphaned>>

\* diff_depots: new or changed, and still there
Observed == {d \in worker.changed : disk[d] # "absent"}

\* apply_observed_mapping: nothing observed changes nothing, else replace
\* the app's own rows
apply_observed_mapping ==
  /\ worker.pc = "filled"
  /\ map' = IF Observed = {} THEN map
            ELSE {p \in map : p[2] # worker.app} \cup (Observed \X {worker.app})
  /\ worker' = [worker EXCEPT !.pc = "mapped", !.changed = {}]
  /\ UNCHANGED <<disk, recorded, apps, job, del, used, lost, masked, orphaned>>

\* A manifest SteamPrefill left behind maps the depot to its home app too.
ingest_after_prefill(d) ==
  /\ worker.pc = "mapped"
  /\ d \in Owns[worker.app] /\ Home[d] # worker.app
  /\ map' = map \cup {<<d, Home[d]>>}
  /\ UNCHANGED <<disk, recorded, apps, job, worker, del, used, lost, masked, orphaned>>

SetDone ==
  /\ worker.pc = "mapped"
  /\ apps' = [apps EXCEPT ![worker.app] =
                [@ EXCEPT !.status = "done", !.prefilled = TRUE]]
  /\ worker' = [worker EXCEPT !.pc = "done"]
  /\ UNCHANGED <<disk, recorded, map, job, del, used, lost, masked, orphaned>>

\* Mutant: UPDATE apps SET needs_force = 0, whatever it was at the start
clear_needs_force_Unconditional ==
  /\ worker.pc = "done"
  /\ apps' = [apps EXCEPT ![worker.app].needs_force = FALSE]
  /\ Closing
  /\ UNCHANGED <<disk, recorded, map, job, del, used, lost, masked, orphaned>>

\* Compare-and-swap against the value the run started with
clear_needs_force_if_unchanged ==
  /\ worker.pc = "done"
  /\ apps' = IF apps[worker.app].needs_force = worker.force
             THEN [apps EXCEPT ![worker.app].needs_force = FALSE] ELSE apps
  /\ Closing
  /\ UNCHANGED <<disk, recorded, map, job, del, used, lost, masked, orphaned>>

\* finish_job
CloseJob ==
  /\ worker.pc = "closing"
  /\ job' = [job EXCEPT ![worker.app] = job[worker.app] \ {"prefill"}]
  /\ worker' = IdleWorker
  /\ UNCHANGED <<disk, recorded, apps, map, del, used, lost, masked, orphaned>>

-----------------------------------------------------------------------------
(* An executing GC job: run_gc.                                            *)

\* The plan is built when the job runs: the depots mapped to the app then
GcPlan ==
  /\ worker.pc = "gc"
  /\ worker' = [worker EXCEPT !.pc = "gc_run", !.todo = Mapped(worker.app)]
  /\ UNCHANGED <<disk, recorded, apps, map, job, del, used, lost, masked, orphaned>>

\* execute_depot: nothing is removed; chunks no current manifest needs are;
\* or some are that a manifest the plan did not know needs.  got stands for
\* the depots with chunks_gone.
execute_depot(d) ==
  /\ worker.pc = "gc_run"
  /\ d \in worker.todo
  /\ \E gone, needed \in BOOLEAN :
       /\ needed => gone
       /\ gone => disk[d] # "absent"
       /\ worker' = [worker EXCEPT
                       !.todo = worker.todo \ {d},
                       !.got = IF gone THEN worker.got \cup {d} ELSE worker.got]
       /\ IF needed
          THEN /\ disk' = [disk EXCEPT ![d] = "partial"]
               /\ Loses(d, OwnersOf(d))
          ELSE UNCHANGED <<disk, lost>>
  /\ UNCHANGED <<recorded, apps, map, job, del, used, masked, orphaned>>

GcEnds(as) ==
  /\ worker.pc = "gc_run"
  /\ apps' = [a \in App |-> [apps[a] EXCEPT !.needs_force = @ \/ a \in as]]
  /\ SetsForce(as)
  /\ job' = [job EXCEPT ![worker.app] = job[worker.app] \ {"gc"}]
  /\ worker' = IdleWorker
  /\ UNCHANGED <<disk, recorded, map, del, used, lost, orphaned>>

\* All depots done, or cancelled between two of them: every app mapped to a
\* depot that lost chunks is flagged
flag_needs_force_for_depots == GcEnds({a \in App : Mapped(a) \cap worker.got # {}})

\* run_gc raised: the job is 'error' and nobody is flagged
GcCrash ==
  /\ worker.pc = "gc_run"
  /\ Spend("crash")
  /\ orphaned' = orphaned \cup
       {p \in lost : p[1] \in worker.got /\ p \in map}
  /\ job' = [job EXCEPT ![worker.app] = job[worker.app] \ {"gc"}]
  /\ worker' = IdleWorker
  /\ UNCHANGED <<disk, recorded, apps, map, del, lost, masked>>

-----------------------------------------------------------------------------
(* DELETE /v1/cache/{appid}.                                               *)

UpdateDel(r, row) == del' = [del EXCEPT ![r] = row]

\* plan_deletion: depots of a that nobody else maps, or whose other owners
\* all have no content (last cached remnants)
Deletable(a) ==
  {d \in Mapped(a) : \A b \in OwnersOf(d) \ {a} : ~has_cache_content(b)}

\* 404 without rows in the mapping, 409 with an active job
DeleteBegins(r, a) ==
  /\ del[r].pc = "none"
  /\ Mapped(a) # {} /\ job[a] = {}
  /\ Spend("delete")
  /\ UpdateDel(r, [NoDelete EXCEPT !.pc = "recheck", !.app = a,
                                   !.todo = Deletable(a)])
  /\ UNCHANGED <<disk, recorded, apps, map, job, worker, lost, masked, orphaned>>

\* The owners of one depot are read again just before it is removed.
DeleteRechecks(r, d) ==
  /\ del[r].pc = "recheck"
  /\ d \in del[r].todo
  /\ LET others == OwnersOf(d) \ {del[r].app}
         kept == \E b \in others : has_cache_content(b)
     IN  \/ /\ kept
            /\ UpdateDel(r, [del[r] EXCEPT !.todo = @ \ {d}])
         \/ /\ ~kept
            /\ UpdateDel(r, [del[r] EXCEPT !.todo = @ \ {d}, !.pc = "remove",
                                           !.cur = d, !.owners = others])
  /\ UNCHANGED <<disk, recorded, apps, map, job, worker, used, lost, masked, orphaned>>

\* The read fails: left alone and reported as failed
RecheckFails(r, d) ==
  /\ del[r].pc = "recheck"
  /\ d \in del[r].todo
  /\ Spend("fault")
  /\ UpdateDel(r, [del[r] EXCEPT !.todo = @ \ {d}, !.failed = TRUE])
  /\ UNCHANGED <<disk, recorded, apps, map, job, worker, lost, masked, orphaned>>

\* Removed, or found to be absent already
DeleteRemoves(r) ==
  /\ del[r].pc = "remove"
  /\ disk' = [disk EXCEPT ![del[r].cur] = "absent"]
  /\ Loses(del[r].cur, del[r].owners \cup {del[r].app})
  /\ UpdateDel(r, [del[r] EXCEPT !.pc = "recheck", !.cur = NoDepot,
                                 !.touched = TRUE, !.owners = {},
                                 !.flagged = @ \cup del[r].owners])
  /\ UNCHANGED <<recorded, apps, map, job, worker, used, masked, orphaned>>

\* rmtree fails half way
RemoveFails(r) ==
  /\ del[r].pc = "remove"
  /\ disk[del[r].cur] # "absent"
  /\ Spend("fault")
  /\ disk' = [disk EXCEPT ![del[r].cur] = "partial"]
  /\ Changes(del[r].cur)
  /\ Loses(del[r].cur, del[r].owners \cup {del[r].app})
  /\ UpdateDel(r, [del[r] EXCEPT !.pc = "recheck", !.cur = NoDepot,
                                 !.failed = TRUE, !.owners = {},
                                 !.flagged = @ \cup del[r].owners])
  /\ UNCHANGED <<recorded, apps, map, job, masked, orphaned>>

\* reset_app_after_deletion, a commit of its own ...
reset_app_after_deletion(r) ==
  /\ del[r].pc = "recheck"
  /\ del[r].todo = {}
  /\ LET a == del[r].app
         force == del[r].touched \/ del[r].failed
     IN  /\ apps' = [apps EXCEPT ![a] =
                       [status |-> IF del[r].failed THEN "error" ELSE "idle",
                        prefilled |-> FALSE, needs_force |-> @.needs_force \/ force]]
         /\ IF force THEN SetsForce({a}) ELSE UNCHANGED masked
  /\ UpdateDel(r, [del[r] EXCEPT !.pc = "flag"])
  /\ UNCHANGED <<disk, recorded, map, job, worker, used, lost, orphaned>>


\* ... then set_needs_force_for_remnant_co_owners, and the response
set_needs_force_for_remnant_co_owners(r) ==
  /\ del[r].pc = "flag"
  /\ apps' = [a \in App |->
       [apps[a] EXCEPT !.needs_force = @ \/ a \in del[r].flagged]]
  /\ SetsForce(del[r].flagged)
  /\ UpdateDel(r, NoDelete)
  /\ UNCHANGED <<disk, recorded, map, job, worker, used, lost, orphaned>>

-----------------------------------------------------------------------------
\* vault-api is killed and started again: requests are gone and
\* recover_stale_jobs fails the job that was running.
Kill ==
  /\ Spend("crash")
  /\ orphaned' = orphaned \cup {p \in lost : FlagPending(p[1], p[2])}
  /\ del' = [r \in Request |-> NoDelete]
  /\ worker' = IdleWorker
  /\ IF worker.pc = "loop" THEN UNCHANGED <<apps, job>>
     ELSE LET a == worker.app
              type == IF worker.pc \in {"gc", "gc_run"} THEN "gc" ELSE "prefill"
          IN  /\ job' = [job EXCEPT ![a] = job[a] \ {type}]
              /\ apps' = [apps EXCEPT ![a].status =
                            IF @ = "running" THEN "error" ELSE @]
  /\ UNCHANGED <<disk, recorded, map, lost, masked>>

Prefill ==
  \/ WorkerStart \/ RunBegins \/ RunSucceeds \/ apply_observed_mapping
  \/ SetDone \/ clear_needs_force_if_unchanged \/ CloseJob
  \/ \E d \in Depot : Download(d)

Gc ==
  \/ GcPlan \/ flag_needs_force_for_depots
  \/ \E d \in Depot : execute_depot(d)

Delete(r) ==
  \/ \E d \in Depot : DeleteRechecks(r, d)
  \/ DeleteRemoves(r) \/ reset_app_after_deletion(r)
  \/ set_needs_force_for_remnant_co_owners(r)

Next ==
  \/ \E a \in App : EnqueuePrefill(a) \/ EnqueueGc(a)
  \/ \E a \in App, type \in {"prefill", "gc"} : Claim(a, type)
  \/ \E d \in Depot : ClientMiss(d) \/ Publish(d) \/ ingest_after_prefill(d)
  \/ Prefill \/ RunFails \/ RunStops \/ Gc \/ GcCrash \/ Kill
  \/ \E r \in Request :
       \/ \E a \in App : DeleteBegins(r, a)
       \/ Delete(r) \/ RemoveFails(r) \/ \E d \in Depot : RecheckFails(r, d)

Spec == Init /\ [][Next]_vars

(***************************************************************************)
(* The worker and the requests go on; a sweep enqueues every app of Swept  *)
(* again, and the queue serves each of its jobs in turn.                   *)
(***************************************************************************)
Fairness ==
  /\ WF_vars(Prefill) /\ WF_vars(Gc)
  /\ \A r \in Request : WF_vars(Delete(r))
  /\ \A a \in Swept : WF_vars(EnqueuePrefill(a)) /\ SF_vars(Claim(a, "prefill"))

FairSpec == Spec /\ Fairness

-----------------------------------------------------------------------------
(* Properties.                                                             *)

\* SteamPrefill would skip d for a although a lost content of it
Missed(d, a) == <<d, a>> \in lost /\ d \in recorded

\* An app that DELETE or GC took content from runs with --force next time: the
\* flag survives every run that overlaps the removal, on the app itself and on
\* the co-owners (clear_needs_force_if_unchanged).  Left out: a crash between
\* a removal and its flag, and a flag set while a forced run of the app is
\* under way (SetSurvivesClear).
LossIsFlagged ==
  \A d \in Depot, a \in App :
    Missed(d, a) =>
      \/ apps[a].needs_force \/ FlagPending(d, a)
      \/ a \in masked \/ <<d, a>> \in orphaned


\* What the docstring of set_needs_force_for_remnant_co_owners and the README
\* say: a set that lands during a run survives the clear at its end.
SetSurvivesClear == \A a \in masked : apps[a].needs_force

\* What the comment in delete_cached_app says of a crash between its commits:
\* a co-owner trusts the record one run longer, not for ever.
CoOwnerHeals ==
  \A d \in Depot, a \in Swept :
    /\ Missed(d, a)
    /\ \E r \in Request : del[r].pc = "flag" /\ a \in del[r].flagged
    ~> ~Missed(d, a) \/ a \in masked

\* What the needs_force table of the README says of an executing GC: whoever
\* maps a depot it removed needed chunks from is flagged.
GcRemovalIsFlagged ==
  \A d \in Depot, a \in App :
    Missed(d, a) => apps[a].needs_force \/ FlagPending(d, a)

\* What gc_execute.py says of a DELETE and a GC of one app: whichever comes
\* second is refused or waits.
GcExcludesDelete ==
  worker.pc = "gc_run" =>
    \A r \in Request : del[r].app = worker.app => del[r].pc = "flag"
=============================================================================
