------------------------- MODULE CacheContentProofs -------------------------
(***************************************************************************)
(* The type invariant of CacheContent, for any apps, depots, ownership and *)
(* bounds, and the safety of removal.                                      *)
(***************************************************************************)
EXTENDS CacheContent, TLAPS

\* The types, and that a job or a request that is under way has its app and,
\* between recheck and removal, its depot.
TypeInv ==
  /\ TypeOK
  /\ worker.pc # "loop" => worker.app \in App
  /\ \A r \in Request : del[r].pc # "none" => del[r].app \in App
  /\ \A r \in Request : del[r].pc = "remove" => del[r].cur \in Depot

Resource == {"delete", "gc", "fault", "update", "crash"}

LEMMA SpendType ==
  ASSUME used \in [Resource -> Nat], NEW k \in Resource, Spend(k)
  PROVE  used' \in [Resource -> Nat]
BY DEF Spend

LEMMA LosesType ==
  ASSUME lost \subseteq Depot \X App, NEW d \in Depot,
         NEW as, as \subseteq App, Loses(d, as)
  PROVE  lost' \subseteq Depot \X App
BY DEF Loses

LEMMA RefilledType ==
  ASSUME TypeOK, NEW d, Refilled(d)
  PROVE  lost' \subseteq Depot \X App /\ orphaned' \subseteq Depot \X App
BY DEF TypeOK, Refilled

LEMMA SetsForceType ==
  ASSUME masked \subseteq App, NEW as, as \subseteq App, SetsForce(as)
  PROVE  masked' \subseteq App
BY DEF SetsForce

LEMMA IdleWorkerType == IdleWorker \in Worker
BY DEF IdleWorker, Worker

LEMMA NoDeleteType == NoDelete \in DeleteRow
BY DEF NoDelete, DeleteRow

\* UPDATE apps, column by column
LEMMA AppWrite ==
  ASSUME apps \in [App -> AppRow], NEW a \in App, NEW flag \in BOOLEAN,
         NEW status \in {"idle", "running", "done", "error"}
  PROVE  /\ [apps EXCEPT ![a].status = status] \in [App -> AppRow]
         /\ [apps EXCEPT ![a].needs_force = flag] \in [App -> AppRow]
         /\ [apps EXCEPT ![a] = [@ EXCEPT !.status = status, !.prefilled = TRUE]]
              \in [App -> AppRow]
         /\ [apps EXCEPT ![a] = [status |-> status, prefilled |-> FALSE,
                                 needs_force |-> flag]] \in [App -> AppRow]
         /\ apps[a].needs_force \in BOOLEAN
         /\ apps[a].status \in {"idle", "running", "done", "error"}
BY DEF AppRow

\* The worker's next state: its pc and app, and what it has still to do
LEMMA WorkerWrite ==
  ASSUME NEW w \in Worker, NEW force \in BOOLEAN, NEW todo \in SUBSET Depot,
         NEW changed \in SUBSET Depot, NEW got \in SUBSET Depot,
         NEW pc \in {"loop", "claimed", "started", "run", "filled", "mapped",
                    "done", "gc", "gc_run", "closing"}
  PROVE  /\ w.todo \in SUBSET Depot /\ w.changed \in SUBSET Depot
         /\ w.got \in SUBSET Depot
         /\ [w EXCEPT !.pc = pc] \in Worker
         /\ [w EXCEPT !.pc = pc, !.todo = todo] \in Worker
         /\ [w EXCEPT !.pc = pc, !.changed = changed] \in Worker
         /\ [w EXCEPT !.pc = pc, !.got = got] \in Worker
         /\ [w EXCEPT !.todo = todo, !.got = got] \in Worker
         /\ [w EXCEPT !.pc = pc, !.force = force, !.todo = todo] \in Worker
         /\ [w EXCEPT !.todo = todo, !.got = got, !.changed = changed] \in Worker
BY DEF Worker

LEMMA ClosingType ==
  ASSUME Closing, worker.app \in App
  PROVE  worker' \in Worker /\ worker'.app \in App
BY DEF Closing, IdleWorker, Worker

\* An UPDATE of one row keeps the invariant if the row does.
LEMMA UpdateDelType ==
  ASSUME TypeInv, NEW r \in Request, NEW row \in DeleteRow, UpdateDel(r, row),
         row.pc # "none" => row.app \in App,
         row.pc = "remove" => row.cur \in Depot
  PROVE  /\ del' \in [Request -> DeleteRow]
         /\ del'[r] = row
         /\ \A q \in Request : q # r => del'[q] = del[q]
         /\ \A q \in Request : del'[q].pc # "none" => del'[q].app \in App
         /\ \A q \in Request : del'[q].pc = "remove" => del'[q].cur \in Depot
BY SMT DEF TypeInv, TypeOK, UpdateDel

LEMMA TypeInvInit == Init => TypeInv
<1> SUFFICES ASSUME Init PROVE TypeInv
  OBVIOUS
<1>1. del \in [Request -> DeleteRow] /\ worker \in Worker
  BY IdleWorkerType, NoDeleteType DEF Init
<1>2. apps \in [App -> AppRow]
  BY SMT DEF Init, AppRow
<1>3. TypeOK
  BY <1>1, <1>2, SMT DEF Init, TypeOK
<1>4. QED
  BY <1>3, SMT DEF Init, TypeInv, IdleWorker, NoDelete

\* Requests, clients and Steam
LEMMA TypeInvOutside ==
  ASSUME TypeInv,
         \/ \E a \in App : EnqueuePrefill(a) \/ EnqueueGc(a)
         \/ \E d \in Depot : ClientMiss(d) \/ Publish(d)
  PROVE  TypeInv'
<1>1. CASE \E a \in App : EnqueuePrefill(a)
  BY <1>1, SMT DEF TypeInv, TypeOK, EnqueuePrefill
<1>2. ASSUME NEW a \in App, EnqueueGc(a) PROVE TypeInv'
  <2>1. used' \in [Resource -> Nat]
    BY <1>2, SpendType DEF TypeInv, TypeOK, EnqueueGc, Resource
  <2>2. QED
    BY <1>2, <2>1, SMT DEF TypeInv, TypeOK, EnqueueGc, Resource
<1>3. ASSUME NEW d \in Depot, ClientMiss(d) PROVE TypeInv'
  <2>1. lost' \subseteq Depot \X App /\ orphaned' \subseteq Depot \X App
    BY <1>3, RefilledType DEF TypeInv, TypeOK, ClientMiss
  <2>2. worker' \in Worker /\ worker'.pc = worker.pc /\ worker'.app = worker.app
    BY <1>3, SMT DEF TypeInv, TypeOK, ClientMiss, Changes, Worker
  <2>3. disk' \in [Depot -> {"absent", "partial", "full"}]
    BY <1>3, SMT DEF TypeInv, TypeOK, ClientMiss
  <2>4. QED
    BY <1>3, <2>1, <2>2, <2>3, SMT DEF TypeInv, TypeOK, ClientMiss
<1>4. ASSUME NEW d \in Depot, Publish(d) PROVE TypeInv'
  <2>1. used' \in [Resource -> Nat]
    BY <1>4, SpendType DEF TypeInv, TypeOK, Publish, Resource
  <2>2. worker' \in Worker /\ worker'.pc = worker.pc /\ worker'.app = worker.app
    BY <1>4, SMT DEF TypeInv, TypeOK, Publish, Worker
  <2>3. disk' \in [Depot -> {"absent", "partial", "full"}]
    BY <1>4, SMT DEF TypeInv, TypeOK, Publish
  <2>4. QED
    BY <1>4, <2>1, <2>2, <2>3, SMT DEF TypeInv, TypeOK, Publish, Resource
<1>5. QED
  BY <1>1, <1>2, <1>3, <1>4

\* The worker's prefill job
LEMMA TypeInvPrefill ==
  ASSUME TypeInv, CacheContentAssumption,
         \/ \E a \in App, type \in {"prefill", "gc"} : Claim(a, type)
         \/ \E d \in Depot : ingest_after_prefill(d)
         \/ Prefill \/ RunFails \/ RunStops
  PROVE  TypeInv'
<1> USE IdleWorkerType
<1>t. /\ worker \in Worker /\ apps \in [App -> AppRow]
      /\ worker.pc # "loop" => worker.app \in App
      /\ used \in [Resource -> Nat]
  BY DEF TypeInv, TypeOK, Resource
<1>1. CASE \E a \in App, type \in {"prefill", "gc"} : Claim(a, type)
  <2>1. worker' \in Worker /\ worker'.app \in App
    <3>1. PICK a \in App, type \in {"prefill", "gc"} : Claim(a, type)
      BY <1>1
    <3>2. \E pc \in {"gc", "claimed"} :
            worker' = [pc |-> pc, app |-> a, force |-> FALSE,
                       todo |-> {}, changed |-> {}, got |-> {}]
      BY <3>1 DEF Claim, IdleWorker
    <3>3. QED
      BY <3>2, SMT DEF Worker
  <2>2. UNCHANGED <<disk, recorded, apps, map, job, del, used, lost, masked,
                    orphaned>>
    BY <1>1 DEF Claim
  <2>3. QED
    BY <2>1, <2>2, SMT DEF TypeInv, TypeOK
<1>2. CASE WorkerStart
  <2>1. worker' \in Worker /\ worker'.app \in App
    BY <1>2, <1>t, SMT DEF WorkerStart, Worker
  <2>2. apps' \in [App -> AppRow]
    BY <1>2, <1>t, AppWrite DEF WorkerStart
  <2>3. QED
    BY <1>2, <2>1, <2>2, SMT DEF TypeInv, TypeOK, WorkerStart
<1>3. CASE RunBegins
  <2>1. worker.app \in App /\ Owns[worker.app] \subseteq Depot
    BY <1>3, SMT DEF TypeInv, RunBegins, CacheContentAssumption
  <2>2. apps[worker.app].needs_force \in BOOLEAN
    BY <2>1, SMT DEF TypeInv, TypeOK, AppRow
  <2>3. worker' \in Worker
    BY <1>3, <1>t, <2>1, <2>2, WorkerWrite DEF RunBegins
  <2>r. worker'.app \in App
    BY <1>3, <1>t, SMT DEF RunBegins, Worker
  <2>4. QED
    BY <1>3, <2>3, <2>r, SMT DEF TypeInv, TypeOK, RunBegins
<1>4. ASSUME NEW d \in Depot, Download(d) PROVE TypeInv'
  <2>1. lost' \subseteq Depot \X App /\ orphaned' \subseteq Depot \X App
    BY <1>4, RefilledType DEF TypeInv, Download
  <2>2. worker' \in Worker /\ worker'.app \in App
    <3> DEFINE changed == IF disk[d] = "full" THEN worker.changed
                          ELSE worker.changed \cup {d}
    <3>1. changed \in SUBSET Depot /\ worker.todo \ {d} \in SUBSET Depot
          /\ worker.got \cup {d} \in SUBSET Depot
      BY <1>t, WorkerWrite
    <3>2. worker' = [worker EXCEPT !.todo = worker.todo \ {d},
                       !.got = worker.got \cup {d}, !.changed = changed]
      BY <1>4 DEF Download
    <3> HIDE DEF changed
    <3>w. worker' \in Worker
      BY <1>t, <3>1, <3>2, WorkerWrite
    <3>3. QED
      BY <1>4, <1>t, <3>w, SMT DEF Download, Worker
  <2>3. disk' \in [Depot -> {"absent", "partial", "full"}]
    BY <1>4, SMT DEF TypeInv, TypeOK, Download
  <2>4. QED
    BY <1>4, <2>1, <2>2, <2>3, SMT DEF TypeInv, TypeOK, Download
<1>5. CASE RunSucceeds
  <2>1. worker' \in Worker /\ worker'.app \in App /\ worker.got \subseteq Depot
    <3>1. worker' \in Worker /\ worker.got \subseteq Depot
      BY <1>5, <1>t, WorkerWrite DEF RunSucceeds
    <3>2. QED
      BY <1>5, <1>t, <3>1, SMT DEF RunSucceeds, Worker
  <2>2. QED
    BY <1>5, <2>1, SMT DEF TypeInv, TypeOK, RunSucceeds
<1>6. CASE apply_observed_mapping
  <2>1. worker' \in Worker /\ worker'.app \in App /\ Observed \subseteq Depot
    <3>1. worker' \in Worker
      BY <1>6, <1>t, WorkerWrite DEF apply_observed_mapping
    <3>2. worker'.app \in App
      BY <1>6, <1>t, SMT DEF apply_observed_mapping, Worker
    <3>3. Observed \subseteq Depot
      BY <1>t, WorkerWrite DEF Observed
    <3>4. QED
      BY <3>1, <3>2, <3>3
  <2>2. map' \subseteq Depot \X App
    <3>1. worker.app \in App
      BY <1>6 DEF TypeInv, apply_observed_mapping
    <3>2. QED
      BY <1>6, <2>1, <3>1, SMT DEF TypeInv, TypeOK, apply_observed_mapping
  <2>3. QED
    BY <1>6, <2>1, <2>2, SMT DEF TypeInv, TypeOK, apply_observed_mapping
<1>7. CASE SetDone
  <2>1. worker' \in Worker /\ worker'.app \in App
    BY <1>7, <1>t, SMT DEF SetDone, Worker
  <2>2. apps' \in [App -> AppRow]
    BY <1>7, <1>t, AppWrite DEF SetDone
  <2>3. QED
    BY <1>7, <2>1, <2>2, SMT DEF TypeInv, TypeOK, SetDone
<1>8. ASSUME NEW d \in Depot, ingest_after_prefill(d) PROVE TypeInv'
  <2>1. <<d, Home[d]>> \in Depot \X App
    BY CacheContentAssumption
  <2>2. map' \subseteq Depot \X App
    BY <1>8, <2>1, SMT DEF TypeInv, TypeOK, ingest_after_prefill
  <2>3. QED
    BY <1>8, <2>2, SMT DEF TypeInv, TypeOK, ingest_after_prefill
<1>9. CASE clear_needs_force_if_unchanged
  <2>1. worker' \in Worker /\ worker'.app \in App
    BY <1>9, ClosingType DEF TypeInv, clear_needs_force_if_unchanged
  <2>2. apps' \in [App -> AppRow]
    BY <1>9, <1>t, AppWrite DEF clear_needs_force_if_unchanged
  <2>3. QED
    BY <1>9, <2>1, <2>2, SMT DEF TypeInv, TypeOK, clear_needs_force_if_unchanged
<1>10. CASE CloseJob
  BY <1>10, SMT DEF TypeInv, TypeOK, CloseJob, IdleWorker
<1>11. CASE RunFails
  <2>1. worker' \in Worker /\ worker'.app \in App
    BY <1>11, ClosingType DEF TypeInv, RunFails
  <2>2. apps' \in [App -> AppRow]
    BY <1>11, <1>t, AppWrite DEF RunFails
  <2>3. used' \in [Resource -> Nat]
    BY <1>11, <1>t, SpendType DEF RunFails, Resource
  <2>4. QED
    BY <1>11, <2>1, <2>2, <2>3, SMT DEF TypeInv, TypeOK, RunFails, Resource
<1>12. CASE RunStops
  <2>1. worker' \in Worker /\ (worker'.pc # "loop" => worker'.app \in App)
    <3>1. CASE Closing
      BY ClosingType, <1>12, <3>1 DEF TypeInv, RunStops
    <3>2. CASE worker' = IdleWorker
      BY <3>2, SMT DEF IdleWorker, Worker
    <3>3. QED
      BY <1>12, <3>1, <3>2 DEF RunStops
  <2>2. apps' \in [App -> AppRow]
    BY <1>12, <1>t, AppWrite DEF RunStops
  <2>3. used' \in [Resource -> Nat]
    BY <1>12, <1>t, SpendType DEF RunStops, Resource
  <2>4. QED
    BY <1>12, <2>1, <2>2, <2>3, SMT DEF TypeInv, TypeOK, RunStops, Resource
<1>13. QED
  BY <1>1, <1>2, <1>3, <1>4, <1>5, <1>6, <1>7, <1>8, <1>9, <1>10, <1>11,
     <1>12 DEF Prefill

\* needs_force set for a set of apps
LEMMA FlagApps ==
  ASSUME apps \in [App -> AppRow], NEW as
  PROVE  [a \in App |-> [apps[a] EXCEPT !.needs_force = @ \/ a \in as]]
           \in [App -> AppRow]
<1> SUFFICES ASSUME NEW a \in App
             PROVE  [apps[a] EXCEPT !.needs_force = @ \/ a \in as] \in AppRow
  OBVIOUS
<1>1. \E flag \in BOOLEAN : flag = (apps[a].needs_force \/ a \in as)
  OBVIOUS
<1>2. PICK flag \in BOOLEAN : flag = (apps[a].needs_force \/ a \in as)
  BY <1>1
<1>3. [apps[a] EXCEPT !.needs_force = flag] \in AppRow
  BY DEF AppRow
<1>4. QED
  BY <1>2, <1>3

\* GC jobs
LEMMA TypeInvGc ==
  ASSUME TypeInv, CacheContentAssumption, Gc \/ GcCrash
  PROVE  TypeInv'
<1>t. /\ worker \in Worker /\ apps \in [App -> AppRow]
      /\ worker.pc # "loop" => worker.app \in App
      /\ used \in [Resource -> Nat] /\ map \subseteq Depot \X App
  BY DEF TypeInv, TypeOK, Resource
<1>1. CASE GcPlan
  <2>1. Mapped(worker.app) \in SUBSET Depot
    BY DEF Mapped
  <2>2. worker' \in Worker
    BY <1>1, <1>t, <2>1, WorkerWrite DEF GcPlan
  <2>3. worker'.app \in App
    BY <1>1, <1>t, SMT DEF GcPlan, Worker
  <2>4. QED
    BY <1>1, <2>2, <2>3, SMT DEF TypeInv, TypeOK, GcPlan
<1>2. ASSUME NEW d \in Depot, execute_depot(d) PROVE TypeInv'
  <2>1. PICK gone \in BOOLEAN, needed \in BOOLEAN :
          /\ worker' = [worker EXCEPT !.todo = worker.todo \ {d},
               !.got = IF gone THEN worker.got \cup {d} ELSE worker.got]
          /\ IF needed
             THEN /\ disk' = [disk EXCEPT ![d] = "partial"]
                  /\ Loses(d, OwnersOf(d))
             ELSE UNCHANGED <<disk, lost>>
    BY <1>2 DEF execute_depot
  <2>2. worker' \in Worker
    <3>1. PICK got \in SUBSET Depot :
            worker' = [worker EXCEPT !.todo = worker.todo \ {d}, !.got = got]
      BY <1>t, <2>1, WorkerWrite
    <3>2. worker.todo \ {d} \in SUBSET Depot
      BY <1>t, WorkerWrite
    <3>3. QED
      BY <1>t, <3>1, <3>2, WorkerWrite
  <2>3. worker'.pc = "gc_run" /\ worker'.app = worker.app /\ worker.pc = "gc_run"
    BY <1>2, <1>t, <2>1, SMT DEF execute_depot, Worker
  <2>4. lost' \subseteq Depot \X App
    BY <2>1, LosesType DEF TypeInv, TypeOK, OwnersOf
  <2>5. disk' \in [Depot -> {"absent", "partial", "full"}]
    BY <2>1, SMT DEF TypeInv, TypeOK
  <2>6. UNCHANGED <<recorded, apps, map, job, del, used, masked, orphaned>>
    BY <1>2 DEF execute_depot
  <2>7. QED
    BY <2>2, <2>3, <2>4, <2>5, <2>6, SMT DEF TypeInv, TypeOK
<1>3. CASE flag_needs_force_for_depots
  <2> DEFINE as == {a \in App : Mapped(a) \cap worker.got # {}}
  <2>1. GcEnds(as) /\ as \subseteq App
    BY <1>3 DEF flag_needs_force_for_depots
  <2> HIDE DEF as
  <2>2. apps' \in [App -> AppRow]
    BY <1>t, <2>1, FlagApps DEF GcEnds
  <2>3. masked' \subseteq App
    BY <2>1, SetsForceType DEF GcEnds, TypeInv, TypeOK
  <2>4. worker' \in Worker /\ worker'.pc = "loop"
    BY <2>1, IdleWorkerType DEF GcEnds, IdleWorker
  <2>5. job' \in [App -> SUBSET {"prefill", "gc"}]
    BY <2>1, SMT DEF GcEnds, TypeInv, TypeOK
  <2>6. UNCHANGED <<disk, recorded, map, del, used, lost, orphaned>>
    BY <2>1 DEF GcEnds
  <2>7. QED
    BY <2>2, <2>3, <2>4, <2>5, <2>6, SMT DEF TypeInv, TypeOK
<1>4. CASE GcCrash
  <2>1. used' \in [Resource -> Nat]
    BY <1>4, <1>t, SpendType DEF GcCrash, Resource
  <2>2. orphaned' \subseteq Depot \X App
    BY <1>4, SMT DEF GcCrash, TypeInv, TypeOK
  <2>3. worker' \in Worker /\ worker'.pc = "loop"
    BY <1>4, IdleWorkerType DEF GcCrash, IdleWorker
  <2>4. job' \in [App -> SUBSET {"prefill", "gc"}]
    BY <1>4, SMT DEF GcCrash, TypeInv, TypeOK
  <2>5. UNCHANGED <<disk, recorded, apps, map, del, lost, masked>>
    BY <1>4 DEF GcCrash
  <2>6. QED
    BY <2>1, <2>2, <2>3, <2>4, <2>5, SMT DEF TypeInv, TypeOK, Resource
<1>5. QED
  BY <1>1, <1>2, <1>3, <1>4 DEF Gc

\* The rows a DELETE goes through
LEMMA DeleteWrite ==
  ASSUME NEW q \in DeleteRow, NEW d \in Depot, NEW as \in SUBSET App
  PROVE  /\ [q EXCEPT !.todo = @ \ {d}] \in DeleteRow
         /\ [q EXCEPT !.todo = @ \ {d}, !.failed = TRUE] \in DeleteRow
         /\ [q EXCEPT !.todo = @ \ {d}, !.pc = "remove", !.cur = d, !.owners = as]
              \in DeleteRow
BY DEF DeleteRow

LEMMA RemovedWrite ==
  ASSUME NEW q \in DeleteRow
  PROVE  /\ [q EXCEPT !.pc = "flag"] \in DeleteRow
         /\ [q EXCEPT !.pc = "recheck", !.cur = NoDepot, !.touched = TRUE,
                      !.owners = {}, !.flagged = @ \cup q.owners] \in DeleteRow
         /\ [q EXCEPT !.pc = "recheck", !.cur = NoDepot, !.failed = TRUE,
                      !.owners = {}, !.flagged = @ \cup q.owners] \in DeleteRow
         /\ q.flagged \subseteq App /\ q.owners \subseteq App
BY DEF DeleteRow

LEMMA DeleteStart ==
  ASSUME NEW a \in App, NEW todo \in SUBSET Depot
  PROVE  [NoDelete EXCEPT !.pc = "recheck", !.app = a, !.todo = todo] \in DeleteRow
BY DEF DeleteRow, NoDelete

\* DELETE requests
LEMMA TypeInvDelete ==
  ASSUME TypeInv, CacheContentAssumption, NEW r \in Request,
         \/ \E a \in App : DeleteBegins(r, a)
         \/ Delete(r) \/ RemoveFails(r) \/ \E d \in Depot : RecheckFails(r, d)
  PROVE  TypeInv'
<1>t. /\ apps \in [App -> AppRow] /\ del \in [Request -> DeleteRow]
      /\ del[r] \in DeleteRow
      /\ del[r].pc # "none" => del[r].app \in App
      /\ del[r].pc = "remove" => del[r].cur \in Depot
      /\ used \in [Resource -> Nat]
      /\ lost \subseteq Depot \X App /\ masked \subseteq App
      /\ disk \in [Depot -> {"absent", "partial", "full"}]
  BY DEF TypeInv, TypeOK, Resource
<1> DEFINE DelOK == /\ del' \in [Request -> DeleteRow]
                    /\ \A q \in Request : del'[q].pc # "none" => del'[q].app \in App
                    /\ \A q \in Request : del'[q].pc = "remove" => del'[q].cur \in Depot
<1>1. ASSUME NEW a \in App, DeleteBegins(r, a) PROVE TypeInv'
  <2> DEFINE row == [NoDelete EXCEPT !.pc = "recheck", !.app = a,
                                     !.todo = Deletable(a)]
  <2>1. row \in DeleteRow /\ row.pc = "recheck" /\ row.app = a
    <3>1. Deletable(a) \in SUBSET Depot
      BY DEF Deletable, Mapped
    <3>2. QED
      BY <3>1, DeleteStart DEF NoDelete
  <2>2. UpdateDel(r, row)
    BY <1>1 DEF DeleteBegins
  <2> HIDE DEF row
  <2>3. DelOK
    BY <2>1, <2>2, UpdateDelType
  <2>4. used' \in [Resource -> Nat]
    BY <1>1, <1>t, SpendType DEF DeleteBegins, Resource
  <2>5. UNCHANGED <<disk, recorded, apps, map, job, worker, lost, masked, orphaned>>
    BY <1>1 DEF DeleteBegins
  <2>6. QED
    BY <2>3, <2>4, <2>5, SMT DEF TypeInv, TypeOK, Resource
<1>2. ASSUME NEW d \in Depot, DeleteRechecks(r, d) PROVE TypeInv'
  <2> DEFINE others == OwnersOf(d) \ {del[r].app}
             kept == [del[r] EXCEPT !.todo = @ \ {d}]
             gone == [del[r] EXCEPT !.todo = @ \ {d}, !.pc = "remove",
                                    !.cur = d, !.owners = others]
  <2>1. kept \in DeleteRow /\ gone \in DeleteRow
    BY <1>t, DeleteWrite DEF OwnersOf
  <2>2. /\ kept.pc = "recheck" /\ kept.app \in App
        /\ gone.pc = "remove" /\ gone.app \in App /\ gone.cur \in Depot
    BY <1>2, <1>t DEF DeleteRechecks, DeleteRow
  <2>3. UpdateDel(r, kept) \/ UpdateDel(r, gone)
    BY <1>2 DEF DeleteRechecks
  <2> HIDE DEF kept, gone
  <2>4. DelOK
    BY <2>1, <2>2, <2>3, UpdateDelType
  <2>5. UNCHANGED <<disk, recorded, apps, map, job, worker, used, lost, masked,
                    orphaned>>
    BY <1>2 DEF DeleteRechecks
  <2>6. QED
    BY <2>4, <2>5, SMT DEF TypeInv, TypeOK
<1>3. ASSUME NEW d \in Depot, RecheckFails(r, d) PROVE TypeInv'
  <2> DEFINE row == [del[r] EXCEPT !.todo = @ \ {d}, !.failed = TRUE]
  <2>1. row \in DeleteRow
    BY <1>t, DeleteWrite
  <2>2. row.pc = "recheck" /\ row.app \in App
    BY <1>3, <1>t DEF RecheckFails, DeleteRow
  <2>3. UpdateDel(r, row)
    BY <1>3 DEF RecheckFails
  <2> HIDE DEF row
  <2>4. DelOK
    BY <2>1, <2>2, <2>3, UpdateDelType
  <2>5. used' \in [Resource -> Nat]
    BY <1>3, <1>t, SpendType DEF RecheckFails, Resource
  <2>6. UNCHANGED <<disk, recorded, apps, map, job, worker, lost, masked, orphaned>>
    BY <1>3 DEF RecheckFails
  <2>7. QED
    BY <2>4, <2>5, <2>6, SMT DEF TypeInv, TypeOK, Resource
<1>4. CASE DeleteRemoves(r)
  <2> DEFINE row == [del[r] EXCEPT !.pc = "recheck", !.cur = NoDepot,
                       !.touched = TRUE, !.owners = {},
                       !.flagged = @ \cup del[r].owners]
  <2>1. row \in DeleteRow
    BY <1>t, RemovedWrite
  <2>2. row.pc = "recheck" /\ row.app \in App
    BY <1>4, <1>t DEF DeleteRemoves, DeleteRow
  <2>3. UpdateDel(r, row)
    BY <1>4 DEF DeleteRemoves
  <2> HIDE DEF row
  <2>4. DelOK
    BY <2>1, <2>2, <2>3, UpdateDelType
  <2>5. lost' \subseteq Depot \X App
    <3>1. del[r].cur \in Depot /\ del[r].owners \cup {del[r].app} \subseteq App
      BY <1>4, <1>t, RemovedWrite DEF DeleteRemoves
    <3>2. QED
      BY <1>4, <1>t, <3>1, LosesType DEF DeleteRemoves
  <2>6. disk' \in [Depot -> {"absent", "partial", "full"}]
    <3>1. disk' = [disk EXCEPT ![del[r].cur] = "absent"]
      BY <1>4 DEF DeleteRemoves
    <3>2. QED
      BY <1>t, <3>1
  <2>7. UNCHANGED <<recorded, apps, map, job, worker, used, masked, orphaned>>
    BY <1>4 DEF DeleteRemoves
  <2>8. QED
    BY <2>4, <2>5, <2>6, <2>7, SMT DEF TypeInv, TypeOK
<1>5. CASE RemoveFails(r)
  <2> DEFINE row == [del[r] EXCEPT !.pc = "recheck", !.cur = NoDepot,
                       !.failed = TRUE, !.owners = {},
                       !.flagged = @ \cup del[r].owners]
  <2>1. row \in DeleteRow
    BY <1>t, RemovedWrite
  <2>2. row.pc = "recheck" /\ row.app \in App
    BY <1>5, <1>t DEF RemoveFails, DeleteRow
  <2>3. UpdateDel(r, row)
    BY <1>5 DEF RemoveFails
  <2> HIDE DEF row
  <2>4. DelOK
    BY <2>1, <2>2, <2>3, UpdateDelType
  <2>5. lost' \subseteq Depot \X App
    <3>1. del[r].cur \in Depot /\ del[r].owners \cup {del[r].app} \subseteq App
      BY <1>5, <1>t, RemovedWrite DEF RemoveFails
    <3>2. QED
      BY <1>5, <1>t, <3>1, LosesType DEF RemoveFails
  <2>6. disk' \in [Depot -> {"absent", "partial", "full"}]
    <3>1. disk' = [disk EXCEPT ![del[r].cur] = "partial"]
      BY <1>5 DEF RemoveFails
    <3>2. QED
      BY <1>t, <3>1
  <2>7. used' \in [Resource -> Nat]
    BY <1>5, <1>t, SpendType DEF RemoveFails, Resource
  <2>8. worker' \in Worker /\ worker'.pc = worker.pc /\ worker'.app = worker.app
    <3>1. Changes(del[r].cur) /\ del[r].cur \in Depot
      BY <1>5, <1>t DEF RemoveFails
    <3>2. worker \in Worker
      BY DEF TypeInv, TypeOK
    <3>3. QED
      BY <3>1, <3>2 DEF Changes, Worker
  <2>9. UNCHANGED <<recorded, apps, map, job, masked, orphaned>>
    BY <1>5 DEF RemoveFails
  <2>10. QED
    BY <2>4, <2>5, <2>6, <2>7, <2>8, <2>9, SMT DEF TypeInv, TypeOK, Resource
<1>6. CASE reset_app_after_deletion(r)
  <2>1. UpdateDel(r, [del[r] EXCEPT !.pc = "flag"])
    BY <1>6 DEF reset_app_after_deletion
  <2>2. /\ [del[r] EXCEPT !.pc = "flag"] \in DeleteRow
        /\ [del[r] EXCEPT !.pc = "flag"].pc = "flag"
        /\ [del[r] EXCEPT !.pc = "flag"].app \in App /\ del[r].app \in App
    <3>1. del[r].app \in App
      BY <1>6, <1>t DEF reset_app_after_deletion
    <3>2. QED
      BY <1>t, <3>1, RemovedWrite DEF DeleteRow
  <2>3. DelOK
    BY <2>1, <2>2, UpdateDelType
  <2>4. apps' \in [App -> AppRow]
    <3>1. PICK flag \in BOOLEAN, status \in {"idle", "running", "done", "error"} :
            apps' = [apps EXCEPT ![del[r].app] =
                       [status |-> status, prefilled |-> FALSE, needs_force |-> flag]]
      <4> DEFINE flag == apps[del[r].app].needs_force \/
                         del[r].touched \/ del[r].failed
                 status == IF del[r].failed THEN "error" ELSE "idle"
      <4>1. apps' = [apps EXCEPT ![del[r].app] =
                       [status |-> status, prefilled |-> FALSE, needs_force |-> flag]]
        BY <1>6 DEF reset_app_after_deletion
      <4>2. \E b \in BOOLEAN : b = flag
        OBVIOUS
      <4>3. status \in {"idle", "running", "done", "error"}
        OBVIOUS
      <4> HIDE DEF flag, status
      <4>4. QED
        BY <4>1, <4>2, <4>3
    <3>2. QED
      BY <1>t, <2>2, <3>1, AppWrite
  <2>5. masked' \subseteq App
    BY <1>6, <1>t, <2>2, SetsForceType DEF reset_app_after_deletion
  <2>6. UNCHANGED <<disk, recorded, map, job, worker, used, lost, orphaned>>
    BY <1>6 DEF reset_app_after_deletion
  <2>7. QED
    BY <2>3, <2>4, <2>5, <2>6, SMT DEF TypeInv, TypeOK
<1>7. CASE set_needs_force_for_remnant_co_owners(r)
  <2>1. DelOK
    BY <1>7, NoDeleteType, UpdateDelType
       DEF set_needs_force_for_remnant_co_owners, NoDelete
  <2>2. apps' \in [App -> AppRow]
    BY <1>7, <1>t, FlagApps DEF set_needs_force_for_remnant_co_owners
  <2>3. masked' \subseteq App
    <3>1. del[r].flagged \subseteq App /\ SetsForce(del[r].flagged)
      BY <1>7, <1>t DEF set_needs_force_for_remnant_co_owners, DeleteRow
    <3>2. QED
      BY <1>t, <3>1, SetsForceType
  <2>4. UNCHANGED <<disk, recorded, map, job, worker, used, lost, orphaned>>
    BY <1>7 DEF set_needs_force_for_remnant_co_owners
  <2>5. QED
    BY <2>1, <2>2, <2>3, <2>4, SMT DEF TypeInv, TypeOK
<1>8. QED
  BY <1>1, <1>2, <1>3, <1>4, <1>5, <1>6, <1>7 DEF Delete

LEMMA TypeInvKill ==
  ASSUME TypeInv, Kill
  PROVE  TypeInv'
<1>t. /\ apps \in [App -> AppRow] /\ used \in [Resource -> Nat]
      /\ worker.pc # "loop" => worker.app \in App
      /\ job \in [App -> SUBSET {"prefill", "gc"}]
  BY DEF TypeInv, TypeOK, Resource
<1>1. used' \in [Resource -> Nat]
  BY <1>t, SpendType DEF Kill, Resource
<1>2. orphaned' \subseteq Depot \X App
  BY SMT DEF Kill, TypeInv, TypeOK
<1>3. worker' \in Worker /\ worker'.pc = "loop"
  BY IdleWorkerType DEF Kill, IdleWorker
<1>4. /\ del' \in [Request -> DeleteRow]
      /\ \A q \in Request : del'[q].pc = "none"
  BY NoDeleteType DEF Kill, NoDelete
<1>5. apps' \in [App -> AppRow]
  <2>1. CASE worker.pc = "loop"
    BY <1>t, <2>1 DEF Kill
  <2>2. CASE worker.pc # "loop"
    <3>1. PICK status \in {"idle", "running", "done", "error"} :
            apps' = [apps EXCEPT ![worker.app].status = status]
      BY <1>t, <2>2, AppWrite DEF Kill
    <3>2. QED
      BY <1>t, <2>2, <3>1, AppWrite
  <2>3. QED
    BY <2>1, <2>2
<1>6. job' \in [App -> SUBSET {"prefill", "gc"}]
  BY <1>t DEF Kill
<1>7. UNCHANGED <<disk, recorded, map, lost, masked>>
  BY DEF Kill
<1>8. QED
  BY <1>1, <1>2, <1>3, <1>4, <1>5, <1>6, <1>7, SMT DEF TypeInv, TypeOK, Resource

LEMMA TypeInvStep ==
  ASSUME TypeInv, CacheContentAssumption, [Next]_vars
  PROVE  TypeInv'
<1>1. CASE UNCHANGED vars
  BY <1>1 DEF vars, TypeInv, TypeOK
<1>2. CASE Next
  BY <1>2, TypeInvOutside, TypeInvPrefill, TypeInvGc, TypeInvDelete, TypeInvKill
     DEF Next
<1>3. QED
  BY <1>1, <1>2

\* The type invariant of CacheContent, whatever the apps, their depots, the
\* number of requests and the bounds.
THEOREM TypeCorrect == Spec => []TypeOK
<1>1. Init => TypeInv
  BY TypeInvInit
<1>2. TypeInv /\ [Next]_vars => TypeInv'
  BY CacheContentAssumption, TypeInvStep
<1>3. TypeInv => TypeOK
  BY DEF TypeInv
<1>4. QED
  BY <1>1, <1>2, <1>3, PTL DEF Spec
-----------------------------------------------------------------------------
(***************************************************************************)
(* Content removed by DELETE or GC leaves needs_force set on whoever must  *)
(* fill it again, for any apps, depots, ownership and bounds.              *)
(***************************************************************************)

Excused(d, a) == FlagPending(d, a) \/ a \in masked \/ <<d, a>> \in orphaned

\* Every loss is flagged or excused.  The clear at the end of a forced run
\* takes the flag away, so the run must by then have filled what was lost, or
\* the loss be excused without the flag.  And only what an app owns counts as
\* lost to it, which is what a forced run starts with.
FlagInv ==
  /\ \A d \in Depot, a \in App :
       <<d, a>> \in lost => apps[a].needs_force \/ Excused(d, a)
  /\ \A d \in Depot, a \in App :
       <<d, a>> \in lost /\ InForcedRun(a) => d \in worker.todo \/ Excused(d, a)
  /\ worker.pc \in {"filled", "mapped", "done"} => worker.todo = {}
  /\ \A d \in Depot, a \in App : <<d, a>> \in lost => d \in Owns[a]

LEMMA FlagInvInit == Init => FlagInv
BY SMT DEF Init, FlagInv, IdleWorker

\* A step that takes neither flag nor content away and starts no forced run
LEMMA QuietStep ==
  ASSUME FlagInv,
         \A a \in App : apps[a].needs_force => apps'[a].needs_force,
         masked \subseteq masked',
         \A d \in Depot, a \in App :
           <<d, a>> \in lost' =>
             /\ <<d, a>> \in lost
             /\ <<d, a>> \in orphaned => <<d, a>> \in orphaned',
         \A d \in Depot, a \in App : FlagPending(d, a) => FlagPending(d, a)',
         \A a \in App : InForcedRun(a)' => InForcedRun(a),
         \A d \in Depot, a \in App :
           InForcedRun(a)' /\ <<d, a>> \in lost' /\ d \in worker.todo =>
             d \in worker'.todo,
         worker'.pc \in {"filled", "mapped", "done"} => worker'.todo = {}
  PROVE  FlagInv'
BY DEF FlagInv, Excused

\* Who is about to be flagged stays so while no DELETE moves and no GC ends.
LEMMA PendingStays ==
  ASSUME del' = del,
         worker.pc = "gc_run" =>
           worker'.pc = "gc_run" /\ worker.got \subseteq worker'.got /\ map' = map
  PROVE  \A d \in Depot, a \in App : FlagPending(d, a) => FlagPending(d, a)'
BY DEF FlagPending, WillFlag

LEMMA FlaggedIsSet ==
  ASSUME apps \in [App -> AppRow], NEW as,
         apps' = [a \in App |-> [apps[a] EXCEPT !.needs_force = @ \/ a \in as]]
  PROVE  \A a \in App : apps[a].needs_force \/ a \in as => apps'[a].needs_force
BY DEF AppRow

\* Requests, clients and Steam
LEMMA FlagInvOutside ==
  ASSUME TypeInv, FlagInv,
         \/ \E a \in App : EnqueuePrefill(a) \/ EnqueueGc(a)
         \/ \E d \in Depot : ClientMiss(d) \/ Publish(d)
  PROVE  FlagInv'
<1>t. worker \in Worker
  BY DEF TypeInv, TypeOK
<1>1. CASE \E a \in App : EnqueuePrefill(a) \/ EnqueueGc(a)
  <2>1. UNCHANGED <<apps, masked, lost, orphaned, del, worker, map>>
    BY <1>1 DEF EnqueuePrefill, EnqueueGc
  <2>2. QED
    BY <2>1 DEF FlagInv, Excused, FlagPending, WillFlag, InForcedRun
<1>2. ASSUME NEW d \in Depot, ClientMiss(d) PROVE FlagInv'
  <2>1. UNCHANGED <<apps, masked, del, map>>
    BY <1>2 DEF ClientMiss
  <2>2. /\ worker'.pc = worker.pc /\ worker'.app = worker.app
        /\ worker'.force = worker.force /\ worker'.todo = worker.todo
        /\ worker'.got = worker.got
    BY <1>2, <1>t DEF ClientMiss, Changes, Worker
  <2>3. \A e \in Depot, a \in App : <<e, a>> \in lost' =>
          /\ <<e, a>> \in lost
          /\ <<e, a>> \in orphaned => <<e, a>> \in orphaned'
    BY <1>2 DEF ClientMiss, Refilled
  <2>4. \A e \in Depot, a \in App : FlagPending(e, a) => FlagPending(e, a)'
    BY <2>1, <2>2, PendingStays
  <2>5. \A a \in App : InForcedRun(a)' => InForcedRun(a)
    BY <2>2 DEF InForcedRun
  <2>6. worker'.pc \in {"filled", "mapped", "done"} => worker'.todo = {}
    BY <2>2 DEF FlagInv
  <2>7. QED
    BY <2>1, <2>2, <2>3, <2>4, <2>5, <2>6, QuietStep
<1>3. ASSUME NEW d \in Depot, Publish(d) PROVE FlagInv'
  <2>1. UNCHANGED <<apps, masked, lost, orphaned, del, map>>
    BY <1>3 DEF Publish
  <2>2. /\ worker'.pc = worker.pc /\ worker'.app = worker.app
        /\ worker'.force = worker.force /\ worker'.todo = worker.todo
        /\ worker.pc = "gc_run" => worker'.got = worker.got
    BY <1>3, <1>t DEF Publish, Worker
  <2>4. \A e \in Depot, a \in App : FlagPending(e, a) => FlagPending(e, a)'
    BY <2>1, <2>2, PendingStays
  <2>5. \A a \in App : InForcedRun(a)' => InForcedRun(a)
    BY <2>2 DEF InForcedRun
  <2>6. worker'.pc \in {"filled", "mapped", "done"} => worker'.todo = {}
    BY <2>2 DEF FlagInv
  <2>7. QED
    BY <2>1, <2>2, <2>4, <2>5, <2>6, QuietStep
<1>4. QED
  BY <1>1, <1>2, <1>3

\* The worker's prefill job up to the clear
LEMMA FlagInvPrefill ==
  ASSUME TypeInv, FlagInv, CacheContentAssumption,
         \/ \E a \in App, type \in {"prefill", "gc"} : Claim(a, type)
         \/ WorkerStart \/ RunBegins \/ RunSucceeds \/ apply_observed_mapping
         \/ SetDone \/ CloseJob \/ RunFails \/ RunStops
         \/ \E d \in Depot : Download(d) \/ ingest_after_prefill(d)
  PROVE  FlagInv'
<1>t. /\ worker \in Worker /\ apps \in [App -> AppRow]
      /\ worker.pc # "loop" => worker.app \in App
  BY DEF TypeInv, TypeOK
\* Outside a GC job, with the requests where they are
<1>p. ASSUME worker.pc # "gc_run", del' = del
      PROVE  \A d \in Depot, a \in App : FlagPending(d, a) => FlagPending(d, a)'
  BY <1>p, PendingStays
\* No forced run is under way after the step
<1>q. ASSUME worker.pc # "gc_run", del' = del,
             UNCHANGED <<masked, lost, orphaned>>,
             \A a \in App : apps[a].needs_force => apps'[a].needs_force,
             worker'.pc \notin {"run", "filled", "mapped", "done"}
      PROVE  FlagInv'
  <2>1. \A a \in App : ~InForcedRun(a)'
    BY <1>q DEF InForcedRun
  <2>2. QED
    BY <1>q, <1>p, <2>1, QuietStep
\* The run goes on with nothing new lost
<1>r. ASSUME worker.pc \in {"run", "filled", "mapped"}, del' = del,
             UNCHANGED <<masked, lost, orphaned>>,
             \A a \in App : apps[a].needs_force => apps'[a].needs_force,
             worker'.app = worker.app, worker'.force = worker.force,
             worker'.todo = worker.todo, worker.todo = {}
      PROVE  FlagInv'
  <2>1. \A a \in App : InForcedRun(a)' => InForcedRun(a)
    BY <1>r DEF InForcedRun
  <2>2. QED
    BY <1>r, <1>p, <2>1, QuietStep
<1>1. ASSUME NEW a \in App, NEW type \in {"prefill", "gc"}, Claim(a, type)
      PROVE  FlagInv'
  <2>1. worker.pc = "loop" /\ UNCHANGED <<masked, lost, orphaned, apps, del>>
    BY <1>1 DEF Claim
  <2>2. worker'.pc \in {"gc", "claimed"}
    BY <1>1 DEF Claim, IdleWorker
  <2>3. QED
    BY <1>q, <2>1, <2>2
<1>2. CASE WorkerStart
  <2>1. worker.pc = "claimed" /\ UNCHANGED <<masked, lost, orphaned, del>>
    BY <1>2 DEF WorkerStart
  <2>2. worker'.pc = "started"
    BY <1>2, <1>t DEF WorkerStart, Worker
  <2>3. \A a \in App : apps[a].needs_force => apps'[a].needs_force
    BY <1>2, <1>t DEF WorkerStart, AppRow
  <2>4. QED
    BY <1>q, <2>1, <2>2, <2>3
<1>3. CASE RunBegins
  <2> DEFINE me == worker.app
  <2>1. /\ worker.pc = "started" /\ me \in App
        /\ UNCHANGED <<apps, lost, orphaned, del, map>>
    BY <1>3, <1>t DEF RunBegins
  <2>2. /\ worker'.pc = "run" /\ worker'.app = me
        /\ worker'.force = apps[me].needs_force
        /\ worker'.force => worker'.todo = Owns[me]
    BY <1>3, <1>t DEF RunBegins, Worker
  <2>3. masked' = IF worker'.force THEN masked \ {me} ELSE masked
    BY <1>3, <2>2 DEF RunBegins
  <2>4. \A d \in Depot, a \in App : FlagPending(d, a) => FlagPending(d, a)'
    BY <1>p, <2>1
  <2>5. ASSUME NEW d \in Depot, NEW a \in App, <<d, a>> \in lost'
        PROVE  /\ apps'[a].needs_force \/ Excused(d, a)'
               /\ InForcedRun(a)' => d \in worker'.todo
               /\ d \in Owns[a]
    <3>1. apps[a].needs_force \/ Excused(d, a)
      BY <2>1, <2>5 DEF FlagInv
    <3>2. d \in Owns[a]
      BY <2>1, <2>5 DEF FlagInv
    <3>3. apps'[a].needs_force \/ Excused(d, a)'
      BY <2>1, <2>2, <2>3, <2>4, <3>1 DEF Excused
    <3>4. InForcedRun(a)' => d \in worker'.todo
      BY <2>2, <3>2 DEF InForcedRun
    <3>5. QED
      BY <3>2, <3>3, <3>4
  <2>6. QED
    BY <2>2, <2>5 DEF FlagInv
<1>4. ASSUME NEW d \in Depot, Download(d) PROVE FlagInv'
  <2>1. worker.pc = "run" /\ UNCHANGED <<apps, masked, del>>
    BY <1>4 DEF Download
  <2>2. /\ worker'.pc = "run" /\ worker'.app = worker.app
        /\ worker'.force = worker.force /\ worker'.todo = worker.todo \ {d}
    BY <1>4, <1>t DEF Download, Worker
  <2>3. /\ lost' = {p \in lost : p[1] # d}
        /\ orphaned' = {p \in orphaned : p[1] # d}
    BY <1>4 DEF Download, Refilled
  <2>4. \A e \in Depot, a \in App : <<e, a>> \in lost' =>
          /\ e # d /\ <<e, a>> \in lost
          /\ <<e, a>> \in orphaned => <<e, a>> \in orphaned'
    BY <2>3
  <2>5. \A a \in App : InForcedRun(a)' => InForcedRun(a)
    BY <2>1, <2>2 DEF InForcedRun
  <2>6. QED
    BY <1>p, <2>1, <2>2, <2>4, <2>5, QuietStep
<1>5. CASE RunSucceeds
  BY <1>5, <1>r, <1>t DEF RunSucceeds, Worker
<1>6. CASE apply_observed_mapping
  BY <1>6, <1>r, <1>t DEF apply_observed_mapping, Worker, FlagInv
<1>7. CASE SetDone
  <2>1. \A a \in App : apps[a].needs_force => apps'[a].needs_force
    BY <1>7, <1>t DEF SetDone, AppRow
  <2>2. worker'.app = worker.app /\ worker'.force = worker.force
        /\ worker'.todo = worker.todo
    BY <1>7, <1>t DEF SetDone, Worker
  <2>3. worker.pc = "mapped" /\ UNCHANGED <<masked, lost, orphaned, del>>
    BY <1>7 DEF SetDone
  <2>4. worker.todo = {}
    BY <2>3 DEF FlagInv
  <2>5. QED
    BY <1>r, <2>1, <2>2, <2>3, <2>4
<1>8. CASE CloseJob
  BY <1>8, <1>q DEF CloseJob, IdleWorker
<1>9. CASE RunFails
  <2>1. worker.pc # "gc_run" /\ UNCHANGED <<masked, lost, orphaned, del>>
    BY <1>9 DEF RunFails
  <2>2. worker'.pc = "closing"
    BY <1>9 DEF RunFails, Closing, IdleWorker
  <2>3. \A a \in App : apps[a].needs_force => apps'[a].needs_force
    BY <1>9, <1>t DEF RunFails, AppRow
  <2>4. QED
    BY <1>q, <2>1, <2>2, <2>3
<1>10. CASE RunStops
  <2>1. worker.pc # "gc_run" /\ UNCHANGED <<masked, lost, orphaned, del>>
    BY <1>10 DEF RunStops
  <2>2. worker'.pc \in {"closing", "loop"}
    <3>1. Closing => worker'.pc = "closing"
      BY DEF Closing, IdleWorker
    <3>2. worker' = IdleWorker => worker'.pc = "loop"
      BY DEF IdleWorker
    <3>3. QED
      BY <1>10, <3>1, <3>2 DEF RunStops
  <2>3. \A a \in App : apps[a].needs_force => apps'[a].needs_force
    <3>1. \E status : apps' = [apps EXCEPT ![worker.app].status = status]
      BY <1>10 DEF RunStops
    <3>2. QED
      BY <1>t, <3>1 DEF AppRow
  <2>4. QED
    BY <1>q, <2>1, <2>2, <2>3
<1>11. ASSUME NEW d \in Depot, ingest_after_prefill(d) PROVE FlagInv'
  <2>1. /\ worker.pc = "mapped"
        /\ UNCHANGED <<apps, masked, lost, orphaned, del, worker>>
    BY <1>11 DEF ingest_after_prefill
  <2>2. \A a \in App : InForcedRun(a)' => InForcedRun(a)
    BY <2>1 DEF InForcedRun
  <2>3. worker.todo = {}
    BY <2>1 DEF FlagInv
  <2>4. QED
    BY <1>p, <2>1, <2>2, <2>3, QuietStep
<1>12. QED
  BY <1>1, <1>2, <1>3, <1>4, <1>5, <1>6, <1>7, <1>8, <1>9, <1>10, <1>11

\* The compare-and-swap: a forced run takes its app's flag away, having filled
\* everything that no other excuse covers.
LEMMA FlagInvClear ==
  ASSUME TypeInv, FlagInv, clear_needs_force_if_unchanged
  PROVE  FlagInv'
<1> DEFINE me == worker.app
<1>1. /\ worker.pc = "done" /\ me \in App
      /\ UNCHANGED <<masked, lost, orphaned, del>>
  BY DEF clear_needs_force_if_unchanged, TypeInv
<1>2. worker'.pc = "closing"
  BY DEF clear_needs_force_if_unchanged, Closing, IdleWorker
<1>3. apps \in [App -> AppRow]
  BY DEF TypeInv, TypeOK
<1>4. \A a \in App : apps[a].needs_force =>
        \/ apps'[a].needs_force
        \/ a = me /\ worker.force
  BY <1>1, <1>3 DEF clear_needs_force_if_unchanged, AppRow
<1>5. \A d \in Depot, a \in App : FlagPending(d, a) => FlagPending(d, a)'
  BY <1>1, PendingStays
<1>6. ASSUME NEW d \in Depot, NEW a \in App, <<d, a>> \in lost'
      PROVE  apps'[a].needs_force \/ Excused(d, a)'
  <2>1. CASE Excused(d, a)
    BY <1>1, <1>5, <2>1 DEF Excused
  <2>2. CASE apps[a].needs_force /\ ~Excused(d, a)
    <3>1. a = me /\ worker.force => InForcedRun(a) /\ worker.todo = {}
      BY <1>1 DEF InForcedRun, FlagInv
    <3>2. ~(a = me /\ worker.force)
      BY <1>1, <1>6, <2>2, <3>1 DEF FlagInv
    <3>3. QED
      BY <1>4, <2>2, <3>2
  <2>3. QED
    BY <1>1, <1>6, <2>1, <2>2 DEF FlagInv
<1>7. \A a \in App : ~InForcedRun(a)'
  BY <1>2 DEF InForcedRun
<1>8. QED
  BY <1>1, <1>2, <1>6, <1>7 DEF FlagInv

\* GC jobs
LEMMA FlagInvGc ==
  ASSUME TypeInv, FlagInv, CacheContentAssumption, Gc \/ GcCrash
  PROVE  FlagInv'
<1>t. worker \in Worker /\ map \subseteq Depot \X App /\ lost \subseteq Depot \X App
  BY DEF TypeInv, TypeOK
\* No forced run before or after, and the requests where they are
<1>q. ASSUME \A d \in Depot, a \in App :
               <<d, a>> \in lost' =>
                 d \in Owns[a] /\ (apps'[a].needs_force \/ Excused(d, a)'),
             worker'.pc \in {"loop", "gc_run"}
      PROVE  FlagInv'
  <2>1. \A a \in App : ~InForcedRun(a)'
    BY <1>q DEF InForcedRun
  <2>2. QED
    BY <1>q, <2>1 DEF FlagInv
\* A pending flag is a request's or, in this job, the collector's
<1>p. ASSUME NEW d \in Depot, NEW a \in App, FlagPending(d, a), worker.pc = "gc_run"
      PROVE  \/ \E r \in Request : WillFlag(r, a)
             \/ d \in worker.got /\ <<d, a>> \in map
  BY <1>p DEF FlagPending
<1>w. ASSUME NEW d \in Depot, NEW a \in App, del' = del,
             \E r \in Request : WillFlag(r, a)
      PROVE  FlagPending(d, a)'
  BY <1>w DEF FlagPending, WillFlag
<1>1. CASE GcPlan
  <2>1. worker.pc = "gc" /\ UNCHANGED <<apps, map, del, lost, masked, orphaned>>
    BY <1>1 DEF GcPlan
  <2>2. worker'.pc = "gc_run"
    BY <1>1, <1>t DEF GcPlan, Worker
  <2>3. \A d \in Depot, a \in App : FlagPending(d, a) => FlagPending(d, a)'
    BY <2>1, PendingStays
  <2>4. QED
    BY <1>q, <2>1, <2>2, <2>3 DEF FlagInv, Excused
<1>2. ASSUME NEW e \in Depot, execute_depot(e) PROVE FlagInv'
  <2>1. worker.pc = "gc_run" /\ UNCHANGED <<apps, map, del, masked, orphaned>>
    BY <1>2 DEF execute_depot
  <2>2. PICK gone \in BOOLEAN, needed \in BOOLEAN :
          /\ needed => gone
          /\ worker' = [worker EXCEPT !.todo = worker.todo \ {e},
               !.got = IF gone THEN worker.got \cup {e} ELSE worker.got]
          /\ IF needed THEN Loses(e, OwnersOf(e)) ELSE lost' = lost
    BY <1>2 DEF execute_depot
  <2>3. /\ worker'.pc = "gc_run" /\ worker.got \subseteq worker'.got
        /\ gone => e \in worker'.got
    BY <1>t, <2>1, <2>2 DEF Worker
  <2>4. \A d \in Depot, a \in App : FlagPending(d, a) => FlagPending(d, a)'
    BY <2>1, <2>3, PendingStays
  <2>5. ASSUME NEW d \in Depot, NEW a \in App, <<d, a>> \in lost'
        PROVE  d \in Owns[a] /\ (apps'[a].needs_force \/ Excused(d, a)')
    <3>1. CASE <<d, a>> \in lost
      BY <2>1, <2>4, <3>1 DEF FlagInv, Excused
    <3>2. CASE <<d, a>> \notin lost
      <4>1. needed /\ <<d, a>> \in {e} \X {b \in OwnersOf(e) : e \in Owns[b]}
        BY <2>2, <2>5, <3>2 DEF Loses
      <4>m. d = e /\ d \in Owns[a] /\ <<d, a>> \in map
        BY <4>1 DEF OwnersOf
      <4>2. FlagPending(d, a)'
        BY <2>1, <2>2, <2>3, <4>1, <4>m DEF FlagPending
      <4>3. QED
        BY <4>m, <4>2 DEF Excused
    <3>3. QED
      BY <3>1, <3>2
  <2>6. QED
    BY <1>q, <2>3, <2>5
<1>3. CASE flag_needs_force_for_depots
  <2> DEFINE as == {a \in App : Mapped(a) \cap worker.got # {}}
  <2>1. worker.pc = "gc_run" /\ UNCHANGED <<map, del, lost, orphaned>>
    BY <1>3 DEF flag_needs_force_for_depots, GcEnds
  <2>2. worker'.pc = "loop"
    BY <1>3 DEF flag_needs_force_for_depots, GcEnds, IdleWorker
  <2>3. apps' = [a \in App |-> [apps[a] EXCEPT !.needs_force = @ \/ a \in as]]
    BY <1>3 DEF flag_needs_force_for_depots, GcEnds
  <2>4. masked' = {a \in masked \cup as : a \in as => InForcedRun(a)}
    BY <1>3 DEF flag_needs_force_for_depots, GcEnds, SetsForce
  <2>5. \A d \in Depot, a \in App : d \in worker.got /\ <<d, a>> \in map => a \in as
    BY DEF Mapped
  <2> HIDE DEF as
  <2>6. \A a \in App : apps[a].needs_force \/ a \in as => apps'[a].needs_force
    BY <2>3, FlaggedIsSet DEF TypeInv, TypeOK
  <2>7. ASSUME NEW d \in Depot, NEW a \in App, <<d, a>> \in lost', a \notin as
        PROVE  apps'[a].needs_force \/ Excused(d, a)'
    <3>1. apps[a].needs_force \/ Excused(d, a)
      BY <2>1, <2>7 DEF FlagInv
    <3>2. FlagPending(d, a) => FlagPending(d, a)'
      BY <1>p, <1>w, <2>1, <2>5, <2>7
    <3>3. a \in masked => a \in masked'
      BY <2>4, <2>7
    <3>4. QED
      BY <2>1, <2>6, <3>1, <3>2, <3>3 DEF Excused
  <2>8. QED
    BY <1>q, <2>1, <2>2, <2>6, <2>7 DEF FlagInv
<1>4. CASE GcCrash
  <2>1. worker.pc = "gc_run" /\ UNCHANGED <<apps, map, del, lost, masked>>
    BY <1>4 DEF GcCrash
  <2>2. worker'.pc = "loop"
    BY <1>4 DEF GcCrash, IdleWorker
  <2>3. orphaned' = orphaned \cup {p \in lost : p[1] \in worker.got /\ p \in map}
    BY <1>4 DEF GcCrash
  <2>4. ASSUME NEW d \in Depot, NEW a \in App, <<d, a>> \in lost'
        PROVE  apps'[a].needs_force \/ Excused(d, a)'
    <3>1. apps[a].needs_force \/ Excused(d, a)
      BY <2>1, <2>4 DEF FlagInv
    <3>2. FlagPending(d, a) => FlagPending(d, a)' \/ <<d, a>> \in orphaned'
      BY <1>p, <1>w, <2>1, <2>3, <2>4
    <3>3. QED
      BY <2>1, <2>3, <3>1, <3>2 DEF Excused
  <2>5. QED
    BY <1>q, <2>1, <2>2, <2>4 DEF FlagInv
<1>5. QED
  BY <1>1, <1>2, <1>3, <1>4 DEF Gc

\* An app is still about to be flagged by r if nothing r knows is forgotten.
LEMMA WillFlagStays ==
  ASSUME TypeInv, NEW r \in Request, NEW row \in DeleteRow, UpdateDel(r, row),
         \A a \in App : WillFlag(r, a) =>
           \/ /\ row.pc \in {"recheck", "remove"} /\ row.app = a
              /\ row.touched \/ row.failed
           \/ row.pc # "none" /\ a \in row.flagged
  PROVE  \A q \in Request, a \in App : WillFlag(q, a) => WillFlag(q, a)'
<1>1. del \in [Request -> DeleteRow]
  BY DEF TypeInv, TypeOK
<1>2. del'[r] = row /\ \A q \in Request : q # r => del'[q] = del[q]
  BY <1>1 DEF UpdateDel
<1>3. QED
  BY <1>2 DEF WillFlag

\* DELETE steps before the flags are set: loss only where a flag is promised
LEMMA DeleteStep ==
  ASSUME FlagInv,
         UNCHANGED <<apps, map, masked, orphaned>>,
         /\ worker'.pc = worker.pc /\ worker'.app = worker.app
         /\ worker'.force = worker.force /\ worker'.todo = worker.todo
         /\ worker'.got = worker.got,
         \A q \in Request, a \in App : WillFlag(q, a) => WillFlag(q, a)',
         NEW r \in Request,
         \A d \in Depot, a \in App : <<d, a>> \in lost' =>
           <<d, a>> \in lost \/ (d \in Owns[a] /\ WillFlag(r, a)')
  PROVE  FlagInv'
<1>1. \A d \in Depot, a \in App : FlagPending(d, a) => FlagPending(d, a)'
  BY DEF FlagPending
<1>2. \A d \in Depot, a \in App : WillFlag(r, a)' => FlagPending(d, a)'
  BY DEF FlagPending
<1>3. \A a \in App : InForcedRun(a)' = InForcedRun(a)
  BY DEF InForcedRun
<1>4. QED
  BY <1>1, <1>2, <1>3 DEF FlagInv, Excused

LEMMA DeleteQuiet ==
  ASSUME FlagInv, NEW r \in Request,
         UNCHANGED <<apps, map, masked, orphaned>>, UNCHANGED <<worker, lost>>,
         \A q \in Request, a \in App : WillFlag(q, a) => WillFlag(q, a)'
  PROVE  FlagInv'
<1>1. \A d \in Depot, a \in App : FlagPending(d, a) => FlagPending(d, a)'
  BY DEF FlagPending
<1>2. \A a \in App : InForcedRun(a)' = InForcedRun(a)
  BY DEF InForcedRun
<1>3. QED
  BY <1>1, <1>2 DEF FlagInv, Excused

LEMMA FlagInvDelete ==
  ASSUME TypeInv, FlagInv, CacheContentAssumption, NEW r \in Request,
         \/ \E a \in App : DeleteBegins(r, a)
         \/ \E d \in Depot : DeleteRechecks(r, d) \/ RecheckFails(r, d)
         \/ DeleteRemoves(r) \/ RemoveFails(r)
  PROVE  FlagInv'
<1>t. /\ del \in [Request -> DeleteRow] /\ del[r] \in DeleteRow /\ worker \in Worker
      /\ del[r].pc # "none" => del[r].app \in App
      /\ del[r].pc = "remove" => del[r].cur \in Depot
  BY DEF TypeInv, TypeOK
<1> DEFINE same == UNCHANGED <<apps, map, masked, orphaned>>
<1>1. ASSUME NEW a \in App, DeleteBegins(r, a) PROVE FlagInv'
  <2> DEFINE row == [NoDelete EXCEPT !.pc = "recheck", !.app = a,
                                     !.todo = Deletable(a)]
  <2>1. row \in DeleteRow
    BY DeleteStart DEF Deletable, Mapped
  <2>2. UpdateDel(r, row) /\ del[r].pc = "none" /\ same /\ UNCHANGED <<worker, lost>>
    BY <1>1 DEF DeleteBegins
  <2> HIDE DEF row
  <2>3. \A b \in App : ~WillFlag(r, b)
    BY <2>2 DEF WillFlag
  <2>4. \A q \in Request, b \in App : WillFlag(q, b) => WillFlag(q, b)'
    BY <2>1, <2>2, <2>3, WillFlagStays
  <2>5. QED
    BY <2>2, <2>4, DeleteQuiet
<1>2. ASSUME NEW d \in Depot, DeleteRechecks(r, d) PROVE FlagInv'
  <2>1. PICK row \in DeleteRow :
          /\ UpdateDel(r, row)
          /\ row.pc \in {"recheck", "remove"} /\ row.app = del[r].app
          /\ row.touched = del[r].touched /\ row.failed = del[r].failed
          /\ row.flagged = del[r].flagged
    <3> DEFINE others == OwnersOf(d) \ {del[r].app}
               kept == [del[r] EXCEPT !.todo = @ \ {d}]
               gone == [del[r] EXCEPT !.todo = @ \ {d}, !.pc = "remove",
                                      !.cur = d, !.owners = others]
    <3>1. kept \in DeleteRow /\ gone \in DeleteRow
      BY <1>t, DeleteWrite DEF OwnersOf
    <3>2. UpdateDel(r, kept) \/ UpdateDel(r, gone)
      BY <1>2 DEF DeleteRechecks
    <3>3. /\ kept.pc = "recheck" /\ kept.app = del[r].app
          /\ kept.touched = del[r].touched /\ kept.failed = del[r].failed
          /\ kept.flagged = del[r].flagged
      BY <1>2, <1>t DEF DeleteRechecks, DeleteRow
    <3>4. /\ gone.pc = "remove" /\ gone.app = del[r].app
          /\ gone.touched = del[r].touched /\ gone.failed = del[r].failed
          /\ gone.flagged = del[r].flagged
      BY <1>t DEF DeleteRow
    <3> HIDE DEF kept, gone
    <3>5. QED
      BY <3>1, <3>2, <3>3, <3>4
  <2>2. same /\ UNCHANGED <<worker, lost>>
    BY <1>2 DEF DeleteRechecks
  <2>3. \A q \in Request, b \in App : WillFlag(q, b) => WillFlag(q, b)'
    BY <2>1, WillFlagStays DEF WillFlag
  <2>4. QED
    BY <2>2, <2>3, DeleteQuiet
<1>3. ASSUME NEW d \in Depot, RecheckFails(r, d) PROVE FlagInv'
  <2> DEFINE row == [del[r] EXCEPT !.todo = @ \ {d}, !.failed = TRUE]
  <2>1. row \in DeleteRow
    BY <1>t, DeleteWrite
  <2>2. /\ row.pc = "recheck" /\ row.app = del[r].app /\ row.failed
        /\ row.flagged = del[r].flagged
    BY <1>3, <1>t DEF RecheckFails, DeleteRow
  <2>3. UpdateDel(r, row) /\ same /\ UNCHANGED <<worker, lost>>
    BY <1>3 DEF RecheckFails
  <2> HIDE DEF row
  <2>4. \A q \in Request, b \in App : WillFlag(q, b) => WillFlag(q, b)'
    BY <2>1, <2>2, <2>3, WillFlagStays DEF WillFlag
  <2>5. QED
    BY <2>3, <2>4, DeleteQuiet
\* Whoever loses by a removal is the requester, or a co-owner it will flag.
<1>4. ASSUME NEW row \in DeleteRow, UpdateDel(r, row), del[r].pc = "remove", same,
             row.pc = "recheck", row.app = del[r].app, row.touched \/ row.failed,
             row.flagged = del[r].flagged \cup del[r].owners,
             Loses(del[r].cur, del[r].owners \cup {del[r].app}),
             /\ worker'.pc = worker.pc /\ worker'.app = worker.app
             /\ worker'.force = worker.force /\ worker'.todo = worker.todo
             /\ worker'.got = worker.got
      PROVE  FlagInv'
  <2>1. \A q \in Request, b \in App : WillFlag(q, b) => WillFlag(q, b)'
    BY <1>4, WillFlagStays DEF WillFlag
  <2>2. del'[r] = row
    BY <1>4, <1>t DEF UpdateDel
  <2>3. \A b \in del[r].owners \cup {del[r].app} : WillFlag(r, b)'
    BY <1>4, <2>2 DEF WillFlag
  <2>4. \A d \in Depot, a \in App : <<d, a>> \in lost' =>
          <<d, a>> \in lost \/ (d \in Owns[a] /\ WillFlag(r, a)')
    <3>1. ASSUME NEW d \in Depot, NEW a \in App, <<d, a>> \in lost', <<d, a>> \notin lost
          PROVE  d \in Owns[a] /\ WillFlag(r, a)'
      <4> DEFINE as == del[r].owners \cup {del[r].app}
                 cur == del[r].cur
      <4>1. lost' = lost \cup ({cur} \X {b \in as : cur \in Owns[b]})
        BY <1>4 DEF Loses
      <4> HIDE DEF as, cur
      <4>2. <<d, a>> \in {cur} \X {b \in as : cur \in Owns[b]}
        BY <3>1, <4>1
      <4>3. d = cur /\ a \in {b \in as : cur \in Owns[b]}
        BY <4>2
      <4>4. d \in Owns[a] /\ a \in as
        BY <4>3
      <4>5. QED
        BY <2>3, <4>4, Zenon DEF as
    <3>2. QED
      BY <3>1
  <2>5. QED
    BY <1>4, <2>1, <2>4, DeleteStep
<1>5. CASE DeleteRemoves(r)
  <2> DEFINE row == [del[r] EXCEPT !.pc = "recheck", !.cur = NoDepot,
                       !.touched = TRUE, !.owners = {},
                       !.flagged = @ \cup del[r].owners]
  <2>1. row \in DeleteRow
    BY <1>t, RemovedWrite
  <2>2. /\ row.pc = "recheck" /\ row.app = del[r].app /\ row.touched
        /\ row.flagged = del[r].flagged \cup del[r].owners
    BY <1>t DEF DeleteRow
  <2>3. /\ UpdateDel(r, row) /\ del[r].pc = "remove" /\ same /\ worker' = worker
        /\ Loses(del[r].cur, del[r].owners \cup {del[r].app})
    BY <1>5 DEF DeleteRemoves
  <2> HIDE DEF row
  <2>4. QED
    BY <1>4, <2>1, <2>2, <2>3
<1>6. CASE RemoveFails(r)
  <2> DEFINE row == [del[r] EXCEPT !.pc = "recheck", !.cur = NoDepot,
                       !.failed = TRUE, !.owners = {},
                       !.flagged = @ \cup del[r].owners]
  <2>1. row \in DeleteRow
    BY <1>t, RemovedWrite
  <2>2. /\ row.pc = "recheck" /\ row.app = del[r].app /\ row.failed
        /\ row.flagged = del[r].flagged \cup del[r].owners
    BY <1>t DEF DeleteRow
  <2>3. /\ UpdateDel(r, row) /\ del[r].pc = "remove" /\ same
        /\ Loses(del[r].cur, del[r].owners \cup {del[r].app})
        /\ Changes(del[r].cur)
    BY <1>6 DEF RemoveFails
  <2>4. /\ worker'.pc = worker.pc /\ worker'.app = worker.app
        /\ worker'.force = worker.force /\ worker'.todo = worker.todo
        /\ worker'.got = worker.got
    BY <1>t, <2>3 DEF Changes, Worker
  <2> HIDE DEF row
  <2>5. QED
    BY <1>4, <2>1, <2>2, <2>3, <2>4
<1>7. QED
  BY <1>1, <1>2, <1>3, <1>5, <1>6

\* The flags of the apps in as are set; the history marks those in a forced run.
LEMMA SetsForceStep ==
  ASSUME FlagInv, NEW as, SetsForce(as),
         UNCHANGED <<worker, lost, orphaned, map>>,
         \A a \in App : apps[a].needs_force => apps'[a].needs_force,
         \A a \in as : apps'[a].needs_force,
         NEW r \in Request,
         \A q \in Request, a \in App \ as : WillFlag(q, a) => WillFlag(q, a)'
  PROVE  FlagInv'
<1>1. \A d \in Depot, a \in App \ as : FlagPending(d, a) => FlagPending(d, a)'
  BY DEF FlagPending
<1>2. \A a \in App : InForcedRun(a)' = InForcedRun(a)
  BY DEF InForcedRun
<1>3. \A a \in App \ as : a \in masked => a \in masked'
  BY DEF SetsForce
<1>4. \A a \in as : InForcedRun(a) => a \in masked'
  BY DEF SetsForce
<1>5. QED
  BY <1>1, <1>2, <1>3, <1>4 DEF FlagInv, Excused

\* The two commits at the end of a DELETE
LEMMA FlagInvDeleteFlags ==
  ASSUME TypeInv, FlagInv, NEW r \in Request,
         \/ reset_app_after_deletion(r) \/ set_needs_force_for_remnant_co_owners(r)
  PROVE  FlagInv'
<1>t. /\ del \in [Request -> DeleteRow] /\ del[r] \in DeleteRow
      /\ apps \in [App -> AppRow]
      /\ del[r].pc # "none" => del[r].app \in App
  BY DEF TypeInv, TypeOK
<1>1. CASE reset_app_after_deletion(r)
  <2> DEFINE me == del[r].app
             force == del[r].touched \/ del[r].failed
             row == [del[r] EXCEPT !.pc = "flag"]
  <2>1. /\ row \in DeleteRow /\ row.pc = "flag" /\ row.flagged = del[r].flagged
        /\ me \in App /\ del[r].pc = "recheck"
    BY <1>1, <1>t, RemovedWrite DEF reset_app_after_deletion, DeleteRow
  <2>2. UpdateDel(r, row) /\ UNCHANGED <<worker, lost, orphaned, map>>
    BY <1>1 DEF reset_app_after_deletion
  <2>3. /\ del'[r] = row
        /\ \A q \in Request : q # r => del'[q] = del[q]
    BY <1>t, <2>2 DEF UpdateDel
  <2>4. /\ \A a \in App : apps[a].needs_force => apps'[a].needs_force
        /\ force => apps'[me].needs_force
    <3>1. \E status : apps' = [apps EXCEPT ![me] =
            [status |-> status, prefilled |-> FALSE,
             needs_force |-> apps[me].needs_force \/ force]]
      BY <1>1 DEF reset_app_after_deletion
    <3>2. PICK status : apps' = [apps EXCEPT ![me] =
            [status |-> status, prefilled |-> FALSE,
             needs_force |-> apps[me].needs_force \/ force]]
      BY <3>1
    <3>3. apps'[me].needs_force = (apps[me].needs_force \/ force)
      BY <1>t, <2>1, <3>2
    <3>4. \A a \in App : a # me => apps'[a] = apps[a]
      BY <1>t, <3>2
    <3>5. QED
      BY <3>3, <3>4
  <2>5. CASE force
    <3>1. SetsForce({me})
      BY <1>1, <2>5 DEF reset_app_after_deletion
    <3>2. \A q \in Request, a \in App \ {me} : WillFlag(q, a) => WillFlag(q, a)'
      BY <2>1, <2>3 DEF WillFlag
    <3>3. QED
      BY <2>2, <2>4, <2>5, <3>1, <3>2, SetsForceStep
  <2>6. CASE ~force
    <3>1. SetsForce({})
      BY <1>1, <2>6 DEF reset_app_after_deletion, SetsForce
    <3>2. \A q \in Request, a \in App : WillFlag(q, a) => WillFlag(q, a)'
      BY <2>1, <2>3, <2>6 DEF WillFlag
    <3>3. QED
      BY <2>2, <2>4, <3>1, <3>2, SetsForceStep
  <2>7. QED
    BY <2>5, <2>6
<1>2. CASE set_needs_force_for_remnant_co_owners(r)
  <2> DEFINE as == del[r].flagged
  <2>1. /\ SetsForce(as) /\ UpdateDel(r, NoDelete) /\ del[r].pc = "flag"
        /\ UNCHANGED <<worker, lost, orphaned, map>>
        /\ apps' = [a \in App |-> [apps[a] EXCEPT !.needs_force = @ \/ a \in as]]
    BY <1>2 DEF set_needs_force_for_remnant_co_owners
  <2>2. \A q \in Request : q # r => del'[q] = del[q]
    BY <1>t, <2>1 DEF UpdateDel
  <2>3. as \subseteq App
    BY <1>t DEF DeleteRow
  <2>4. \A a \in App : apps[a].needs_force \/ a \in as => apps'[a].needs_force
    BY <1>t, <2>1, FlaggedIsSet
  <2>5. \A q \in Request, a \in App \ as : WillFlag(q, a) => WillFlag(q, a)'
    BY <2>1, <2>2 DEF WillFlag
  <2> HIDE DEF as
  <2>6. QED
    BY <2>1, <2>3, <2>4, <2>5, SetsForceStep
<1>3. QED
  BY <1>1, <1>2

\* A kill forgets who was to be flagged: the history calls it orphaned.
LEMMA FlagInvKill ==
  ASSUME TypeInv, FlagInv, Kill
  PROVE  FlagInv'
<1>1. UNCHANGED <<lost, masked>>
  BY DEF Kill
<1>2. worker'.pc = "loop"
  BY DEF Kill, IdleWorker
<1>3. orphaned' = orphaned \cup {p \in lost : FlagPending(p[1], p[2])}
  BY DEF Kill
<1>4. \A a \in App : apps'[a].needs_force = apps[a].needs_force
  <2>1. apps \in [App -> AppRow]
    BY DEF TypeInv, TypeOK
  <2>2. \/ apps' = apps
        \/ \E status : apps' = [apps EXCEPT ![worker.app].status = status]
    BY DEF Kill
  <2>3. ASSUME NEW status, apps' = [apps EXCEPT ![worker.app].status = status],
               NEW a \in App
        PROVE  apps'[a].needs_force = apps[a].needs_force
    BY <2>1, <2>3 DEF AppRow
  <2>4. QED
    BY <2>2, <2>3
<1>5. ASSUME NEW d \in Depot, NEW a \in App, <<d, a>> \in lost'
      PROVE  d \in Owns[a] /\ (apps'[a].needs_force \/ Excused(d, a)')
  BY <1>1, <1>3, <1>4, <1>5 DEF FlagInv, Excused
<1>6. \A a \in App : ~InForcedRun(a)'
  BY <1>2 DEF InForcedRun
<1>7. QED
  BY <1>2, <1>5, <1>6 DEF FlagInv

LEMMA FlagInvStep ==
  ASSUME TypeInv, FlagInv, CacheContentAssumption, [Next]_vars
  PROVE  FlagInv'
<1>1. CASE UNCHANGED vars
  BY <1>1 DEF vars, FlagInv, Excused, FlagPending, WillFlag, InForcedRun
<1>2. CASE Next
  BY <1>2, FlagInvOutside, FlagInvPrefill, FlagInvClear, FlagInvGc, FlagInvDelete,
     FlagInvDeleteFlags, FlagInvKill DEF Next, Prefill, Delete
<1>3. QED
  BY <1>1, <1>2

\* Content that DELETE or GC removed from an app leaves its needs_force set, or
\* somebody about to set it, whatever runs and requests overlap: for any apps,
\* shared depots, requests and bounds.
THEOREM LossIsAlwaysFlagged == Spec => []LossIsFlagged
<1>1. Init => TypeInv /\ FlagInv
  BY TypeInvInit, FlagInvInit
<1>2. TypeInv /\ FlagInv /\ [Next]_vars => TypeInv' /\ FlagInv'
  BY CacheContentAssumption, TypeInvStep, FlagInvStep
<1>3. FlagInv => LossIsFlagged
  BY DEF FlagInv, Excused, LossIsFlagged, Missed
<1>4. QED
  BY <1>1, <1>2, <1>3, PTL DEF Spec
=============================================================================
