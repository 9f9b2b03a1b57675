------------------------------ MODULE CacheGc ------------------------------
(***************************************************************************)
(* Garbage collection of an app at the level of chunks (gc_execute.py),    *)
(* beside everything that feeds its plan: prefills that are ingested file  *)
(* by file (manifest_ingest.py, depot_manifests.py), the archive and its   *)
(* pruning (manifest_archive.py), the oracle (oracle.py), clients that     *)
(* store whatever they fetch, and hand edits of the mapping.               *)
(*                                                                         *)
(* Prefill and GC share one worker; everything else goes on meanwhile.     *)
(* DELETE is left to CacheContent, which has it beside GC.                 *)
(***************************************************************************)
EXTENDS GcKeepSet, Sequences, SequencesExt

CONSTANTS
  Depot,
  NoApp,
  Owns,                 \* [App -> SUBSET Depot]: what Steam says
  Home,                 \* [Depot -> App]: the containing app of a .bin's name
  KeepArchived,         \* VAULT_MANIFEST_KEEP
  GraceWindow,          \* VAULT_GC_GRACE_DAYS > 0
  OracleEnabled,        \* VAULT_MANIFEST_ORACLE is set
  MaxUpdates,           \* bound: manifests that Steam publishes
  MaxClient,            \* bound: things a client makes vault-core store
  MaxMapping,           \* bound: edits of the mapping by hand
  MaxOracle,            \* bound: oracle answers
  MaxClears,            \* bound: clear-temp
  MaxOutside,           \* bound: those of the last four kinds together
  MaxFaults,            \* bound: files that fail, ingestions that crash
  MaxGc, MaxCrashes     \* bound: GC jobs, and how many of them crash

ASSUME CacheGcAssumption ==
  /\ NoApp \notin App
  /\ Owns \in [App -> SUBSET Depot]
  /\ Home \in [Depot -> App]
  /\ KeepArchived \in Nat \ {0}
  /\ GraceWindow \in BOOLEAN /\ OracleEnabled \in BOOLEAN
  /\ Manifest # {}

VARIABLES
  disk,           \* per depot: chunks, those of them stored lately, copies
  steam,          \* per depot: the current manifest, SteamPrefill's own record
  temp,           \* SteamPrefill's temp cache: .bin files <<app, depot, manifest>>
  archive,        \* per depot: archived manifests, latest write last
  recorded,       \* depot_manifests.manifestid
  owners,         \* depot_app_map
  apps,           \* prefilled: apps that left 'idle'; force: needs_force = 1
  oracle,         \* oracle_branch_manifests, without public
  worker,         \* the job in hand
  used,           \* how much of each bound is used up
  delivered,      \* history: what SteamPrefill last downloaded for an app
  excused         \* history: depots whose owners a crash or an edit left unflagged

vars == <<disk, steam, temp, archive, recorded, owners, apps, oracle, worker,
          used, delivered, excused>>

Bin == App \X Depot \X Manifest

NoPlan == [d \in Depot |-> [status |-> "none", orphans |-> {}, dups |-> {}]]
NoRecords == [a \in App |-> [d \in Depot |-> NoManifest]]
NoInputs == [content |-> {}, records |-> NoRecords, extras |-> [d \in Depot |-> {}]]
IdleWorker == [pc |-> "idle", app |-> NoApp, bins |-> {}, inputs |-> NoInputs,
               plan |-> NoPlan, left |-> {}, todo |-> {}, touched |-> {},
               knew |-> {}, asked |-> {}]

DepotGcPlan == [status : {"none", "skipped", "planned"}, orphans : SUBSET Chunk,
                dups : SUBSET (StoredManifestCopy \X StoredManifestCopy)]

\* What was read for the plan, beside the mapping
GcInputs == [content : SUBSET App, records : [App -> [Depot -> Recorded]],
             extras : [Depot -> SUBSET Manifest]]

\* left: depots not begun, todo: chunks of the depot in hand not yet tried,
\* knew: the mapping rows the plan is made from, asked: the depots whose records
\* were read for it
Worker == [pc : {"idle", "ingest", "mapping", "content", "records", "plan",
                 "depots", "chunks", "dedupe", "flag"},
           app : App \cup {NoApp}, bins : SUBSET Bin, inputs : GcInputs,
           plan : [Depot -> DepotGcPlan], left : SUBSET Depot,
           todo : SUBSET (Depot \X Chunk), touched : SUBSET Depot,
           knew : SUBSET (Depot \X App), asked : SUBSET Depot]

DepotDir == [chunks : SUBSET Chunk, fresh : SUBSET Chunk,
             copies : SUBSET StoredManifestCopy]
Branch == [current : Manifest, done : SUBSET Manifest]

Limit == [update |-> MaxUpdates, client |-> MaxClient, mapping |-> MaxMapping,
          oracle |-> MaxOracle, clear |-> MaxClears, fault |-> MaxFaults,
          gc |-> MaxGc, crash |-> MaxCrashes]
Outside == used["client"] + used["mapping"] + used["oracle"] + used["clear"]
Spend(k) ==
  /\ used[k] < Limit[k]
  /\ k \in {"client", "mapping", "oracle", "clear"} => Outside < MaxOutside
  /\ used' = [used EXCEPT ![k] = used[k] + 1]

Types ==
  /\ disk \in [Depot -> DepotDir]
  /\ steam \in [Depot -> Branch]
  /\ temp \subseteq Bin
  /\ archive \in [Depot -> Seq(Manifest)]
  /\ recorded \in [App -> [Depot -> Recorded]]
  /\ owners \in [Depot -> SUBSET App]
  /\ apps \in [prefilled : SUBSET App, force : SUBSET App]
  /\ oracle \in [Depot -> SUBSET Manifest]
  /\ worker \in Worker
  /\ used \in [DOMAIN Limit -> Nat]
  /\ delivered \in [App -> [Depot -> Recorded]]
  /\ excused \subseteq Depot

\* Pruning is best-effort: only where none failed, and no ingestion was cut off
\* between a copy and its pruning, is an archive known to be within its limit
ArchivesPruned ==
  used["fault"] = 0 => \A d \in Depot : Len(archive[d]) <= KeepArchived

\* Every variable is of its kind, and archives are pruned as far as the code
\* promises it (prune_archive, manifest_ingest.py).
TypeOK == Types /\ ArchivesPruned

Init ==
  /\ disk = [d \in Depot |-> [chunks |-> {}, fresh |-> {}, copies |-> {}]]
  /\ \E m \in Manifest :
       /\ \A n \in Manifest \ {m} : Newer(n, m)
       /\ steam = [d \in Depot |-> [current |-> m, done |-> {}]]
  /\ temp = {}
  /\ archive = [d \in Depot |-> <<>>]
  /\ recorded = [a \in App |-> [d \in Depot |-> NoManifest]]
  /\ owners = [d \in Depot |-> {}]
  /\ apps = [prefilled |-> {}, force |-> {}]
  /\ oracle = [d \in Depot |-> {}]
  /\ worker = IdleWorker
  /\ used = [k \in DOMAIN Limit |-> 0]
  /\ delivered = [a \in App |-> [d \in Depot |-> NoManifest]]
  /\ excused = {}

\* A run without --force would not fetch the depot although it is not whole
Incomplete(d) ==
  /\ steam[d].current \in steam[d].done
  /\ ~(ChunksOf[steam[d].current] \subseteq disk[d].chunks)

-----------------------------------------------------------------------------
(* Steam, clients, time, the operator, the oracle.                         *)

Publish(d) ==
  /\ Spend("update")
  /\ \E m \in Manifest :
       /\ Newer(m, steam[d].current)
       /\ steam' = [steam EXCEPT ![d].current = m]
  /\ UNCHANGED <<disk, temp, archive, recorded, owners, apps, oracle, worker,
                 delivered, excused>>

Stores(d, C) ==
  disk' = [disk EXCEPT ![d].chunks = disk[d].chunks \cup C,
                       ![d].fresh = disk[d].fresh \cup (C \ disk[d].chunks)]

\* A client fetches a chunk of any manifest, of a beta branch for instance
ClientStoresChunk(d, c) ==
  /\ Spend("client")
  /\ c \notin disk[d].chunks
  /\ Stores(d, {c})
  /\ UNCHANGED <<steam, temp, archive, recorded, owners, apps, oracle, worker,
                 delivered, excused>>

\* or a manifest, under a request code of its own; the store may be cut off
ClientStoresManifest(d, m, good) ==
  /\ Spend("client")
  /\ disk' = [disk EXCEPT ![d].copies = disk[d].copies \cup
       {[of |-> m, code |-> used["client"], good |-> good]}]
  /\ UNCHANGED <<steam, temp, archive, recorded, owners, apps, oracle, worker,
                 delivered, excused>>

\* Every chunk stored so far has served the grace window
GraceExpires ==
  /\ \E d \in Depot : disk[d].fresh # {}
  /\ disk' = [d \in Depot |-> [disk[d] EXCEPT !.fresh = {}]]
  /\ UNCHANGED <<steam, temp, archive, recorded, owners, apps, oracle, worker,
                 used, delivered, excused>>

ClearTemp ==
  /\ Spend("clear")
  /\ temp' = {}
  /\ UNCHANGED <<disk, steam, archive, recorded, owners, apps, oracle, worker,
                 delivered, excused>>

\* A depot that is not whole gets an owner who was not there to be flagged
Joins(ds) == excused' = excused \cup {d \in ds : Incomplete(d)}

\* PUT and DELETE /v1/mapping
EditMapping(d, a) ==
  /\ Spend("mapping")
  /\ IF a \in owners[d]
     THEN /\ owners' = [owners EXCEPT ![d] = owners[d] \ {a}]
          /\ UNCHANGED excused
     ELSE /\ owners' = [owners EXCEPT ![d] = owners[d] \cup {a}]
          /\ Joins({d})
  /\ UNCHANGED <<disk, steam, temp, archive, recorded, apps, oracle, worker,
                 delivered>>

\* A refresh replaces what the oracle said of the app's depots
store_app_info(a, gids) ==
  /\ OracleEnabled
  /\ Spend("oracle")
  /\ oracle' = [d \in Depot |-> IF d \in Owns[a] THEN gids ELSE oracle[d]]
  /\ UNCHANGED <<disk, steam, temp, archive, recorded, owners, apps, worker,
                 delivered, excused>>

-----------------------------------------------------------------------------
(* Prefill and ingestion.                                                  *)

\* A finished run: SteamPrefill skips depots of which it recorded the current
\* manifest, unless forced; the mapping is replaced by the depots that changed.
PrefillRuns(a) ==
  LET force == a \in apps.force
      todo == {d \in Owns[a] : force \/ steam[d].current \notin steam[d].done}
      observed == {d \in todo : ~(ChunksOf[steam[d].current] \subseteq disk[d].chunks)}
  IN
  /\ worker.pc = "idle"
  /\ disk' = [d \in Depot |-> IF d \notin todo THEN disk[d] ELSE
       [disk[d] EXCEPT
          !.chunks = disk[d].chunks \cup ChunksOf[steam[d].current],
          !.fresh = disk[d].fresh \cup (ChunksOf[steam[d].current] \ disk[d].chunks)]]
  /\ steam' = [d \in Depot |-> IF d \notin todo THEN steam[d] ELSE
       [steam[d] EXCEPT !.done = steam[d].done \cup {steam[d].current}]]
  /\ temp' = temp \cup {<<a, d, steam[d].current>> : d \in todo}
  /\ delivered' = [delivered EXCEPT ![a] = [d \in Depot |->
       IF d \in todo THEN steam[d].current ELSE delivered[a][d]]]
  /\ owners' = IF observed = {} THEN owners
               ELSE [d \in Depot |-> IF d \in observed THEN owners[d] \cup {a}
                                     ELSE owners[d] \ {a}]
  /\ apps' = [prefilled |-> apps.prefilled \cup {a}, force |-> apps.force \ {a}]
  /\ worker' = [IdleWorker EXCEPT !.pc = "ingest", !.app = a,
                !.bins = {b \in temp' : b[1] = a}]
  /\ excused' = excused \ todo
  /\ UNCHANGED <<archive, recorded, oracle, used>>

\* Mutant: the file just written is not among those that are counted
prune_archive_OffByOne(s) == IF Len(s) > KeepArchived + 1
                             THEN SubSeq(s, Len(s) - KeepArchived, Len(s)) ELSE s

\* Keep the newest files by their mtime, the order of their last write
prune_archive(s) == IF Len(s) > KeepArchived
                    THEN SubSeq(s, Len(s) - KeepArchived + 1, Len(s)) ELSE s

\* What a pruning leaves that fails or does not come to its end: any of the
\* files that should go
Leftovers(s) == {t \in SeqOf(Manifest, Len(s)) :
                   t \in AllSubSeqs(s) /\ IsSuffix(prune_archive(s), t)}

\* The file of a manifest that is archived already is replaced
Without(s, m) == IF m \in {s[i] : i \in DOMAIN s}
                 THEN RemoveAt(s, CHOOSE i \in DOMAIN s : s[i] = m) ELSE s

\* The archive of a depot behind os.replace
archive_manifest(s, m) == Append(Without(s, m), m)

PrunesAll(d, m) ==
  archive' = [archive EXCEPT ![d] = prune_archive(archive_manifest(archive[d], m))]
PrunesSome(d, m) ==
  \E t \in Leftovers(archive_manifest(archive[d], m)) :
    archive' = [archive EXCEPT ![d] = t]

upsert_depot_manifest(b) ==
  recorded' = [recorded EXCEPT ![b[1]][b[2]] = b[3]]

\* The containing app of the file's name is mapped too
MapsHome(b) ==
  IF Home[b[2]] # b[1]
  THEN /\ owners' = [owners EXCEPT ![b[2]] = owners[b[2]] \cup {Home[b[2]]}]
       /\ Joins(IF Home[b[2]] \in owners[b[2]] THEN {} ELSE {b[2]})
  ELSE UNCHANGED <<owners, excused>>

\* One .bin, in the order of the directory: record, map, archive. That a copy or
\* an unlink fails is logged, and ingestion goes on
IngestFile(b) ==
  /\ worker.pc = "ingest"
  /\ b \in worker.bins /\ b \in temp
  /\ upsert_depot_manifest(b) /\ MapsHome(b)
  /\ \/ PrunesAll(b[2], b[3]) /\ UNCHANGED used
     \/ Spend("fault") /\ (PrunesSome(b[2], b[3]) \/ UNCHANGED archive)
  /\ worker' = [worker EXCEPT !.bins = worker.bins \ {b}]
  /\ UNCHANGED <<disk, steam, temp, apps, oracle, delivered>>

\* Killed, or out by an exception, behind any of its commits
IngestCut(b) ==
  /\ worker.pc = "ingest"
  /\ b \in worker.bins /\ b \in temp
  /\ Spend("fault")
  /\ upsert_depot_manifest(b)
  /\ \/ UNCHANGED <<owners, excused, archive>>
     \/ MapsHome(b) /\ (PrunesSome(b[2], b[3]) \/ UNCHANGED archive)
  /\ worker' = IdleWorker
  /\ UNCHANGED <<disk, steam, temp, apps, oracle, delivered>>

\* A file that does not parse, or is gone by now
SkipFile(b) ==
  /\ worker.pc = "ingest"
  /\ b \in worker.bins
  /\ IF b \in temp THEN Spend("fault") ELSE UNCHANGED used
  /\ worker' = [worker EXCEPT !.bins = worker.bins \ {b}]
  /\ UNCHANGED <<disk, steam, temp, archive, recorded, owners, apps, oracle,
                 delivered, excused>>

\* All files done, or an exception that the worker logs and forgets
IngestEnds ==
  /\ worker.pc = "ingest"
  /\ \/ worker.bins = {} /\ UNCHANGED used
     \/ worker.bins # {} /\ Spend("fault")
  /\ worker' = IdleWorker
  /\ UNCHANGED <<disk, steam, temp, archive, recorded, owners, apps, oracle,
                 delivered, excused>>

-----------------------------------------------------------------------------
(* A GC job with execute = true.                                           *)

gc_keepset_gids(d) == IF OracleEnabled THEN oracle[d] ELSE {}

\* One depot as the planner sees it: what was read of the database, and what the
\* scans find
View(d, mapped, content, records, gids) ==
  [exists |-> disk[d].chunks # {} \/ disk[d].copies # {},
   chunks |-> disk[d].chunks, copies |-> disk[d].copies,
   archive |-> {archive[d][i] : i \in DOMAIN archive[d]},
   owners |-> mapped,
   content |-> [a \in App |-> a \in content],
   recorded |-> [b \in App |-> records[b][d]],
   extras |-> gids]

PlanOf(v) ==
  IF GatePassed(v)
  THEN [status |-> "planned", orphans |-> Orphans(v), dups |-> DedupeCandidates(v)]
  ELSE [status |-> "skipped", orphans |-> {}, dups |-> {}]

MappedTo(a) == {d \in Depot : a \in owners[d]}

\* The inputs are read when the job runs, in statements of their own: first the
\* oracle's, of the depots mapped to the app
run_gc(a) ==
  /\ worker.pc = "idle"
  /\ Spend("gc")
  /\ worker' = [IdleWorker EXCEPT !.pc = "mapping", !.app = a, !.inputs.extras =
       [d \in Depot |-> IF d \in MappedTo(a) THEN gc_keepset_gids(d) ELSE {}]]
  /\ UNCHANGED <<disk, steam, temp, archive, recorded, owners, apps, oracle,
                 delivered, excused>>

\* Every row of every depot that is mapped to the app
load_mapping_rows ==
  /\ worker.pc = "mapping"
  /\ worker' = [worker EXCEPT !.pc = "content", !.left = MappedTo(worker.app),
       !.knew = {r \in MappedTo(worker.app) \X App : r[2] \in owners[r[1]]}]
  /\ UNCHANGED <<disk, steam, temp, archive, recorded, owners, apps, oracle,
                 used, delivered, excused>>

\* An owner was prefilled, or has a job (as the one being collected), or no row
\* at all, or it is one of those that idle
load_content_states ==
  /\ worker.pc = "content"
  /\ \E idle \in SUBSET ({r[2] : r \in worker.knew} \ (apps.prefilled \cup {worker.app})) :
       worker' = [worker EXCEPT !.pc = "records", !.inputs.content = App \ idle]
  /\ UNCHANGED <<disk, steam, temp, archive, recorded, owners, apps, oracle,
                 used, delivered, excused>>

\* Every record of every depot that is mapped to the app now
load_recorded_manifests ==
  /\ worker.pc = "records"
  /\ worker' = [worker EXCEPT !.pc = "plan", !.asked = MappedTo(worker.app),
       !.inputs.records = [b \in App |-> [d \in Depot |->
         IF d \in MappedTo(worker.app) THEN recorded[b][d] ELSE NoManifest]]]
  /\ UNCHANGED <<disk, steam, temp, archive, recorded, owners, apps, oracle,
                 used, delivered, excused>>

\* One depot is scanned and planned
plan_one_depot(d) ==
  /\ worker.pc = "plan"
  /\ d \in worker.left /\ worker.plan[d].status = "none"
  /\ worker' = [worker EXCEPT !.plan[d] =
       PlanOf(View(d, {a \in App : <<d, a>> \in worker.knew}, worker.inputs.content,
                   worker.inputs.records, worker.inputs.extras[d]))]
  /\ UNCHANGED <<disk, steam, temp, archive, recorded, owners, apps, oracle,
                 used, delivered, excused>>

\* The plan stands, and nothing that was read for it is looked at again
plan_gc ==
  /\ worker.pc = "plan"
  /\ \A d \in worker.left : worker.plan[d].status # "none"
  /\ worker' = [worker EXCEPT !.pc = "depots", !.inputs = NoInputs]
  /\ UNCHANGED <<disk, steam, temp, archive, recorded, owners, apps, oracle,
                 used, delivered, excused>>

SkipDepot(d) ==
  /\ worker.pc = "depots" /\ d \in worker.left
  /\ worker.plan[d].status = "skipped"
  /\ worker' = [worker EXCEPT !.left = worker.left \ {d}]
  /\ UNCHANGED <<disk, steam, temp, archive, recorded, owners, apps, oracle,
                 used, delivered, excused>>

\* GC without the window removes what a client has just stored
RecentlyStored_Never(d) == {}

\* RecentlyStoredGrace: what was stored within the window, by its ctime
RecentlyStored(d) == IF GraceWindow THEN disk[d].fresh ELSE {}

execute_depot(d) ==
  /\ worker.pc = "depots" /\ d \in worker.left
  /\ worker.plan[d].status = "planned"
  /\ worker' = [worker EXCEPT !.pc = "chunks", !.left = worker.left \ {d},
       !.todo = {d} \X OrphansToDelete(worker.plan[d].orphans, RecentlyStored(d))]
  /\ UNCHANGED <<disk, steam, temp, archive, recorded, owners, apps, oracle,
                 used, delivered, excused>>

remove_one_file(d, c) ==
  /\ worker.pc = "chunks" /\ <<d, c>> \in worker.todo
  /\ \/ /\ disk' = [disk EXCEPT ![d].chunks = disk[d].chunks \ {c},
                                ![d].fresh = disk[d].fresh \ {c}]
        /\ worker' = [worker EXCEPT !.todo = worker.todo \ {<<d, c>>},
                                    !.touched = worker.touched \cup {d}]
        /\ UNCHANGED used
     \/ /\ Spend("fault")                           \* unlink failed
        /\ worker' = [worker EXCEPT !.todo = worker.todo \ {<<d, c>>}]
        /\ UNCHANGED disk
  /\ UNCHANGED <<steam, temp, archive, recorded, owners, apps, oracle,
                 delivered, excused>>

ChunksDone ==
  /\ worker.pc = "chunks" /\ worker.todo = {}
  /\ worker' = [worker EXCEPT !.pc = "dedupe"]
  /\ UNCHANGED <<disk, steam, temp, archive, recorded, owners, apps, oracle,
                 used, delivered, excused>>

\* The depot in hand: begun, and the only one with candidates left
InHand == {d \in Depot : d \notin worker.left /\ worker.plan[d].dups # {}}

\* Copies of one manifest are taken for equal without a comparison
files_are_identical_Assumed(p) == {TRUE}

\* Two good copies of one manifest are the same bytes, a truncated copy is not
\* the same as a good one and may be the same as another truncated one
files_are_identical(p) == IF p[1].good /\ p[2].good THEN {TRUE}
                          ELSE IF p[1].good # p[2].good THEN {FALSE} ELSE BOOLEAN

\* One duplicate of a kept copy that is still there
execute_dedupe(d, p) ==
  /\ worker.pc = "dedupe" /\ d \in InHand /\ p \in worker.plan[d].dups
  /\ \/ /\ p[1] \in disk[d].copies /\ TRUE \in files_are_identical(p)
        /\ \/ /\ disk' = [disk EXCEPT ![d].copies = disk[d].copies \ {p[2]}]
              /\ UNCHANGED used
           \/ Spend("fault") /\ UNCHANGED disk      \* unlink failed
     \/ /\ \/ p[1] \notin disk[d].copies
           \/ FALSE \in files_are_identical(p)
        /\ UNCHANGED <<disk, used>>
  /\ worker' = [worker EXCEPT !.plan[d].dups = worker.plan[d].dups \ {p}]
  /\ UNCHANGED <<steam, temp, archive, recorded, owners, apps, oracle,
                 delivered, excused>>

DepotDone ==
  /\ worker.pc = "dedupe" /\ InHand = {}
  /\ worker' = [worker EXCEPT !.pc = "depots"]
  /\ UNCHANGED <<disk, steam, temp, archive, recorded, owners, apps, oracle,
                 used, delivered, excused>>

\* No depot left, or cancelled before the next one
LoopEnds ==
  /\ worker.pc = "depots"
  /\ worker' = [worker EXCEPT !.pc = "flag"]
  /\ UNCHANGED <<disk, steam, temp, archive, recorded, owners, apps, oracle,
                 used, delivered, excused>>

\* Only the app that was collected is flagged
flag_needs_force_for_depots_Own ==
  /\ worker.pc = "flag"
  /\ apps' = [apps EXCEPT !.force = IF worker.touched = {} THEN apps.force
                                    ELSE apps.force \cup {worker.app}]
  /\ worker' = IdleWorker
  /\ UNCHANGED <<disk, steam, temp, archive, recorded, owners, oracle, used,
                 delivered, excused>>

\* Every app mapped to a depot that lost a chunk
flag_needs_force_for_depots ==
  /\ worker.pc = "flag"
  /\ apps' = [apps EXCEPT !.force = apps.force \cup
                UNION {owners[d] : d \in worker.touched}]
  /\ worker' = IdleWorker
  /\ UNCHANGED <<disk, steam, temp, archive, recorded, owners, oracle, used,
                 delivered, excused>>

\* An exception or a kill: the job is 'error', nobody is flagged
run_gc_job_crash ==
  /\ worker.pc \notin {"idle", "ingest"}
  /\ Spend("crash")
  /\ worker' = IdleWorker
  /\ excused' = excused \cup worker.touched
  /\ UNCHANGED <<disk, steam, temp, archive, recorded, owners, apps, oracle,
                 delivered>>

Next ==
  \/ \E d \in Depot :
       \/ Publish(d)
       \/ \E c \in Chunk : ClientStoresChunk(d, c) \/ remove_one_file(d, c)
       \/ \E m \in Manifest, good \in BOOLEAN : ClientStoresManifest(d, m, good)
       \/ \E a \in App : EditMapping(d, a)
       \/ plan_one_depot(d) \/ SkipDepot(d) \/ execute_depot(d)
       \/ \E p \in worker.plan[d].dups : execute_dedupe(d, p)
  \/ \E a \in App : PrefillRuns(a) \/ run_gc(a)
                    \/ \E gids \in SUBSET Manifest : store_app_info(a, gids)
  \/ \E b \in worker.bins : IngestFile(b) \/ IngestCut(b) \/ SkipFile(b)
  \/ load_mapping_rows \/ load_content_states \/ load_recorded_manifests \/ plan_gc
  \/ GraceExpires \/ ClearTemp \/ IngestEnds \/ ChunksDone \/ DepotDone
  \/ LoopEnds \/ flag_needs_force_for_depots \/ run_gc_job_crash

Spec == Init /\ [][Next]_vars

-----------------------------------------------------------------------------
(* Properties.                                                             *)

\* Apps the plan knew to own the depot and that own it still
Planned(d) == {a \in owners[d] : <<d, a>> \in worker.knew}

\* A chunk of what a planned app has on record
Claimed(d, c) ==
  \E a \in Planned(d) : recorded[a][d] \in Manifest /\ c \in ChunksOf[recorded[a][d]]

\* The depot as the next plan would see it
ViewNow(d) == View(d, owners[d], App, recorded, gc_keepset_gids(d))

GcTakes(d, c) ==
  /\ worker.pc = "chunks"
  /\ c \in disk[d].chunks /\ c \notin disk'[d].chunks

\* Whatever is prefilled, stored, mapped or pruned around it, GC removes no chunk
\* of the manifest that any owner in the plan recorded for the depot: not for
\* an owner whose manifest cannot be read at all, nor for another app's GC
\* (the union over counting apps and the readiness gate of gc.py). Left out: a
\* depot that was unmapped from the collected app after its rows were read and
\* before its records were (SnapshotSurvives).
RecordedSurvives ==
  [][\A d \in worker.asked, c \in Chunk : GcTakes(d, c) => ~Claimed(d, c)]_vars

\* What the docstring of load_recorded_manifests says, that the two loaders cannot
\* disagree about the depots in scope, would make it so without an exception.
SnapshotSurvives ==
  [][\A d \in Depot, c \in Chunk : GcTakes(d, c) => ~Claimed(d, c)]_vars

\* GC changes nothing about what an app's claim resolves to: dedupe and removal
\* leave the next plan the evidence this plan had, truncated copies or not
\* (execute_dedupe, files_are_identical).
ClaimsSurviveGc ==
  [][worker.pc \in {"chunks", "dedupe"} /\ worker' # worker =>
       \A a \in App, d \in Depot :
         Resolved(ViewNow(d), a) \subseteq Resolved(ViewNow(d), a)']_vars

\* A chunk a client stored within the grace window is not removed, although
\* the plan may be older than the chunk's age check (RecentlyStoredGrace).
GraceHolds ==
  [][GraceWindow => \A d \in Depot, c \in Chunk :
       GcTakes(d, c) => c \notin disk[d].fresh]_vars

\* Where SteamPrefill believes to have a depot of which a chunk is missing, every
\* mapped app that would have to fetch it is forced to: GC may be wrong about
\* the current manifest, but never silently (flag_needs_force_for_depots).
WhatGcTookIsForced ==
  worker.pc = "idle" =>
    \A d \in Depot : Incomplete(d) /\ d \notin excused =>
      {a \in owners[d] : d \in Owns[a]} \subseteq apps.force

\* "depot_manifests is ingested from SteamPrefill's own .bin files": with no file
\* skipped and none cleared, the record is what SteamPrefill last downloaded.
RecordIsDownloaded ==
  worker.pc = "idle" /\ used["fault"] = 0 /\ used["clear"] = 0 =>
    \A a \in App, d \in Depot : delivered[a][d] \in {NoManifest, recorded[a][d]}
=============================================================================
