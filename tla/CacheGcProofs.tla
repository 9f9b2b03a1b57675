---------------------------- MODULE CacheGcProofs ----------------------------
(***************************************************************************)
(* What GC never removes, for any apps, depots, manifests, archives and    *)
(* histories: first about the plan of one depot (GcKeepSet), then about    *)
(* carrying it out beside everything else (CacheGc).                       *)
(***************************************************************************)
EXTENDS CacheGc, TLAPS

USE DEF Recorded

-----------------------------------------------------------------------------
(* The plan.                                                               *)

\* No orphan is a chunk of a manifest that an app's claim resolved to
\* (the union over every mapped app, gc.py).
THEOREM OrphansSpareResolved ==
  ASSUME NEW v \in DepotView, NEW a \in Counting(v), NEW m \in Resolved(v, a)
  PROVE  Orphans(v) \cap ChunksOf[m] = {}
<1>1. ChunksOf[m] \subseteq AppKeep(v)
  BY DEF AppKeep
<1>. QED BY <1>1 DEF Orphans, KeepSet

\* An app with a usable record resolves to that manifest or to none: never to
\* another version, however the cache and the archive look.
LEMMA RecordResolves ==
  ASSUME NEW v \in DepotView, NEW a \in App, v.recorded[a] \in Manifest
  PROVE  Resolved(v, a) \subseteq {v.recorded[a]}
BY KeepSetAssumption DEF Resolved

\* Hence an orphan is in no manifest that a mapped app recorded, readable or not.
THEOREM OrphansSpareRecorded ==
  ASSUME NEW v \in DepotView, NEW a \in v.owners \cap App,
         v.recorded[a] \in Manifest
  PROVE  Orphans(v) \cap ChunksOf[v.recorded[a]] = {}
<1>1. a \in Counting(v)
  BY KeepSetAssumption DEF Counting
<1>2. CASE GatePassed(v)
  <2>1. Resolved(v, a) # {}
    BY <1>1, <1>2 DEF GatePassed
  <2>2. v.recorded[a] \in Resolved(v, a)
    BY <2>1, RecordResolves
  <2>. QED BY <1>1, <2>2, OrphansSpareResolved
<1>3. CASE ~GatePassed(v)
  BY <1>3 DEF Orphans
<1>. QED BY <1>2, <1>3

\* The oracle's manifests change nothing about the gate and add no orphan
\* (_union_extra_manifests is behind the gate).
THEOREM OracleOnlyProtects ==
  ASSUME NEW v \in DepotView, NEW gids \in SUBSET (Manifest \cup {Unusable})
  PROVE  LET w == [v EXCEPT !.extras = gids]
             u == [v EXCEPT !.extras = {}]
         IN  /\ GatePassed(w) = GatePassed(u)
             /\ Orphans(w) \subseteq Orphans(u)
             /\ Orphans(u) \ Orphans(w) = OracleProtected(w)
<1>. DEFINE w == [v EXCEPT !.extras = gids]
            u == [v EXCEPT !.extras = {}]
<1>1. /\ w.exists = v.exists /\ w.owners = v.owners /\ w.chunks = v.chunks
      /\ w.copies = v.copies /\ w.archive = v.archive
      /\ w.content = v.content /\ w.recorded = v.recorded
      /\ u.exists = v.exists /\ u.owners = v.owners /\ u.chunks = v.chunks
      /\ u.copies = v.copies /\ u.archive = v.archive
      /\ u.content = v.content /\ u.recorded = v.recorded
      /\ u.extras = {}
  BY DEF DepotView
<1>2. Counting(w) = Counting(u)
  BY <1>1 DEF Counting
<1>3. NewestStored(w) = NewestStored(u)
  BY <1>1 DEF NewestStored
<1>4. \A m : StoredReadable(w, m) = StoredReadable(u, m)
  BY <1>1 DEF StoredReadable
<1>5. \A m : Readable(w, m) = Readable(u, m)
  BY <1>1, <1>4 DEF Readable
<1>6. \A a : Resolved(w, a) = Resolved(u, a)
  <2>. HIDE DEF w, u
  <2>. QED BY <1>1, <1>3, <1>4, <1>5 DEF Resolved
<1>7. AppKeep(w) = AppKeep(u)
  <2>. HIDE DEF w, u
  <2>. QED BY <1>2, <1>6 DEF AppKeep
<1>8. GatePassed(w) = GatePassed(u)
  <2>. HIDE DEF w, u
  <2>. QED BY <1>1, <1>2, <1>6 DEF GatePassed
<1>9. ExtraKeep(u) = {}
  <2>. HIDE DEF u
  <2>1. Considered(u) = {}
    BY <1>1 DEF Considered
  <2>. QED BY <2>1 DEF ExtraKeep
<1>10. Orphans(w) \subseteq Orphans(u)
  <2>. HIDE DEF w, u
  <2>. QED BY <1>1, <1>7, <1>8, <1>9 DEF Orphans, KeepSet
<1>11. Orphans(u) \ Orphans(w) = OracleProtected(w)
  <2>. HIDE DEF w, u
  <2>. QED BY <1>1, <1>7, <1>8, <1>9 DEF Orphans, KeepSet, OracleProtected
<1>. QED BY <1>8, <1>10, <1>11

\* One more owner of a depot that some app counts for already never makes another
\* chunk an orphan: it adds to the keep set, or closes the gate (the union over
\* every mapped app, and the readiness gate of gc.py).
THEOREM OwnersOnlyProtect ==
  ASSUME NEW v \in DepotView, NEW a \in App, Counting(v) # {}
  PROVE  LET w == [v EXCEPT !.owners = v.owners \cup {a}]
         IN  /\ Counting(v) \subseteq Counting(w)
             /\ Orphans(w) \subseteq Orphans(v)
<1>. DEFINE w == [v EXCEPT !.owners = v.owners \cup {a}]
<1>1. /\ w.exists = v.exists /\ w.chunks = v.chunks /\ w.copies = v.copies
      /\ w.archive = v.archive /\ w.content = v.content
      /\ w.recorded = v.recorded /\ w.extras = v.extras
      /\ w.owners = v.owners \cup {a}
  BY DEF DepotView
<1>. HIDE DEF w
<1>2. Counting(v) \subseteq Counting(w)
  BY <1>1 DEF Counting
<1>3. \A m : StoredReadable(w, m) = StoredReadable(v, m)
  BY <1>1 DEF StoredReadable
<1>4. NewestStored(w) = NewestStored(v)
  BY <1>1 DEF NewestStored
<1>5. \A m : Readable(w, m) = Readable(v, m)
  BY <1>1, <1>3 DEF Readable
<1>6. \A b : Resolved(w, b) = Resolved(v, b)
  BY <1>1, <1>3, <1>4, <1>5 DEF Resolved
<1>7. GatePassed(w) => GatePassed(v)
  <2>1. v.owners # {}
    BY DEF Counting
  <2>. QED BY <1>1, <1>2, <1>6, <2>1 DEF GatePassed
<1>8. AppKeep(v) \subseteq AppKeep(w)
  BY <1>2, <1>6 DEF AppKeep
<1>9. ExtraKeep(w) = ExtraKeep(v)
  <2>1. Considered(w) = Considered(v)
    BY <1>1 DEF Considered
  <2>. QED BY <1>5, <2>1 DEF ExtraKeep
<1>10. Orphans(w) \subseteq Orphans(v)
  BY <1>1, <1>7, <1>8, <1>9 DEF Orphans, KeepSet
<1>. QED BY <1>2, <1>10 DEF w

-----------------------------------------------------------------------------
(* Types.                                                                  *)

LEMMA SpendType ==
  ASSUME used \in [DOMAIN Limit -> Nat], NEW k \in DOMAIN Limit, Spend(k)
  PROVE  used' \in [DOMAIN Limit -> Nat]
<1>. DEFINE K == DOMAIN Limit
<1>1. used \in [K -> Nat] /\ k \in K
  OBVIOUS
<1>. HIDE DEF K
<1>2. used' \in [K -> Nat]
  BY <1>1 DEF Spend
<1>. QED BY <1>2 DEF K

LEMMA Limits ==
  DOMAIN Limit = {"update", "client", "mapping", "oracle", "clear", "fault", "gc",
                  "crash"}
BY DEF Limit

LEMMA IdleWorkerType == IdleWorker \in Worker
BY DEF IdleWorker, NoPlan, NoInputs, NoRecords, Worker, DepotGcPlan, GcInputs

LEMMA DepotDirWrite ==
  ASSUME disk \in [Depot -> DepotDir], NEW d \in Depot,
         NEW C, C \subseteq Chunk, NEW F, F \subseteq Chunk
  PROVE  /\ [disk EXCEPT ![d].chunks = C, ![d].fresh = F] \in [Depot -> DepotDir]
         /\ [disk[d] EXCEPT !.chunks = C, !.fresh = F] \in DepotDir
         /\ [disk[d] EXCEPT !.fresh = F] \in DepotDir
         /\ disk[d].chunks \subseteq Chunk /\ disk[d].fresh \subseteq Chunk
         /\ disk[d].copies \subseteq StoredManifestCopy
<1>1. disk[d] \in DepotDir
  OBVIOUS
<1>2. /\ [disk[d] EXCEPT !.chunks = C, !.fresh = F] \in DepotDir
      /\ [disk[d] EXCEPT !.fresh = F] \in DepotDir
  BY <1>1 DEF DepotDir
<1>3. [disk EXCEPT ![d].chunks = C, ![d].fresh = F]
        = [disk EXCEPT ![d] = [disk[d] EXCEPT !.chunks = C, !.fresh = F]]
  BY <1>1 DEF DepotDir
<1>. HIDE DEF DepotDir
<1>5. [disk EXCEPT ![d] = [disk[d] EXCEPT !.chunks = C, !.fresh = F]] \in [Depot -> DepotDir]
  BY <1>2
<1>7. /\ disk[d].chunks \subseteq Chunk /\ disk[d].fresh \subseteq Chunk
      /\ disk[d].copies \subseteq StoredManifestCopy
  BY <1>1 DEF DepotDir
<1>. QED BY <1>2, <1>3, <1>5, <1>7

LEMMA CopiesWrite ==
  ASSUME disk \in [Depot -> DepotDir], NEW d \in Depot,
         NEW K, K \subseteq StoredManifestCopy
  PROVE  /\ [disk EXCEPT ![d].copies = K] \in [Depot -> DepotDir]
         /\ disk[d].copies \subseteq StoredManifestCopy
<1>1. disk[d] \in DepotDir
  OBVIOUS
<1>2. [disk[d] EXCEPT !.copies = K] \in DepotDir
  BY <1>1 DEF DepotDir
<1>3. [disk EXCEPT ![d].copies = K] = [disk EXCEPT ![d] = [disk[d] EXCEPT !.copies = K]]
  OBVIOUS
<1>4. disk[d].copies \subseteq StoredManifestCopy
  BY <1>1 DEF DepotDir
<1>. QED BY <1>2, <1>3, <1>4

LEMMA JoinsType ==
  ASSUME excused \subseteq Depot, NEW ds, ds \subseteq Depot, Joins(ds)
  PROVE  excused' \subseteq Depot
BY DEF Joins

LEMMA WithoutType ==
  ASSUME NEW s \in Seq(Manifest), NEW m \in Manifest
  PROVE  Without(s, m) \in Seq(Manifest)
<1>1. CASE m \in {s[i] : i \in DOMAIN s}
  <2>. DEFINE i == CHOOSE i \in DOMAIN s : s[i] = m
  <2>1. i \in 1..Len(s)
    BY <1>1
  <2>2. Without(s, m) = SubSeq(s, 1, i - 1) \o SubSeq(s, i + 1, Len(s))
    BY <1>1 DEF Without, RemoveAt
  <2>. HIDE DEF i
  <2>. DEFINE p == SubSeq(s, 1, i - 1)
              q == SubSeq(s, i + 1, Len(s))
  <2>3. p \in Seq(Manifest) /\ q \in Seq(Manifest)
    BY <2>1
  <2>. HIDE DEF p, q
  <2>4. p \o q \in Seq(Manifest)
    BY <2>3
  <2>. QED BY <2>2, <2>4 DEF p, q
<1>2. CASE m \notin {s[i] : i \in DOMAIN s}
  BY <1>2 DEF Without
<1>. QED BY <1>1, <1>2

LEMMA PruneType ==
  ASSUME NEW s \in Seq(Manifest)
  PROVE  /\ prune_archive(s) \in Seq(Manifest)
         /\ Len(prune_archive(s)) <= KeepArchived
BY CacheGcAssumption DEF prune_archive

LEMMA ArchivedType ==
  ASSUME NEW s \in Seq(Manifest), NEW m \in Manifest
  PROVE  archive_manifest(s, m) \in Seq(Manifest)
BY WithoutType DEF archive_manifest

\* A pruning that is cut short, or cannot unlink, still leaves an archive
LEMMA LeftoversType ==
  ASSUME NEW s \in Seq(Manifest), NEW t \in Leftovers(s)
  PROVE  t \in Seq(Manifest)
<1>1. PICK n \in 0..Len(s) : t \in [1..n -> Manifest]
  BY DEF Leftovers, SeqOf
<1>2. n \in Nat
  BY <1>1
<1>. QED BY <1>1, <1>2

LEMMA ArchiveType ==
  ASSUME archive \in [Depot -> Seq(Manifest)],
         NEW d \in Depot, NEW m \in Manifest,
         PrunesAll(d, m) \/ PrunesSome(d, m) \/ UNCHANGED archive
  PROVE  archive' \in [Depot -> Seq(Manifest)]
<1>1. archive[d] \in Seq(Manifest)
  OBVIOUS
<1>2. archive_manifest(archive[d], m) \in Seq(Manifest)
  BY <1>1, ArchivedType
<1>3. ASSUME NEW t \in Seq(Manifest), archive' = [archive EXCEPT ![d] = t]
      PROVE  archive' \in [Depot -> Seq(Manifest)]
  BY <1>3
<1>4. CASE PrunesAll(d, m)
  BY <1>2, <1>3, <1>4, PruneType DEF PrunesAll
<1>5. CASE PrunesSome(d, m)
  BY <1>2, <1>3, <1>5, LeftoversType DEF PrunesSome
<1>. QED BY <1>4, <1>5

LEMMA MapsHomeType ==
  ASSUME owners \in [Depot -> SUBSET App], excused \subseteq Depot,
         NEW b \in Bin, MapsHome(b)
  PROVE  owners' \in [Depot -> SUBSET App] /\ excused' \subseteq Depot
<1>1. b[2] \in Depot /\ Home[b[2]] \in App
  BY CacheGcAssumption DEF Bin
<1>2. owners' = owners \/
      owners' = [owners EXCEPT ![b[2]] = owners[b[2]] \cup {Home[b[2]]}]
  BY DEF MapsHome
<1>3. owners' \in [Depot -> SUBSET App]
  BY <1>1, <1>2
<1>4. excused' \subseteq Depot
  BY <1>1, JoinsType DEF MapsHome
<1>. QED BY <1>3, <1>4

LEMMA PlanType ==
  ASSUME Types, NEW d \in Depot, NEW mapped \in SUBSET App,
         NEW content \in SUBSET App, NEW records \in [App -> [Depot -> Recorded]],
         NEW gids \in SUBSET Manifest
  PROVE  /\ View(d, mapped, content, records, gids) \in DepotView
         /\ PlanOf(View(d, mapped, content, records, gids)) \in DepotGcPlan
<1>. DEFINE v == View(d, mapped, content, records, gids)
<1>1. v \in DepotView
  <2>1. {archive[d][i] : i \in DOMAIN archive[d]} \subseteq Manifest
    BY DEF Types
  <2>. QED BY <2>1 DEF Types, DepotDir, View, DepotView
<1>2. v.chunks \subseteq Chunk /\ v.copies \subseteq StoredManifestCopy
  BY <1>1 DEF DepotView
<1>. HIDE DEF v
<1>3. Orphans(v) \subseteq Chunk
  BY <1>2 DEF Orphans
<1>4. DedupeCandidates(v) \subseteq StoredManifestCopy \X StoredManifestCopy
  BY <1>2 DEF DedupeCandidates
<1>5. PlanOf(v) \in DepotGcPlan
  BY <1>3, <1>4 DEF PlanOf, DepotGcPlan
<1>. QED BY <1>1, <1>5 DEF v

\* What plan_one_depot plans from: what was read before, and the disk as it is
ViewOf(d) ==
  View(d, {a \in App : <<d, a>> \in worker.knew}, worker.inputs.content,
       worker.inputs.records, worker.inputs.extras[d])

LEMMA PlanOfType ==
  ASSUME Types, NEW d \in Depot
  PROVE  ViewOf(d) \in DepotView /\ PlanOf(ViewOf(d)) \in DepotGcPlan
<1>1. /\ worker.inputs.content \subseteq App
      /\ worker.inputs.records \in [App -> [Depot -> Recorded]]
      /\ worker.inputs.extras[d] \subseteq Manifest
  BY DEF Types, Worker, GcInputs
<1>. QED BY <1>1, PlanType DEF ViewOf

LEMMA InitTypeOK == Init => TypeOK
<1>1. [k \in DOMAIN Limit |-> 0] \in [DOMAIN Limit -> Nat]
  OBVIOUS
<1>2. <<>> \in Seq(Manifest) /\ Len(<<>>) = 0
  OBVIOUS
<1>3. ASSUME Init PROVE archive \in [Depot -> Seq(Manifest)] /\ ArchivesPruned
  BY <1>2, <1>3, CacheGcAssumption DEF Init, ArchivesPruned
<1>4. ASSUME Init PROVE disk \in [Depot -> DepotDir] /\ steam \in [Depot -> Branch]
  BY <1>4 DEF Init, DepotDir, Branch
<1>5. ASSUME Init PROVE /\ recorded \in [App -> [Depot -> Recorded]]
                        /\ delivered \in [App -> [Depot -> Recorded]]
                        /\ owners \in [Depot -> SUBSET App]
                        /\ oracle \in [Depot -> SUBSET Manifest]
                        /\ apps \in [prefilled : SUBSET App, force : SUBSET App]
                        /\ used \in [DOMAIN Limit -> Nat]
  BY <1>1, <1>5 DEF Init
<1>. QED BY <1>3, <1>4, <1>5, IdleWorkerType DEF Init, TypeOK, Types

LEMMA PlanningType ==
  ASSUME Types,
         \/ \E a \in App : run_gc(a)
         \/ \E d \in Depot : plan_one_depot(d)
         \/ load_mapping_rows \/ load_content_states
         \/ load_recorded_manifests \/ plan_gc
  PROVE  worker' \in Worker
<1>0. /\ worker \in Worker /\ worker.inputs \in GcInputs /\ NoInputs \in GcInputs
      /\ owners \in [Depot -> SUBSET App]
  BY IdleWorkerType DEF Types, Worker, IdleWorker
<1>1. ASSUME NEW a \in App, run_gc(a) PROVE worker' \in Worker
  <2>. DEFINE x == [d \in Depot |-> IF d \in MappedTo(a) THEN gc_keepset_gids(d) ELSE {}]
  <2>1. x \in [Depot -> SUBSET Manifest]
    BY DEF Types, gc_keepset_gids
  <2>2. worker' = [IdleWorker EXCEPT !.pc = "mapping", !.app = a, !.inputs.extras = x]
    BY <1>1 DEF run_gc
  <2>. HIDE DEF x
  <2>3. IdleWorker.inputs \in GcInputs
    BY <1>0 DEF IdleWorker
  <2>4. [IdleWorker.inputs EXCEPT !.extras = x] \in GcInputs
    BY <2>1, <2>3 DEF GcInputs
  <2>. QED BY <2>2, <2>4, IdleWorkerType DEF Worker
<1>2. ASSUME load_mapping_rows PROVE worker' \in Worker
  BY <1>2, <1>0 DEF load_mapping_rows, MappedTo, Worker
<1>3. ASSUME load_content_states PROVE worker' \in Worker
  <2>1. PICK idle : worker' = [worker EXCEPT !.pc = "records",
                                             !.inputs.content = App \ idle]
    BY <1>3 DEF load_content_states
  <2>2. [worker.inputs EXCEPT !.content = App \ idle] \in GcInputs
    BY <1>0 DEF GcInputs
  <2>. QED BY <2>1, <2>2, <1>0 DEF Worker
<1>4. ASSUME load_recorded_manifests PROVE worker' \in Worker
  <2>. DEFINE x == [b \in App |-> [d \in Depot |->
                      IF d \in MappedTo(worker.app) THEN recorded[b][d] ELSE NoManifest]]
  <2>1. x \in [App -> [Depot -> Recorded]]
    BY DEF Types
  <2>2. worker' = [worker EXCEPT !.pc = "plan", !.asked = MappedTo(worker.app),
                                 !.inputs.records = x]
    BY <1>4 DEF load_recorded_manifests
  <2>. HIDE DEF x
  <2>3. [worker.inputs EXCEPT !.records = x] \in GcInputs
    BY <1>0, <2>1 DEF GcInputs
  <2>4. MappedTo(worker.app) \subseteq Depot
    BY DEF MappedTo
  <2>. QED BY <2>2, <2>3, <2>4, <1>0 DEF Worker
<1>5. ASSUME NEW d \in Depot, plan_one_depot(d) PROVE worker' \in Worker
  <2>. DEFINE x == PlanOf(ViewOf(d))
  <2>1. x \in DepotGcPlan
    BY PlanOfType
  <2>2. worker' = [worker EXCEPT !.plan[d] = x]
    BY <1>5 DEF plan_one_depot, ViewOf
  <2>. HIDE DEF x
  <2>. QED BY <2>1, <2>2, <1>0 DEF Worker
<1>6. ASSUME plan_gc PROVE worker' \in Worker
  BY <1>6, <1>0 DEF plan_gc, Worker
<1>. QED BY <1>1, <1>2, <1>3, <1>4, <1>5, <1>6

LEMMA NextTypes == Types /\ [Next]_vars => Types'
<1>. SUFFICES ASSUME Types, [Next]_vars PROVE Types'
  OBVIOUS
<1>. DEFINE Flow == [DOMAIN Limit -> Nat]
<1>1. used \in Flow /\ worker \in Worker
  BY DEF Types
<1>2. ASSUME NEW d \in Depot, Publish(d) PROVE Types'
  <2>1. used' \in Flow
    BY <1>2, <1>1, SpendType, Limits DEF Publish
  <2>. QED BY ZenonT(60), <2>1, <1>2 DEF Publish, Branch, Types
<1>3. ASSUME NEW d \in Depot, NEW c \in Chunk, ClientStoresChunk(d, c) PROVE Types'
  <2>1. used' \in Flow
    BY <1>3, <1>1, SpendType, Limits DEF ClientStoresChunk
  <2>2. disk \in [Depot -> DepotDir]
    BY DEF Types
  <2>3. disk' \in [Depot -> DepotDir]
    <3>1. disk[d].chunks \cup {c} \subseteq Chunk
          /\ disk[d].fresh \cup ({c} \ disk[d].chunks) \subseteq Chunk
      BY <2>2, DepotDirWrite
    <3>. QED BY <1>3, <2>2, <3>1, DepotDirWrite DEF ClientStoresChunk, Stores
  <2>. QED BY <2>1, <2>3, <1>3 DEF ClientStoresChunk, Types
<1>4. ASSUME NEW d \in Depot, NEW m \in Manifest, NEW good \in BOOLEAN,
             ClientStoresManifest(d, m, good)
      PROVE  Types'
  <2>1. used' \in Flow
    BY <1>4, <1>1, SpendType, Limits DEF ClientStoresManifest
  <2>2. [of |-> m, code |-> used["client"], good |-> good] \in StoredManifestCopy
    BY <1>1, Limits DEF StoredManifestCopy
  <2>3. disk \in [Depot -> DepotDir]
    BY DEF Types
  <2>4. disk' \in [Depot -> DepotDir]
    <3>1. disk[d].copies \cup {[of |-> m, code |-> used["client"], good |-> good]}
            \subseteq StoredManifestCopy
      BY <2>2, <2>3, CopiesWrite
    <3>2. disk' = [disk EXCEPT ![d].copies = disk[d].copies \cup
                     {[of |-> m, code |-> used["client"], good |-> good]}]
      BY <1>4 DEF ClientStoresManifest
    <3>. QED BY <2>3, <3>1, <3>2, CopiesWrite
  <2>. QED BY <2>1, <2>4, <1>4 DEF ClientStoresManifest, Types
<1>5. ASSUME NEW d \in Depot, NEW a \in App, EditMapping(d, a) PROVE Types'
  <2>1. used' \in Flow
    BY <1>5, <1>1, SpendType, Limits DEF EditMapping
  <2>2. excused' \subseteq Depot
    BY <1>5, JoinsType DEF EditMapping, Types
  <2>3. owners' \in [Depot -> SUBSET App]
    <3>1. \/ owners' = [owners EXCEPT ![d] = owners[d] \ {a}]
          \/ owners' = [owners EXCEPT ![d] = owners[d] \cup {a}]
      BY <1>5 DEF EditMapping
    <3>2. owners \in [Depot -> SUBSET App]
      BY DEF Types
    <3>. QED BY <3>1, <3>2
  <2>. QED BY <2>1, <2>2, <2>3, <1>5 DEF EditMapping, Types
<1>6. ASSUME NEW a \in App, NEW gids \in SUBSET Manifest, store_app_info(a, gids)
      PROVE  Types'
  <2>1. used' \in Flow
    BY <1>6, <1>1, SpendType, Limits DEF store_app_info
  <2>. QED BY <2>1, <1>6 DEF store_app_info, Types
<1>7. ASSUME GraceExpires \/ ClearTemp PROVE Types'
  <2>1. used' \in Flow
    BY <1>7, <1>1, SpendType, Limits DEF GraceExpires, ClearTemp
  <2>2. CASE GraceExpires
    <3>1. disk \in [Depot -> DepotDir]
      BY DEF Types
    <3>2. \A d \in Depot : [disk[d] EXCEPT !.fresh = {}] \in DepotDir
      BY <3>1, DepotDirWrite
    <3>3. disk' \in [Depot -> DepotDir]
      BY <2>2, <3>2 DEF GraceExpires
    <3>. QED BY <2>1, <2>2, <3>3 DEF GraceExpires, Types
  <2>3. CASE ClearTemp
    BY <2>1, <2>3 DEF ClearTemp, Types
  <2>. QED BY <1>7, <2>2, <2>3
<1>8. ASSUME NEW a \in App, PrefillRuns(a) PROVE Types'
  <2>. DEFINE todo == {d \in Owns[a] : \/ a \in apps.force
                                       \/ steam[d].current \notin steam[d].done}
  <2>1. todo \subseteq Depot
    BY CacheGcAssumption
  <2>2. \A d \in Depot : steam[d].current \in Manifest
                         /\ ChunksOf[steam[d].current] \subseteq Chunk
    BY KeepSetAssumption DEF Types, Branch
  <2>3. disk' \in [Depot -> DepotDir]
    <3>1. disk \in [Depot -> DepotDir]
      BY DEF Types
    <3>2. ASSUME NEW d \in Depot
          PROVE  [disk[d] EXCEPT
                    !.chunks = disk[d].chunks \cup ChunksOf[steam[d].current],
                    !.fresh = disk[d].fresh \cup
                                (ChunksOf[steam[d].current] \ disk[d].chunks)]
                   \in DepotDir
      <4>1. disk[d].chunks \subseteq Chunk /\ disk[d].fresh \subseteq Chunk
        BY <3>1, DepotDirWrite
      <4>2. ChunksOf[steam[d].current] \subseteq Chunk
        BY <2>2
      <4>. QED BY <3>1, <4>1, <4>2, DepotDirWrite
    <3>. QED BY <1>8, <3>1, <3>2 DEF PrefillRuns
  <2>4. steam' \in [Depot -> Branch]
    <3>1. \A d \in Depot : steam[d] \in Branch
      BY DEF Types
    <3>2. \A d \in Depot : [steam[d] EXCEPT !.done = steam[d].done \cup {steam[d].current}]
                            \in Branch
      BY <3>1 DEF Branch
    <3>. QED BY <1>8, <3>1, <3>2 DEF PrefillRuns
  <2>5. temp' \subseteq Bin
    <3>1. temp' = temp \cup {<<a, d, steam[d].current>> : d \in todo}
      BY <1>8 DEF PrefillRuns
    <3>. QED BY <3>1, <2>1, <2>2 DEF Bin, Types
  <2>6. delivered' \in [App -> [Depot -> Recorded]]
    BY <1>8, <2>2 DEF PrefillRuns, Types
  <2>7. owners' \in [Depot -> SUBSET App]
    BY <1>8 DEF PrefillRuns, Types
  <2>8. worker' \in Worker
    BY <1>8, <2>5, IdleWorkerType DEF PrefillRuns, Worker
  <2>9. apps' \in [prefilled : SUBSET App, force : SUBSET App]
        /\ excused' \subseteq Depot
    BY <1>8 DEF PrefillRuns, Types
  <2>. QED BY <1>8, <2>3, <2>4, <2>5, <2>6, <2>7, <2>8, <2>9 DEF PrefillRuns, Types
<1>9. ASSUME NEW b \in worker.bins, IngestFile(b) PROVE Types'
  <2>1. b \in Bin /\ b[1] \in App /\ b[2] \in Depot /\ b[3] \in Manifest
    BY <1>1 DEF Worker, Bin
  <2>2. used' \in Flow
    BY <1>9, <1>1, SpendType, Limits DEF IngestFile
  <2>3. archive' \in [Depot -> Seq(Manifest)]
    BY <1>9, <2>1, ArchiveType DEF IngestFile, Types
  <2>4. recorded' \in [App -> [Depot -> Recorded]]
    BY <1>9, <2>1 DEF IngestFile, upsert_depot_manifest, Types
  <2>5. owners' \in [Depot -> SUBSET App] /\ excused' \subseteq Depot
    BY <1>9, <2>1, MapsHomeType DEF IngestFile, Types
  <2>6. worker' \in Worker
    BY <1>9, <1>1 DEF IngestFile, Worker
  <2>. QED BY <1>9, <2>2, <2>3, <2>4, <2>5, <2>6 DEF IngestFile, Types
<1>10. ASSUME NEW b \in worker.bins, IngestCut(b) PROVE Types'
  <2>1. b \in Bin /\ b[1] \in App /\ b[2] \in Depot /\ b[3] \in Manifest
    BY <1>1 DEF Worker, Bin
  <2>2. used' \in Flow
    BY <1>10, <1>1, SpendType, Limits DEF IngestCut
  <2>3. archive' \in [Depot -> Seq(Manifest)]
    BY <1>10, <2>1, ArchiveType DEF IngestCut, Types
  <2>4. recorded' \in [App -> [Depot -> Recorded]]
    BY <1>10, <2>1 DEF IngestCut, upsert_depot_manifest, Types
  <2>5. owners' \in [Depot -> SUBSET App] /\ excused' \subseteq Depot
    BY <1>10, <2>1, MapsHomeType DEF IngestCut, Types
  <2>. QED BY <1>10, <2>2, <2>3, <2>4, <2>5, IdleWorkerType DEF IngestCut, Types
<1>11. ASSUME NEW b \in worker.bins, SkipFile(b) PROVE Types'
  <2>1. used' \in Flow
    BY <1>11, <1>1, SpendType, Limits DEF SkipFile
  <2>2. worker' \in Worker
    BY <1>11, <1>1 DEF SkipFile, Worker
  <2>. QED BY <1>11, <2>1, <2>2 DEF SkipFile, Types
<1>12. ASSUME IngestEnds PROVE Types'
  <2>1. used' \in Flow
    BY <1>12, <1>1, SpendType, Limits DEF IngestEnds
  <2>. QED BY <1>12, <2>1, IdleWorkerType DEF IngestEnds, Types
<1>13. ASSUME \/ \E a \in App : run_gc(a)
              \/ \E d \in Depot : plan_one_depot(d)
              \/ load_mapping_rows \/ load_content_states
              \/ load_recorded_manifests \/ plan_gc
       PROVE  Types'
  <2>1. used' \in Flow
    BY <1>13, <1>1, SpendType, Limits
       DEF run_gc, load_mapping_rows, load_content_states, load_recorded_manifests,
           plan_one_depot, plan_gc
  <2>2. worker' \in Worker
    BY <1>13, PlanningType
  <2>. QED BY <1>13, <2>1, <2>2
         DEF run_gc, load_mapping_rows, load_content_states, load_recorded_manifests,
             plan_one_depot, plan_gc, Types
<1>14. ASSUME NEW d \in Depot, SkipDepot(d) PROVE Types'
  <2>1. worker' \in Worker
    BY <1>14, <1>1 DEF SkipDepot, Worker
  <2>. QED BY <1>14, <2>1 DEF SkipDepot, Types
<1>15. ASSUME NEW d \in Depot, execute_depot(d) PROVE Types'
  <2>1. worker.plan[d].orphans \subseteq Chunk
    BY <1>1 DEF Worker, DepotGcPlan
  <2>2. worker' \in Worker
    BY <1>15, <1>1, <2>1 DEF execute_depot, OrphansToDelete, Worker
  <2>. QED BY <1>15, <2>2 DEF execute_depot, Types
<1>16. ASSUME NEW d \in Depot, NEW c \in Chunk, remove_one_file(d, c) PROVE Types'
  <2>1. used' \in Flow
    BY <1>16, <1>1, SpendType, Limits DEF remove_one_file
  <2>2. worker' \in Worker
    <3>1. worker' = [worker EXCEPT !.todo = worker.todo \ {<<d, c>>},
                                   !.touched = worker.touched \cup {d}]
          \/ worker' = [worker EXCEPT !.todo = worker.todo \ {<<d, c>>}]
      BY <1>16 DEF remove_one_file
    <3>2. worker.todo \ {<<d, c>>} \subseteq Depot \X Chunk
          /\ worker.touched \cup {d} \subseteq Depot
      BY <1>1 DEF Worker
    <3>3. CASE worker' = [worker EXCEPT !.todo = worker.todo \ {<<d, c>>}]
      BY <3>2, <3>3, <1>1 DEF Worker
    <3>4. CASE worker' = [worker EXCEPT !.todo = worker.todo \ {<<d, c>>},
                                        !.touched = worker.touched \cup {d}]
      <4>. DEFINE x == worker.todo \ {<<d, c>>}
                  y == worker.touched \cup {d}
      <4>. HIDE DEF x, y
      <4>1. worker' = [worker EXCEPT !.todo = x, !.touched = y]
        BY <3>4 DEF x, y
      <4>2. x \subseteq Depot \X Chunk /\ y \subseteq Depot
        BY <3>2 DEF x, y
      <4>. QED BY <4>1, <4>2, <1>1 DEF Worker
    <3>. QED BY <3>1, <3>3, <3>4
  <2>3. disk \in [Depot -> DepotDir]
    BY DEF Types
  <2>4. disk' \in [Depot -> DepotDir]
    <3>1. disk[d].chunks \ {c} \subseteq Chunk /\ disk[d].fresh \ {c} \subseteq Chunk
      BY <2>3, DepotDirWrite
    <3>2. disk' = disk \/
          disk' = [disk EXCEPT ![d].chunks = disk[d].chunks \ {c},
                               ![d].fresh = disk[d].fresh \ {c}]
      BY <1>16 DEF remove_one_file
    <3>3. [disk EXCEPT ![d].chunks = disk[d].chunks \ {c},
                       ![d].fresh = disk[d].fresh \ {c}] \in [Depot -> DepotDir]
      BY <2>3, <3>1, DepotDirWrite
    <3>. QED BY <2>3, <3>2, <3>3
  <2>. QED BY <1>16, <2>1, <2>2, <2>4 DEF remove_one_file, Types
<1>17. ASSUME NEW d \in Depot, NEW p \in worker.plan[d].dups, execute_dedupe(d, p)
       PROVE  Types'
  <2>1. used' \in Flow
    BY <1>17, <1>1, SpendType, Limits DEF execute_dedupe
  <2>2. worker.plan[d] \in DepotGcPlan
    BY <1>1 DEF Worker
  <2>3. worker' \in Worker
    BY <1>17, <1>1, <2>2 DEF execute_dedupe, Worker, DepotGcPlan
  <2>4. disk \in [Depot -> DepotDir]
    BY DEF Types
  <2>5. disk' \in [Depot -> DepotDir]
    <3>1. disk[d].copies \ {p[2]} \subseteq StoredManifestCopy
      BY <2>4, CopiesWrite
    <3>2. disk' = disk \/ disk' = [disk EXCEPT ![d].copies = disk[d].copies \ {p[2]}]
      BY <1>17 DEF execute_dedupe
    <3>. QED BY <2>4, <3>1, <3>2, CopiesWrite
  <2>. QED BY <1>17, <2>1, <2>3, <2>5 DEF execute_dedupe, Types
<1>18. ASSUME ChunksDone \/ DepotDone \/ LoopEnds PROVE Types'
  <2>1. worker' \in Worker
    BY <1>18, <1>1 DEF ChunksDone, DepotDone, LoopEnds, Worker
  <2>. QED BY <1>18, <2>1 DEF ChunksDone, DepotDone, LoopEnds, Types
<1>19. ASSUME flag_needs_force_for_depots PROVE Types'
  <2>1. worker.touched \subseteq Depot
    BY <1>1 DEF Worker
  <2>2. UNION {owners[d] : d \in worker.touched} \subseteq App
    BY <2>1 DEF Types
  <2>. QED BY <1>19, <2>2, IdleWorkerType DEF flag_needs_force_for_depots, Types
<1>20. ASSUME run_gc_job_crash PROVE Types'
  <2>1. used' \in Flow
    BY <1>20, <1>1, SpendType, Limits DEF run_gc_job_crash
  <2>2. worker.touched \subseteq Depot
    BY <1>1 DEF Worker
  <2>. QED BY <1>20, <2>1, <2>2, IdleWorkerType DEF run_gc_job_crash, Types
<1>21. ASSUME UNCHANGED vars PROVE Types'
  BY <1>21 DEF vars, Types
<1>. QED
  BY <1>2, <1>3, <1>4, <1>5, <1>6, <1>7, <1>8, <1>9, <1>10, <1>11, <1>12, <1>13,
     <1>14, <1>15, <1>16, <1>17, <1>18, <1>19, <1>20, <1>21 DEF Next

\* An archive grows over its limit only where something fails
LEMMA FaultsLast ==
  ASSUME used \in [DOMAIN Limit -> Nat]
  PROVE  /\ \A k \in DOMAIN Limit : Spend(k) => (used'["fault"] = 0 => used["fault"] = 0)
         /\ ~(Spend("fault") /\ used'["fault"] = 0)
<1>1. /\ "fault" \in DOMAIN Limit /\ used["fault"] \in Nat
      /\ \A k \in DOMAIN Limit : used[k] \in Nat
  BY Limits
<1>2. ASSUME NEW k \in DOMAIN Limit, Spend(k)
      PROVE  used'["fault"] = 0 => used["fault"] = 0
  BY <1>1, <1>2 DEF Spend
<1>3. ASSUME Spend("fault") PROVE used'["fault"] # 0
  <2>1. used' = [used EXCEPT !["fault"] = used["fault"] + 1]
    BY <1>3 DEF Spend
  <2>2. used'["fault"] = used["fault"] + 1
    BY <2>1, <1>1
  <2>. QED BY <2>2, <1>1
<1>. QED BY <1>2, <1>3

LEMMA StillPruned ==
  ASSUME TypeOK, NEW d \in Depot, NEW m \in Manifest,
         PrunesAll(d, m), UNCHANGED used
  PROVE  ArchivesPruned'
<1>1. /\ archive \in [Depot -> Seq(Manifest)] /\ archive[d] \in Seq(Manifest)
      /\ ArchivesPruned
  BY DEF TypeOK, Types
<1>2. Len(prune_archive(archive_manifest(archive[d], m))) <= KeepArchived
  BY <1>1, ArchivedType, PruneType
<1>. QED BY <1>1, <1>2 DEF PrunesAll, ArchivesPruned

LEMMA NextPruned == TypeOK /\ [Next]_vars => ArchivesPruned'
<1>. SUFFICES ASSUME TypeOK, [Next]_vars PROVE ArchivesPruned'
  OBVIOUS
<1>0. used \in [DOMAIN Limit -> Nat] /\ worker \in Worker
  BY DEF TypeOK, Types
<1>1. ASSUME UNCHANGED archive, used'["fault"] = 0 => used["fault"] = 0
      PROVE  ArchivesPruned'
  BY <1>1 DEF TypeOK, ArchivesPruned
<1>2. ASSUME UNCHANGED archive,
             UNCHANGED used \/ \E k \in DOMAIN Limit : Spend(k)
      PROVE  ArchivesPruned'
  BY <1>0, <1>1, <1>2, FaultsLast
<1>3. ASSUME NEW b \in worker.bins, IngestFile(b) \/ IngestCut(b) PROVE ArchivesPruned'
  <2>1. b[2] \in Depot /\ b[3] \in Manifest
    BY <1>0 DEF Worker, Bin
  <2>2. CASE PrunesAll(b[2], b[3]) /\ UNCHANGED used
    BY <2>1, <2>2, StillPruned
  <2>3. CASE Spend("fault")
    BY <1>0, <2>3, FaultsLast DEF ArchivesPruned
  <2>. QED BY <1>3, <2>2, <2>3 DEF IngestFile, IngestCut
<1>4. ASSUME NEW d \in Depot,
             \/ Publish(d)
             \/ \E c \in Chunk : ClientStoresChunk(d, c) \/ remove_one_file(d, c)
             \/ \E m \in Manifest, good \in BOOLEAN : ClientStoresManifest(d, m, good)
             \/ \E a \in App : EditMapping(d, a)
             \/ plan_one_depot(d) \/ SkipDepot(d) \/ execute_depot(d)
             \/ \E p \in worker.plan[d].dups : execute_dedupe(d, p)
      PROVE  ArchivesPruned'
  BY <1>2, <1>4, Limits
     DEF Publish, ClientStoresChunk, remove_one_file, ClientStoresManifest,
         EditMapping, plan_one_depot, SkipDepot, execute_depot, execute_dedupe
<1>5. ASSUME \/ \E a \in App :
                  \/ PrefillRuns(a) \/ run_gc(a)
                  \/ \E gids \in SUBSET Manifest : store_app_info(a, gids)
             \/ \E b \in worker.bins : SkipFile(b)
             \/ load_mapping_rows \/ load_content_states \/ load_recorded_manifests
             \/ plan_gc
      PROVE  ArchivesPruned'
  BY <1>2, <1>5, Limits
     DEF PrefillRuns, run_gc, store_app_info, SkipFile, load_mapping_rows,
         load_content_states, load_recorded_manifests, plan_gc
<1>6. ASSUME \/ GraceExpires \/ ClearTemp \/ IngestEnds \/ ChunksDone \/ DepotDone
             \/ LoopEnds \/ flag_needs_force_for_depots \/ run_gc_job_crash
             \/ UNCHANGED vars
      PROVE  ArchivesPruned'
  BY <1>2, <1>6, Limits
     DEF GraceExpires, ClearTemp, IngestEnds, ChunksDone, DepotDone, LoopEnds,
         flag_needs_force_for_depots, run_gc_job_crash, vars
<1>. QED BY <1>3, <1>4, <1>5, <1>6 DEF Next

LEMMA NextTypeOK == TypeOK /\ [Next]_vars => TypeOK'
BY NextTypes, NextPruned DEF TypeOK

\* Every reachable state is of its types, and as long as no copy, no pruning and no
\* ingestion has failed no archive is longer than VAULT_MANIFEST_KEEP allows.
THEOREM TypeCorrect == Spec => []TypeOK
BY InitTypeOK, NextTypeOK, PTL DEF Spec

-----------------------------------------------------------------------------
(* Carrying the plan out.                                                  *)

Collecting == worker.pc \notin {"idle", "ingest"}

\* Nothing is planned before the records are read
Reading == worker.pc \in {"mapping", "content", "records"}

\* While a collection is under way, what was read of the records is what they are;
\* no depot's orphans touch what an app of its rows recorded, where the records
\* were asked for; and what is still to be removed is an orphan of the plan.
PlanInv ==
  /\ TypeOK
  /\ Reading => worker.plan = NoPlan
  /\ worker.pc = "plan" => \A d \in worker.asked, a \in App :
       worker.inputs.records[a][d] = recorded[a][d]
  /\ Collecting => \A r \in worker.knew :
       r[1] \in worker.asked /\ recorded[r[2]][r[1]] \in Manifest =>
         worker.plan[r[1]].orphans \cap ChunksOf[recorded[r[2]][r[1]]] = {}
  /\ worker.pc = "chunks" => \A t \in worker.todo : t[2] \in worker.plan[t[1]].orphans

\* One worker: nobody records a manifest while it collects
LEMMA PlanInvInductive == PlanInv /\ TypeOK' /\ [Next]_vars => PlanInv'
<1>. SUFFICES ASSUME PlanInv, TypeOK', [Next]_vars PROVE PlanInv'
  OBVIOUS
<1>0. worker \in Worker /\ worker' \in Worker
  BY DEF PlanInv, TypeOK, Types
<1>1. ASSUME UNCHANGED <<worker, recorded>> PROVE PlanInv'
  BY <1>1 DEF PlanInv, Collecting, Reading
<1>2. ASSUME worker'.pc \in {"idle", "ingest"} PROVE PlanInv'
  BY <1>2 DEF PlanInv, Collecting, Reading
<1>3. ASSUME NEW a \in App, run_gc(a) PROVE PlanInv'
  <2>1. worker'.pc = "mapping" /\ worker'.plan = NoPlan /\ worker'.knew = {}
    BY <1>3 DEF run_gc, IdleWorker
  <2>. QED BY <2>1 DEF PlanInv, Collecting, Reading
<1>15. ASSUME load_mapping_rows \/ load_content_states \/ load_recorded_manifests
       PROVE  PlanInv'
  <2>1. /\ worker'.pc \in {"content", "records", "plan"}
        /\ worker'.plan = NoPlan /\ recorded' = recorded
    BY <1>15, <1>0
       DEF load_mapping_rows, load_content_states, load_recorded_manifests, PlanInv,
           Reading, Worker
  <2>2. \A d \in Depot : worker'.plan[d].orphans = {}
    BY <2>1 DEF NoPlan
  <2>3. \A r \in worker'.knew : r[1] \in Depot
    BY <1>0 DEF Worker
  <2>4. ASSUME worker'.pc = "plan", NEW d \in worker'.asked, NEW b \in App
        PROVE  worker'.inputs.records[b][d] = recorded[b][d]
    <3>1. load_recorded_manifests
      BY <1>15, <2>4, <1>0 DEF load_mapping_rows, load_content_states, Worker
    <3>2. /\ worker'.asked = MappedTo(worker.app)
          /\ worker'.inputs.records = [c \in App |-> [e \in Depot |->
               IF e \in MappedTo(worker.app) THEN recorded[c][e] ELSE NoManifest]]
      BY <3>1, <1>0 DEF load_recorded_manifests, Worker, GcInputs
    <3>. QED BY <3>2, <2>4 DEF MappedTo
  <2>. QED BY <2>1, <2>2, <2>3, <2>4 DEF PlanInv, Collecting, Reading
<1>16. ASSUME NEW d \in Depot, plan_one_depot(d) PROVE PlanInv'
  <2>1. /\ worker.pc = "plan" /\ worker'.pc = "plan" /\ recorded' = recorded
        /\ worker'.knew = worker.knew /\ worker'.asked = worker.asked
        /\ worker'.inputs = worker.inputs
        /\ worker'.plan = [worker.plan EXCEPT ![d] = PlanOf(ViewOf(d))]
    BY <1>16, <1>0 DEF plan_one_depot, ViewOf, Worker
  <2>2. /\ worker'.plan[d] = PlanOf(ViewOf(d))
        /\ \A e \in Depot \ {d} : worker'.plan[e] = worker.plan[e]
    BY <2>1, <1>0 DEF Worker
  <2>3. ASSUME NEW r \in worker.knew, r[1] \in worker.asked,
               recorded[r[2]][r[1]] \in Manifest
        PROVE  worker'.plan[r[1]].orphans \cap ChunksOf[recorded[r[2]][r[1]]] = {}
    <3>1. r[1] \in Depot /\ r[2] \in App /\ r = <<r[1], r[2]>>
      BY <1>0 DEF Worker
    <3>2. CASE r[1] # d
      BY <2>1, <2>2, <2>3, <3>1, <3>2 DEF PlanInv, Collecting
    <3>3. CASE r[1] = d
      <4>. DEFINE v == ViewOf(d)
      <4>1. v \in DepotView
        BY PlanOfType DEF PlanInv, TypeOK
      <4>2. /\ r[2] \in v.owners
            /\ v.recorded[r[2]] = worker.inputs.records[r[2]][d]
        BY <3>1, <3>3 DEF ViewOf, View
      <4>3. v.recorded[r[2]] = recorded[r[2]][d]
        BY <4>2, <2>1, <2>3, <3>1, <3>3 DEF PlanInv
      <4>4. worker'.plan[d].orphans \subseteq Orphans(v)
        BY <2>2 DEF PlanOf
      <4>. HIDE DEF v
      <4>5. Orphans(v) \cap ChunksOf[recorded[r[2]][d]] = {}
        BY <2>3, <3>1, <3>3, <4>1, <4>2, <4>3, OrphansSpareRecorded
      <4>. QED BY <3>3, <4>4, <4>5
    <3>. QED BY <3>2, <3>3
  <2>. QED BY <2>1, <2>3 DEF PlanInv, Collecting, Reading
<1>17. ASSUME plan_gc PROVE PlanInv'
  <2>1. /\ worker.pc = "plan" /\ worker'.pc = "depots" /\ worker'.plan = worker.plan
        /\ worker'.knew = worker.knew /\ worker'.asked = worker.asked
        /\ recorded' = recorded
    BY <1>17, <1>0 DEF plan_gc, Worker
  <2>. QED BY <2>1 DEF PlanInv, Collecting, Reading
<1>4. ASSUME NEW d \in Depot, SkipDepot(d) PROVE PlanInv'
  <2>1. /\ worker.pc \in {"depots", "chunks"}
        /\ worker'.pc = worker.pc /\ worker'.plan = worker.plan
        /\ worker'.knew = worker.knew
        /\ worker'.asked = worker.asked /\ worker'.todo = worker.todo
        /\ recorded' = recorded
    BY <1>4, <1>0 DEF SkipDepot, Worker
  <2>. QED BY <2>1 DEF PlanInv, Collecting, Reading
<1>5. ASSUME NEW d \in Depot, execute_depot(d) PROVE PlanInv'
  <2>1. /\ worker'.pc = "chunks" /\ worker'.plan = worker.plan
        /\ worker'.knew = worker.knew
        /\ worker'.asked = worker.asked
        /\ worker'.todo =
             {d} \X OrphansToDelete(worker.plan[d].orphans, RecentlyStored(d))
        /\ worker.pc = "depots" /\ recorded' = recorded
    BY <1>5, <1>0 DEF execute_depot, Worker
  <2>. QED BY <2>1 DEF PlanInv, Collecting, Reading, OrphansToDelete
<1>6. ASSUME NEW d \in Depot, NEW c \in Chunk, remove_one_file(d, c) PROVE PlanInv'
  <2>1. /\ worker.pc \in {"depots", "chunks"}
        /\ worker'.pc = worker.pc /\ worker'.plan = worker.plan
        /\ worker'.knew = worker.knew
        /\ worker'.asked = worker.asked /\ worker'.todo \subseteq worker.todo
        /\ recorded' = recorded
    BY <1>6, <1>0 DEF remove_one_file, Worker
  <2>. QED BY <2>1 DEF PlanInv, Collecting, Reading
<1>7. ASSUME NEW d \in Depot, NEW p \in worker.plan[d].dups, execute_dedupe(d, p)
      PROVE  PlanInv'
  <2>1. /\ worker.pc = "dedupe" /\ worker'.pc = "dedupe" /\ worker'.knew = worker.knew
        /\ worker'.asked = worker.asked
        /\ recorded' = recorded
    BY <1>7, <1>0 DEF execute_dedupe, Worker
  <2>2. worker' = [worker EXCEPT !.plan[d].dups = worker.plan[d].dups \ {p}]
    BY <1>7 DEF execute_dedupe
  <2>3. \A e \in Depot : worker.plan[e] \in DepotGcPlan
    BY <1>0 DEF Worker
  <2>4. \A e \in Depot : worker'.plan[e].orphans = worker.plan[e].orphans
    <3>1. worker'.plan = [worker.plan EXCEPT ![d].dups = worker.plan[d].dups \ {p}]
      BY <2>2, <1>0 DEF Worker
    <3>2. worker.plan \in [Depot -> DepotGcPlan]
      BY <1>0 DEF Worker
    <3>. QED BY <3>1, <3>2, <2>3 DEF DepotGcPlan
  <2>5. \A r \in worker.knew : r[1] \in Depot /\ r[2] \in App
    BY <1>0 DEF Worker
  <2>. QED BY <2>1, <2>4, <2>5 DEF PlanInv, Collecting, Reading
<1>8. ASSUME ChunksDone \/ DepotDone \/ LoopEnds PROVE PlanInv'
  <2>1. /\ worker.pc \in {"chunks", "dedupe", "depots"}
        /\ worker'.pc \in {"dedupe", "depots", "flag"}
        /\ worker'.plan = worker.plan
        /\ worker'.knew = worker.knew
        /\ worker'.asked = worker.asked /\ recorded' = recorded
    BY <1>8, <1>0 DEF ChunksDone, DepotDone, LoopEnds, Worker
  <2>. QED BY <2>1 DEF PlanInv, Collecting, Reading
<1>9. IdleWorker.pc = "idle"
  BY DEF IdleWorker
<1>10. ASSUME NEW a \in App, PrefillRuns(a) PROVE PlanInv'
  <2>1. worker'.pc = "ingest"
    BY <1>10, <1>9 DEF PrefillRuns, IdleWorker
  <2>. QED BY <2>1, <1>2
<1>11. ASSUME NEW b \in worker.bins, IngestFile(b) \/ IngestCut(b) \/ SkipFile(b)
       PROVE  PlanInv'
  <2>1. worker'.pc \in {"idle", "ingest"}
    BY <1>11, <1>9, <1>0 DEF IngestFile, IngestCut, SkipFile, Worker
  <2>. QED BY <2>1, <1>2
<1>12. ASSUME IngestEnds \/ flag_needs_force_for_depots \/ run_gc_job_crash
       PROVE  PlanInv'
  BY <1>12, <1>9, <1>2 DEF IngestEnds, flag_needs_force_for_depots, run_gc_job_crash
<1>13. ASSUME NEW d \in Depot,
              \/ Publish(d)
              \/ \E c \in Chunk : ClientStoresChunk(d, c)
              \/ \E m \in Manifest, good \in BOOLEAN : ClientStoresManifest(d, m, good)
              \/ \E a \in App : EditMapping(d, a)
       PROVE  PlanInv'
  BY <1>13, <1>1
     DEF Publish, ClientStoresChunk, ClientStoresManifest, EditMapping
<1>14. ASSUME GraceExpires \/ ClearTemp \/ UNCHANGED vars
              \/ \E a \in App, gids \in SUBSET Manifest : store_app_info(a, gids)
       PROVE  PlanInv'
  BY <1>14, <1>1 DEF GraceExpires, ClearTemp, store_app_info, vars
<1>. QED
  BY <1>3, <1>4, <1>5, <1>6, <1>7, <1>8, <1>10, <1>11, <1>12, <1>13, <1>14, <1>15,
     <1>16, <1>17 DEF Next

\* A chunk disappears during the removals only as one of those still to be tried
LEMMA RemovalIsPlanned ==
  ASSUME TypeOK, [Next]_vars, NEW d \in Depot, NEW c \in Chunk, GcTakes(d, c)
  PROVE  <<d, c>> \in worker.todo
<1>. disk \in [Depot -> DepotDir]
  BY DEF TypeOK, Types
<1>1. worker.pc = "chunks" /\ c \in disk[d].chunks /\ c \notin disk'[d].chunks
  BY DEF GcTakes
<1>2. ASSUME disk' = disk PROVE FALSE
  BY <1>1, <1>2
<1>3. ASSUME NEW e \in Depot, NEW b \in Chunk, remove_one_file(e, b)
      PROVE  <<d, c>> \in worker.todo
  <2>1. disk' = [disk EXCEPT ![e].chunks = disk[e].chunks \ {b},
                             ![e].fresh = disk[e].fresh \ {b}]
    BY <1>3, <1>2 DEF remove_one_file
  <2>2. d = e /\ c = b
    BY <1>1, <2>1 DEF DepotDir
  <2>. QED BY <1>3, <2>2 DEF remove_one_file
<1>4. ASSUME NEW e \in Depot, NEW b \in Chunk, ClientStoresChunk(e, b) PROVE FALSE
  <2>1. disk' = [disk EXCEPT ![e].chunks = disk[e].chunks \cup {b},
                             ![e].fresh = disk[e].fresh \cup ({b} \ disk[e].chunks)]
    BY <1>4 DEF ClientStoresChunk, Stores
  <2>. QED BY <1>1, <2>1 DEF DepotDir
<1>5. ASSUME NEW e \in Depot, NEW m \in Manifest, NEW good \in BOOLEAN,
             ClientStoresManifest(e, m, good)
      PROVE  FALSE
  <2>1. disk'[d].chunks = disk[d].chunks
    BY <1>5 DEF ClientStoresManifest, DepotDir
  <2>. QED BY <1>1, <2>1
<1>6. ASSUME GraceExpires PROVE FALSE
  <2>1. disk'[d].chunks = disk[d].chunks
    BY <1>6 DEF GraceExpires, DepotDir
  <2>. QED BY <1>1, <2>1
<1>7. ASSUME \/ \E e \in Depot : \/ Publish(e) \/ SkipDepot(e) \/ execute_depot(e)
                                 \/ \E a \in App : EditMapping(e, a)
                                 \/ \E p \in worker.plan[e].dups : execute_dedupe(e, p)
             \/ \E e \in Depot : plan_one_depot(e)
             \/ load_mapping_rows \/ load_content_states \/ load_recorded_manifests
             \/ plan_gc
             \/ \E a \in App : \/ PrefillRuns(a) \/ run_gc(a)
                               \/ \E gids \in SUBSET Manifest : store_app_info(a, gids)
             \/ \E b \in worker.bins : IngestFile(b) \/ IngestCut(b) \/ SkipFile(b)
             \/ ClearTemp \/ IngestEnds \/ ChunksDone \/ DepotDone
             \/ LoopEnds \/ flag_needs_force_for_depots \/ run_gc_job_crash
             \/ UNCHANGED vars
      PROVE  FALSE
  BY <1>1, <1>2, <1>7
     DEF Publish, SkipDepot, execute_depot, EditMapping, execute_dedupe, PrefillRuns,
         run_gc, load_mapping_rows, load_content_states, load_recorded_manifests,
         plan_one_depot, plan_gc, store_app_info, IngestFile, IngestCut, SkipFile,
         ClearTemp, IngestEnds, ChunksDone, DepotDone, LoopEnds, flag_needs_force_for_depots,
         run_gc_job_crash, vars
<1>. QED BY <1>3, <1>4, <1>5, <1>6, <1>7 DEF Next

\* In a depot whose records were read, GC removes no chunk of a manifest that an
\* app the plan knew, and that is still mapped, has on record: RecordedSurvives
\* for every instance.
THEOREM RecordedAlwaysSurvives == Spec => RecordedSurvives
<1>1. Init => PlanInv
  <2>1. Init => TypeOK
    BY InitTypeOK
  <2>2. ASSUME Init PROVE worker.pc = "idle"
    BY <2>2 DEF Init, IdleWorker
  <2>. QED BY <2>1, <2>2 DEF PlanInv, Collecting, Reading
<1>2. ASSUME PlanInv, [Next]_vars PROVE PlanInv'
  <2>1. TypeOK'
    BY <1>2, NextTypeOK DEF PlanInv
  <2>. QED BY <1>2, <2>1, PlanInvInductive
<1>3. ASSUME PlanInv, [Next]_vars,
             NEW d \in worker.asked, NEW c \in Chunk, GcTakes(d, c), Claimed(d, c)
      PROVE  FALSE
  <2>1. d \in Depot
    BY <1>3 DEF PlanInv, TypeOK, Types, Worker
  <2>2. PICK a \in Planned(d) : recorded[a][d] \in Manifest
                                /\ c \in ChunksOf[recorded[a][d]]
    BY <1>3 DEF Claimed
  <2>3. <<d, c>> \in worker.todo
    BY <1>3, <2>1, RemovalIsPlanned DEF PlanInv
  <2>4. c \in worker.plan[d].orphans
    BY <2>3, <1>3 DEF PlanInv, GcTakes
  <2>5. <<d, a>> \in worker.knew
    BY DEF Planned
  <2>. QED BY <1>3, <2>2, <2>4, <2>5 DEF PlanInv, Collecting, GcTakes
<1>4. PlanInv /\ [Next]_vars =>
        [\A d \in worker.asked, c \in Chunk : GcTakes(d, c) => ~Claimed(d, c)]_vars
  BY <1>3
<1>. QED BY <1>1, <1>2, <1>4, PTL DEF Spec, RecordedSurvives

\* What is still to be removed lies on disk and was not stored lately; so does
\* every orphan of a depot not begun lie on disk.
GraceInv ==
  /\ TypeOK
  /\ Reading => worker.plan = NoPlan
  /\ Collecting => \A d \in worker.left :
       worker.plan[d].orphans \subseteq disk[d].chunks
  /\ worker.pc = "chunks" => \A t \in worker.todo :
       /\ t[1] \notin worker.left /\ t[2] \in disk[t[1]].chunks
       /\ GraceWindow => t[2] \notin disk[t[1]].fresh

\* Whatever goes on beside GC only adds chunks, and what it makes fresh was not
\* on disk.
OnlyAdds ==
  \A d \in Depot : /\ disk[d].chunks \subseteq disk'[d].chunks
                   /\ disk'[d].fresh \cap disk[d].chunks \subseteq disk[d].fresh

LEMMA GraceKept ==
  ASSUME GraceInv, TypeOK', OnlyAdds, worker'.left \subseteq worker.left,
         worker'.todo \subseteq worker.todo,
         worker'.plan = worker.plan \/ ~Reading',
         \A d \in Depot : worker'.plan[d].orphans = worker.plan[d].orphans,
         Reading' => Reading, Collecting' => Collecting, worker'.pc = "chunks" => worker.pc = "chunks"
  PROVE  GraceInv'
<1>1. /\ worker.left \subseteq Depot
      /\ \A t \in worker.todo : t[1] \in Depot /\ t[2] \in Chunk
  BY DEF GraceInv, TypeOK, Types, Worker
<1>2. Collecting' => \A d \in worker'.left :
        worker'.plan[d].orphans \subseteq disk'[d].chunks
  BY <1>1 DEF GraceInv, OnlyAdds
<1>3. ASSUME worker'.pc = "chunks", NEW t \in worker'.todo
      PROVE  /\ t[1] \notin worker'.left /\ t[2] \in disk'[t[1]].chunks
             /\ GraceWindow => t[2] \notin disk'[t[1]].fresh
  <2>1. /\ t[1] \in Depot /\ t[1] \notin worker.left /\ t[2] \in disk[t[1]].chunks
        /\ GraceWindow => t[2] \notin disk[t[1]].fresh
    BY <1>1, <1>3 DEF GraceInv
  <2>. QED BY <2>1 DEF OnlyAdds
<1>4. Reading' => worker'.plan = NoPlan
  BY DEF GraceInv
<1>. QED BY <1>2, <1>3, <1>4 DEF GraceInv

LEMMA OnlyAddsIs ==
  ASSUME TypeOK, NEW d \in Depot
  PROVE  /\ UNCHANGED disk \/ GraceExpires => OnlyAdds
         /\ \A c \in Chunk : ClientStoresChunk(d, c) => OnlyAdds
         /\ \A m \in Manifest, good \in BOOLEAN : ClientStoresManifest(d, m, good) => OnlyAdds
         /\ \A q \in worker.plan[d].dups : execute_dedupe(d, q) => OnlyAdds
<1>. disk \in [Depot -> DepotDir] /\ \A e \in Depot : disk[e] \in DepotDir
  BY DEF TypeOK, Types
<1>1. UNCHANGED disk => OnlyAdds
  BY DEF OnlyAdds
<1>2. GraceExpires => OnlyAdds
  BY DEF OnlyAdds, GraceExpires, DepotDir
<1>3. ASSUME NEW c \in Chunk, ClientStoresChunk(d, c) PROVE OnlyAdds
  <2>1. disk' = [disk EXCEPT ![d].chunks = disk[d].chunks \cup {c},
                             ![d].fresh = disk[d].fresh \cup ({c} \ disk[d].chunks)]
    BY <1>3 DEF ClientStoresChunk, Stores
  <2>. QED BY <2>1 DEF OnlyAdds, DepotDir
<1>4. ASSUME NEW K, disk' = [disk EXCEPT ![d].copies = K] PROVE OnlyAdds
  BY <1>4 DEF OnlyAdds, DepotDir
<1>5. \A m \in Manifest, good \in BOOLEAN : ClientStoresManifest(d, m, good) => OnlyAdds
  BY <1>4 DEF ClientStoresManifest
<1>6. \A q \in worker.plan[d].dups : execute_dedupe(d, q) => OnlyAdds
  BY <1>1, <1>4 DEF execute_dedupe
<1>. QED BY <1>1, <1>2, <1>3, <1>5, <1>6

LEMMA GraceInvInductive == GraceInv /\ TypeOK' /\ [Next]_vars => GraceInv'
<1>. SUFFICES ASSUME GraceInv, TypeOK', [Next]_vars PROVE GraceInv'
  OBVIOUS
<1>0. TypeOK /\ worker \in Worker /\ worker' \in Worker
      /\ \A e \in Depot : disk[e] \in DepotDir
  BY DEF GraceInv, TypeOK, Types
<1>1. ASSUME UNCHANGED worker, OnlyAdds PROVE GraceInv'
  BY <1>1, GraceKept DEF Collecting, Reading
<1>2. ASSUME worker'.pc \in {"idle", "ingest"} PROVE GraceInv'
  BY <1>2 DEF GraceInv, Collecting, Reading
<1>3. ASSUME NEW a \in App, run_gc(a) PROVE GraceInv'
  <2>1. worker'.pc = "mapping" /\ worker'.plan = NoPlan /\ worker'.left = {}
    BY <1>3 DEF run_gc, IdleWorker
  <2>. QED BY <2>1 DEF GraceInv, Reading
<1>15. ASSUME load_mapping_rows \/ load_content_states \/ load_recorded_manifests
       PROVE  GraceInv'
  <2>1. worker'.pc \in {"content", "records", "plan"} /\ worker'.plan = NoPlan
    BY <1>15, <1>0
       DEF load_mapping_rows, load_content_states, load_recorded_manifests, GraceInv,
           Reading, Worker
  <2>2. \A d \in Depot : worker'.plan[d].orphans = {}
    BY <2>1 DEF NoPlan
  <2>3. worker'.left \subseteq Depot
    BY <1>0 DEF Worker
  <2>. QED BY <2>1, <2>2, <2>3 DEF GraceInv, Reading
<1>16. ASSUME NEW d \in Depot, plan_one_depot(d) PROVE GraceInv'
  <2>1. /\ worker.pc = "plan" /\ worker'.pc = "plan" /\ disk' = disk
        /\ worker'.left = worker.left
        /\ worker'.plan = [worker.plan EXCEPT ![d] = PlanOf(ViewOf(d))]
    BY <1>16, <1>0 DEF plan_one_depot, ViewOf, Worker
  <2>2. /\ worker'.plan[d] = PlanOf(ViewOf(d))
        /\ \A e \in Depot \ {d} : worker'.plan[e] = worker.plan[e]
        /\ worker.left \subseteq Depot
    BY <2>1, <1>0 DEF Worker
  <2>3. PlanOf(ViewOf(d)).orphans \subseteq disk[d].chunks
    BY DEF PlanOf, Orphans, ViewOf, View
  <2>4. \A e \in worker.left : worker'.plan[e].orphans \subseteq disk[e].chunks
    BY <2>1, <2>2, <2>3 DEF GraceInv, Collecting, Reading
  <2>. QED BY <2>1, <2>4 DEF GraceInv, Reading
<1>17. ASSUME plan_gc PROVE GraceInv'
  <2>1. /\ worker.pc = "plan" /\ worker'.pc = "depots" /\ disk' = disk
        /\ worker'.left = worker.left /\ worker'.plan = worker.plan
    BY <1>17, <1>0 DEF plan_gc, Worker
  <2>. QED BY <2>1 DEF GraceInv, Collecting, Reading
<1>4. ASSUME NEW d \in Depot, SkipDepot(d) PROVE GraceInv'
  <2>1. /\ worker'.pc = worker.pc /\ worker'.plan = worker.plan
        /\ worker'.todo = worker.todo /\ worker'.left \subseteq worker.left
        /\ UNCHANGED disk
    BY <1>4, <1>0 DEF SkipDepot, Worker
  <2>2. OnlyAdds
    BY <1>4, <2>1, <1>0, OnlyAddsIs
  <2>. QED BY <2>1, <2>2, GraceKept DEF Collecting, Reading
<1>5. ASSUME NEW d \in Depot, execute_depot(d) PROVE GraceInv'
  <2>1. /\ worker'.pc = "chunks" /\ worker'.plan = worker.plan
        /\ worker'.left = worker.left \ {d}
        /\ worker'.todo =
             {d} \X OrphansToDelete(worker.plan[d].orphans, RecentlyStored(d))
        /\ worker.pc = "depots" /\ d \in worker.left /\ disk' = disk
    BY <1>5, <1>0 DEF execute_depot, Worker
  <2>2. worker.plan[d].orphans \subseteq disk[d].chunks
    BY <2>1 DEF GraceInv, Collecting, Reading
  <2>3. \A t \in worker'.todo :
          /\ t[1] = d /\ t[2] \in disk[d].chunks
          /\ GraceWindow => t[2] \notin disk[d].fresh
    BY <2>1, <2>2 DEF OrphansToDelete, RecentlyStored
  <2>4. \A e \in worker'.left : worker'.plan[e].orphans \subseteq disk[e].chunks
    BY <2>1 DEF GraceInv, Collecting, Reading
  <2>. QED BY <2>1, <2>3, <2>4 DEF GraceInv, Reading
<1>6. ASSUME NEW d \in Depot, NEW c \in Chunk, remove_one_file(d, c) PROVE GraceInv'
  <2>1. /\ worker.pc = "chunks" /\ worker'.pc = "chunks"
        /\ <<d, c>> \in worker.todo /\ worker'.todo = worker.todo \ {<<d, c>>}
        /\ worker'.plan = worker.plan /\ worker'.left = worker.left
    BY <1>6, <1>0 DEF remove_one_file, Worker
  <2>2. CASE UNCHANGED disk
    <3>1. OnlyAdds
      BY <1>0, <2>2, OnlyAddsIs
    <3>. QED BY <2>1, <3>1, GraceKept DEF Collecting, Reading
  <2>3. CASE disk' = [disk EXCEPT ![d].chunks = disk[d].chunks \ {c},
                                  ![d].fresh = disk[d].fresh \ {c}]
    <3>1. /\ disk \in [Depot -> DepotDir]
          /\ disk'[d].chunks = disk[d].chunks \ {c}
          /\ disk'[d].fresh \subseteq disk[d].fresh
          /\ \A e \in Depot \ {d} : disk'[e] = disk[e]
      BY <1>0, <2>3 DEF DepotDir, TypeOK, Types
    <3>2. d \notin worker.left
      BY <2>1 DEF GraceInv, Reading
    <3>3. /\ worker.left \subseteq Depot
          /\ worker.todo \subseteq Depot \X Chunk
      BY <1>0 DEF Worker
    <3>4. \A e \in worker'.left : worker'.plan[e].orphans \subseteq disk'[e].chunks
      BY <2>1, <3>1, <3>2, <3>3 DEF GraceInv, Collecting, Reading
    <3>5. ASSUME NEW t \in worker'.todo
          PROVE  /\ t[1] \notin worker'.left /\ t[2] \in disk'[t[1]].chunks
                 /\ GraceWindow => t[2] \notin disk'[t[1]].fresh
      <4>1. /\ t[1] \notin worker.left /\ t[2] \in disk[t[1]].chunks
            /\ GraceWindow => t[2] \notin disk[t[1]].fresh
        BY <2>1 DEF GraceInv, Reading
      <4>2. t[1] \in Depot /\ (t[1] = d => t[2] # c)
        BY <2>1, <3>3
      <4>. QED BY <2>1, <3>1, <4>1, <4>2
    <3>. QED BY <2>1, <3>4, <3>5 DEF GraceInv, Reading
  <2>. QED BY <1>6, <2>2, <2>3 DEF remove_one_file
<1>7. ASSUME NEW d \in Depot, NEW p \in worker.plan[d].dups, execute_dedupe(d, p)
      PROVE  GraceInv'
  <2>1. /\ worker.pc = "dedupe" /\ worker'.pc = "dedupe" /\ worker'.left = worker.left
        /\ worker'.todo = worker.todo
        /\ worker'.plan = [worker.plan EXCEPT ![d].dups = worker.plan[d].dups \ {p}]
    BY <1>7, <1>0 DEF execute_dedupe, Worker
  <2>2. \A e \in Depot : worker.plan[e] \in DepotGcPlan
        /\ worker.plan \in [Depot -> DepotGcPlan]
    BY <1>0 DEF Worker
  <2>3. \A e \in Depot : worker'.plan[e].orphans = worker.plan[e].orphans
    BY <2>1, <2>2 DEF DepotGcPlan
  <2>4. OnlyAdds
    BY <1>0, <1>7, OnlyAddsIs
  <2>. QED BY <2>1, <2>3, <2>4, GraceKept DEF Collecting, Reading
<1>8. ASSUME ChunksDone \/ DepotDone \/ LoopEnds PROVE GraceInv'
  <2>1. /\ worker.pc \in {"chunks", "dedupe", "depots"}
        /\ worker'.pc \in {"dedupe", "depots", "flag"}
        /\ worker'.plan = worker.plan /\ worker'.left = worker.left /\ disk' = disk
    BY <1>8, <1>0 DEF ChunksDone, DepotDone, LoopEnds, Worker
  <2>. QED BY <2>1 DEF GraceInv, Collecting, Reading
<1>9. IdleWorker.pc = "idle"
  BY DEF IdleWorker
<1>10. ASSUME NEW a \in App, PrefillRuns(a) PROVE GraceInv'
  <2>1. worker'.pc = "ingest"
    BY <1>10 DEF PrefillRuns, IdleWorker
  <2>. QED BY <2>1, <1>2
<1>11. ASSUME NEW b \in worker.bins, IngestFile(b) \/ IngestCut(b) \/ SkipFile(b)
       PROVE  GraceInv'
  <2>1. worker'.pc \in {"idle", "ingest"}
    BY <1>11, <1>9, <1>0 DEF IngestFile, IngestCut, SkipFile, Worker
  <2>. QED BY <2>1, <1>2
<1>12. ASSUME IngestEnds \/ flag_needs_force_for_depots \/ run_gc_job_crash
       PROVE  GraceInv'
  BY <1>12, <1>9, <1>2 DEF IngestEnds, flag_needs_force_for_depots, run_gc_job_crash
<1>13. ASSUME NEW d \in Depot,
              \/ Publish(d)
              \/ \E c \in Chunk : ClientStoresChunk(d, c)
              \/ \E m \in Manifest, good \in BOOLEAN : ClientStoresManifest(d, m, good)
              \/ \E a \in App : EditMapping(d, a)
       PROVE  GraceInv'
  <2>1. OnlyAdds
    BY <1>0, <1>13, OnlyAddsIs DEF Publish, EditMapping
  <2>2. UNCHANGED worker
    BY <1>13 DEF Publish, ClientStoresChunk, ClientStoresManifest, EditMapping
  <2>. QED BY <1>1, <2>1, <2>2
<1>14. ASSUME GraceExpires \/ ClearTemp \/ UNCHANGED vars
              \/ \E a \in App, gids \in SUBSET Manifest : store_app_info(a, gids)
       PROVE  GraceInv'
  <2>1. UNCHANGED worker /\ (UNCHANGED disk \/ GraceExpires)
    BY <1>14 DEF GraceExpires, ClearTemp, store_app_info, vars
  <2>2. OnlyAdds
    <3>1. CASE Depot = {}
      BY <3>1 DEF OnlyAdds
    <3>2. CASE Depot # {}
      BY <1>0, <2>1, <3>2, OnlyAddsIs
    <3>. QED BY <3>1, <3>2
  <2>. QED BY <1>1, <2>1, <2>2
<1>. QED
  BY <1>3, <1>4, <1>5, <1>6, <1>7, <1>8, <1>10, <1>11, <1>12, <1>13, <1>14, <1>15,
     <1>16, <1>17 DEF Next

\* With the window, GC removes nothing a client or a prefill has stored lately,
\* even what came after the age of the depot's chunks was looked at: GraceHolds
\* for every instance.
THEOREM GraceAlwaysHolds == Spec => GraceHolds
<1>1. Init => GraceInv
  <2>1. Init => TypeOK
    BY InitTypeOK
  <2>2. ASSUME Init PROVE worker.pc = "idle"
    BY <2>2 DEF Init, IdleWorker
  <2>. QED BY <2>1, <2>2 DEF GraceInv, Collecting, Reading
<1>2. ASSUME GraceInv, [Next]_vars PROVE GraceInv'
  <2>1. TypeOK'
    BY <1>2, NextTypeOK DEF GraceInv
  <2>. QED BY <1>2, <2>1, GraceInvInductive
<1>3. ASSUME GraceInv, [Next]_vars, GraceWindow,
             NEW d \in Depot, NEW c \in Chunk, GcTakes(d, c)
      PROVE  c \notin disk[d].fresh
  <2>1. <<d, c>> \in worker.todo
    BY <1>3, RemovalIsPlanned DEF GraceInv
  <2>. QED BY <1>3, <2>1 DEF GraceInv, GcTakes
<1>4. GraceInv /\ [Next]_vars =>
        [GraceWindow => \A d \in Depot, c \in Chunk :
           GcTakes(d, c) => c \notin disk[d].fresh]_vars
  BY <1>3
<1>. QED BY <1>1, <1>2, <1>4, PTL DEF Spec, GraceHolds
-----------------------------------------------------------------------------
(* What GC owes the next prefill.                                          *)

\* Steam's manifests only get newer, so what was downloaded is never newer than
\* the current one, and what is newly current was never downloaded.
DownloadedInOrder ==
  \A d \in Depot, m \in Manifest : m \in steam[d].done =>
    m = steam[d].current \/ Newer(steam[d].current, m)

\* The debt of one depot: owners who would skip it although a chunk is missing
Owed(d) == Incomplete(d) /\ d \notin excused
Settled(d) == {a \in owners[d] : d \in Owns[a]} \subseteq apps.force

\* From the first removed chunk to the flag the worker remembers the depot; once
\* it rests, only the flags do.
ForcedInv ==
  /\ TypeOK
  /\ DownloadedInOrder
  /\ worker.pc \in {"idle", "ingest"} => worker.touched = {}
  /\ \A d \in Depot : Owed(d) => d \in worker.touched \/ Settled(d)

LEMMA IdleWorkerOwesNothing == IdleWorker.pc = "idle" /\ IdleWorker.touched = {}
BY DEF IdleWorker

LEMMA NewerIsTransitive ==
  ASSUME NEW l \in Manifest, NEW m \in Manifest, NEW n \in Manifest,
         Newer(n, m), l = m \/ Newer(m, l)
  PROVE  Newer(n, l) /\ n # l
<1>1. /\ Published[l] \in Nat /\ Published[m] \in Nat /\ Published[n] \in Nat
      /\ l \in Nat /\ m \in Nat /\ n \in Nat
  BY KeepSetAssumption
<1>. QED BY <1>1 DEF Newer

\* A step that keeps the worker's memory, adds no owner that was not there, keeps
\* the flags and opens no gap leaves every debt settled or remembered.
LEMMA DebtsKept ==
  ASSUME ForcedInv, TypeOK', DownloadedInOrder',
         worker.touched \subseteq worker'.touched,
         worker'.pc \in {"idle", "ingest"} => worker'.touched = {},
         apps.force \subseteq apps'.force,
         \A d \in Depot : Owed(d)' =>
           d \in worker'.touched \/ (Owed(d) /\ owners'[d] \subseteq owners[d])
  PROVE  ForcedInv'
<1>1. ASSUME NEW d \in Depot, Owed(d)' PROVE (d \in worker.touched \/ Settled(d))'
  BY <1>1 DEF ForcedInv, Settled
<1>. QED BY <1>1 DEF ForcedInv

\* Where neither Steam nor the history changes, a gap opens only by a removal
LEMMA NoNewDebt ==
  ASSUME steam' = steam, excused \subseteq excused', NEW d \in Depot,
         disk[d].chunks \subseteq disk'[d].chunks, Owed(d)'
  PROVE  Owed(d)
BY DEF Owed, Incomplete

\* Whoever is newly mapped to a depot that is not whole is a case of its own
LEMMA JoinsExcuse ==
  ASSUME steam' = steam, disk' = disk, NEW ds, Joins(ds),
         NEW d \in Depot, Owed(d)'
  PROVE  Owed(d) /\ d \notin ds
BY DEF Owed, Incomplete, Joins

LEMMA PublishKeepsDebts ==
  ASSUME ForcedInv, TypeOK', NEW d \in Depot, Publish(d)
  PROVE  ForcedInv'
<1>1. PICK m \in Manifest : /\ Newer(m, steam[d].current)
                            /\ steam' = [steam EXCEPT ![d].current = m]
  BY DEF Publish
<1>2. steam \in [Depot -> Branch]
  BY DEF ForcedInv, TypeOK, Types
<1>3. /\ steam'[d].current = m /\ steam'[d].done = steam[d].done
      /\ \A e \in Depot \ {d} : steam'[e] = steam[e]
      /\ steam[d].current \in Manifest /\ steam[d].done \subseteq Manifest
  BY <1>1, <1>2 DEF Branch
<1>4. \A l \in steam[d].done : Newer(m, l) /\ m # l
  BY <1>1, <1>3, NewerIsTransitive DEF ForcedInv, DownloadedInOrder
<1>5. DownloadedInOrder'
  <2>. SUFFICES ASSUME NEW e \in Depot, NEW l \in Manifest, l \in steam'[e].done
                PROVE  l = steam'[e].current \/ Newer(steam'[e].current, l)
    BY DEF DownloadedInOrder, Newer
  <2>1. CASE e = d
    BY <2>1, <1>3, <1>4
  <2>2. CASE e # d
    BY <2>2, <1>3 DEF ForcedInv, DownloadedInOrder
  <2>. QED BY <2>1, <2>2
<1>6. UNCHANGED <<disk, owners, apps, worker, excused>>
  BY DEF Publish
<1>7. ASSUME NEW e \in Depot, Owed(e)' PROVE Owed(e)
  <2>1. CASE e = d
    BY <2>1, <1>3, <1>4, <1>7 DEF Owed, Incomplete
  <2>2. CASE e # d
    BY <2>2, <1>3, <1>6, <1>7 DEF Owed, Incomplete
  <2>. QED BY <2>1, <2>2
<1>8. worker'.pc \in {"idle", "ingest"} => worker'.touched = {}
  BY <1>6 DEF ForcedInv
<1>. QED BY <1>5, <1>6, <1>7, <1>8, DebtsKept

\* A prefill fetches whatever is not whole, as far as it is forced to or has not
\* recorded the manifest: it leaves nothing behind it that it owed.
LEMMA PrefillKeepsDebts ==
  ASSUME ForcedInv, TypeOK', NEW a \in App, PrefillRuns(a)
  PROVE  ForcedInv'
<1>. DEFINE todo == {d \in Owns[a] : \/ a \in apps.force
                                     \/ steam[d].current \notin steam[d].done}
            observed == {d \in todo :
                           ~(ChunksOf[steam[d].current] \subseteq disk[d].chunks)}
<1>1. /\ todo \subseteq Depot /\ observed \subseteq todo
      /\ worker.touched = {}
      /\ steam \in [Depot -> Branch] /\ disk \in [Depot -> DepotDir]
      /\ apps \in [prefilled : SUBSET App, force : SUBSET App]
  BY CacheGcAssumption DEF ForcedInv, TypeOK, Types, PrefillRuns
<1>2. /\ \A d \in todo :
           /\ steam'[d].current = steam[d].current
           /\ steam'[d].done = steam[d].done \cup {steam[d].current}
           /\ disk'[d].chunks = disk[d].chunks \cup ChunksOf[steam[d].current]
      /\ \A d \in Depot \ todo : steam'[d] = steam[d] /\ disk'[d] = disk[d]
  <2>1. /\ disk' = [d \in Depot |-> IF d \notin todo THEN disk[d] ELSE
              [disk[d] EXCEPT
                 !.chunks = disk[d].chunks \cup ChunksOf[steam[d].current],
                 !.fresh = disk[d].fresh \cup
                             (ChunksOf[steam[d].current] \ disk[d].chunks)]]
        /\ steam' = [d \in Depot |-> IF d \notin todo THEN steam[d] ELSE
              [steam[d] EXCEPT !.done = steam[d].done \cup {steam[d].current}]]
    BY DEF PrefillRuns
  <2>2. \A d \in Depot : steam[d] \in Branch /\ disk[d] \in DepotDir
    BY <1>1
  <2>. HIDE DEF todo
  <2>. QED BY <1>1, <2>1, <2>2 DEF Branch, DepotDir
<1>3. /\ \A d \in Depot \ todo : owners'[d] \subseteq owners[d]
      /\ apps'.force = apps.force \ {a} /\ excused' = excused \ todo
      /\ worker'.touched = {}
  <2>1. owners' = IF observed = {} THEN owners
                  ELSE [d \in Depot |-> IF d \in observed THEN owners[d] \cup {a}
                                        ELSE owners[d] \ {a}]
    BY DEF PrefillRuns
  <2>2. /\ apps' = [prefilled |-> apps.prefilled \cup {a}, force |-> apps.force \ {a}]
        /\ excused' = excused \ todo
        /\ worker' = [IdleWorker EXCEPT !.pc = "ingest", !.app = a,
                        !.bins = {b \in temp' : b[1] = a}]
    BY DEF PrefillRuns
  <2>3. worker'.touched = {}
    BY <2>2 DEF IdleWorker
  <2>. HIDE DEF todo, observed
  <2>. QED BY <1>1, <2>1, <2>2, <2>3
<1>4. DownloadedInOrder'
  <2>. SUFFICES ASSUME NEW d \in Depot, NEW m \in Manifest, m \in steam'[d].done
                PROVE  m = steam'[d].current \/ Newer(steam'[d].current, m)
    BY DEF DownloadedInOrder, Newer
  <2>. HIDE DEF todo
  <2>1. /\ steam'[d].current = steam[d].current
        /\ m = steam[d].current \/ m \in steam[d].done
    BY <1>2
  <2>. QED BY <2>1 DEF ForcedInv, DownloadedInOrder
<1>5. ASSUME NEW d \in Depot, Owed(d)' PROVE Settled(d)'
  <2>1. d \notin todo
    <3>. HIDE DEF todo
    <3>. QED BY <1>2, <1>5 DEF Owed, Incomplete
  <2>2. Owed(d)
    <3>. HIDE DEF todo
    <3>. QED BY <2>1, <1>2, <1>3, <1>5 DEF Owed, Incomplete
  <2>3. Settled(d)
    BY <2>2, <1>1 DEF ForcedInv
  <2>4. d \in Owns[a] => a \notin apps.force
    BY <2>1
  <2>. HIDE DEF todo
  <2>. QED BY <2>1, <2>3, <2>4, <1>3 DEF Settled
<1>. QED BY <1>3, <1>4, <1>5 DEF ForcedInv

LEMMA ForcedInvInductive == ForcedInv /\ TypeOK' /\ [Next]_vars => ForcedInv'
<1>. SUFFICES ASSUME ForcedInv, TypeOK', [Next]_vars PROVE ForcedInv'
  OBVIOUS
<1>0. /\ worker \in Worker /\ worker.touched \subseteq Depot
      /\ disk \in [Depot -> DepotDir] /\ owners \in [Depot -> SUBSET App]
      /\ apps \in [prefilled : SUBSET App, force : SUBSET App]
  BY DEF ForcedInv, TypeOK, Types, Worker
<1>1. steam' = steam => DownloadedInOrder'
  BY DEF ForcedInv, DownloadedInOrder, Newer
\* A step beside the worker that leaves Steam, the flags and the history alone
<1>2. ASSUME UNCHANGED <<steam, worker, apps, excused>>, OnlyAdds,
             \A d \in Depot : owners'[d] \subseteq owners[d]
      PROVE  ForcedInv'
  <2>1. \A d \in Depot : Owed(d)' => Owed(d)
    BY <1>2, NoNewDebt DEF OnlyAdds
  <2>2. worker'.pc \in {"idle", "ingest"} => worker'.touched = {}
    BY <1>2 DEF ForcedInv
  <2>. QED BY <1>1, <1>2, <2>1, <2>2, DebtsKept
\* A step of the worker that removes nothing and forgets nothing
<1>3. ASSUME UNCHANGED <<steam, owners, apps, excused>>, OnlyAdds,
             worker'.touched = worker.touched,
             worker'.pc \in {"idle", "ingest"} => worker'.touched = {}
      PROVE  ForcedInv'
  <2>1. \A d \in Depot : Owed(d)' => Owed(d)
    BY <1>3, NoNewDebt DEF OnlyAdds
  <2>. QED BY <1>1, <1>3, <2>1, DebtsKept
<1>4. UNCHANGED disk => OnlyAdds
  BY DEF OnlyAdds
<1>5. ASSUME NEW d \in Depot, Publish(d) PROVE ForcedInv'
  BY <1>5, PublishKeepsDebts
<1>6. ASSUME NEW d \in Depot,
             \/ \E c \in Chunk : ClientStoresChunk(d, c)
             \/ \E m \in Manifest, good \in BOOLEAN : ClientStoresManifest(d, m, good)
      PROVE  ForcedInv'
  <2>1. OnlyAdds
    BY <1>6, OnlyAddsIs DEF ForcedInv
  <2>2. UNCHANGED <<steam, worker, apps, excused, owners>>
    BY <1>6 DEF ClientStoresChunk, ClientStoresManifest
  <2>. QED BY <1>2, <2>1, <2>2
<1>7. ASSUME NEW d \in Depot, NEW a \in App, EditMapping(d, a) PROVE ForcedInv'
  <2>1. UNCHANGED <<disk, steam, apps, worker>>
    BY <1>7 DEF EditMapping
  <2>2. CASE a \in owners[d]
    <3>1. excused' = excused /\ \A e \in Depot : owners'[e] \subseteq owners[e]
      BY <1>7, <2>2, <1>0 DEF EditMapping
    <3>. QED BY <1>2, <1>4, <2>1, <3>1
  <2>3. CASE a \notin owners[d]
    <3>1. Joins({d}) /\ \A e \in Depot \ {d} : owners'[e] = owners[e]
      BY <1>7, <2>3, <1>0 DEF EditMapping
    <3>2. \A e \in Depot : Owed(e)' => Owed(e) /\ owners'[e] \subseteq owners[e]
      BY <2>1, <3>1, JoinsExcuse
    <3>3. worker'.pc \in {"idle", "ingest"} => worker'.touched = {}
      BY <2>1 DEF ForcedInv
    <3>. QED BY <1>1, <2>1, <3>2, <3>3, DebtsKept
  <2>. QED BY <2>2, <2>3
<1>8. ASSUME \/ GraceExpires \/ ClearTemp \/ UNCHANGED vars
             \/ \E a \in App, gids \in SUBSET Manifest : store_app_info(a, gids)
      PROVE  ForcedInv'
  <2>1. UNCHANGED <<steam, worker, apps, excused, owners>>
        /\ (UNCHANGED disk \/ GraceExpires)
    BY <1>8 DEF GraceExpires, ClearTemp, store_app_info, vars
  <2>2. GraceExpires => OnlyAdds
    BY <1>0 DEF OnlyAdds, GraceExpires, DepotDir
  <2>. QED BY <1>2, <1>4, <2>1, <2>2
<1>9. ASSUME NEW a \in App, PrefillRuns(a) PROVE ForcedInv'
  BY <1>9, PrefillKeepsDebts
<1>10. ASSUME NEW b \in worker.bins, IngestFile(b) \/ IngestCut(b), MapsHome(b)
       PROVE  ForcedInv'
  <2>1. /\ worker.touched = {} /\ worker'.touched = {}
        /\ UNCHANGED <<disk, steam, apps>>
    BY <1>10, <1>0, IdleWorkerOwesNothing DEF IngestFile, IngestCut, ForcedInv, Worker
  <2>2. b[2] \in Depot
    BY <1>0 DEF Worker, Bin
  <2>3. CASE Home[b[2]] = b[1]
    <3>1. UNCHANGED <<owners, excused>>
      BY <1>10, <2>3 DEF MapsHome
    <3>. QED BY <1>3, <1>4, <2>1, <3>1
  <2>4. CASE Home[b[2]] # b[1]
    <3>. DEFINE ds == IF Home[b[2]] \in owners[b[2]] THEN {} ELSE {b[2]}
    <3>1. /\ Joins(ds)
          /\ owners' = [owners EXCEPT ![b[2]] = owners[b[2]] \cup {Home[b[2]]}]
      BY <1>10, <2>4 DEF MapsHome
    <3>2. ASSUME NEW e \in Depot, Owed(e)'
          PROVE  Owed(e) /\ owners'[e] \subseteq owners[e]
      <4>1. Owed(e) /\ e \notin ds
        <5>. HIDE DEF ds
        <5>. QED BY <2>1, <3>1, <3>2, JoinsExcuse
      <4>. QED BY <4>1, <3>1, <2>2, <1>0
    <3>. QED BY <1>1, <2>1, <3>2, DebtsKept
  <2>. QED BY <2>3, <2>4
<1>11. ASSUME NEW b \in worker.bins, IngestCut(b) \/ SkipFile(b), ~MapsHome(b)
       PROVE  ForcedInv'
  <2>1. /\ worker.touched = {} /\ worker'.touched = {}
        /\ UNCHANGED <<disk, steam, owners, apps, excused>>
    BY <1>11, <1>0, IdleWorkerOwesNothing DEF IngestCut, SkipFile, ForcedInv, Worker
  <2>. QED BY <1>3, <1>4, <2>1
<1>19. ASSUME NEW b \in worker.bins, IngestFile(b) \/ IngestCut(b) \/ SkipFile(b)
       PROVE  ForcedInv'
  <2>1. CASE SkipFile(b)
    <3>1. /\ worker.touched = {} /\ worker'.touched = {}
          /\ UNCHANGED <<disk, steam, owners, apps, excused>>
      BY <2>1, <1>0 DEF SkipFile, ForcedInv, Worker
    <3>. QED BY <1>3, <1>4, <3>1
  <2>2. CASE IngestFile(b) \/ IngestCut(b)
    BY <2>2, <1>10, <1>11 DEF IngestFile
  <2>. QED BY <1>19, <2>1, <2>2
<1>12. ASSUME IngestEnds PROVE ForcedInv'
  <2>1. /\ worker.touched = {} /\ worker'.touched = {}
        /\ UNCHANGED <<disk, steam, owners, apps, excused>>
    BY <1>12, IdleWorkerOwesNothing DEF IngestEnds, ForcedInv
  <2>. QED BY <1>3, <1>4, <2>1
<1>13. ASSUME NEW a \in App, run_gc(a) PROVE ForcedInv'
  <2>1. worker.touched = {} /\ UNCHANGED <<disk, steam, owners, apps, excused>>
    BY <1>13 DEF run_gc, ForcedInv
  <2>2. worker'.touched = {}
    BY <1>13 DEF run_gc, IdleWorker
  <2>. QED BY <1>3, <1>4, <2>1, <2>2
<1>14. ASSUME \/ \E d \in Depot : SkipDepot(d) \/ execute_depot(d)
              \/ ChunksDone \/ DepotDone \/ LoopEnds
       PROVE  ForcedInv'
  <2>1. /\ worker'.touched = worker.touched
        /\ worker'.pc \notin {"idle", "ingest"}
        /\ UNCHANGED <<disk, steam, owners, apps, excused>>
    BY <1>14, <1>0
       DEF SkipDepot, execute_depot, ChunksDone, DepotDone, LoopEnds, Worker
  <2>. QED BY <1>3, <1>4, <2>1
<1>20. ASSUME \/ load_mapping_rows \/ load_content_states \/ load_recorded_manifests
              \/ (\E d \in Depot : plan_one_depot(d)) \/ plan_gc
       PROVE  ForcedInv'
  <2>1. /\ worker'.touched = worker.touched
        /\ worker'.pc \notin {"idle", "ingest"}
    <3>1. CASE load_mapping_rows \/ load_content_states
      BY <3>1, <1>0 DEF load_mapping_rows, load_content_states, Worker
    <3>2. CASE load_recorded_manifests \/ plan_gc \/ \E d \in Depot : plan_one_depot(d)
      BY <3>2, <1>0 DEF load_recorded_manifests, plan_gc, plan_one_depot, Worker
    <3>. QED BY <1>20, <3>1, <3>2
  <2>2. UNCHANGED <<disk, steam, owners, apps, excused>>
    BY <1>20 DEF load_mapping_rows, load_content_states, load_recorded_manifests,
                 plan_one_depot, plan_gc
  <2>. QED BY <1>3, <1>4, <2>1, <2>2
<1>15. ASSUME NEW d \in Depot, NEW p \in worker.plan[d].dups, execute_dedupe(d, p)
       PROVE  ForcedInv'
  <2>1. /\ worker'.touched = worker.touched /\ worker'.pc = "dedupe"
        /\ UNCHANGED <<steam, owners, apps, excused>>
    BY <1>15, <1>0 DEF execute_dedupe, Worker
  <2>2. OnlyAdds
    BY <1>15, OnlyAddsIs DEF ForcedInv
  <2>. QED BY <1>3, <2>1, <2>2
<1>16. ASSUME NEW d \in Depot, NEW c \in Chunk, remove_one_file(d, c)
       PROVE  ForcedInv'
  <2>1. /\ worker'.pc = "chunks"
        /\ UNCHANGED <<steam, owners, apps, excused>>
    BY <1>16, <1>0 DEF remove_one_file, Worker
  <2>2. CASE UNCHANGED disk /\ worker' = [worker EXCEPT !.todo = worker.todo \ {<<d, c>>}]
    <3>1. worker'.touched = worker.touched
      BY <2>2, <1>0 DEF Worker
    <3>. QED BY <1>3, <1>4, <2>1, <2>2, <3>1
  <2>3. CASE /\ disk' = [disk EXCEPT ![d].chunks = disk[d].chunks \ {c},
                                     ![d].fresh = disk[d].fresh \ {c}]
             /\ worker' = [worker EXCEPT !.todo = worker.todo \ {<<d, c>>},
                                         !.touched = worker.touched \cup {d}]
    <3>1. /\ worker'.touched = worker.touched \cup {d}
          /\ \A e \in Depot \ {d} : disk'[e] = disk[e]
      BY <2>3, <1>0 DEF Worker
    <3>2. ASSUME NEW e \in Depot, Owed(e)' PROVE e \in worker'.touched \/ Owed(e)
      <4>1. CASE e = d
        BY <3>1, <4>1
      <4>2. CASE e # d
        <5>1. disk[e].chunks \subseteq disk'[e].chunks
          BY <3>1, <4>2
        <5>. QED BY <2>1, <3>2, <5>1, NoNewDebt
      <4>. QED BY <4>1, <4>2
    <3>. QED BY <1>1, <2>1, <3>1, <3>2, DebtsKept
  <2>. QED BY <1>16, <2>2, <2>3 DEF remove_one_file
<1>17. ASSUME flag_needs_force_for_depots PROVE ForcedInv'
  <2>1. /\ apps'.force = apps.force \cup UNION {owners[d] : d \in worker.touched}
        /\ worker'.touched = {} /\ UNCHANGED <<disk, steam, owners, excused>>
    BY <1>17, <1>0, IdleWorkerOwesNothing DEF flag_needs_force_for_depots
  <2>2. ASSUME NEW d \in Depot, Owed(d)' PROVE Settled(d)'
    <3>1. Owed(d)
      BY <2>1, <2>2 DEF Owed, Incomplete
    <3>2. CASE d \in worker.touched
      <4>1. owners[d] \subseteq apps'.force
        BY <2>1, <3>2
      <4>. QED BY <2>1, <4>1 DEF Settled
    <3>3. CASE Settled(d)
      BY <2>1, <3>3 DEF Settled
    <3>. QED BY <3>1, <3>2, <3>3 DEF ForcedInv
  <2>. QED BY <1>1, <2>1, <2>2 DEF ForcedInv
<1>18. ASSUME run_gc_job_crash PROVE ForcedInv'
  <2>1. /\ excused' = excused \cup worker.touched /\ worker'.touched = {}
        /\ UNCHANGED <<disk, steam, owners, apps>>
    BY <1>18, IdleWorkerOwesNothing DEF run_gc_job_crash
  <2>2. ASSUME NEW d \in Depot, Owed(d)' PROVE Settled(d)'
    <3>1. Owed(d) /\ d \notin worker.touched
      BY <2>1, <2>2 DEF Owed, Incomplete
    <3>. QED BY <2>1, <3>1 DEF ForcedInv, Settled
  <2>. QED BY <1>1, <2>1, <2>2 DEF ForcedInv
<1>. QED
  BY <1>5, <1>6, <1>7, <1>8, <1>9, <1>12, <1>13, <1>14, <1>15, <1>16, <1>17,
     <1>18, <1>19, <1>20 DEF Next

\* Where SteamPrefill would skip a depot that lost a chunk, every mapped app that
\* owns it is flagged once the worker rests, whatever ran beside the collection:
\* WhatGcTookIsForced for every instance.
THEOREM RemovalsAreForced == Spec => []WhatGcTookIsForced
<1>1. Init => ForcedInv
  <2>1. Init => TypeOK
    BY InitTypeOK
  <2>2. ASSUME Init PROVE /\ worker.touched = {}
                          /\ \A d \in Depot : steam[d].done = {}
    BY <2>2, IdleWorkerOwesNothing DEF Init
  <2>. QED BY <2>1, <2>2 DEF ForcedInv, DownloadedInOrder, Owed, Incomplete
<1>2. ForcedInv /\ [Next]_vars => ForcedInv'
  <2>1. ForcedInv => TypeOK
    BY DEF ForcedInv
  <2>. QED BY <2>1, NextTypeOK, ForcedInvInductive
<1>3. ForcedInv => WhatGcTookIsForced
  BY DEF ForcedInv, WhatGcTookIsForced, Owed, Settled
<1>. QED BY <1>1, <1>2, <1>3, PTL DEF Spec
-----------------------------------------------------------------------------
(* What GC leaves of the evidence.                                         *)

\* The chain looks at which manifests have copies and a good one, not at how many
LEMMA SameEvidence ==
  ASSUME NEW v, NEW w, NEW a,
         w.recorded[a] = v.recorded[a], w.archive = v.archive,
         {c.of : c \in w.copies} = {c.of : c \in v.copies},
         \A m : StoredReadable(w, m) <=> StoredReadable(v, m)
  PROVE  Resolved(w, a) = Resolved(v, a)
<1>1. NewestStored(w) = NewestStored(v)
  BY DEF NewestStored
<1>2. \A m : Readable(w, m) <=> Readable(v, m)
  BY DEF Readable
<1>. QED BY <1>1, <1>2 DEF Resolved

\* Without a copy that another one stands for, the evidence is the same
LEMMA CopyStandsFor ==
  ASSUME NEW K, NEW kept \in K, NEW dup,
         kept # dup, kept.of = dup.of, dup.good => kept.good
  PROVE  /\ {c.of : c \in K \ {dup}} = {c.of : c \in K}
         /\ \A m : (\E c \in K \ {dup} : c.of = m /\ c.good)
                     <=> (\E c \in K : c.of = m /\ c.good)
<1>1. kept \in K \ {dup}
  OBVIOUS
<1>2. \A m : (\E c \in K : c.of = m) => \E c \in K \ {dup} : c.of = m
  BY <1>1
<1>3. {c.of : c \in K \ {dup}} = {c.of : c \in K}
  BY <1>2
<1>4. \A m : (\E c \in K : c.of = m /\ c.good) => \E c \in K \ {dup} : c.of = m /\ c.good
  BY <1>1
<1>. QED BY <1>3, <1>4

\* A candidate pair is two copies of one manifest, in the plan and ever after
PairsInv ==
  /\ TypeOK
  /\ \A d \in Depot : \A p \in worker.plan[d].dups : p[1].of = p[2].of /\ p[1] # p[2]

LEMMA CandidatesArePairs ==
  ASSUME NEW v \in DepotView, NEW p \in PlanOf(v).dups
  PROVE  p[1].of = p[2].of /\ p[1] # p[2]
<1>1. p \in DedupeCandidates(v)
  BY DEF PlanOf
<1>2. p \in v.copies \X v.copies /\ p[1].of = p[2].of /\ p[1].code > p[2].code
  BY <1>1 DEF DedupeCandidates
<1>3. p[1] \in StoredManifestCopy /\ p[2] \in StoredManifestCopy
  BY <1>2 DEF DepotView
<1>4. p[1].code \in Nat /\ p[2].code \in Nat
  BY <1>3 DEF StoredManifestCopy
<1>5. p[1].code # p[2].code
  BY <1>2, <1>4
<1>. QED BY <1>2, <1>5

LEMMA PairsInvInductive == PairsInv /\ TypeOK' /\ [Next]_vars => PairsInv'
<1>. SUFFICES ASSUME PairsInv, TypeOK', [Next]_vars PROVE PairsInv'
  OBVIOUS
<1>0. worker \in Worker /\ TypeOK /\ \A d \in Depot : worker.plan[d] \in DepotGcPlan
  BY DEF PairsInv, TypeOK, Types, Worker
<1>1. ASSUME worker'.plan = worker.plan PROVE PairsInv'
  BY <1>1 DEF PairsInv
<1>2. ASSUME worker'.plan = NoPlan PROVE PairsInv'
  <2>1. \A d \in Depot : worker'.plan[d].dups = {}
    BY <1>2 DEF NoPlan
  <2>. QED BY <2>1 DEF PairsInv
<1>3. IdleWorker.plan = NoPlan
  BY DEF IdleWorker
<1>4. ASSUME NEW d \in Depot, plan_one_depot(d) PROVE PairsInv'
  <2>1. worker'.plan = [worker.plan EXCEPT ![d] = PlanOf(ViewOf(d))]
    BY <1>4, <1>0 DEF plan_one_depot, ViewOf, Worker
  <2>2. ViewOf(d) \in DepotView
    BY <1>0, PlanOfType DEF TypeOK
  <2>3. \A p \in PlanOf(ViewOf(d)).dups : p[1].of = p[2].of /\ p[1] # p[2]
    BY <2>2, CandidatesArePairs
  <2>4. worker.plan \in [Depot -> DepotGcPlan]
    BY <1>0 DEF Worker
  <2>5. /\ worker'.plan[d] = PlanOf(ViewOf(d))
        /\ \A e \in Depot \ {d} : worker'.plan[e] = worker.plan[e]
    BY <2>1, <2>4
  <2>. QED BY <2>3, <2>5 DEF PairsInv
<1>11. ASSUME NEW a \in App, run_gc(a) PROVE PairsInv'
  <2>1. worker'.plan = NoPlan
    BY <1>11 DEF run_gc, IdleWorker
  <2>. QED BY <2>1, <1>2
<1>5. ASSUME NEW d \in Depot, NEW p \in worker.plan[d].dups, execute_dedupe(d, p)
      PROVE  PairsInv'
  <2>1. worker'.plan = [worker.plan EXCEPT ![d].dups = worker.plan[d].dups \ {p}]
    BY <1>5, <1>0 DEF execute_dedupe, Worker
  <2>2. worker.plan \in [Depot -> DepotGcPlan]
    BY <1>0 DEF Worker
  <2>3. \A e \in Depot : worker'.plan[e].dups \subseteq worker.plan[e].dups
    BY <1>0, <2>1, <2>2 DEF DepotGcPlan
  <2>. QED BY <2>3 DEF PairsInv
<1>6. ASSUME NEW a \in App, PrefillRuns(a) PROVE PairsInv'
  <2>1. worker'.plan = NoPlan
    BY <1>6 DEF PrefillRuns, IdleWorker
  <2>. QED BY <2>1, <1>2
<1>7. ASSUME NEW b \in worker.bins, IngestFile(b) \/ IngestCut(b) \/ SkipFile(b)
      PROVE  PairsInv'
  <2>1. worker'.plan = worker.plan \/ worker'.plan = NoPlan
    BY <1>7, <1>3, <1>0 DEF IngestFile, IngestCut, SkipFile, Worker
  <2>. QED BY <2>1, <1>1, <1>2
<1>8. ASSUME IngestEnds \/ flag_needs_force_for_depots \/ run_gc_job_crash
      PROVE  PairsInv'
  BY <1>8, <1>3, <1>2 DEF IngestEnds, flag_needs_force_for_depots, run_gc_job_crash
<1>9. ASSUME \/ \E d \in Depot : \/ SkipDepot(d) \/ execute_depot(d)
                                 \/ \E c \in Chunk : remove_one_file(d, c)
             \/ load_mapping_rows \/ load_content_states \/ load_recorded_manifests
             \/ plan_gc \/ ChunksDone \/ DepotDone \/ LoopEnds
      PROVE  PairsInv'
  BY <1>9, <1>1, <1>0 DEF load_mapping_rows, load_content_states,
                          load_recorded_manifests, plan_gc, SkipDepot, execute_depot, remove_one_file, ChunksDone,
                          DepotDone, LoopEnds, Worker
<1>10. ASSUME \/ \E d \in Depot :
                   \/ Publish(d)
                   \/ \E c \in Chunk : ClientStoresChunk(d, c)
                   \/ \E m \in Manifest, good \in BOOLEAN :
                        ClientStoresManifest(d, m, good)
                   \/ \E a \in App : EditMapping(d, a)
              \/ \E a \in App, gids \in SUBSET Manifest : store_app_info(a, gids)
              \/ GraceExpires \/ ClearTemp \/ UNCHANGED vars
       PROVE  PairsInv'
  BY <1>10, <1>1 DEF Publish, ClientStoresChunk, ClientStoresManifest, EditMapping,
                     store_app_info, GraceExpires, ClearTemp, vars
<1>. QED BY <1>4, <1>5, <1>6, <1>7, <1>8, <1>9, <1>10, <1>11 DEF Next

\* A step of the collection that only takes a chunk, or nothing
LEMMA UntouchedEvidence ==
  ASSUME TypeOK, TypeOK', UNCHANGED <<recorded, archive>>,
         NEW d \in Depot, disk'[d].copies = disk[d].copies, NEW a \in App
  PROVE  Resolved(ViewNow(d), a)' = Resolved(ViewNow(d), a)
<1>. DEFINE v == ViewNow(d)
            w == ViewNow(d)'
<1>1. /\ w.recorded[a] = v.recorded[a] /\ w.archive = v.archive
      /\ w.copies = v.copies
  BY DEF ViewNow, View
<1>2. \A m : StoredReadable(w, m) <=> StoredReadable(v, m)
  <2>. HIDE DEF v, w
  <2>. QED BY <1>1 DEF StoredReadable
<1>3. Resolved(w, a) = Resolved(v, a)
  <2>. HIDE DEF v, w
  <2>. QED BY <1>1, <1>2, SameEvidence
<1>. QED BY <1>3 DEF Resolved, NewestStored, StoredReadable, Readable, Newer

\* Dedupe removes a copy only beside another one that is as good: two good copies
\* are the same bytes, and a truncated one goes only for a truncated one.
LEMMA DedupeKeepsEvidence ==
  ASSUME PairsInv, TypeOK', NEW e \in Depot, NEW p \in worker.plan[e].dups,
         execute_dedupe(e, p), NEW a \in App, NEW d \in Depot
  PROVE  Resolved(ViewNow(d), a)' = Resolved(ViewNow(d), a)
<1>1. UNCHANGED <<recorded, archive>>
  BY DEF execute_dedupe
<1>2. disk \in [Depot -> DepotDir] /\ TypeOK
  BY DEF PairsInv, TypeOK, Types
<1>3. CASE disk'[d].copies = disk[d].copies
  BY <1>1, <1>2, <1>3, UntouchedEvidence
<1>4. CASE disk'[d].copies # disk[d].copies
  <2>1. /\ disk' = [disk EXCEPT ![e].copies = disk[e].copies \ {p[2]}]
        /\ p[1] \in disk[e].copies /\ TRUE \in files_are_identical(p)
    BY <1>4 DEF execute_dedupe
  <2>2. d = e /\ disk'[d].copies = disk[d].copies \ {p[2]}
    BY <1>2, <1>4, <2>1 DEF DepotDir
  <2>3. p[1].of = p[2].of /\ p[1] # p[2] /\ (p[2].good => p[1].good)
    <3>1. p[1].of = p[2].of /\ p[1] # p[2]
      BY DEF PairsInv
    <3>2. p[2].good => p[1].good
      <4>1. p \in StoredManifestCopy \X StoredManifestCopy
        BY <1>2 DEF TypeOK, Types, Worker, DepotGcPlan
      <4>2. p[1].good \in BOOLEAN /\ p[2].good \in BOOLEAN
        BY <4>1 DEF StoredManifestCopy
      <4>. QED BY <2>1, <4>2 DEF files_are_identical
    <3>. QED BY <3>1, <3>2
  <2>. DEFINE v == ViewNow(d)
              w == ViewNow(d)'
  <2>4. /\ w.recorded[a] = v.recorded[a] /\ w.archive = v.archive
        /\ w.copies = v.copies \ {p[2]} /\ p[1] \in v.copies
    BY <1>1, <2>1, <2>2 DEF ViewNow, View
  <2>5. {c.of : c \in w.copies} = {c.of : c \in v.copies}
    <3>. HIDE DEF v, w
    <3>. QED BY <2>3, <2>4, CopyStandsFor
  <2>6. \A m : StoredReadable(w, m) <=> StoredReadable(v, m)
    <3>. HIDE DEF v, w
    <3>1. \A m : (\E c \in v.copies \ {p[2]} : c.of = m /\ c.good)
                   <=> (\E c \in v.copies : c.of = m /\ c.good)
      BY <2>3, <2>4, CopyStandsFor
    <3>. QED BY <2>4, <3>1 DEF StoredReadable
  <2>7. Resolved(w, a) = Resolved(v, a)
    <3>. HIDE DEF v, w
    <3>. QED BY <2>4, <2>5, <2>6, SameEvidence
  <2>. QED BY <2>7 DEF Resolved, NewestStored, StoredReadable, Readable, Newer
<1>. QED BY <1>3, <1>4

\* A step of the worker while it removes or compares
LEMMA CollectorSteps ==
  ASSUME TypeOK, [Next]_vars, worker.pc \in {"chunks", "dedupe"}, worker' # worker
  PROVE  \/ \E d \in Depot, c \in Chunk : remove_one_file(d, c)
         \/ \E d \in Depot : \E p \in worker.plan[d].dups : execute_dedupe(d, p)
         \/ ChunksDone \/ DepotDone \/ run_gc_job_crash
<1>1. ASSUME \/ \E d \in Depot :
                  \/ Publish(d)
                  \/ \E c \in Chunk : ClientStoresChunk(d, c)
                  \/ \E m \in Manifest, good \in BOOLEAN :
                       ClientStoresManifest(d, m, good)
                  \/ \E a \in App : EditMapping(d, a)
             \/ \E a \in App, gids \in SUBSET Manifest : store_app_info(a, gids)
             \/ GraceExpires \/ ClearTemp \/ UNCHANGED vars
      PROVE  FALSE
  BY <1>1 DEF Publish, ClientStoresChunk, ClientStoresManifest, EditMapping,
              store_app_info, GraceExpires, ClearTemp, vars
<1>2. ASSUME \/ \E d \in Depot : plan_one_depot(d) \/ SkipDepot(d) \/ execute_depot(d)
             \/ load_mapping_rows \/ load_content_states \/ load_recorded_manifests
             \/ plan_gc
             \/ \E a \in App : PrefillRuns(a) \/ run_gc(a)
             \/ \E b \in worker.bins : IngestFile(b) \/ IngestCut(b) \/ SkipFile(b)
             \/ IngestEnds \/ LoopEnds \/ flag_needs_force_for_depots
      PROVE  FALSE
  BY <1>2 DEF plan_one_depot, load_mapping_rows, load_content_states,
              load_recorded_manifests, plan_gc, run_gc, SkipDepot, execute_depot,
              PrefillRuns, IngestFile, IngestCut,
              SkipFile, IngestEnds, LoopEnds, flag_needs_force_for_depots
<1>. QED BY <1>1, <1>2 DEF Next

\* No step of GC changes what any app's claim to any depot resolves to, truncated
\* copies or not: ClaimsSurviveGc for every instance.
THEOREM ClaimsAlwaysSurvive == Spec => ClaimsSurviveGc
<1>1. Init => PairsInv
  <2>1. ASSUME Init PROVE \A d \in Depot : worker.plan[d].dups = {}
    BY <2>1 DEF Init, IdleWorker, NoPlan
  <2>. QED BY <2>1, InitTypeOK DEF PairsInv
<1>2. PairsInv /\ [Next]_vars => PairsInv' /\ TypeOK'
  <2>1. PairsInv => TypeOK
    BY DEF PairsInv
  <2>. QED BY <2>1, NextTypeOK, PairsInvInductive
<1>3. ASSUME PairsInv, PairsInv', [Next]_vars, worker.pc \in {"chunks", "dedupe"},
             worker' # worker, NEW a \in App, NEW d \in Depot
      PROVE  Resolved(ViewNow(d), a) \subseteq Resolved(ViewNow(d), a)'
  <2>1. TypeOK /\ TypeOK' /\ \A e \in Depot : disk[e] \in DepotDir
    BY <1>3 DEF PairsInv, TypeOK, Types
  <2>2. ASSUME NEW e \in Depot, NEW c \in Chunk, remove_one_file(e, c)
        PROVE  UNCHANGED <<recorded, archive>> /\ disk'[d].copies = disk[d].copies
    <3>1. \/ disk' = disk
          \/ disk' = [disk EXCEPT ![e].chunks = disk[e].chunks \ {c},
                                  ![e].fresh = disk[e].fresh \ {c}]
      BY <2>2 DEF remove_one_file
    <3>2. disk'[d].copies = disk[d].copies
      BY <3>1, <2>1 DEF DepotDir, TypeOK, Types
    <3>. QED BY <2>2, <3>2 DEF remove_one_file
  <2>3. ASSUME ChunksDone \/ DepotDone \/ run_gc_job_crash
        PROVE  UNCHANGED <<recorded, archive>> /\ disk'[d].copies = disk[d].copies
    BY <2>3 DEF ChunksDone, DepotDone, run_gc_job_crash
  <2>4. Resolved(ViewNow(d), a)' = Resolved(ViewNow(d), a)
    BY <1>3, <2>1, <2>2, <2>3, CollectorSteps, DedupeKeepsEvidence, UntouchedEvidence
  <2>. QED BY <2>4
<1>4. PairsInv /\ PairsInv' /\ [Next]_vars =>
        [worker.pc \in {"chunks", "dedupe"} /\ worker' # worker =>
           \A a \in App, d \in Depot :
             Resolved(ViewNow(d), a) \subseteq Resolved(ViewNow(d), a)']_vars
  BY <1>3
<1>. QED BY <1>1, <1>2, <1>4, PTL DEF Spec, ClaimsSurviveGc
=============================================================================
