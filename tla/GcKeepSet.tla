----------------------------- MODULE GcKeepSet -----------------------------
(***************************************************************************)
(* What garbage collection may remove from one depot (gc.py): the keep set *)
(* is the union of the current manifests of every app that counts, the     *)
(* readiness gate plans nothing when one of them cannot be resolved, the   *)
(* oracle may add manifests, and exclusions may hold chunks back.          *)
(*                                                                         *)
(* The operators are about a view of one depot: what load_gc_inputs read   *)
(* from the database and the two scans found on disk.                      *)
(*   exists    the depot directory is there                                *)
(*   chunks    chunk files with a usable name                              *)
(*   copies    cache-stored manifest copies                                *)
(*   archive   manifests the archive holds readably                        *)
(*   owners    apps mapped to the depot, UnreadableApp for a poisoned row  *)
(*   content   per app: has cache content, as far as anybody can tell      *)
(*   recorded  per app: the raw depot_manifests.manifestid, or NoManifest  *)
(*   extras    raw manifest ids from the oracle                            *)
(***************************************************************************)
EXTENDS Naturals, FiniteSets

CONSTANTS
  App, UnreadableApp,
  Manifest,             \* manifest ids, numbered in the order of their strings
  Chunk,
  ChunksOf,             \* [Manifest -> SUBSET Chunk]
  Published,            \* [Manifest -> Nat]: Last-Modified, the mtime of a copy
  NoManifest,           \* no row, nothing resolved
  Unusable,             \* a value that is no manifest id
  MaxExtras             \* MAX_EXTRA_MANIFESTS

ASSUME KeepSetAssumption ==
  /\ UnreadableApp \notin App
  /\ Manifest \subseteq Nat
  /\ NoManifest \notin Manifest /\ Unusable \notin Manifest
  /\ NoManifest # Unusable
  /\ ChunksOf \in [Manifest -> SUBSET Chunk]
  /\ Published \in [Manifest -> Nat]
  /\ MaxExtras \in Nat

Recorded == Manifest \cup {NoManifest, Unusable}

\* A copy's request code is its file name and breaks ties of equal mtimes; a
\* store that was cut off leaves a copy that does not parse.
StoredManifestCopy == [of : Manifest, code : Nat, good : BOOLEAN]

DepotView ==
  [exists : BOOLEAN, chunks : SUBSET Chunk, copies : SUBSET StoredManifestCopy,
   archive : SUBSET Manifest, owners : SUBSET (App \cup {UnreadableApp}),
   content : [App -> BOOLEAN], recorded : [App -> Recorded],
   extras : SUBSET (Manifest \cup {Unusable})]

-----------------------------------------------------------------------------
(* The manifest source chain.                                              *)

\* Another request code's copy of the same manifest is as good
StoredReadable(v, m) == \E c \in v.copies : c.of = m /\ c.good

\* A known id: the archive, else the cache; never another id
Readable(v, m) == m \in v.archive \/ StoredReadable(v, m)

Newer(m, n) ==
  Published[m] > Published[n] \/ (Published[m] = Published[n] /\ m > n)

\* The manifest of which the newest copy is stored, readable or not
NewestStored(v) ==
  LET stored == {c.of : c \in v.copies}
  IN  {m \in stored : \A n \in stored \ {m} : Newer(m, n)}

\* The manifest an app's claim resolves to, if any: what it recorded and nothing
\* else, the newest copy only where it recorded nothing
Resolved(v, a) ==
  {m \in Manifest : \/ v.recorded[a] = m /\ Readable(v, m)
                    \/ /\ v.recorded[a] = NoManifest
                       /\ m \in NewestStored(v) /\ StoredReadable(v, m)}

\* An app that holds nothing and recorded nothing neither keeps nor blocks
Counting(v) ==
  {a \in v.owners \cap App : v.content[a] \/ v.recorded[a] # NoManifest}

-----------------------------------------------------------------------------
(* The readiness gate and the keep set.                                    *)

\* No readiness gate: an app that cannot be resolved keeps nothing
GatePassed_Partial(v) ==
  v.exists /\ v.owners # {} /\ UnreadableApp \notin v.owners /\ Counting(v) # {}

\* Otherwise the depot is skipped, with one of five statuses for the report
GatePassed(v) ==
  /\ v.exists                                       \* skipped_missing_dir
  /\ v.owners # {}                                  \* skipped_unmapped
  /\ UnreadableApp \notin v.owners                  \* skipped_unreadable_owner
  /\ Counting(v) # {}                               \* skipped_no_counting_apps
  /\ \A a \in Counting(v) : Resolved(v, a) # {}     \* skipped_no_manifest

AppKeep(v) ==
  UNION {ChunksOf[m] : m \in UNION {Resolved(v, a) : a \in Counting(v)}}

\* Usable ids first, in order, and no more than the limit
Considered(v) ==
  {m \in v.extras \cap Manifest :
     Cardinality({n \in v.extras \cap Manifest : n < m}) < MaxExtras}

ExtraKeep(v) == UNION {ChunksOf[m] : m \in {n \in Considered(v) : Readable(v, n)}}

\* Step 7 is behind the gate: extras keep more, they never skip or plan a depot
KeepSet(v) == IF GatePassed(v) THEN AppKeep(v) \cup ExtraKeep(v) ELSE {}

Orphans(v) == IF GatePassed(v) THEN v.chunks \ KeepSet(v) ELSE {}

\* What the extras saved
OracleProtected(v) ==
  IF GatePassed(v) THEN v.chunks \cap (ExtraKeep(v) \ AppKeep(v)) ELSE {}

\* Redundant copies: <<the newest copy, another one of the same manifest>>
DedupeCandidates(v) ==
  {p \in v.copies \X v.copies :
     /\ p[1].of = p[2].of
     /\ p[1].code > p[2].code
     /\ \A c \in v.copies : c.of = p[1].of => c.code <= p[1].code}

\* Exclusions may only shrink what is deleted
OrphansToDelete(orphans, heldBack) == orphans \ heldBack
=============================================================================
