--------------------------- MODULE IndexPipeline ---------------------------
(* The indexing pipeline of indexer.py: index_codebase_stream, the decision  *)
(* table evaluate_index_state, the persisted stores it reads and writes (the *)
(* Chroma collection, the hash store, the chunk counts, the workspace maps,  *)
(* index_state.json) and the authoritative repair that ends every run, all   *)
(* interleaved with a user who edits the indexed files, restarts, upgrades   *)
(* and interrupted runs.                                                     *)
(*                                                                           *)
(* A file content stands for its own MD5 digest.  It is a record: the root   *)
(* it was written under, a version number that no other edit reuses, and the *)
(* set of lines at which _chunk_file starts a chunk ({} for a file that      *)
(* yields none: empty, blank, an unreadable notebook).  A chunk is the pair  *)
(* (content, start line); its Chroma id is a digest of path and line, so the *)
(* collection is a function of path and line.                                *)
EXTENDS Naturals, FiniteSets

CONSTANTS
    Roots,          \* project directories a user may index
    Files,          \* relative paths that pass _collect_files
    Authoritative,  \* those _discover_manifests reports (manifests, configs)
    Lines,          \* start lines of chunks
    Shapes,         \* the sets of start lines a content may have
    InitialDisks,   \* the directories as the program first finds them
    None,           \* absent file, missing entry, missing root
    MaxEdits,       \* bound: writes to the indexed directories
    MaxFaults,      \* bound: interrupted runs and failed state writes
    MaxUpgrades,    \* bound: restarts under a newer code version
    Reverts         \* may an edit bring back the content last hashed?

Content == [root: Roots, ver: 0..MaxEdits, lines: Shapes]
Maybe(S) == S \cup {None}
Snapshots == [Files -> Maybe(Content)]

ASSUME AuthoritativeAssumption == Authoritative \subseteq Files
ASSUME ShapesAssumption == Shapes \subseteq SUBSET Lines
ASSUME LinesAssumption == IsFiniteSet(Lines)
ASSUME BoundsAssumption ==
    MaxEdits \in Nat /\ MaxFaults \in Nat /\ MaxUpgrades \in Nat
ASSUME RevertsAssumption == Reverts \in BOOLEAN
ASSUME NoneAssumption == None \notin Content /\ None \notin Roots /\ None \notin Files
ASSUME InitialDisksAssumption ==
    /\ InitialDisks \subseteq [Roots -> Snapshots]
    /\ \A d \in InitialDisks, r \in Roots, f \in Files :
          d[r][f] # None => d[r][f].ver = 0 /\ d[r][f].root = r

VARIABLES
    disk,       \* disk[r][f]: content of file f under root r, None if absent
    clock,      \* version of the latest edit
    \* persisted stores
    vec,        \* vec[f][l]: content whose chunk at line l of f is stored
    hashes,     \* .file_hashes.json: __root__ and the digest per path
    stored,     \* index_state.json: repo_root, core and workspace versions
    counts,     \* chunk count per path
    maps,       \* workspace manifests, symbol index, project map, graph
    \* the running program
    ver,        \* versions compiled into the code: core, workspace
    pc,         \* where the (single) index run is
    root, force, decision,   \* its arguments and its decision
    snap,       \* digests taken while collecting (next_hashes)
    todo,       \* files to chunk and embed (new_files)
    read,       \* content _chunk_file saw, per file of todo
    pending,    \* chunked files whose batch is not stored yet
    rset, rtodo, rcur, rread, rhash,  \* locals of _repair_index_paths
    \* history
    cleared,    \* the collection was emptied and no full run has hashed since
    faults

diskVars   == <<disk, clock>>
storeVars  == <<vec, hashes, stored, counts, maps>>
runVars    == <<root, force, decision, snap, todo, read, pending>>
repairVars == <<rset, rtodo, rcur, rread, rhash>>
vars == <<diskVars, storeVars, ver, pc, runVars, repairVars, cleared, faults>>

-----------------------------------------------------------------------------
NoFiles  == [f \in Files |-> None]
NoVec    == [f \in Files |-> [l \in Lines |-> None]]
NoHashes == [root |-> None, files |-> NoFiles]
NoState  == [root |-> None, core |-> 0, ws |-> 0]
NoCounts == NoFiles
NoMaps   == [built |-> FALSE, manifests |-> {}, symbols |-> {}, graph |-> FALSE]

Full == "full_rebuild"
Incremental == "incremental_reindex"
WorkspaceOnly == "rebuild_workspace_only"
ReuseAll == "reuse_all"

Present(files) == {f \in Files : files[f] # None}
Chunked(files) == {f \in Present(files) : files[f].lines # {}}

\* The chunks of a file, one per start line, as the collection holds them.
ChunksOf(c) == [l \in Lines |-> IF c # None /\ l \in c.lines THEN c ELSE None]
\* An upsert overwrites the ids it names and leaves every other id alone.
Upsert(old, c) == [l \in Lines |-> IF l \in c.lines THEN c ELSE old[l]]
StoredChunks(f) == {l \in Lines : vec[f][l] # None}

\* A state file is rewritten in place and its exceptions are swallowed, so a
\* failing write leaves the old file or a truncated one, which reads as blank.
Written(new, old, blank) ==
    {new} \cup IF faults < MaxFaults THEN {old, blank} ELSE {}
FaultIf(failed) == faults' = IF failed THEN faults + 1 ELSE faults

-----------------------------------------------------------------------------
Init ==
    /\ disk \in InitialDisks
    /\ clock = 0
    /\ vec = NoVec /\ hashes = NoHashes /\ stored = NoState
    /\ counts = NoCounts /\ maps = NoMaps
    /\ ver = [core |-> 1, ws |-> 1]
    /\ pc = "idle"
    /\ root = None /\ force = FALSE /\ decision = Full
    /\ snap = NoFiles /\ todo = {} /\ read = NoFiles /\ pending = {}
    /\ rset = {} /\ rtodo = {} /\ rcur = None
    /\ rread = NoFiles /\ rhash = NoFiles
    /\ cleared = FALSE /\ faults = 0

-----------------------------------------------------------------------------
\* The user, the editor and git, at any moment.

Edit(r, f) ==
    /\ clock < MaxEdits
    /\ clock' = clock + 1
    /\ \E s \in Shapes :
          disk' = [disk EXCEPT ![r][f] = [root |-> r, ver |-> clock + 1, lines |-> s]]
    /\ UNCHANGED <<storeVars, ver, pc, runVars, repairVars, cleared, faults>>

\* A deletion uses the budget of edits too.
Delete(r, f) ==
    /\ clock < MaxEdits
    /\ disk[r][f] # None
    /\ clock' = clock + 1
    /\ disk' = [disk EXCEPT ![r][f] = None]
    /\ UNCHANGED <<storeVars, ver, pc, runVars, repairVars, cleared, faults>>

\* Undo, git stash, git checkout: the file is again what the hash store has.
Revert(f) ==
    /\ Reverts /\ pc = "idle" /\ clock < MaxEdits
    /\ hashes.root # None /\ hashes.files[f] # None
    /\ disk[hashes.root][f] # hashes.files[f]
    /\ clock' = clock + 1
    /\ disk' = [disk EXCEPT ![hashes.root][f] = hashes.files[f]]
    /\ UNCHANGED <<storeVars, ver, pc, runVars, repairVars, cleared, faults>>

-----------------------------------------------------------------------------
\* evaluate_index_state, then the two overrides of index_codebase_stream.

\* fault: the root is not compared
evaluate_ignoring_root(r, changed) ==
    IF stored.root = None \/ stored.core # ver.core THEN Full
    ELSE IF changed THEN Incremental
    ELSE IF stored.ws # ver.ws THEN WorkspaceOnly ELSE ReuseAll

evaluate_index_state(r, changed) ==
    IF \/ stored.root # r           \* missing state included
       \/ stored.core # ver.core
    THEN Full
    ELSE IF changed THEN Incremental
    ELSE IF stored.ws # ver.ws THEN WorkspaceOnly ELSE ReuseAll

NewFiles == {f \in Files : disk[root][f] # None /\ hashes.files[f] # disk[root][f]}
RemovedFiles == {f \in Files : disk[root][f] = None /\ hashes.files[f] # None}

\* fault: removed files do not override the table
DecideIgnoringRemoved ==
    IF force THEN Full ELSE evaluate_index_state(root, NewFiles # {})

Decide ==
    IF force \/ RemovedFiles # {} THEN Full
    ELSE evaluate_index_state(root, NewFiles # {})

AfterDiff ==
    CASE Decide = Full -> "clear"
      [] Decide # Full /\ Present(disk[root]) = {} -> "idle"  \* nothing to index
      [] OTHER -> IF Decide = WorkspaceOnly THEN "wsonly"
                  ELSE IF NewFiles = {} THEN "reuse" ELSE "chunk"

StartIndex(r, forced) ==
    /\ pc = "idle"
    /\ root' = r /\ force' = forced
    /\ pc' = "diff"
    /\ UNCHANGED <<diskVars, storeVars, ver, decision, snap, todo, read, pending,
                   repairVars, cleared, faults>>

\* The hash store is loaded whatever root it belongs to: paths are relative,
\* so entries of another root are compared with this root's files.
Diff ==
    /\ pc = "diff"
    /\ snap' = disk[root]
    /\ todo' = NewFiles
    /\ decision' = Decide
    /\ pc' = AfterDiff
    /\ UNCHANGED <<diskVars, storeVars, ver, root, force, read, pending,
                   repairVars, cleared, faults>>

\* fault: delete_collection is lost
ClearVectorsKept ==
    /\ pc = "clear"
    /\ cleared' = TRUE
    /\ todo' = Present(snap)
    /\ pc' = "unlink"
    /\ UNCHANGED <<diskVars, storeVars, ver, root, force, decision,
                   snap, read, pending, repairVars, faults>>

\* delete_collection, then every collected file is hashed again: a file that
\* vanished since the diff raises, and the run ends with an empty collection.
ClearVectors ==
    /\ pc = "clear"
    /\ vec' = NoVec
    /\ cleared' = TRUE
    /\ todo' = Present(snap)
    /\ pc' = IF \E f \in Present(snap) : disk[root][f] = None THEN "idle" ELSE "unlink"
    /\ UNCHANGED <<diskVars, hashes, stored, counts, maps, ver, root, force, decision,
                   snap, read, pending, repairVars, faults>>

\* The derived artifacts go; only now is an empty directory reported.
ClearArtifacts ==
    /\ pc = "unlink"
    /\ maps' = NoMaps
    /\ counts' = NoCounts
    /\ pc' = IF todo = {} THEN "idle" ELSE "chunk"
    /\ UNCHANGED <<diskVars, vec, hashes, stored, ver, runVars, repairVars,
                   cleared, faults>>

\* A file that cannot be read is skipped; no chunks at all is an error.
Chunk ==
    /\ pc = "chunk"
    /\ read' = [f \in Files |-> IF f \in todo THEN disk[root][f] ELSE None]
    /\ pending' = Chunked(read')
    /\ pc' = IF pending' = {} THEN "idle" ELSE "store"
    /\ UNCHANGED <<diskVars, storeVars, ver, root, force, decision, snap, todo,
                   repairVars, cleared, faults>>

\* fault: only the first batch is stored
StoreFirstBatch ==
    /\ pc = "store"
    /\ \E batch \in SUBSET pending \ {{}} :
          vec' = [f \in Files |-> IF f \in batch THEN Upsert(vec[f], read[f]) ELSE vec[f]]
    /\ pending' = {} /\ pc' = "hash"
    /\ UNCHANGED <<diskVars, hashes, stored, counts, maps, ver, root, force, decision,
                   snap, todo, read, repairVars, cleared, faults>>

StoreBatch ==
    /\ pc = "store"
    /\ \E batch \in SUBSET pending \ {{}} :
          /\ vec' = [f \in Files |-> IF f \in batch THEN Upsert(vec[f], read[f])
                                     ELSE vec[f]]
          /\ pending' = pending \ batch
    /\ pc' = IF pending' = {} THEN "hash" ELSE "store"
    /\ UNCHANGED <<diskVars, hashes, stored, counts, maps, ver, root, force, decision,
                   snap, todo, read, repairVars, cleared, faults>>

\* fault: an entry that is there already is kept
NextHashesOld ==
    [root |-> root, files |-> [f \in Files |-> IF hashes.files[f] # None /\ snap[f] # None
                                                THEN hashes.files[f] ELSE snap[f]]]
\* The digests saved are those of the diff, not of what was chunked.
NextHashes == [root |-> root, files |-> snap]

SaveHashes ==
    /\ pc = "hash"
    /\ \E h \in Written(NextHashes, hashes, NoHashes) :
          /\ hashes' = h
          /\ cleared' = (cleared /\ (decision # Full \/ h = hashes))
          /\ FaultIf(h # NextHashes)
    /\ pc' = "maps"
    /\ UNCHANGED <<diskVars, vec, stored, counts, maps, ver, runVars, repairVars>>

DiscoverEveryFile == Present(disk[root])  \* fault: no authoritative filter
DiscoverManifests == Present(disk[root]) \cap Authoritative

\* Counts and symbols are derived from this run's chunks, manifests from the
\* directory as it is now, the graph from every collected file.
BuildMaps ==
    /\ pc = "maps"
    /\ counts' = [f \in Files |-> IF f \in Chunked(read) THEN Cardinality(read[f].lines)
                                  ELSE counts[f]]
    /\ maps' = [built |-> TRUE, graph |-> TRUE, symbols |-> Chunked(read),
                manifests |-> DiscoverManifests]
    /\ pc' = "validate"
    /\ UNCHANGED <<diskVars, vec, hashes, stored, ver, runVars, repairVars,
                   cleared, faults>>

\* Metadata only: paths already hashed stay hashed, nothing else is added.
RebuildWorkspaceOnly ==
    /\ pc = "wsonly"
    /\ maps' = [built |-> TRUE, graph |-> TRUE,
                symbols |-> Present(snap) \cap Chunked(disk[root]),
                manifests |-> DiscoverManifests]
    /\ \E h \in Written([hashes EXCEPT !.root = root], hashes, NoHashes) :
          /\ hashes' = h
          /\ FaultIf(h # [hashes EXCEPT !.root = root])
    /\ pc' = "validate"
    /\ UNCHANGED <<diskVars, vec, stored, counts, ver, runVars, repairVars, cleared>>

ReuseIndex ==
    /\ pc = "reuse"
    /\ maps' = [maps EXCEPT !.graph = TRUE]
    /\ \E h \in Written(NextHashes, hashes, NoHashes) :
          /\ hashes' = h
          /\ FaultIf(h # NextHashes)
    /\ pc' = "validate"
    /\ UNCHANGED <<diskVars, vec, stored, counts, ver, runVars, repairVars, cleared>>

-----------------------------------------------------------------------------
\* _validate_and_repair_authoritative_integrity, over the workspace manifests.

Unhealthy(f) ==
    \/ hashes.files[f] = None                 \* discovered, not embedded
    \/ disk[root][f] = None                   \* missing on disk
    \/ hashes.files[f] # disk[root][f]        \* digest mismatch
    \/ StoredChunks(f) = {}                   \* not retrievable
    \/ counts[f] # None /\ Cardinality(StoredChunks(f)) < counts[f]

Validate ==
    LET bad == {f \in maps.manifests : Unhealthy(f)}
        gone == {f \in bad : disk[root][f] = None /\ hashes.files[f] # None}
        pruned == [hashes EXCEPT !.files =
                     [f \in Files |-> IF f \in gone THEN None ELSE hashes.files[f]]]
    IN /\ pc = "validate"
       /\ \E h \in Written(pruned, hashes, NoHashes) :
             /\ hashes' = h
             /\ gone = {} => h = hashes
             /\ FaultIf(h # pruned)
             /\ rhash' = h.files
       /\ rset' = bad /\ rtodo' = bad /\ rcur' = None /\ rread' = NoFiles
       /\ pc' = IF bad = {} THEN "state" ELSE "repair"
       /\ UNCHANGED <<diskVars, vec, stored, counts, maps, ver, runVars, cleared>>

RepairRead(f) ==
    /\ pc = "repair" /\ f \in rtodo
    /\ rtodo' = rtodo \ {f}
    /\ rread' = [rread EXCEPT ![f] = disk[root][f]]
    /\ IF disk[root][f] = None
       THEN /\ rhash' = [rhash EXCEPT ![f] = None]
            /\ UNCHANGED <<rcur, pc>>
       ELSE /\ rcur' = f /\ pc' = "rehash"
            /\ UNCHANGED rhash
    /\ UNCHANGED <<diskVars, storeVars, ver, runVars, rset, cleared, faults>>

\* The digest is taken after the embedding of what was read; a file that
\* vanished in between keeps its old entry.
RepairHash ==
    /\ pc = "rehash"
    /\ rhash' = IF disk[root][rcur] = None THEN rhash
                ELSE [rhash EXCEPT ![rcur] = disk[root][rcur]]
    /\ rcur' = None
    /\ pc' = "repair"
    /\ UNCHANGED <<diskVars, storeVars, ver, runVars, rset, rtodo, rread, cleared, faults>>

RepairApply ==
    /\ pc = "repair" /\ rtodo = {}
    /\ vec' = [f \in Files |-> IF f \in rset THEN ChunksOf(rread[f]) ELSE vec[f]]
    /\ counts' = [f \in Files |-> IF f \notin rset THEN counts[f]
                                  ELSE IF rread[f] = None THEN None
                                  ELSE Cardinality(rread[f].lines)]
    /\ \E h \in Written([root |-> root, files |-> rhash], hashes, NoHashes) :
          /\ hashes' = h
          /\ FaultIf(h # [root |-> root, files |-> rhash])
    /\ pc' = "state"
    /\ UNCHANGED <<diskVars, stored, maps, ver, runVars, repairVars, cleared>>

\* A store operation raises: finished paths are rolled back, the path in
\* progress keeps what was upserted, hashes and counts keep their old values.
RepairRollback ==
    /\ pc = "repair" /\ rtodo = {} /\ faults < MaxFaults
    /\ faults' = faults + 1
    /\ \E f \in rset :
          vec' \in {vec, [vec EXCEPT ![f] = IF rread[f] = None THEN vec[f]
                                            ELSE Upsert(vec[f], rread[f])]}
    /\ pc' = "state"
    /\ UNCHANGED <<diskVars, hashes, stored, counts, maps, ver, runVars, repairVars,
                   cleared>>

\* The last write of a successful run; then "done".
SaveState ==
    LET new == [root |-> root, core |-> ver.core, ws |-> ver.ws]
    IN /\ pc = "state"
       /\ \E s \in Written(new, stored, NoState) :
             /\ stored' = s
             /\ FaultIf(s # new)
       /\ pc' = "idle"
       /\ UNCHANGED <<diskVars, vec, hashes, counts, maps, ver, runVars, repairVars, cleared>>

-----------------------------------------------------------------------------
\* A crash, a kill, or an exception the pipeline does not catch: whatever the
\* run had written stays.
Interrupt ==
    /\ pc # "idle" /\ faults < MaxFaults
    /\ faults' = faults + 1
    /\ pc' = "idle"
    /\ UNCHANGED <<diskVars, storeVars, ver, runVars, repairVars, cleared>>

\* A restart under a release with a newer index/parser or workspace version.
Upgrade ==
    /\ pc = "idle"
    /\ ver.core + ver.ws < MaxUpgrades + 2
    /\ \E v \in {[ver EXCEPT !.core = @ + 1], [ver EXCEPT !.ws = @ + 1]} : ver' = v
    /\ UNCHANGED <<diskVars, storeVars, pc, runVars, repairVars, cleared, faults>>

\* fault: index_state.json survives
ClearIndexKeepingState ==
    /\ pc = "idle"
    /\ vec' = NoVec /\ hashes' = NoHashes /\ counts' = NoCounts
    /\ maps' = [NoMaps EXCEPT !.graph = maps.graph]
    /\ cleared' = FALSE
    /\ UNCHANGED <<diskVars, stored, ver, pc, runVars, repairVars, faults>>

\* POST /v1/index/clear: the graph artifacts are not in its list of files.
ClearIndex ==
    /\ pc = "idle"
    /\ vec' = NoVec /\ hashes' = NoHashes /\ stored' = NoState /\ counts' = NoCounts
    /\ maps' = [NoMaps EXCEPT !.graph = maps.graph]
    /\ cleared' = FALSE
    /\ UNCHANGED <<diskVars, ver, pc, runVars, repairVars, faults>>

-----------------------------------------------------------------------------
RunStep ==
    \/ Diff \/ ClearVectors \/ ClearArtifacts \/ Chunk \/ StoreBatch \/ SaveHashes
    \/ BuildMaps \/ RebuildWorkspaceOnly \/ ReuseIndex
    \/ Validate \/ (\E f \in Files : RepairRead(f)) \/ RepairHash \/ RepairApply
    \/ RepairRollback \/ SaveState

UserStep ==
    \/ \E r \in Roots, f \in Files : Edit(r, f) \/ Delete(r, f)
    \/ \E f \in Files : Revert(f)

Next ==
    \/ RunStep
    \/ UserStep
    \/ \E r \in Roots, forced \in BOOLEAN : StartIndex(r, forced)
    \/ Interrupt \/ Upgrade \/ ClearIndex

Spec == Init /\ [][Next]_vars

-----------------------------------------------------------------------------
\* What the server calls fresh: the directory has the digests of the store.
HasIndex == hashes.root # None /\ Present(hashes.files) # {}
Changed == HasIndex /\ disk[hashes.root] # hashes.files

\* A question first refreshes the index of its root if it changed.
Refresh == Changed /\ StartIndex(hashes.root, FALSE)

\* A run is a generator driven to its end, and users keep asking questions.
FairSpec == Spec /\ WF_vars(RunStep) /\ WF_vars(Refresh)

-----------------------------------------------------------------------------
\* Every variable has its type (the state of index_codebase_stream and of the
\* stores it writes).
TypeOK ==
    /\ disk \in [Roots -> Snapshots] /\ clock \in 0..MaxEdits
    /\ vec \in [Files -> [Lines -> Maybe(Content)]]
    /\ hashes \in [root: Maybe(Roots), files: Snapshots]
    /\ stored \in [root: Maybe(Roots), core: Nat, ws: Nat]
    /\ counts \in [Files -> Maybe(Nat)]
    /\ maps \in [built: BOOLEAN, manifests: SUBSET Authoritative,
                symbols: SUBSET Files, graph: BOOLEAN]
    /\ ver \in [core: Nat, ws: Nat]
    /\ pc \in {"idle", "diff", "clear", "unlink", "chunk", "store", "hash", "maps",
              "wsonly", "reuse", "validate", "repair", "rehash", "state"}
    /\ root \in Maybe(Roots) /\ (pc # "idle" => root \in Roots)
    /\ force \in BOOLEAN
    /\ decision \in {Full, Incremental, WorkspaceOnly, ReuseAll}
    /\ snap \in Snapshots /\ read \in Snapshots
    /\ todo \subseteq Files /\ pending \subseteq Files
    /\ (pc = "store" => \A f \in pending : read[f] # None)
    /\ rset \subseteq Authoritative /\ rtodo \subseteq rset
    /\ (pc = "rehash" => rcur \in rset)
    /\ rread \in Snapshots /\ rhash \in Snapshots
    /\ cleared \in BOOLEAN /\ faults \in Nat

Embedded(f, c) == \A l \in c.lines : vec[f][l] = c

\* A source file whose digest on disk equals its entry in the hash store has
\* every one of its current chunks in the collection, at every moment and
\* whatever was interrupted before: "unchanged" (new_files, freshness check)
\* never hides a missing or outdated chunk.  Two exceptions are the code's: a
\* collection emptied by a full rebuild that never reached _save_hashes, and
\* an index_state.json that does not name the project of the hash store.
FreshMeansEmbedded ==
    ~cleared /\ hashes.root # None /\ stored.root = hashes.root =>
        \A f \in Files \ Authoritative :
            LET c == disk[hashes.root][f]
            IN c # None /\ c = hashes.files[f] => Embedded(f, c)

\* With no interruption, an idle index holds chunks of one project only, the
\* one its hash store names, although entries of another root are diffed as if
\* they were this root's (hashes are keyed by relative path).
NoForeignChunks ==
    pc = "idle" /\ faults = 0 =>
        \A f \in Files : \A l \in StoredChunks(f) : vec[f][l].root = hashes.root

\* With no interruption, every source path with stored chunks is a path of the
\* hash store, so that its deletion is noticed (removed_paths) and its vectors
\* go.  (A manifest can lose its entry to the race of RepairHash.)
NoOrphanVectors ==
    pc = "idle" /\ faults = 0 =>
        \A f \in Files \ Authoritative : StoredChunks(f) # {} => hashes.files[f] # None

\* A full rebuild of a directory found unedited at its end leaves exactly its
\* chunks, whatever older runs, crashes or repairs had left behind (but for a
\* manifest created, repaired into the index and deleted again meanwhile).
ReindexIsExact ==
    pc = "state" /\ decision = Full /\ disk[root] = snap =>
        \A f \in Present(snap) \cup (Files \ Authoritative) : vec[f] = ChunksOf(snap[f])

\* With no interruption, an index_state.json that would allow reuse describes
\* the index that is there: its root is the hash store's, and the maps exist
\* (unless a full rebuild emptied everything and failed).
StateDescribesIndex ==
    pc = "idle" /\ faults = 0 /\ ~cleared /\ stored.root # None =>
        stored.root = hashes.root /\ maps.built /\ maps.graph

\* What no incremental refresh can embed: every changed file is without chunks
\* and nothing was removed, or nothing that is left has chunks ("No chunks
\* generated", "No source files found").
Unembeddable ==
    LET d == disk[hashes.root]
        gone == {f \in Files : d[f] = None /\ hashes.files[f] # None}
    IN \/ gone = {} /\ \A f \in Chunked(d) : d[f] = hashes.files[f]
       \/ Chunked(d) = {}

\* Once editing stops, questions bring the index up to date for good, unless
\* what changed cannot be embedded at all.
RefreshConverges == <>[](~Changed \/ Unembeddable)

-----------------------------------------------------------------------------
\* A statement of the documentation which the code does not keep.

\* README.md: unchanged files are reused from the existing index, so a run that
\* reuses everything has chunks for every file that yields some.
ReusedFilesAreStored ==
    pc = "reuse" /\ faults = 0 => \A f \in Chunked(snap) : StoredChunks(f) # {}

=============================================================================
