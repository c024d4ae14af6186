------------------------ MODULE IndexPipeline_proof ------------------------
(* Proofs about the indexing pipeline.  FreshMeansEmbedded needs that a file *)
(* content does not come back (Reverts = FALSE) and has the invariant IInv;  *)
(* the other safety properties hold whatever an edit writes and have the     *)
(* invariant WInv.                                                           *)
EXTENDS IndexPipeline, TLAPS, FiniteSetTheorems

Source == Files \ Authoritative

-----------------------------------------------------------------------------
\* The conjuncts of the inductive invariant.

BeforeHash == {"clear", "unlink", "chunk", "store", "hash", "wsonly", "reuse"}
AfterHash  == {"maps", "validate", "repair", "rehash", "state"}

\* Versions of contents seen so far are not in the future, so that an edit
\* never writes a content some store already names.
PastContents ==
    /\ \A r \in Roots, f \in Files :
          disk[r][f] # None => disk[r][f].root = r /\ disk[r][f].ver <= clock
    /\ \A f \in Files : hashes.files[f] # None => hashes.files[f].ver <= clock
    /\ pc \notin {"idle", "diff"} =>
          \A f \in Files : snap[f] # None => snap[f].root = root /\ snap[f].ver <= clock
    /\ pc \in {"repair", "rehash"} =>
          \A f \in Source : rhash[f] = hashes.files[f]
    /\ pc \in {"repair", "rehash"} =>
          \A f \in Files : rhash[f] # None => rhash[f].ver <= clock

\* What the decision of the run says about the stores it started from.
DecisionSound ==
    /\ pc \notin {"idle", "diff"} /\ decision # Full => stored.root = root
    /\ pc = "clear" => decision = Full
    /\ pc \in {"wsonly", "reuse"} => decision # Full
    /\ pc \in {"unlink", "chunk", "store", "hash"} /\ decision = Full =>
          todo = Present(snap) /\ cleared

\* Until the hash store is written, the difference taken from it stands: a file
\* that now has the digest in the store had it when the run started.
DiffStands ==
    pc \in BeforeHash /\ decision # Full =>
        \A f \in Files :
            /\ f \in todo => hashes.files[f] # snap[f]
            /\ f \notin todo => hashes.files[f] = snap[f]
            /\ hashes.files[f] # None /\ disk[root][f] = hashes.files[f] =>
                  snap[f] = hashes.files[f]

\* What was chunked is what was hashed, unless the file has changed since.
ReadStands ==
    pc \in {"store", "hash"} =>
        \A f \in todo :
            /\ snap[f] # None /\ disk[root][f] = snap[f] => read[f] = snap[f]
            /\ f \notin pending /\ read[f] # None => Embedded(f, read[f])

NothingPending == pc = "hash" => pending = {}
PendingRead == pc = "store" => pending \subseteq todo
ReuseHasNoWork == pc = "reuse" => todo = {}

\* After the hash store of a full run is written, its entries are embedded even
\* though index_state.json still names the previous project.
FullRunEmbedded ==
    pc \in AfterHash /\ decision = Full /\ ~cleared =>
        \A f \in Source :
            hashes.files[f] # None /\ disk[root][f] = hashes.files[f] =>
                Embedded(f, hashes.files[f])

\* The entry of a source file is embedded as long as its file still has that
\* digest and index_state.json names the project the entry comes from.
EntryEmbedded ==
    ~cleared =>
        \A f \in Source :
            LET h == hashes.files[f]
            IN h # None /\ h.root = stored.root /\ disk[h.root][f] = h => Embedded(f, h)

IInv ==
    /\ TypeOK /\ PastContents /\ DecisionSound /\ DiffStands /\ ReadStands
    /\ NothingPending /\ PendingRead /\ ReuseHasNoWork
    /\ FullRunEmbedded /\ EntryEmbedded

-----------------------------------------------------------------------------
\* The number of chunks of a content is a number.
LEMMA ChunkCount == ASSUME NEW c \in Content PROVE Cardinality(c.lines) \in Nat
<1>1. c.lines \subseteq Lines
  BY ShapesAssumption DEF Content
<1>2. IsFiniteSet(c.lines)
  BY <1>1, LinesAssumption, FS_Subset
<1>. QED
  BY <1>2, FS_CardinalityType

\* The blank stores are well typed.
LEMMA BlankTypes ==
    /\ NoFiles \in Snapshots
    /\ NoVec \in [Files -> [Lines -> Maybe(Content)]]
    /\ NoHashes \in [root: Maybe(Roots), files: Snapshots]
    /\ NoState \in [root: Maybe(Roots), core: Nat, ws: Nat]
    /\ NoCounts \in [Files -> Maybe(Nat)]
    /\ NoMaps \in [built: BOOLEAN, manifests: SUBSET Authoritative,
                   symbols: SUBSET Files, graph: BOOLEAN]
  BY DEF NoFiles, NoVec, NoHashes, NoState, NoCounts, NoMaps, Snapshots, Maybe

LEMMA TypeInit == Init => TypeOK
<1>. SUFFICES ASSUME Init PROVE TypeOK
  OBVIOUS
<1>1. disk \in [Roots -> Snapshots] /\ clock \in 0..MaxEdits
  BY InitialDisksAssumption, BoundsAssumption DEF Init
<1>2. ver \in [core: Nat, ws: Nat] /\ root \in Maybe(Roots)
  BY DEF Init, Maybe
<1>. QED
  BY <1>1, <1>2, BlankTypes DEF Init, TypeOK, Full, Incremental, WorkspaceOnly, ReuseAll

LEMMA TypeStep == TypeOK /\ [Next]_vars => TypeOK'
<1>. SUFFICES ASSUME TypeOK, [Next]_vars PROVE TypeOK'
  OBVIOUS
<1>. USE DEF Snapshots, Maybe, Full, Incremental, WorkspaceOnly, ReuseAll,
             diskVars, storeVars, runVars, repairVars
<1>1. CASE Diff
  BY <1>1 DEF TypeOK, Diff, Decide, evaluate_index_state, AfterDiff, NewFiles
<1>2. CASE ClearVectors
  BY <1>2 DEF TypeOK, ClearVectors, NoVec, Present
<1>3. CASE ClearArtifacts
  BY <1>3 DEF TypeOK, ClearArtifacts, NoMaps, NoCounts, NoFiles
<1>4. CASE Chunk
  BY <1>4 DEF TypeOK, Chunk, Chunked, Present
<1>5. CASE StoreBatch
  BY <1>5 DEF TypeOK, StoreBatch, Upsert
<1>6. CASE SaveHashes
  BY <1>6 DEF TypeOK, SaveHashes, Written, FaultIf, NextHashes, NoHashes, NoFiles
<1>7. CASE BuildMaps
  BY <1>7, ChunkCount DEF TypeOK, BuildMaps, Chunked, Present, DiscoverManifests
<1>8. CASE RebuildWorkspaceOnly
  BY <1>8 DEF TypeOK, RebuildWorkspaceOnly, Chunked, Present, DiscoverManifests, Written, FaultIf, NoHashes, NoFiles
<1>9. CASE ReuseIndex
  <2>1. maps' \in [built: BOOLEAN, manifests: SUBSET Authoritative,
                   symbols: SUBSET Files, graph: BOOLEAN]
    BY <1>9 DEF TypeOK, ReuseIndex
  <2>2. hashes' \in [root: Maybe(Roots), files: Snapshots] /\ faults' \in Nat
    BY <1>9, BlankTypes DEF TypeOK, ReuseIndex, Written, FaultIf, NextHashes
  <2>. QED
    BY <1>9, <2>1, <2>2 DEF TypeOK, ReuseIndex
<1>10. CASE Validate
  <2>1. PICK h \in [root: Maybe(Roots), files: Snapshots] :
           hashes' = h /\ rhash' = h.files /\ faults' \in {faults, faults + 1}
    BY <1>10, BlankTypes DEF TypeOK, Validate, Written, FaultIf
  <2>2. rset' \subseteq Authoritative /\ rtodo' = rset' /\ rread' \in Snapshots
    BY <1>10, BlankTypes DEF TypeOK, Validate
  <2>3. hashes' \in [root: Maybe(Roots), files: Snapshots] /\ rhash' \in Snapshots
    BY <2>1
  <2>. QED
    BY <1>10, <2>1, <2>2, <2>3 DEF TypeOK, Validate
<1>11. ASSUME NEW f \in Files, RepairRead(f) PROVE TypeOK'
  <2>1. rread' \in Snapshots /\ rtodo' \subseteq rset'
    BY <1>11 DEF TypeOK, RepairRead
  <2>2. CASE disk[root][f] = None
    BY <1>11, <2>1, <2>2 DEF TypeOK, RepairRead
  <2>3. CASE disk[root][f] # None
    BY <1>11, <2>1, <2>3 DEF TypeOK, RepairRead
  <2>. QED
    BY <2>2, <2>3
<1>12. CASE RepairHash
  BY <1>12, AuthoritativeAssumption DEF TypeOK, RepairHash
<1>13. CASE RepairApply
  BY <1>13, ChunkCount DEF TypeOK, RepairApply, ChunksOf, Written, FaultIf, NoHashes, NoFiles
<1>14. CASE RepairRollback
  <2>1. PICK f \in rset :
           vec' \in {vec, [vec EXCEPT ![f] = IF rread[f] = None THEN vec[f]
                                            ELSE Upsert(vec[f], rread[f])]}
    BY <1>14 DEF RepairRollback
  <2>2. f \in Files
    BY <2>1, AuthoritativeAssumption DEF TypeOK
  <2>3. vec' \in [Files -> [Lines -> Maybe(Content)]]
    <3>1. rread[f] # None => Upsert(vec[f], rread[f]) \in [Lines -> Maybe(Content)]
      BY <2>2 DEF TypeOK, Upsert
    <3>2. vec[f] \in [Lines -> Maybe(Content)] /\ vec \in [Files -> [Lines -> Maybe(Content)]]
      BY <2>2 DEF TypeOK
    <3>3. vec' \in {vec, [vec EXCEPT ![f] = IF rread[f] = None THEN vec[f]
                                            ELSE Upsert(vec[f], rread[f])]}
      BY <2>1
    <3>. QED
      BY <2>2, <3>1, <3>2, <3>3
  <2>. QED
    BY <1>14, <2>3 DEF TypeOK, RepairRollback
<1>15. CASE SaveState
  BY <1>15 DEF TypeOK, SaveState, Written, FaultIf, NoState
<1>16. ASSUME NEW r \in Roots, NEW f \in Files, Edit(r, f) PROVE TypeOK'
  BY <1>16, BoundsAssumption DEF TypeOK, Edit, Content
<1>17. ASSUME NEW r \in Roots, NEW f \in Files, Delete(r, f) PROVE TypeOK'
  BY <1>17, BoundsAssumption DEF TypeOK, Delete
<1>18. ASSUME NEW f \in Files, Revert(f) PROVE TypeOK'
  BY <1>18, BoundsAssumption DEF TypeOK, Revert
<1>19. ASSUME NEW r \in Roots, NEW forced \in BOOLEAN, StartIndex(r, forced) PROVE TypeOK'
  BY <1>19 DEF TypeOK, StartIndex
<1>20. CASE Interrupt
  BY <1>20 DEF TypeOK, Interrupt
<1>21. CASE Upgrade
  BY <1>21 DEF TypeOK, Upgrade
<1>22. CASE ClearIndex
  BY <1>22 DEF TypeOK, ClearIndex, NoVec, NoHashes, NoState, NoCounts, NoMaps, NoFiles
<1>23. CASE UNCHANGED vars
  BY <1>23 DEF TypeOK, vars
<1>. QED
  BY <1>1, <1>2, <1>3, <1>4, <1>5, <1>6, <1>7, <1>8, <1>9, <1>10, <1>11, <1>12, <1>13, <1>14, <1>15, <1>16, <1>17, <1>18, <1>19, <1>20, <1>21, <1>22, <1>23 DEF Next, RunStep, UserStep

\* Every reachable state of the pipeline and of its stores is well typed.
THEOREM TypeCorrect == Spec => []TypeOK
<1>. QED
  BY TypeInit, TypeStep, PTL DEF Spec
-----------------------------------------------------------------------------
\* What a write to, or a removal from, an indexed directory leaves on disk: one
\* file is absent or has a version later than every version seen before.
NewerOrGone(r, f) ==
    \A q \in Roots, g \in Files :
        \/ disk'[q][g] = disk[q][g]
        \/ disk'[q][g] = None
        \/ disk'[q][g] # None /\ disk'[q][g].root = q /\ disk'[q][g].ver = clock + 1

\* Every edit and deletion is of that kind.
LEMMA EditEffect ==
  ASSUME TypeOK, NEW r \in Roots, NEW f \in Files, Edit(r, f) \/ Delete(r, f)
  PROVE  NewerOrGone(r, f) /\ clock' = clock + 1 /\ clock \in Nat
<1>1. clock \in Nat /\ clock' = clock + 1 /\ clock + 1 \in 0..MaxEdits
  BY BoundsAssumption DEF Edit, Delete, TypeOK
<1>2. PICK c \in Maybe(Content) :
         /\ disk' = [disk EXCEPT ![r][f] = c]
         /\ c = None \/ (c.root = r /\ c.ver = clock + 1)
  BY <1>1 DEF Edit, Delete, Content, Maybe
<1>3. \A q \in Roots, g \in Files :
         disk'[q][g] = IF q = r /\ g = f THEN c ELSE disk[q][g]
  BY <1>2 DEF TypeOK, Snapshots
<1>. QED
  BY <1>1, <1>2, <1>3 DEF NewerOrGone

\* So no file comes back to a content the hash store knows.
LEMMA NoReturn ==
  ASSUME TypeOK, PastContents, NEW r \in Roots, NEW f \in Files,
         Edit(r, f) \/ Delete(r, f)
  PROVE  \A q \in Roots, g \in Files :
            hashes.files[g] # None /\ disk'[q][g] = hashes.files[g] =>
                disk[q][g] = hashes.files[g]
<1>1. NewerOrGone(r, f) /\ clock \in Nat
  BY EditEffect
<1>. SUFFICES ASSUME NEW q \in Roots, NEW g \in Files, hashes.files[g] # None,
                     disk'[q][g] = hashes.files[g]
              PROVE  disk[q][g] = hashes.files[g]
  OBVIOUS
<1>2. hashes.files[g].ver <= clock /\ hashes.files[g].ver \in Nat
  BY DEF PastContents, TypeOK, Snapshots, Maybe, Content
<1>. QED
  BY <1>1, <1>2 DEF NewerOrGone

-----------------------------------------------------------------------------
\* Each conjunct is kept by every action.

\* No action makes a store name a content of the future.
LEMMA PastStep ==
  ASSUME ~Reverts, TypeOK, PastContents, [Next]_vars
  PROVE  PastContents'
<1>. USE DEF diskVars, storeVars, runVars, repairVars, BeforeHash, AfterHash, Full
<1>1. CASE Diff
  BY <1>1 DEF Diff, AfterDiff, TypeOK, PastContents, Snapshots, Maybe
<1>2. CASE ClearVectors
  BY <1>2 DEF ClearVectors, TypeOK, PastContents, Snapshots, Maybe
<1>3. CASE ClearArtifacts
  BY <1>3 DEF ClearArtifacts, TypeOK, PastContents, Snapshots, Maybe
<1>4. CASE Chunk
  BY <1>4 DEF Chunk, TypeOK, PastContents, Snapshots, Maybe
<1>5. CASE StoreBatch
  BY <1>5 DEF StoreBatch, TypeOK, PastContents, Snapshots, Maybe
<1>6. CASE SaveHashes
  BY <1>6 DEF SaveHashes, Written, FaultIf, NextHashes, NoHashes, NoFiles, TypeOK, PastContents, Snapshots, Maybe
<1>7. CASE BuildMaps
  BY <1>7 DEF BuildMaps, TypeOK, PastContents, Snapshots, Maybe
<1>8. CASE RebuildWorkspaceOnly
  BY <1>8 DEF RebuildWorkspaceOnly, Written, FaultIf, NextHashes, NoHashes, NoFiles, TypeOK, PastContents, Snapshots, Maybe
<1>9. CASE ReuseIndex
  BY <1>9 DEF ReuseIndex, Written, FaultIf, NextHashes, NoHashes, NoFiles, TypeOK, PastContents, Snapshots, Maybe
<1>10. CASE Validate
  BY <1>10 DEF Validate, Written, FaultIf, NextHashes, NoHashes, NoFiles, TypeOK, PastContents, Snapshots, Maybe
<1>11. ASSUME NEW f \in Files, RepairRead(f) PROVE PastContents'
  <2>1. CASE disk[root][f] = None
    <3>1. f \notin Source /\ \A g \in Files : rhash'[g] = IF g = f THEN None ELSE rhash[g]
      BY <1>11, <2>1 DEF RepairRead, Source, TypeOK, Snapshots
    <3>. QED
      BY <1>11, <2>1, <3>1 DEF RepairRead, Source, TypeOK, PastContents, Snapshots, Maybe
  <2>2. CASE disk[root][f] # None
    BY <1>11, <2>2 DEF RepairRead, TypeOK, PastContents, Snapshots, Maybe
  <2>. QED
    BY <2>1, <2>2
<1>12. CASE RepairHash
  BY <1>12, AuthoritativeAssumption DEF RepairHash, Source, TypeOK, PastContents, Snapshots, Maybe
<1>13. CASE RepairApply
  BY <1>13 DEF RepairApply, Written, FaultIf, NextHashes, NoHashes, NoFiles, TypeOK, PastContents, Snapshots, Maybe
<1>14. CASE RepairRollback
  BY <1>14 DEF RepairRollback, TypeOK, PastContents, Snapshots, Maybe
<1>15. CASE SaveState
  BY <1>15 DEF SaveState, TypeOK, PastContents, Snapshots, Maybe
<1>16. ASSUME NEW r \in Roots, NEW f \in Files, Edit(r, f) PROVE PastContents'
  <2>1. NewerOrGone(r, f) /\ clock' = clock + 1 /\ clock \in Nat
    BY <1>16, EditEffect
  <2>. QED
    BY <1>16, <2>1 DEF NewerOrGone, TypeOK, PastContents, Snapshots, Maybe, Content, Edit
<1>17. ASSUME NEW r \in Roots, NEW f \in Files, Delete(r, f) PROVE PastContents'
  <2>1. NewerOrGone(r, f) /\ clock' = clock + 1 /\ clock \in Nat
    BY <1>17, EditEffect
  <2>. QED
    BY <1>17, <2>1 DEF NewerOrGone, TypeOK, PastContents, Snapshots, Maybe, Content, Delete
<1>18. ASSUME NEW f \in Files, Revert(f) PROVE PastContents'
  BY <1>18 DEF Revert
<1>19. ASSUME NEW r \in Roots, NEW forced \in BOOLEAN, StartIndex(r, forced) PROVE PastContents'
  BY <1>19 DEF StartIndex, TypeOK, PastContents, Snapshots, Maybe
<1>20. CASE Interrupt
  BY <1>20 DEF Interrupt, TypeOK, PastContents, Snapshots, Maybe
<1>21. CASE Upgrade
  BY <1>21 DEF Upgrade, TypeOK, PastContents, Snapshots, Maybe
<1>22. CASE ClearIndex
  BY <1>22 DEF ClearIndex, NoHashes, NoFiles, TypeOK, PastContents, Snapshots, Maybe
<1>23. CASE UNCHANGED vars
  BY <1>23 DEF vars, TypeOK, PastContents, Snapshots, Maybe
<1>. QED
  BY <1>1, <1>2, <1>3, <1>4, <1>5, <1>6, <1>7, <1>8, <1>9, <1>10, <1>11, <1>12, <1>13, <1>14, <1>15, <1>16, <1>17, <1>18, <1>19, <1>20, <1>21, <1>22, <1>23 DEF Next, RunStep, UserStep

\* The decision keeps describing the state file the run found.
LEMMA DecisionStep ==
  ASSUME TypeOK, DecisionSound, [Next]_vars
  PROVE  DecisionSound'
<1>. USE DEF diskVars, storeVars, runVars, repairVars, BeforeHash, AfterHash, Full
<1>1. CASE Diff
  BY <1>1, NoneAssumption DEF Diff, Decide, AfterDiff, evaluate_index_state, TypeOK, DecisionSound
<1>2. CASE ClearVectors
  BY <1>2 DEF ClearVectors, TypeOK, DecisionSound
<1>3. CASE ClearArtifacts
  BY <1>3 DEF ClearArtifacts, TypeOK, DecisionSound
<1>4. CASE Chunk
  BY <1>4 DEF Chunk, TypeOK, DecisionSound
<1>5. CASE StoreBatch
  BY <1>5 DEF StoreBatch, TypeOK, DecisionSound
<1>6. CASE SaveHashes
  BY <1>6 DEF SaveHashes, TypeOK, DecisionSound
<1>7. CASE BuildMaps
  BY <1>7 DEF BuildMaps, TypeOK, DecisionSound
<1>8. CASE RebuildWorkspaceOnly
  BY <1>8 DEF RebuildWorkspaceOnly, TypeOK, DecisionSound
<1>9. CASE ReuseIndex
  BY <1>9 DEF ReuseIndex, TypeOK, DecisionSound
<1>10. CASE Validate
  BY <1>10 DEF Validate, TypeOK, DecisionSound
<1>11. ASSUME NEW f \in Files, RepairRead(f) PROVE DecisionSound'
  BY <1>11 DEF RepairRead, TypeOK, DecisionSound
<1>12. CASE RepairHash
  BY <1>12 DEF RepairHash, TypeOK, DecisionSound
<1>13. CASE RepairApply
  BY <1>13 DEF RepairApply, TypeOK, DecisionSound
<1>14. CASE RepairRollback
  BY <1>14 DEF RepairRollback, TypeOK, DecisionSound
<1>15. CASE SaveState
  BY <1>15 DEF SaveState, TypeOK, DecisionSound
<1>16. ASSUME NEW r \in Roots, NEW f \in Files, Edit(r, f) PROVE DecisionSound'
  BY <1>16 DEF Edit, TypeOK, DecisionSound
<1>17. ASSUME NEW r \in Roots, NEW f \in Files, Delete(r, f) PROVE DecisionSound'
  BY <1>17 DEF Delete, TypeOK, DecisionSound
<1>18. ASSUME NEW f \in Files, Revert(f) PROVE DecisionSound'
  BY <1>18 DEF Revert, TypeOK, DecisionSound
<1>19. ASSUME NEW r \in Roots, NEW forced \in BOOLEAN, StartIndex(r, forced) PROVE DecisionSound'
  BY <1>19 DEF StartIndex, TypeOK, DecisionSound
<1>20. CASE Interrupt
  BY <1>20 DEF Interrupt, TypeOK, DecisionSound
<1>21. CASE Upgrade
  BY <1>21 DEF Upgrade, TypeOK, DecisionSound
<1>22. CASE ClearIndex
  BY <1>22 DEF ClearIndex, TypeOK, DecisionSound
<1>23. CASE UNCHANGED vars
  BY <1>23 DEF vars, TypeOK, DecisionSound
<1>. QED
  BY <1>1, <1>2, <1>3, <1>4, <1>5, <1>6, <1>7, <1>8, <1>9, <1>10, <1>11, <1>12, <1>13, <1>14, <1>15, <1>16, <1>17, <1>18, <1>19, <1>20, <1>21, <1>22, <1>23 DEF Next, RunStep, UserStep

\* Hashes are saved when every batch is stored.
LEMMA NothingPendingStep ==
  ASSUME NothingPending, [Next]_vars
  PROVE  NothingPending'
<1>. USE DEF diskVars, storeVars, runVars, repairVars, BeforeHash, AfterHash, Full
<1>1. CASE Diff
  BY <1>1 DEF Diff, AfterDiff, NothingPending
<1>2. CASE ClearVectors
  BY <1>2 DEF ClearVectors, NothingPending
<1>3. CASE ClearArtifacts
  BY <1>3 DEF ClearArtifacts, NothingPending
<1>4. CASE Chunk
  BY <1>4 DEF Chunk, NothingPending
<1>5. CASE StoreBatch
  BY <1>5 DEF StoreBatch, NothingPending
<1>6. CASE SaveHashes
  BY <1>6 DEF SaveHashes, NothingPending
<1>7. CASE BuildMaps
  BY <1>7 DEF BuildMaps, NothingPending
<1>8. CASE RebuildWorkspaceOnly
  BY <1>8 DEF RebuildWorkspaceOnly, NothingPending
<1>9. CASE ReuseIndex
  BY <1>9 DEF ReuseIndex, NothingPending
<1>10. CASE Validate
  BY <1>10 DEF Validate, NothingPending
<1>11. ASSUME NEW f \in Files, RepairRead(f) PROVE NothingPending'
  BY <1>11 DEF RepairRead, NothingPending
<1>12. CASE RepairHash
  BY <1>12 DEF RepairHash, NothingPending
<1>13. CASE RepairApply
  BY <1>13 DEF RepairApply, NothingPending
<1>14. CASE RepairRollback
  BY <1>14 DEF RepairRollback, NothingPending
<1>15. CASE SaveState
  BY <1>15 DEF SaveState, NothingPending
<1>16. ASSUME NEW r \in Roots, NEW f \in Files, Edit(r, f) PROVE NothingPending'
  BY <1>16 DEF Edit, NothingPending
<1>17. ASSUME NEW r \in Roots, NEW f \in Files, Delete(r, f) PROVE NothingPending'
  BY <1>17 DEF Delete, NothingPending
<1>18. ASSUME NEW f \in Files, Revert(f) PROVE NothingPending'
  BY <1>18 DEF Revert, NothingPending
<1>19. ASSUME NEW r \in Roots, NEW forced \in BOOLEAN, StartIndex(r, forced) PROVE NothingPending'
  BY <1>19 DEF StartIndex, NothingPending
<1>20. CASE Interrupt
  BY <1>20 DEF Interrupt, NothingPending
<1>21. CASE Upgrade
  BY <1>21 DEF Upgrade, NothingPending
<1>22. CASE ClearIndex
  BY <1>22 DEF ClearIndex, NothingPending
<1>23. CASE UNCHANGED vars
  BY <1>23 DEF vars, NothingPending
<1>. QED
  BY <1>1, <1>2, <1>3, <1>4, <1>5, <1>6, <1>7, <1>8, <1>9, <1>10, <1>11, <1>12, <1>13, <1>14, <1>15, <1>16, <1>17, <1>18, <1>19, <1>20, <1>21, <1>22, <1>23 DEF Next, RunStep, UserStep

\* Only files of this run are stored by it.
LEMMA PendingStep ==
  ASSUME PendingRead, [Next]_vars
  PROVE  PendingRead'
<1>. USE DEF diskVars, storeVars, runVars, repairVars, BeforeHash, AfterHash, Full
<1>1. CASE Diff
  BY <1>1 DEF Diff, AfterDiff, PendingRead
<1>2. CASE ClearVectors
  BY <1>2 DEF ClearVectors, PendingRead
<1>3. CASE ClearArtifacts
  BY <1>3 DEF ClearArtifacts, PendingRead
<1>4. CASE Chunk
  BY <1>4 DEF Chunk, Chunked, Present, PendingRead
<1>5. CASE StoreBatch
  BY <1>5 DEF StoreBatch, PendingRead
<1>6. CASE SaveHashes
  BY <1>6 DEF SaveHashes, PendingRead
<1>7. CASE BuildMaps
  BY <1>7 DEF BuildMaps, PendingRead
<1>8. CASE RebuildWorkspaceOnly
  BY <1>8 DEF RebuildWorkspaceOnly, PendingRead
<1>9. CASE ReuseIndex
  BY <1>9 DEF ReuseIndex, PendingRead
<1>10. CASE Validate
  BY <1>10 DEF Validate, PendingRead
<1>11. ASSUME NEW f \in Files, RepairRead(f) PROVE PendingRead'
  BY <1>11 DEF RepairRead, PendingRead
<1>12. CASE RepairHash
  BY <1>12 DEF RepairHash, PendingRead
<1>13. CASE RepairApply
  BY <1>13 DEF RepairApply, PendingRead
<1>14. CASE RepairRollback
  BY <1>14 DEF RepairRollback, PendingRead
<1>15. CASE SaveState
  BY <1>15 DEF SaveState, PendingRead
<1>16. ASSUME NEW r \in Roots, NEW f \in Files, Edit(r, f) PROVE PendingRead'
  BY <1>16 DEF Edit, PendingRead
<1>17. ASSUME NEW r \in Roots, NEW f \in Files, Delete(r, f) PROVE PendingRead'
  BY <1>17 DEF Delete, PendingRead
<1>18. ASSUME NEW f \in Files, Revert(f) PROVE PendingRead'
  BY <1>18 DEF Revert, PendingRead
<1>19. ASSUME NEW r \in Roots, NEW forced \in BOOLEAN, StartIndex(r, forced) PROVE PendingRead'
  BY <1>19 DEF StartIndex, PendingRead
<1>20. CASE Interrupt
  BY <1>20 DEF Interrupt, PendingRead
<1>21. CASE Upgrade
  BY <1>21 DEF Upgrade, PendingRead
<1>22. CASE ClearIndex
  BY <1>22 DEF ClearIndex, PendingRead
<1>23. CASE UNCHANGED vars
  BY <1>23 DEF vars, PendingRead
<1>. QED
  BY <1>1, <1>2, <1>3, <1>4, <1>5, <1>6, <1>7, <1>8, <1>9, <1>10, <1>11, <1>12, <1>13, <1>14, <1>15, <1>16, <1>17, <1>18, <1>19, <1>20, <1>21, <1>22, <1>23 DEF Next, RunStep, UserStep

\* A run that reuses the index has no file to embed.
LEMMA ReuseStep ==
  ASSUME ReuseHasNoWork, [Next]_vars
  PROVE  ReuseHasNoWork'
<1>. USE DEF diskVars, storeVars, runVars, repairVars, BeforeHash, AfterHash, Full
<1>1. CASE Diff
  BY <1>1 DEF Diff, AfterDiff, ReuseHasNoWork
<1>2. CASE ClearVectors
  BY <1>2 DEF ClearVectors, ReuseHasNoWork
<1>3. CASE ClearArtifacts
  BY <1>3 DEF ClearArtifacts, ReuseHasNoWork
<1>4. CASE Chunk
  BY <1>4 DEF Chunk, ReuseHasNoWork
<1>5. CASE StoreBatch
  BY <1>5 DEF StoreBatch, ReuseHasNoWork
<1>6. CASE SaveHashes
  BY <1>6 DEF SaveHashes, ReuseHasNoWork
<1>7. CASE BuildMaps
  BY <1>7 DEF BuildMaps, ReuseHasNoWork
<1>8. CASE RebuildWorkspaceOnly
  BY <1>8 DEF RebuildWorkspaceOnly, ReuseHasNoWork
<1>9. CASE ReuseIndex
  BY <1>9 DEF ReuseIndex, ReuseHasNoWork
<1>10. CASE Validate
  BY <1>10 DEF Validate, ReuseHasNoWork
<1>11. ASSUME NEW f \in Files, RepairRead(f) PROVE ReuseHasNoWork'
  BY <1>11 DEF RepairRead, ReuseHasNoWork
<1>12. CASE RepairHash
  BY <1>12 DEF RepairHash, ReuseHasNoWork
<1>13. CASE RepairApply
  BY <1>13 DEF RepairApply, ReuseHasNoWork
<1>14. CASE RepairRollback
  BY <1>14 DEF RepairRollback, ReuseHasNoWork
<1>15. CASE SaveState
  BY <1>15 DEF SaveState, ReuseHasNoWork
<1>16. ASSUME NEW r \in Roots, NEW f \in Files, Edit(r, f) PROVE ReuseHasNoWork'
  BY <1>16 DEF Edit, ReuseHasNoWork
<1>17. ASSUME NEW r \in Roots, NEW f \in Files, Delete(r, f) PROVE ReuseHasNoWork'
  BY <1>17 DEF Delete, ReuseHasNoWork
<1>18. ASSUME NEW f \in Files, Revert(f) PROVE ReuseHasNoWork'
  BY <1>18 DEF Revert, ReuseHasNoWork
<1>19. ASSUME NEW r \in Roots, NEW forced \in BOOLEAN, StartIndex(r, forced) PROVE ReuseHasNoWork'
  BY <1>19 DEF StartIndex, ReuseHasNoWork
<1>20. CASE Interrupt
  BY <1>20 DEF Interrupt, ReuseHasNoWork
<1>21. CASE Upgrade
  BY <1>21 DEF Upgrade, ReuseHasNoWork
<1>22. CASE ClearIndex
  BY <1>22 DEF ClearIndex, ReuseHasNoWork
<1>23. CASE UNCHANGED vars
  BY <1>23 DEF vars, ReuseHasNoWork
<1>. QED
  BY <1>1, <1>2, <1>3, <1>4, <1>5, <1>6, <1>7, <1>8, <1>9, <1>10, <1>11, <1>12, <1>13, <1>14, <1>15, <1>16, <1>17, <1>18, <1>19, <1>20, <1>21, <1>22, <1>23 DEF Next, RunStep, UserStep

\* The difference taken at the start stands until the hash store is written.
LEMMA DiffStep ==
  ASSUME ~Reverts, TypeOK, PastContents, DecisionSound, DiffStands, [Next]_vars
  PROVE  DiffStands'
<1>. USE DEF diskVars, storeVars, runVars, repairVars, BeforeHash, AfterHash, Full
<1>1. CASE Diff
  BY <1>1, NoneAssumption DEF Diff, Decide, AfterDiff, NewFiles, RemovedFiles, TypeOK, PastContents, DiffStands
<1>2. CASE ClearVectors
  BY <1>2 DEF ClearVectors, DecisionSound, TypeOK, PastContents, DiffStands
<1>3. CASE ClearArtifacts
  BY <1>3 DEF ClearArtifacts, TypeOK, PastContents, DiffStands
<1>4. CASE Chunk
  BY <1>4 DEF Chunk, TypeOK, PastContents, DiffStands
<1>5. CASE StoreBatch
  BY <1>5 DEF StoreBatch, TypeOK, PastContents, DiffStands
<1>6. CASE SaveHashes
  BY <1>6 DEF SaveHashes, TypeOK, PastContents, DiffStands
<1>7. CASE BuildMaps
  BY <1>7 DEF BuildMaps, TypeOK, PastContents, DiffStands
<1>8. CASE RebuildWorkspaceOnly
  BY <1>8 DEF RebuildWorkspaceOnly, TypeOK, PastContents, DiffStands
<1>9. CASE ReuseIndex
  BY <1>9 DEF ReuseIndex, TypeOK, PastContents, DiffStands
<1>10. CASE Validate
  BY <1>10 DEF Validate, TypeOK, PastContents, DiffStands
<1>11. ASSUME NEW f \in Files, RepairRead(f) PROVE DiffStands'
  BY <1>11 DEF RepairRead, TypeOK, PastContents, DiffStands
<1>12. CASE RepairHash
  BY <1>12 DEF RepairHash, TypeOK, PastContents, DiffStands
<1>13. CASE RepairApply
  BY <1>13 DEF RepairApply, TypeOK, PastContents, DiffStands
<1>14. CASE RepairRollback
  BY <1>14 DEF RepairRollback, TypeOK, PastContents, DiffStands
<1>15. CASE SaveState
  BY <1>15 DEF SaveState, TypeOK, PastContents, DiffStands
<1>16. ASSUME NEW r \in Roots, NEW f \in Files, Edit(r, f) PROVE DiffStands'
  <2>1. NewerOrGone(r, f) /\ clock' = clock + 1 /\ clock \in Nat
    BY <1>16, EditEffect
  <2>. QED
    BY <1>16, <2>1 DEF NewerOrGone, TypeOK, PastContents, DiffStands, Snapshots, Maybe, Content, Edit
<1>17. ASSUME NEW r \in Roots, NEW f \in Files, Delete(r, f) PROVE DiffStands'
  <2>1. NewerOrGone(r, f) /\ clock' = clock + 1 /\ clock \in Nat
    BY <1>17, EditEffect
  <2>. QED
    BY <1>17, <2>1 DEF NewerOrGone, TypeOK, PastContents, DiffStands, Snapshots, Maybe, Content, Delete
<1>18. ASSUME NEW f \in Files, Revert(f) PROVE DiffStands'
  BY <1>18 DEF Revert
<1>19. ASSUME NEW r \in Roots, NEW forced \in BOOLEAN, StartIndex(r, forced) PROVE DiffStands'
  BY <1>19 DEF StartIndex, TypeOK, PastContents, DiffStands
<1>20. CASE Interrupt
  BY <1>20 DEF Interrupt, TypeOK, PastContents, DiffStands
<1>21. CASE Upgrade
  BY <1>21 DEF Upgrade, TypeOK, PastContents, DiffStands
<1>22. CASE ClearIndex
  BY <1>22 DEF ClearIndex, TypeOK, PastContents, DiffStands
<1>23. CASE UNCHANGED vars
  BY <1>23 DEF vars, TypeOK, PastContents, DiffStands
<1>. QED
  BY <1>1, <1>2, <1>3, <1>4, <1>5, <1>6, <1>7, <1>8, <1>9, <1>10, <1>11, <1>12, <1>13, <1>14, <1>15, <1>16, <1>17, <1>18, <1>19, <1>20, <1>21, <1>22, <1>23 DEF Next, RunStep, UserStep

\* What was chunked, and then stored, is what was hashed or has changed since.
LEMMA ReadStep ==
  ASSUME ~Reverts, TypeOK, PastContents, ReadStands, [Next]_vars
  PROVE  ReadStands'
<1>. USE DEF diskVars, storeVars, runVars, repairVars, BeforeHash, AfterHash, Full
<1>1. CASE Diff
  BY <1>1 DEF Diff, AfterDiff, TypeOK, PastContents, ReadStands, Embedded
<1>2. CASE ClearVectors
  BY <1>2 DEF ClearVectors, TypeOK, PastContents, ReadStands, Embedded
<1>3. CASE ClearArtifacts
  BY <1>3 DEF ClearArtifacts, TypeOK, PastContents, ReadStands, Embedded
<1>4. CASE Chunk
  BY <1>4 DEF Chunk, Chunked, Present, TypeOK, PastContents, ReadStands, Embedded
<1>5. CASE StoreBatch
  <2>1. PICK batch \in SUBSET pending \ {{}} :
           /\ vec' = [f \in Files |-> IF f \in batch THEN Upsert(vec[f], read[f]) ELSE vec[f]]
           /\ pending' = pending \ batch
    BY <1>5 DEF StoreBatch
  <2>2. \A f \in batch : \A l \in read[f].lines : vec'[f][l] = read[f]
    <3>. SUFFICES ASSUME NEW f \in batch, NEW l \in read[f].lines PROVE vec'[f][l] = read[f]
      OBVIOUS
    <3>1. f \in Files /\ read[f] \in Content
      BY <1>5, <2>1 DEF StoreBatch, TypeOK, Snapshots, Maybe
    <3>2. l \in Lines
      BY <3>1, ShapesAssumption DEF Content
    <3>. QED
      BY <2>1, <3>1, <3>2 DEF Upsert
  <2>3. \A f \in Files \ batch : vec'[f] = vec[f]
    BY <2>1
  <2>. QED
    BY <1>5, <2>1, <2>2, <2>3 DEF StoreBatch, ReadStands, Embedded, TypeOK
<1>6. CASE SaveHashes
  BY <1>6 DEF SaveHashes, TypeOK, PastContents, ReadStands, Embedded
<1>7. CASE BuildMaps
  BY <1>7 DEF BuildMaps, TypeOK, PastContents, ReadStands, Embedded
<1>8. CASE RebuildWorkspaceOnly
  BY <1>8 DEF RebuildWorkspaceOnly, TypeOK, PastContents, ReadStands, Embedded
<1>9. CASE ReuseIndex
  BY <1>9 DEF ReuseIndex, TypeOK, PastContents, ReadStands, Embedded
<1>10. CASE Validate
  BY <1>10 DEF Validate, TypeOK, PastContents, ReadStands, Embedded
<1>11. ASSUME NEW f \in Files, RepairRead(f) PROVE ReadStands'
  BY <1>11 DEF RepairRead, TypeOK, PastContents, ReadStands, Embedded
<1>12. CASE RepairHash
  BY <1>12 DEF RepairHash, TypeOK, PastContents, ReadStands, Embedded
<1>13. CASE RepairApply
  BY <1>13 DEF RepairApply, TypeOK, PastContents, ReadStands, Embedded
<1>14. CASE RepairRollback
  BY <1>14 DEF RepairRollback, TypeOK, PastContents, ReadStands, Embedded
<1>15. CASE SaveState
  BY <1>15 DEF SaveState, TypeOK, PastContents, ReadStands, Embedded
<1>16. ASSUME NEW r \in Roots, NEW f \in Files, Edit(r, f) PROVE ReadStands'
  <2>1. NewerOrGone(r, f) /\ clock' = clock + 1 /\ clock \in Nat
    BY <1>16, EditEffect
  <2>. QED
    BY <1>16, <2>1 DEF NewerOrGone, TypeOK, PastContents, ReadStands, Embedded, Snapshots, Maybe, Content, Edit
<1>17. ASSUME NEW r \in Roots, NEW f \in Files, Delete(r, f) PROVE ReadStands'
  <2>1. NewerOrGone(r, f) /\ clock' = clock + 1 /\ clock \in Nat
    BY <1>17, EditEffect
  <2>. QED
    BY <1>17, <2>1 DEF NewerOrGone, TypeOK, PastContents, ReadStands, Embedded, Snapshots, Maybe, Content, Delete
<1>18. ASSUME NEW f \in Files, Revert(f) PROVE ReadStands'
  BY <1>18 DEF Revert
<1>19. ASSUME NEW r \in Roots, NEW forced \in BOOLEAN, StartIndex(r, forced) PROVE ReadStands'
  BY <1>19 DEF StartIndex, TypeOK, PastContents, ReadStands, Embedded
<1>20. CASE Interrupt
  BY <1>20 DEF Interrupt, TypeOK, PastContents, ReadStands, Embedded
<1>21. CASE Upgrade
  BY <1>21 DEF Upgrade, TypeOK, PastContents, ReadStands, Embedded
<1>22. CASE ClearIndex
  BY <1>22 DEF ClearIndex, TypeOK, PastContents, ReadStands, Embedded
<1>23. CASE UNCHANGED vars
  BY <1>23 DEF vars, TypeOK, PastContents, ReadStands, Embedded
<1>. QED
  BY <1>1, <1>2, <1>3, <1>4, <1>5, <1>6, <1>7, <1>8, <1>9, <1>10, <1>11, <1>12, <1>13, <1>14, <1>15, <1>16, <1>17, <1>18, <1>19, <1>20, <1>21, <1>22, <1>23 DEF Next, RunStep, UserStep

\* After a full run's hash store is written its entries stay embedded.
LEMMA FullRunStep ==
  ASSUME ~Reverts, TypeOK, PastContents, DecisionSound, DiffStands, ReadStands, NothingPending, FullRunEmbedded, [Next]_vars
  PROVE  FullRunEmbedded'
<1>. USE DEF diskVars, storeVars, runVars, repairVars, BeforeHash, AfterHash, Full
<1>1. CASE Diff
  BY <1>1 DEF Diff, AfterDiff, FullRunEmbedded, Embedded, TypeOK
<1>2. CASE ClearVectors
  BY <1>2 DEF ClearVectors, FullRunEmbedded, Embedded, TypeOK
<1>3. CASE ClearArtifacts
  BY <1>3 DEF ClearArtifacts, FullRunEmbedded, Embedded, TypeOK
<1>4. CASE Chunk
  BY <1>4 DEF Chunk, FullRunEmbedded, Embedded, TypeOK
<1>5. CASE StoreBatch
  BY <1>5 DEF StoreBatch, FullRunEmbedded, Embedded, TypeOK
<1>6. CASE SaveHashes
  <2>1. SUFFICES ASSUME decision = Full, ~cleared', NEW f \in Source,
                      hashes'.files[f] # None, disk'[root'][f] = hashes'.files[f]
               PROVE  Embedded(f, hashes.files[f])'
    BY <1>6 DEF SaveHashes, FullRunEmbedded
  <2>2. cleared /\ todo = Present(snap) /\ pending = {}
    BY <1>6, <2>1 DEF SaveHashes, DecisionSound, NothingPending
  <2>3. hashes' = NextHashes
    <3>1. hashes' # NoHashes
      BY <2>1 DEF NoHashes, NoFiles, Source
    <3>2. hashes' # hashes
      BY <1>6, <2>1, <2>2 DEF SaveHashes
    <3>. QED
      BY <1>6, <3>1, <3>2 DEF SaveHashes, Written
  <2>4. f \in todo /\ read[f] = snap[f] /\ snap[f] # None /\ hashes'.files[f] = snap[f]
    BY <1>6, <2>1, <2>2, <2>3 DEF SaveHashes, NextHashes, Present, Source, ReadStands
  <2>. QED
    BY <1>6, <2>2, <2>4 DEF SaveHashes, ReadStands, Embedded, Source
<1>7. CASE BuildMaps
  BY <1>7 DEF BuildMaps, FullRunEmbedded, Embedded, TypeOK
<1>8. CASE RebuildWorkspaceOnly
  BY <1>8 DEF RebuildWorkspaceOnly, DecisionSound, FullRunEmbedded, Embedded, TypeOK
<1>9. CASE ReuseIndex
  BY <1>9 DEF ReuseIndex, DecisionSound, FullRunEmbedded, Embedded, TypeOK
<1>10. CASE Validate
  BY <1>10 DEF Validate, Written, NoHashes, NoFiles, Source, DiscoverManifests, FullRunEmbedded, Embedded, TypeOK
<1>11. ASSUME NEW f \in Files, RepairRead(f) PROVE FullRunEmbedded'
  BY <1>11 DEF RepairRead, FullRunEmbedded, Embedded, TypeOK
<1>12. CASE RepairHash
  BY <1>12 DEF RepairHash, FullRunEmbedded, Embedded, TypeOK
<1>13. CASE RepairApply
  <2>1. \A f \in Source : vec'[f] = vec[f]
    BY <1>13 DEF RepairApply, Source, TypeOK
  <2>2. \A f \in Source : hashes'.files[f] \in {hashes.files[f], None}
    BY <1>13 DEF RepairApply, PastContents, Source, Written, NoHashes, NoFiles
  <2>. QED
    BY <1>13, <2>1, <2>2 DEF FullRunEmbedded, Embedded, TypeOK, PastContents, RepairApply, Source
<1>14. CASE RepairRollback
  <2>1. \A f \in Source : vec'[f] = vec[f]
    BY <1>14 DEF RepairRollback, Source, TypeOK
  <2>. QED
    BY <1>14, <2>1 DEF RepairRollback, FullRunEmbedded, Embedded, Source
<1>15. CASE SaveState
  BY <1>15 DEF SaveState, FullRunEmbedded, Embedded, TypeOK
<1>16. ASSUME NEW r \in Roots, NEW f \in Files, Edit(r, f) PROVE FullRunEmbedded'
  <2>1. \A q \in Roots, g \in Files :
           hashes.files[g] # None /\ disk'[q][g] = hashes.files[g] =>
               disk[q][g] = hashes.files[g]
    BY <1>16, NoReturn
  <2>. QED
    BY <1>16, <2>1 DEF FullRunEmbedded, Embedded, TypeOK, Source, Edit
<1>17. ASSUME NEW r \in Roots, NEW f \in Files, Delete(r, f) PROVE FullRunEmbedded'
  <2>1. \A q \in Roots, g \in Files :
           hashes.files[g] # None /\ disk'[q][g] = hashes.files[g] =>
               disk[q][g] = hashes.files[g]
    BY <1>17, NoReturn
  <2>. QED
    BY <1>17, <2>1 DEF FullRunEmbedded, Embedded, TypeOK, Source, Delete
<1>18. ASSUME NEW f \in Files, Revert(f) PROVE FullRunEmbedded'
  BY <1>18 DEF Revert
<1>19. ASSUME NEW r \in Roots, NEW forced \in BOOLEAN, StartIndex(r, forced) PROVE FullRunEmbedded'
  BY <1>19 DEF StartIndex, FullRunEmbedded, Embedded, TypeOK
<1>20. CASE Interrupt
  BY <1>20 DEF Interrupt, FullRunEmbedded, Embedded, TypeOK
<1>21. CASE Upgrade
  BY <1>21 DEF Upgrade, FullRunEmbedded, Embedded, TypeOK
<1>22. CASE ClearIndex
  BY <1>22 DEF ClearIndex, FullRunEmbedded, Embedded, TypeOK
<1>23. CASE UNCHANGED vars
  BY <1>23 DEF vars, FullRunEmbedded, Embedded, TypeOK
<1>. QED
  BY <1>1, <1>2, <1>3, <1>4, <1>5, <1>6, <1>7, <1>8, <1>9, <1>10, <1>11, <1>12, <1>13, <1>14, <1>15, <1>16, <1>17, <1>18, <1>19, <1>20, <1>21, <1>22, <1>23 DEF Next, RunStep, UserStep

\* The entries of the hash store stay embedded.
LEMMA EntryStep ==
  ASSUME ~Reverts, TypeOK, PastContents, DecisionSound, DiffStands, ReadStands, NothingPending, FullRunEmbedded, ReuseHasNoWork, PendingRead, EntryEmbedded, [Next]_vars
  PROVE  EntryEmbedded'
<1>. USE DEF diskVars, storeVars, runVars, repairVars, BeforeHash, AfterHash, Full
<1>1. CASE Diff
  BY <1>1 DEF Diff, EntryEmbedded, Embedded
<1>2. CASE ClearVectors
  BY <1>2 DEF ClearVectors, EntryEmbedded, Embedded
<1>3. CASE ClearArtifacts
  BY <1>3 DEF ClearArtifacts, EntryEmbedded, Embedded
<1>4. CASE Chunk
  BY <1>4 DEF Chunk, EntryEmbedded, Embedded
<1>5. CASE StoreBatch
  <2>1. SUFFICES ASSUME ~cleared, NEW f \in Source, NEW h, h = hashes.files[f],
                      h # None, h.root = stored.root, disk[h.root][f] = h
               PROVE  Embedded(f, h)'
    BY <1>5 DEF StoreBatch, EntryEmbedded, Embedded
  <2>2. decision # Full /\ h.root = root
    BY <1>5, <2>1 DEF StoreBatch, DecisionSound
  <2>3. f \notin todo
    BY <1>5, <2>1, <2>2 DEF StoreBatch, DiffStands, Source
  <2>4. vec'[f] = vec[f]
    BY <1>5, <2>3 DEF StoreBatch, TypeOK, PendingRead, Source
  <2>. QED
    BY <2>1, <2>4 DEF EntryEmbedded, Embedded
<1>6. CASE SaveHashes
  <2>1. SUFFICES ASSUME ~cleared', NEW f \in Source, NEW h, h = hashes'.files[f],
                      h # None, h.root = stored.root, disk[h.root][f] = h
               PROVE  Embedded(f, h)
    BY <1>6 DEF SaveHashes, EntryEmbedded, Embedded
  <2>2. CASE hashes' = hashes
    <3>1. ~cleared
      BY <1>6, <2>1, <2>2 DEF SaveHashes
    <3>. QED
      BY <2>1, <2>2, <3>1 DEF EntryEmbedded
  <2>3. CASE hashes' = NoHashes
    BY <2>1, <2>3 DEF NoHashes, NoFiles, Source
  <2>4. CASE hashes' = NextHashes
    <3>1. h = snap[f] /\ h.root = root /\ stored.root = root /\ disk[root][f] = snap[f]
      BY <1>6, <2>1, <2>4 DEF SaveHashes, NextHashes, PastContents, Source
    <3>2. CASE f \in todo
      BY <1>6, <2>1, <3>1, <3>2 DEF SaveHashes, ReadStands, NothingPending, Embedded
    <3>3. CASE f \notin todo
      <4>1. decision # Full
        BY <1>6, <2>1, <3>1, <3>3 DEF SaveHashes, DecisionSound, Present, Source
      <4>2. ~cleared /\ hashes.files[f] = h
        BY <1>6, <2>1, <3>1, <3>3, <4>1 DEF SaveHashes, DiffStands, Source
      <4>. QED
        BY <2>1, <4>2 DEF EntryEmbedded
    <3>. QED
      BY <3>2, <3>3
  <2>. QED
    BY <1>6, <2>2, <2>3, <2>4 DEF SaveHashes, Written
<1>7. CASE BuildMaps
  BY <1>7 DEF BuildMaps, EntryEmbedded, Embedded
<1>8. CASE RebuildWorkspaceOnly
  <2>1. \A f \in Source : hashes'.files[f] \in {hashes.files[f], None}
    BY <1>8 DEF RebuildWorkspaceOnly, Written, NoHashes, NoFiles, TypeOK, Source
  <2>. QED
    BY <1>8, <2>1 DEF RebuildWorkspaceOnly, EntryEmbedded, Embedded, Source
<1>9. CASE ReuseIndex
  <2>1. \A f \in Source : hashes'.files[f] \in {hashes.files[f], None}
    BY <1>9 DEF ReuseIndex, Written, NextHashes, NoHashes, NoFiles, DecisionSound, DiffStands,
             ReuseHasNoWork, Source
  <2>. QED
    BY <1>9, <2>1 DEF ReuseIndex, EntryEmbedded, Embedded, Source
<1>10. CASE Validate
  BY <1>10 DEF Validate, Written, NoHashes, NoFiles, Source, DiscoverManifests, TypeOK, EntryEmbedded, Embedded
<1>11. ASSUME NEW f \in Files, RepairRead(f) PROVE EntryEmbedded'
  BY <1>11 DEF RepairRead, EntryEmbedded, Embedded
<1>12. CASE RepairHash
  BY <1>12 DEF RepairHash, EntryEmbedded, Embedded
<1>13. CASE RepairApply
  <2>1. \A f \in Source : vec'[f] = vec[f]
    BY <1>13 DEF RepairApply, Source, TypeOK
  <2>2. \A f \in Source : hashes'.files[f] \in {hashes.files[f], None}
    BY <1>13 DEF RepairApply, PastContents, Source, Written, NoHashes, NoFiles
  <2>. QED
    BY <1>13, <2>1, <2>2 DEF EntryEmbedded, Embedded, RepairApply, Source
<1>14. CASE RepairRollback
  <2>1. \A f \in Source : vec'[f] = vec[f]
    BY <1>14 DEF RepairRollback, Source, TypeOK
  <2>. QED
    BY <1>14, <2>1 DEF RepairRollback, EntryEmbedded, Embedded, Source
<1>15. CASE SaveState
  <2>1. SUFFICES ASSUME ~cleared, NEW f \in Source, NEW h, h = hashes.files[f],
                      h # None, h.root = stored'.root, disk[h.root][f] = h
               PROVE  Embedded(f, h)
    BY <1>15 DEF SaveState, EntryEmbedded, Embedded
  <2>2. h.root # None
    BY <2>1, NoneAssumption DEF TypeOK, Snapshots, Maybe, Content, Source
  <2>3. CASE stored'.root = stored.root
    BY <2>1, <2>3 DEF EntryEmbedded
  <2>4. CASE stored'.root = root
    <3>1. CASE decision = Full
      BY <1>15, <2>1, <2>4, <3>1 DEF SaveState, FullRunEmbedded
    <3>2. CASE decision # Full
      BY <1>15, <2>1, <2>4, <3>2 DEF SaveState, DecisionSound, EntryEmbedded
    <3>. QED
      BY <3>1, <3>2
  <2>. QED
    BY <1>15, <2>1, <2>2, <2>3, <2>4 DEF SaveState, Written, NoState
<1>16. ASSUME NEW r \in Roots, NEW f \in Files, Edit(r, f) PROVE EntryEmbedded'
  <2>1. \A q \in Roots, g \in Files :
           hashes.files[g] # None /\ disk'[q][g] = hashes.files[g] =>
               disk[q][g] = hashes.files[g]
    BY <1>16, NoReturn
  <2>2. \A g \in Files : hashes.files[g] # None => hashes.files[g].root \in Roots
    BY DEF TypeOK, Snapshots, Maybe, Content
  <2>. QED
    BY <1>16, <2>1, <2>2 DEF EntryEmbedded, Embedded, Source, Edit
<1>17. ASSUME NEW r \in Roots, NEW f \in Files, Delete(r, f) PROVE EntryEmbedded'
  <2>1. \A q \in Roots, g \in Files :
           hashes.files[g] # None /\ disk'[q][g] = hashes.files[g] =>
               disk[q][g] = hashes.files[g]
    BY <1>17, NoReturn
  <2>2. \A g \in Files : hashes.files[g] # None => hashes.files[g].root \in Roots
    BY DEF TypeOK, Snapshots, Maybe, Content
  <2>. QED
    BY <1>17, <2>1, <2>2 DEF EntryEmbedded, Embedded, Source, Delete
<1>18. ASSUME NEW f \in Files, Revert(f) PROVE EntryEmbedded'
  BY <1>18 DEF Revert
<1>19. ASSUME NEW r \in Roots, NEW forced \in BOOLEAN, StartIndex(r, forced) PROVE EntryEmbedded'
  BY <1>19 DEF StartIndex, EntryEmbedded, Embedded
<1>20. CASE Interrupt
  BY <1>20 DEF Interrupt, EntryEmbedded, Embedded
<1>21. CASE Upgrade
  BY <1>21 DEF Upgrade, EntryEmbedded, Embedded
<1>22. CASE ClearIndex
  BY <1>22 DEF ClearIndex, NoHashes, NoFiles, Source, EntryEmbedded, Embedded
<1>23. CASE UNCHANGED vars
  BY <1>23 DEF vars, EntryEmbedded, Embedded
<1>. QED
  BY <1>1, <1>2, <1>3, <1>4, <1>5, <1>6, <1>7, <1>8, <1>9, <1>10, <1>11, <1>12, <1>13, <1>14, <1>15, <1>16, <1>17, <1>18, <1>19, <1>20, <1>21, <1>22, <1>23 DEF Next, RunStep, UserStep

-----------------------------------------------------------------------------
\* The three facts about the inductive invariant.
LEMMA InvInit == Init => IInv
<1>. SUFFICES ASSUME Init PROVE IInv
  OBVIOUS
<1>1. TypeOK
  BY TypeInit
<1>2. PastContents
  BY <1>1, InitialDisksAssumption DEF Init, PastContents, NoHashes, NoFiles
<1>3. DecisionSound /\ DiffStands /\ ReadStands /\ NothingPending /\ PendingRead
      /\ ReuseHasNoWork /\ FullRunEmbedded
  BY DEF Init, DecisionSound, DiffStands, ReadStands, NothingPending, PendingRead,
         ReuseHasNoWork, FullRunEmbedded, BeforeHash, AfterHash
<1>4. EntryEmbedded
  BY DEF Init, EntryEmbedded, NoHashes, NoFiles, Source
<1>. QED
  BY <1>1, <1>2, <1>3, <1>4 DEF IInv

LEMMA InvStep == ASSUME ~Reverts PROVE IInv /\ [Next]_vars => IInv'
<1>. SUFFICES ASSUME IInv, [Next]_vars PROVE IInv'
  OBVIOUS
<1>1. TypeOK'
  BY TypeStep DEF IInv
<1>2. PastContents' /\ DecisionSound' /\ DiffStands'
  BY PastStep, DecisionStep, DiffStep DEF IInv
<1>3. ReadStands' /\ NothingPending' /\ PendingRead' /\ ReuseHasNoWork'
  BY ReadStep, NothingPendingStep, PendingStep, ReuseStep DEF IInv
<1>4. FullRunEmbedded' /\ EntryEmbedded'
  BY FullRunStep, EntryStep DEF IInv
<1>. QED
  BY <1>1, <1>2, <1>3, <1>4 DEF IInv

LEMMA InvImpliesFresh == IInv => FreshMeansEmbedded
<1>. SUFFICES ASSUME IInv, ~cleared, hashes.root # None, stored.root = hashes.root,
                     NEW f \in Files \ Authoritative, NEW c, c = disk[hashes.root][f],
                     c # None, c = hashes.files[f]
              PROVE  Embedded(f, c)
  BY DEF FreshMeansEmbedded
<1>1. hashes.root \in Roots /\ f \in Files
  BY DEF IInv, TypeOK, Maybe
<1>2. c.root = hashes.root
  BY <1>1 DEF IInv, PastContents
<1>. QED
  BY <1>1, <1>2 DEF IInv, EntryEmbedded, Source

\* A source file that looks unchanged (its digest is the one in the hash store,
\* and index_state.json is of the same project) has all its current chunks in
\* the collection: for any number of projects, files, edits and faults, as long
\* as no edit restores an earlier content.
THEOREM FreshIsEmbedded == ASSUME ~Reverts PROVE Spec => []FreshMeansEmbedded
<1>. QED
  BY InvInit, InvStep, InvImpliesFresh, PTL DEF Spec

-----------------------------------------------------------------------------
\* What the properties of an index that met no fault, and of a full rebuild,
\* rest on.  None of it needs that contents do not come back.

\* Versions of contents seen so far are not in the future.
VersionsPast ==
    /\ \A r \in Roots, f \in Files : disk[r][f] # None => disk[r][f].ver <= clock
    /\ \A f \in Files : hashes.files[f] # None => hashes.files[f].ver <= clock
    /\ pc \notin {"idle", "diff"} =>
          \A f \in Files : snap[f] # None => snap[f].ver <= clock
    /\ pc \in {"repair", "rehash"} =>
          \A f \in Files : rhash[f] # None => rhash[f].ver <= clock

\* Every content that t names was written under r.
Under(t, r) == \A f \in Files : t[f] # None => t[f].root = r

\* With no fault, a directory, the hash store and the locals of a run name
\* contents of one project each.
Rooted ==
    faults = 0 =>
        /\ \A r \in Roots : Under(disk[r], r)
        /\ Under(hashes.files, hashes.root)
        /\ pc \notin {"idle", "diff"} => Under(snap, root)
        /\ pc = "store" => Under(read, root)
        /\ pc \in {"repair", "rehash"} => Under(rread, root) /\ Under(rhash, root)

\* With no fault, index_state.json and the hash store name the same project,
\* but for a run that has written the hash store and not yet the state.
SameRoot ==
    faults = 0 => IF pc \in AfterHash THEN hashes.root = root ELSE stored.root = hashes.root

\* The maps of a project that index_state.json names are there, unless a full
\* rebuild emptied everything and has not come to the hash store.
MapsThere ==
    faults = 0 /\ ~cleared /\ pc # "maps" /\ (pc \in AfterHash \/ stored.root # None) =>
        maps.built /\ maps.graph

\* A full rebuild starts from an empty collection.
Emptied ==
    /\ pc = "unlink" => decision = Full
    /\ pc \in {"unlink", "chunk"} /\ decision = Full => vec = NoVec

\* With no fault, the chunks are of the project of the hash store, or of the
\* run's once it may store some.
ChunksRooted ==
    faults = 0 =>
        \A f \in Files : \A l \in StoredChunks(f) :
            vec[f][l].root = IF pc \in {"idle", "diff", "clear"} THEN hashes.root ELSE root

\* What a run works on, and the entries it cannot lose.
WorkKnown ==
    /\ pc \in {"unlink", "chunk", "store", "hash"} => todo \subseteq Present(snap)
    /\ pc \in BeforeHash /\ decision # Full => Present(hashes.files) \subseteq Present(snap)
    /\ pc \in {"repair", "rehash"} => \A f \in Source : rhash[f] = hashes.files[f]

\* With no fault, a source path with chunks is in the hash store, or will be
\* when this run writes it.
Known(t) == \A f \in Source : StoredChunks(f) # {} => t[f] # None
ChunksKnown ==
    faults = 0 => IF pc \in {"store", "hash"} THEN Known(snap)
                  ELSE (pc \in {"unlink", "chunk"} /\ decision = Full) \/ Known(hashes.files)

\* Whatever was chunked or read for a repair is what was hashed at the start,
\* unless the file has changed since.
ReadsCurrent ==
    /\ pc \in {"store", "hash"} =>
          \A f \in Files :
             /\ f \notin todo => read[f] = None
             /\ f \in todo /\ snap[f] # None /\ disk[root][f] = snap[f] => read[f] = snap[f]
    /\ pc \in {"repair", "rehash"} =>
          \A f \in rset \ rtodo :
             snap[f] # None /\ disk[root][f] = snap[f] => rread[f] = snap[f]

\* What a full rebuild has stored so far, and what is there after it.
FullExact ==
    decision = Full =>
        /\ pc \in {"store", "hash"} =>
              \A f \in Files : vec[f] = ChunksOf(IF f \in pending THEN None ELSE read[f])
        /\ pc \in AfterHash =>
              /\ \A f \in Source : snap[f] = None => vec[f] = ChunksOf(None)
              /\ \A f \in Files : snap[f] # None /\ disk[root][f] = snap[f] =>
                    vec[f] = ChunksOf(snap[f])

\* The invariant of these properties, with the parts of IInv that hold whatever
\* an edit writes.
WInv ==
    /\ TypeOK /\ DecisionSound /\ NothingPending /\ PendingRead
    /\ VersionsPast /\ Rooted /\ SameRoot /\ MapsThere /\ Emptied /\ ChunksRooted
    /\ WorkKnown /\ ChunksKnown /\ ReadsCurrent /\ FullExact

\* No action makes a store name a content of the future.
LEMMA VersionsStep ==
  ASSUME TypeOK, VersionsPast, [Next]_vars
  PROVE  VersionsPast'
<1>. USE DEF diskVars, storeVars, runVars, repairVars, Full
<1>1. CASE Diff
  BY <1>1 DEF Diff, AfterDiff, VersionsPast, TypeOK, Snapshots, Maybe, Content
<1>2. CASE ClearVectors
  BY <1>2 DEF ClearVectors, VersionsPast, TypeOK, Snapshots, Maybe, Content
<1>3. CASE ClearArtifacts
  BY <1>3 DEF ClearArtifacts, VersionsPast, TypeOK, Snapshots, Maybe, Content
<1>4. CASE Chunk
  BY <1>4 DEF Chunk, VersionsPast, TypeOK, Snapshots, Maybe, Content
<1>5. CASE StoreBatch
  BY <1>5 DEF StoreBatch, VersionsPast, TypeOK, Snapshots, Maybe, Content
<1>6. CASE SaveHashes
  BY <1>6 DEF SaveHashes, Written, FaultIf, NextHashes, NoHashes, NoFiles, VersionsPast, TypeOK, Snapshots, Maybe, Content
<1>7. CASE BuildMaps
  BY <1>7 DEF BuildMaps, VersionsPast, TypeOK, Snapshots, Maybe, Content
<1>8. CASE RebuildWorkspaceOnly
  <2>1. hashes'.files \in {hashes.files, NoFiles}
    BY <1>8 DEF RebuildWorkspaceOnly, Written, NoHashes, TypeOK
  <2>2. UNCHANGED <<disk, clock, snap>> /\ pc = "wsonly" /\ pc' = "validate"
    BY <1>8 DEF RebuildWorkspaceOnly
  <2>. QED
    BY <2>1, <2>2 DEF VersionsPast, NoFiles
<1>9. CASE ReuseIndex
  BY <1>9 DEF ReuseIndex, Written, FaultIf, NextHashes, NoHashes, NoFiles, VersionsPast, TypeOK, Snapshots, Maybe, Content
<1>10. CASE Validate
  BY <1>10 DEF Validate, Written, FaultIf, NextHashes, NoHashes, NoFiles, VersionsPast, TypeOK, Snapshots, Maybe, Content
<1>11. ASSUME NEW f \in Files, RepairRead(f) PROVE VersionsPast'
  BY <1>11 DEF RepairRead, VersionsPast, TypeOK, Snapshots, Maybe, Content
<1>12. CASE RepairHash
  BY <1>12, AuthoritativeAssumption DEF RepairHash, VersionsPast, TypeOK, Snapshots, Maybe, Content
<1>13. CASE RepairApply
  BY <1>13 DEF RepairApply, Written, FaultIf, NextHashes, NoHashes, NoFiles, VersionsPast, TypeOK, Snapshots, Maybe, Content
<1>14. CASE RepairRollback
  BY <1>14 DEF RepairRollback, VersionsPast, TypeOK, Snapshots, Maybe, Content
<1>15. CASE SaveState
  BY <1>15 DEF SaveState, VersionsPast, TypeOK, Snapshots, Maybe, Content
<1>16. ASSUME NEW r \in Roots, NEW f \in Files, Edit(r, f) PROVE VersionsPast'
  <2>1. NewerOrGone(r, f) /\ clock' = clock + 1 /\ clock \in Nat
    BY <1>16, EditEffect
  <2>. QED
    BY <1>16, <2>1 DEF NewerOrGone, VersionsPast, TypeOK, Snapshots, Maybe, Content, Edit
<1>17. ASSUME NEW r \in Roots, NEW f \in Files, Delete(r, f) PROVE VersionsPast'
  <2>1. NewerOrGone(r, f) /\ clock' = clock + 1 /\ clock \in Nat
    BY <1>17, EditEffect
  <2>. QED
    BY <1>17, <2>1 DEF NewerOrGone, VersionsPast, TypeOK, Snapshots, Maybe, Content, Delete
<1>18. ASSUME NEW f \in Files, Revert(f) PROVE VersionsPast'
  <2>1. hashes.root \in Roots /\ clock \in Nat
    BY <1>18, BoundsAssumption DEF Revert, TypeOK, Maybe
  <2>2. \A q \in Roots, g \in Files :
           disk'[q][g] \in {disk[q][g], hashes.files[g]}
    BY <1>18, <2>1 DEF Revert, TypeOK, Snapshots
  <2>. QED
    BY <1>18, <2>1, <2>2 DEF Revert, VersionsPast, TypeOK, Snapshots, Maybe, Content
<1>19. ASSUME NEW r \in Roots, NEW forced \in BOOLEAN, StartIndex(r, forced) PROVE VersionsPast'
  BY <1>19 DEF StartIndex, VersionsPast, TypeOK, Snapshots, Maybe, Content
<1>20. CASE Interrupt
  BY <1>20 DEF Interrupt, VersionsPast, TypeOK, Snapshots, Maybe, Content
<1>21. CASE Upgrade
  BY <1>21 DEF Upgrade, VersionsPast, TypeOK, Snapshots, Maybe, Content
<1>22. CASE ClearIndex
  BY <1>22 DEF ClearIndex, NoHashes, NoFiles, VersionsPast, TypeOK, Snapshots, Maybe, Content
<1>23. CASE UNCHANGED vars
  BY <1>23 DEF vars, VersionsPast, TypeOK, Snapshots, Maybe, Content
<1>. QED
  BY <1>1, <1>2, <1>3, <1>4, <1>5, <1>6, <1>7, <1>8, <1>9, <1>10, <1>11, <1>12, <1>13, <1>14, <1>15, <1>16, <1>17, <1>18, <1>19, <1>20, <1>21, <1>22, <1>23
     DEF Next, RunStep, UserStep

\* Projects are not mixed.
LEMMA RootedStep ==
  ASSUME TypeOK, DecisionSound, SameRoot, Rooted, [Next]_vars
  PROVE  Rooted'
<1>. USE DEF diskVars, storeVars, runVars, repairVars, Full
<1>1. CASE Diff
  BY <1>1 DEF Diff, AfterDiff, Rooted, Under, TypeOK, Snapshots, Maybe
<1>2. CASE ClearVectors
  BY <1>2 DEF ClearVectors, Rooted, Under, TypeOK, Snapshots, Maybe
<1>3. CASE ClearArtifacts
  BY <1>3 DEF ClearArtifacts, Rooted, Under, TypeOK, Snapshots, Maybe
<1>4. CASE Chunk
  BY <1>4 DEF Chunk, Rooted, Under, TypeOK, Snapshots, Maybe
<1>5. CASE StoreBatch
  BY <1>5 DEF StoreBatch, Rooted, Under, TypeOK, Snapshots, Maybe
<1>6. CASE SaveHashes
  BY <1>6 DEF SaveHashes, Written, FaultIf, NextHashes, NoHashes, NoFiles, Rooted, Under, TypeOK, Snapshots, Maybe
<1>7. CASE BuildMaps
  BY <1>7 DEF BuildMaps, Rooted, Under, TypeOK, Snapshots, Maybe
<1>8. CASE RebuildWorkspaceOnly
  BY <1>8 DEF RebuildWorkspaceOnly, Written, FaultIf, NextHashes, NoHashes, NoFiles, DecisionSound, SameRoot, BeforeHash, AfterHash, Rooted, Under, TypeOK, Snapshots, Maybe
<1>9. CASE ReuseIndex
  BY <1>9 DEF ReuseIndex, Written, FaultIf, NextHashes, NoHashes, NoFiles, Rooted, Under, TypeOK, Snapshots, Maybe
<1>10. CASE Validate
  BY <1>10 DEF Validate, Written, FaultIf, NextHashes, NoHashes, NoFiles, SameRoot, AfterHash, Rooted, Under, TypeOK, Snapshots, Maybe
<1>11. ASSUME NEW f \in Files, RepairRead(f) PROVE Rooted'
  BY <1>11 DEF RepairRead, Rooted, Under, TypeOK, Snapshots, Maybe
<1>12. CASE RepairHash
  BY <1>12, AuthoritativeAssumption DEF RepairHash, Rooted, Under, TypeOK, Snapshots, Maybe
<1>13. CASE RepairApply
  BY <1>13 DEF RepairApply, Written, FaultIf, NextHashes, NoHashes, NoFiles, Rooted, Under, TypeOK, Snapshots, Maybe
<1>14. CASE RepairRollback
  BY <1>14 DEF RepairRollback, Rooted, Under, TypeOK, Snapshots, Maybe
<1>15. CASE SaveState
  BY <1>15 DEF SaveState, FaultIf, Rooted, Under, TypeOK, Snapshots, Maybe
<1>16. ASSUME NEW r \in Roots, NEW f \in Files, Edit(r, f) PROVE Rooted'
  <2>1. NewerOrGone(r, f) /\ clock' = clock + 1 /\ clock \in Nat
    BY <1>16, EditEffect
  <2>. QED
    BY <1>16, <2>1 DEF NewerOrGone, Rooted, Under, TypeOK, Snapshots, Maybe, Edit
<1>17. ASSUME NEW r \in Roots, NEW f \in Files, Delete(r, f) PROVE Rooted'
  <2>1. NewerOrGone(r, f) /\ clock' = clock + 1 /\ clock \in Nat
    BY <1>17, EditEffect
  <2>. QED
    BY <1>17, <2>1 DEF NewerOrGone, Rooted, Under, TypeOK, Snapshots, Maybe, Delete
<1>18. ASSUME NEW f \in Files, Revert(f) PROVE Rooted'
  <2>1. \A q \in Roots, g \in Files :
           disk'[q][g] = IF q = hashes.root /\ g = f THEN hashes.files[g] ELSE disk[q][g]
    BY <1>18 DEF Revert, TypeOK, Snapshots, Maybe
  <2>. QED
    BY <1>18, <2>1 DEF Revert, Rooted, Under, TypeOK, Snapshots, Maybe
<1>19. ASSUME NEW r \in Roots, NEW forced \in BOOLEAN, StartIndex(r, forced) PROVE Rooted'
  BY <1>19 DEF StartIndex, Rooted, Under, TypeOK, Snapshots, Maybe
<1>20. CASE Interrupt
  BY <1>20 DEF Interrupt, Rooted, Under, TypeOK, Snapshots, Maybe
<1>21. CASE Upgrade
  BY <1>21 DEF Upgrade, Rooted, Under, TypeOK, Snapshots, Maybe
<1>22. CASE ClearIndex
  BY <1>22 DEF ClearIndex, NoHashes, NoFiles, Rooted, Under, TypeOK, Snapshots, Maybe
<1>23. CASE UNCHANGED vars
  BY <1>23 DEF vars, Rooted, Under, TypeOK, Snapshots, Maybe
<1>. QED
  BY <1>1, <1>2, <1>3, <1>4, <1>5, <1>6, <1>7, <1>8, <1>9, <1>10, <1>11, <1>12, <1>13, <1>14, <1>15, <1>16, <1>17, <1>18, <1>19, <1>20, <1>21, <1>22, <1>23
     DEF Next, RunStep, UserStep

\* The state and the hash store keep naming one project.
LEMMA SameRootStep ==
  ASSUME TypeOK, DecisionSound, SameRoot, [Next]_vars
  PROVE  SameRoot'
<1>. USE DEF diskVars, storeVars, runVars, repairVars, Full
<1>1. CASE Diff
  BY <1>1 DEF Diff, AfterDiff, SameRoot, AfterHash, TypeOK
<1>2. CASE ClearVectors
  BY <1>2 DEF ClearVectors, SameRoot, AfterHash, TypeOK
<1>3. CASE ClearArtifacts
  BY <1>3 DEF ClearArtifacts, SameRoot, AfterHash, TypeOK
<1>4. CASE Chunk
  BY <1>4 DEF Chunk, SameRoot, AfterHash, TypeOK
<1>5. CASE StoreBatch
  BY <1>5 DEF StoreBatch, SameRoot, AfterHash, TypeOK
<1>6. CASE SaveHashes
  BY <1>6 DEF SaveHashes, Written, FaultIf, NextHashes, NoHashes, NoFiles, SameRoot, AfterHash, TypeOK
<1>7. CASE BuildMaps
  BY <1>7 DEF BuildMaps, SameRoot, AfterHash, TypeOK
<1>8. CASE RebuildWorkspaceOnly
  BY <1>8 DEF RebuildWorkspaceOnly, Written, FaultIf, NextHashes, NoHashes, NoFiles, DecisionSound, SameRoot, AfterHash, TypeOK
<1>9. CASE ReuseIndex
  BY <1>9 DEF ReuseIndex, Written, FaultIf, NextHashes, NoHashes, NoFiles, DecisionSound, SameRoot, AfterHash, TypeOK
<1>10. CASE Validate
  BY <1>10 DEF Validate, Written, FaultIf, NextHashes, NoHashes, NoFiles, SameRoot, AfterHash, TypeOK
<1>11. ASSUME NEW f \in Files, RepairRead(f) PROVE SameRoot'
  BY <1>11 DEF RepairRead, SameRoot, AfterHash, TypeOK
<1>12. CASE RepairHash
  BY <1>12 DEF RepairHash, SameRoot, AfterHash, TypeOK
<1>13. CASE RepairApply
  BY <1>13 DEF RepairApply, Written, FaultIf, NextHashes, NoHashes, NoFiles, SameRoot, AfterHash, TypeOK
<1>14. CASE RepairRollback
  BY <1>14 DEF RepairRollback, SameRoot, AfterHash, TypeOK
<1>15. CASE SaveState
  BY <1>15 DEF SaveState, Written, FaultIf, SameRoot, AfterHash, TypeOK
<1>16. ASSUME NEW r \in Roots, NEW f \in Files, Edit(r, f) PROVE SameRoot'
  BY <1>16 DEF Edit, SameRoot, AfterHash, TypeOK
<1>17. ASSUME NEW r \in Roots, NEW f \in Files, Delete(r, f) PROVE SameRoot'
  BY <1>17 DEF Delete, SameRoot, AfterHash, TypeOK
<1>18. ASSUME NEW f \in Files, Revert(f) PROVE SameRoot'
  BY <1>18 DEF Revert, SameRoot, AfterHash, TypeOK
<1>19. ASSUME NEW r \in Roots, NEW forced \in BOOLEAN, StartIndex(r, forced) PROVE SameRoot'
  BY <1>19 DEF StartIndex, SameRoot, AfterHash, TypeOK
<1>20. CASE Interrupt
  BY <1>20 DEF Interrupt, SameRoot, AfterHash, TypeOK
<1>21. CASE Upgrade
  BY <1>21 DEF Upgrade, SameRoot, AfterHash, TypeOK
<1>22. CASE ClearIndex
  BY <1>22 DEF ClearIndex, NoHashes, NoState, SameRoot, AfterHash, TypeOK
<1>23. CASE UNCHANGED vars
  BY <1>23 DEF vars, SameRoot, AfterHash, TypeOK
<1>. QED
  BY <1>1, <1>2, <1>3, <1>4, <1>5, <1>6, <1>7, <1>8, <1>9, <1>10, <1>11, <1>12, <1>13, <1>14, <1>15, <1>16, <1>17, <1>18, <1>19, <1>20, <1>21, <1>22, <1>23
     DEF Next, RunStep, UserStep

\* The maps stay until a full rebuild removes them.
LEMMA MapsStep ==
  ASSUME TypeOK, DecisionSound, Emptied, MapsThere, [Next]_vars
  PROVE  MapsThere'
<1>. USE DEF diskVars, storeVars, runVars, repairVars, Full
<1>1. CASE Diff
  BY <1>1 DEF Diff, AfterDiff, MapsThere, AfterHash, TypeOK
<1>2. CASE ClearVectors
  BY <1>2 DEF ClearVectors, MapsThere, AfterHash, TypeOK
<1>3. CASE ClearArtifacts
  BY <1>3 DEF ClearArtifacts, Emptied, DecisionSound, MapsThere, AfterHash, TypeOK
<1>4. CASE Chunk
  BY <1>4 DEF Chunk, MapsThere, AfterHash, TypeOK
<1>5. CASE StoreBatch
  BY <1>5 DEF StoreBatch, MapsThere, AfterHash, TypeOK
<1>6. CASE SaveHashes
  BY <1>6 DEF SaveHashes, Written, FaultIf, NextHashes, NoHashes, NoFiles, MapsThere, AfterHash, TypeOK
<1>7. CASE BuildMaps
  BY <1>7 DEF BuildMaps, MapsThere, AfterHash, TypeOK
<1>8. CASE RebuildWorkspaceOnly
  BY <1>8 DEF RebuildWorkspaceOnly, Written, FaultIf, NextHashes, NoHashes, NoFiles, MapsThere, AfterHash, TypeOK
<1>9. CASE ReuseIndex
  BY <1>9, NoneAssumption DEF ReuseIndex, Written, FaultIf, NextHashes, NoHashes, NoFiles, DecisionSound, MapsThere, AfterHash, TypeOK
<1>10. CASE Validate
  BY <1>10 DEF Validate, Written, FaultIf, NextHashes, NoHashes, NoFiles, MapsThere, AfterHash, TypeOK
<1>11. ASSUME NEW f \in Files, RepairRead(f) PROVE MapsThere'
  BY <1>11 DEF RepairRead, MapsThere, AfterHash, TypeOK
<1>12. CASE RepairHash
  BY <1>12 DEF RepairHash, MapsThere, AfterHash, TypeOK
<1>13. CASE RepairApply
  BY <1>13 DEF RepairApply, Written, FaultIf, NextHashes, NoHashes, NoFiles, MapsThere, AfterHash, TypeOK
<1>14. CASE RepairRollback
  BY <1>14 DEF RepairRollback, MapsThere, AfterHash, TypeOK
<1>15. CASE SaveState
  BY <1>15 DEF SaveState, Written, FaultIf, MapsThere, AfterHash, TypeOK
<1>16. ASSUME NEW r \in Roots, NEW f \in Files, Edit(r, f) PROVE MapsThere'
  BY <1>16 DEF Edit, MapsThere, AfterHash, TypeOK
<1>17. ASSUME NEW r \in Roots, NEW f \in Files, Delete(r, f) PROVE MapsThere'
  BY <1>17 DEF Delete, MapsThere, AfterHash, TypeOK
<1>18. ASSUME NEW f \in Files, Revert(f) PROVE MapsThere'
  BY <1>18 DEF Revert, MapsThere, AfterHash, TypeOK
<1>19. ASSUME NEW r \in Roots, NEW forced \in BOOLEAN, StartIndex(r, forced) PROVE MapsThere'
  BY <1>19 DEF StartIndex, MapsThere, AfterHash, TypeOK
<1>20. CASE Interrupt
  BY <1>20 DEF Interrupt, MapsThere, AfterHash, TypeOK
<1>21. CASE Upgrade
  BY <1>21 DEF Upgrade, MapsThere, AfterHash, TypeOK
<1>22. CASE ClearIndex
  BY <1>22 DEF ClearIndex, NoState, MapsThere, AfterHash, TypeOK
<1>23. CASE UNCHANGED vars
  BY <1>23 DEF vars, MapsThere, AfterHash, TypeOK
<1>. QED
  BY <1>1, <1>2, <1>3, <1>4, <1>5, <1>6, <1>7, <1>8, <1>9, <1>10, <1>11, <1>12, <1>13, <1>14, <1>15, <1>16, <1>17, <1>18, <1>19, <1>20, <1>21, <1>22, <1>23
     DEF Next, RunStep, UserStep

\* Nothing is stored between the clearing and the first batch.
LEMMA EmptiedStep ==
  ASSUME TypeOK, DecisionSound, Emptied, [Next]_vars
  PROVE  Emptied'
<1>. USE DEF diskVars, storeVars, runVars, repairVars, Full
<1>1. CASE Diff
  BY <1>1 DEF Diff, AfterDiff, Emptied
<1>2. CASE ClearVectors
  BY <1>2 DEF ClearVectors, DecisionSound, Emptied
<1>3. CASE ClearArtifacts
  BY <1>3 DEF ClearArtifacts, Emptied
<1>4. CASE Chunk
  BY <1>4 DEF Chunk, Emptied
<1>5. CASE StoreBatch
  BY <1>5 DEF StoreBatch, Emptied
<1>6. CASE SaveHashes
  BY <1>6 DEF SaveHashes, Emptied
<1>7. CASE BuildMaps
  BY <1>7 DEF BuildMaps, Emptied
<1>8. CASE RebuildWorkspaceOnly
  BY <1>8 DEF RebuildWorkspaceOnly, Emptied
<1>9. CASE ReuseIndex
  BY <1>9 DEF ReuseIndex, Emptied
<1>10. CASE Validate
  BY <1>10 DEF Validate, Emptied
<1>11. ASSUME NEW f \in Files, RepairRead(f) PROVE Emptied'
  BY <1>11 DEF RepairRead, Emptied
<1>12. CASE RepairHash
  BY <1>12 DEF RepairHash, Emptied
<1>13. CASE RepairApply
  BY <1>13 DEF RepairApply, Emptied
<1>14. CASE RepairRollback
  BY <1>14 DEF RepairRollback, Emptied
<1>15. CASE SaveState
  BY <1>15 DEF SaveState, Emptied
<1>16. ASSUME NEW r \in Roots, NEW f \in Files, Edit(r, f) PROVE Emptied'
  BY <1>16 DEF Edit, Emptied
<1>17. ASSUME NEW r \in Roots, NEW f \in Files, Delete(r, f) PROVE Emptied'
  BY <1>17 DEF Delete, Emptied
<1>18. ASSUME NEW f \in Files, Revert(f) PROVE Emptied'
  BY <1>18 DEF Revert, Emptied
<1>19. ASSUME NEW r \in Roots, NEW forced \in BOOLEAN, StartIndex(r, forced) PROVE Emptied'
  BY <1>19 DEF StartIndex, Emptied
<1>20. CASE Interrupt
  BY <1>20 DEF Interrupt, Emptied
<1>21. CASE Upgrade
  BY <1>21 DEF Upgrade, Emptied
<1>22. CASE ClearIndex
  BY <1>22 DEF ClearIndex, Emptied
<1>23. CASE UNCHANGED vars
  BY <1>23 DEF vars, Emptied
<1>. QED
  BY <1>1, <1>2, <1>3, <1>4, <1>5, <1>6, <1>7, <1>8, <1>9, <1>10, <1>11, <1>12, <1>13, <1>14, <1>15, <1>16, <1>17, <1>18, <1>19, <1>20, <1>21, <1>22, <1>23
     DEF Next, RunStep, UserStep

\* Chunks of two projects never meet.
LEMMA RootStep ==
  ASSUME TypeOK, DecisionSound, Rooted, SameRoot, Emptied, ChunksRooted, [Next]_vars
  PROVE  ChunksRooted'
<1>. USE DEF diskVars, storeVars, runVars, repairVars, Full
<1>1. CASE Diff
  BY <1>1 DEF Diff, AfterDiff, DecisionSound, SameRoot, AfterHash, Decide, evaluate_index_state, ChunksRooted, StoredChunks, TypeOK
<1>2. CASE ClearVectors
  BY <1>2 DEF ClearVectors, NoVec, ChunksRooted, StoredChunks, TypeOK
<1>3. CASE ClearArtifacts
  BY <1>3 DEF ClearArtifacts, Emptied, NoVec, ChunksRooted, StoredChunks, TypeOK
<1>4. CASE Chunk
  BY <1>4 DEF Chunk, Emptied, NoVec, DecisionSound, SameRoot, AfterHash, ChunksRooted, StoredChunks, TypeOK
<1>5. CASE StoreBatch
  <2>1. SUFFICES ASSUME faults = 0, NEW f \in Files, NEW l \in Lines, vec'[f][l] # None
               PROVE  vec'[f][l].root = root
    BY <1>5 DEF StoreBatch, ChunksRooted, StoredChunks
  <2>2. PICK batch \in SUBSET pending :
           vec' = [g \in Files |-> IF g \in batch THEN Upsert(vec[g], read[g]) ELSE vec[g]]
    BY <1>5 DEF StoreBatch
  <2>3. vec[f][l] # None => vec[f][l].root = root
    BY <1>5, <2>1 DEF StoreBatch, ChunksRooted, StoredChunks
  <2>4. CASE f \in batch
    <3>1. read[f].root = root
      BY <1>5, <2>1, <2>2, <2>4 DEF StoreBatch, Rooted, Under, TypeOK
    <3>. QED
      BY <2>1, <2>2, <2>3, <2>4, <3>1 DEF Upsert
  <2>5. CASE f \notin batch
    BY <2>1, <2>2, <2>3, <2>5
  <2>. QED
    BY <2>4, <2>5
<1>6. CASE SaveHashes
  BY <1>6 DEF SaveHashes, Written, FaultIf, NextHashes, NoHashes, NoFiles, ChunksRooted, StoredChunks, TypeOK
<1>7. CASE BuildMaps
  BY <1>7 DEF BuildMaps, ChunksRooted, StoredChunks, TypeOK
<1>8. CASE RebuildWorkspaceOnly
  BY <1>8 DEF RebuildWorkspaceOnly, Written, FaultIf, NextHashes, NoHashes, NoFiles, ChunksRooted, StoredChunks, TypeOK
<1>9. CASE ReuseIndex
  BY <1>9 DEF ReuseIndex, Written, FaultIf, NextHashes, NoHashes, NoFiles, ChunksRooted, StoredChunks, TypeOK
<1>10. CASE Validate
  BY <1>10 DEF Validate, Written, FaultIf, NextHashes, NoHashes, NoFiles, ChunksRooted, StoredChunks, TypeOK
<1>11. ASSUME NEW f \in Files, RepairRead(f) PROVE ChunksRooted'
  BY <1>11 DEF RepairRead, ChunksRooted, StoredChunks, TypeOK
<1>12. CASE RepairHash
  BY <1>12 DEF RepairHash, ChunksRooted, StoredChunks, TypeOK
<1>13. CASE RepairApply
  BY <1>13 DEF RepairApply, ChunksOf, Rooted, Under, Written, FaultIf, NextHashes, NoHashes, NoFiles, ChunksRooted, StoredChunks, TypeOK
<1>14. CASE RepairRollback
  BY <1>14 DEF RepairRollback, ChunksRooted, StoredChunks, TypeOK
<1>15. CASE SaveState
  BY <1>15 DEF SaveState, SameRoot, AfterHash, FaultIf, ChunksRooted, StoredChunks, TypeOK
<1>16. ASSUME NEW r \in Roots, NEW f \in Files, Edit(r, f) PROVE ChunksRooted'
  BY <1>16 DEF Edit, ChunksRooted, StoredChunks, TypeOK
<1>17. ASSUME NEW r \in Roots, NEW f \in Files, Delete(r, f) PROVE ChunksRooted'
  BY <1>17 DEF Delete, ChunksRooted, StoredChunks, TypeOK
<1>18. ASSUME NEW f \in Files, Revert(f) PROVE ChunksRooted'
  BY <1>18 DEF Revert, ChunksRooted, StoredChunks, TypeOK
<1>19. ASSUME NEW r \in Roots, NEW forced \in BOOLEAN, StartIndex(r, forced) PROVE ChunksRooted'
  BY <1>19 DEF StartIndex, ChunksRooted, StoredChunks, TypeOK
<1>20. CASE Interrupt
  BY <1>20 DEF Interrupt, ChunksRooted, StoredChunks, TypeOK
<1>21. CASE Upgrade
  BY <1>21 DEF Upgrade, ChunksRooted, StoredChunks, TypeOK
<1>22. CASE ClearIndex
  BY <1>22 DEF ClearIndex, NoVec, ChunksRooted, StoredChunks, TypeOK
<1>23. CASE UNCHANGED vars
  BY <1>23 DEF vars, ChunksRooted, StoredChunks, TypeOK
<1>. QED
  BY <1>1, <1>2, <1>3, <1>4, <1>5, <1>6, <1>7, <1>8, <1>9, <1>10, <1>11, <1>12, <1>13, <1>14, <1>15, <1>16, <1>17, <1>18, <1>19, <1>20, <1>21, <1>22, <1>23
     DEF Next, RunStep, UserStep

\* A run works on what it hashed and forgets no entry.
LEMMA WorkStep ==
  ASSUME TypeOK, DecisionSound, WorkKnown, [Next]_vars
  PROVE  WorkKnown'
<1>. USE DEF diskVars, storeVars, runVars, repairVars, Full
<1>1. CASE Diff
  BY <1>1 DEF Diff, AfterDiff, NewFiles, RemovedFiles, Decide, DecisionSound, WorkKnown, Present, BeforeHash, TypeOK
<1>2. CASE ClearVectors
  BY <1>2 DEF ClearVectors, DecisionSound, WorkKnown, Present, BeforeHash, TypeOK
<1>3. CASE ClearArtifacts
  BY <1>3 DEF ClearArtifacts, WorkKnown, Present, BeforeHash, TypeOK
<1>4. CASE Chunk
  BY <1>4 DEF Chunk, WorkKnown, Present, BeforeHash, TypeOK
<1>5. CASE StoreBatch
  BY <1>5 DEF StoreBatch, WorkKnown, Present, BeforeHash, TypeOK
<1>6. CASE SaveHashes
  BY <1>6 DEF SaveHashes, Written, FaultIf, NextHashes, NoHashes, NoFiles, WorkKnown, Present, BeforeHash, TypeOK
<1>7. CASE BuildMaps
  BY <1>7 DEF BuildMaps, WorkKnown, Present, BeforeHash, TypeOK
<1>8. CASE RebuildWorkspaceOnly
  BY <1>8 DEF RebuildWorkspaceOnly, Written, FaultIf, NextHashes, NoHashes, NoFiles, WorkKnown, Present, BeforeHash, TypeOK
<1>9. CASE ReuseIndex
  BY <1>9 DEF ReuseIndex, Written, FaultIf, NextHashes, NoHashes, NoFiles, WorkKnown, Present, BeforeHash, TypeOK
<1>10. CASE Validate
  BY <1>10 DEF Validate, Written, FaultIf, NextHashes, NoHashes, NoFiles, WorkKnown, Present, BeforeHash, TypeOK
<1>11. ASSUME NEW f \in Files, RepairRead(f) PROVE WorkKnown'
  <2>1. \A g \in Source : rhash'[g] = rhash[g]
    BY <1>11 DEF RepairRead, Source, TypeOK, Snapshots
  <2>. QED
    BY <1>11, <2>1 DEF RepairRead, WorkKnown, Present, BeforeHash
<1>12. CASE RepairHash
  BY <1>12 DEF RepairHash, Source, WorkKnown, Present, BeforeHash, TypeOK
<1>13. CASE RepairApply
  BY <1>13 DEF RepairApply, WorkKnown, Present, BeforeHash, TypeOK
<1>14. CASE RepairRollback
  BY <1>14 DEF RepairRollback, WorkKnown, Present, BeforeHash, TypeOK
<1>15. CASE SaveState
  BY <1>15 DEF SaveState, WorkKnown, Present, BeforeHash, TypeOK
<1>16. ASSUME NEW r \in Roots, NEW f \in Files, Edit(r, f) PROVE WorkKnown'
  BY <1>16 DEF Edit, WorkKnown, Present, BeforeHash, TypeOK
<1>17. ASSUME NEW r \in Roots, NEW f \in Files, Delete(r, f) PROVE WorkKnown'
  BY <1>17 DEF Delete, WorkKnown, Present, BeforeHash, TypeOK
<1>18. ASSUME NEW f \in Files, Revert(f) PROVE WorkKnown'
  BY <1>18 DEF Revert, WorkKnown, Present, BeforeHash, TypeOK
<1>19. ASSUME NEW r \in Roots, NEW forced \in BOOLEAN, StartIndex(r, forced) PROVE WorkKnown'
  BY <1>19 DEF StartIndex, WorkKnown, Present, BeforeHash, TypeOK
<1>20. CASE Interrupt
  BY <1>20 DEF Interrupt, WorkKnown, Present, BeforeHash, TypeOK
<1>21. CASE Upgrade
  BY <1>21 DEF Upgrade, WorkKnown, Present, BeforeHash, TypeOK
<1>22. CASE ClearIndex
  BY <1>22 DEF ClearIndex, WorkKnown, Present, BeforeHash, TypeOK
<1>23. CASE UNCHANGED vars
  BY <1>23 DEF vars, WorkKnown, Present, BeforeHash, TypeOK
<1>. QED
  BY <1>1, <1>2, <1>3, <1>4, <1>5, <1>6, <1>7, <1>8, <1>9, <1>10, <1>11, <1>12, <1>13, <1>14, <1>15, <1>16, <1>17, <1>18, <1>19, <1>20, <1>21, <1>22, <1>23
     DEF Next, RunStep, UserStep

\* No source path has chunks that nobody knows of.
LEMMA ChunksStep ==
  ASSUME TypeOK, DecisionSound, PendingRead, Emptied, WorkKnown, ChunksKnown, [Next]_vars
  PROVE  ChunksKnown'
<1>. USE DEF diskVars, storeVars, runVars, repairVars, Full
<1>1. CASE Diff
  BY <1>1 DEF Diff, AfterDiff, DecisionSound, ChunksKnown, Known, StoredChunks, TypeOK
<1>2. CASE ClearVectors
  <2>1. \A f \in Source : StoredChunks(f)' = {}
    BY <1>2 DEF ClearVectors, TypeOK, NoVec, StoredChunks, Source
  <2>. QED
    BY <2>1 DEF ChunksKnown, Known
<1>3. CASE ClearArtifacts
  <2>1. \A f \in Source : StoredChunks(f)' = {}
    BY <1>3 DEF ClearArtifacts, Emptied, NoVec, StoredChunks, Source
  <2>. QED
    BY <2>1 DEF ChunksKnown, Known
<1>4. CASE Chunk
  BY <1>4 DEF Chunk, Emptied, NoVec, WorkKnown, Present, Source, BeforeHash, ChunksKnown, Known, StoredChunks, TypeOK
<1>5. CASE StoreBatch
  BY <1>5 DEF StoreBatch, PendingRead, WorkKnown, Present, Source, ChunksKnown, Known, StoredChunks, TypeOK
<1>6. CASE SaveHashes
  BY <1>6 DEF SaveHashes, Written, FaultIf, NextHashes, NoHashes, NoFiles, ChunksKnown, Known, StoredChunks, TypeOK
<1>7. CASE BuildMaps
  BY <1>7 DEF BuildMaps, ChunksKnown, Known, StoredChunks, TypeOK
<1>8. CASE RebuildWorkspaceOnly
  BY <1>8 DEF RebuildWorkspaceOnly, Written, FaultIf, NextHashes, NoHashes, NoFiles, DecisionSound, ChunksKnown, Known, StoredChunks, TypeOK
<1>9. CASE ReuseIndex
  BY <1>9 DEF ReuseIndex, Written, FaultIf, NextHashes, NoHashes, NoFiles, WorkKnown, Present, Source, BeforeHash, DecisionSound, ChunksKnown, Known, StoredChunks, TypeOK
<1>10. CASE Validate
  BY <1>10 DEF Validate, Written, FaultIf, NextHashes, NoHashes, NoFiles, Source, ChunksKnown, Known, StoredChunks, TypeOK
<1>11. ASSUME NEW f \in Files, RepairRead(f) PROVE ChunksKnown'
  BY <1>11 DEF RepairRead, ChunksKnown, Known, StoredChunks, TypeOK
<1>12. CASE RepairHash
  BY <1>12 DEF RepairHash, ChunksKnown, Known, StoredChunks, TypeOK
<1>13. CASE RepairApply
  BY <1>13 DEF RepairApply, Written, FaultIf, NextHashes, NoHashes, NoFiles, Source, WorkKnown, ChunksKnown, Known, StoredChunks, TypeOK
<1>14. CASE RepairRollback
  BY <1>14 DEF RepairRollback, ChunksKnown, Known, StoredChunks, TypeOK
<1>15. CASE SaveState
  BY <1>15 DEF SaveState, FaultIf, ChunksKnown, Known, StoredChunks, TypeOK
<1>16. ASSUME NEW r \in Roots, NEW f \in Files, Edit(r, f) PROVE ChunksKnown'
  BY <1>16 DEF Edit, ChunksKnown, Known, StoredChunks, TypeOK
<1>17. ASSUME NEW r \in Roots, NEW f \in Files, Delete(r, f) PROVE ChunksKnown'
  BY <1>17 DEF Delete, ChunksKnown, Known, StoredChunks, TypeOK
<1>18. ASSUME NEW f \in Files, Revert(f) PROVE ChunksKnown'
  BY <1>18 DEF Revert, ChunksKnown, Known, StoredChunks, TypeOK
<1>19. ASSUME NEW r \in Roots, NEW forced \in BOOLEAN, StartIndex(r, forced) PROVE ChunksKnown'
  BY <1>19 DEF StartIndex, ChunksKnown, Known, StoredChunks, TypeOK
<1>20. CASE Interrupt
  BY <1>20 DEF Interrupt, ChunksKnown, Known, StoredChunks, TypeOK
<1>21. CASE Upgrade
  BY <1>21 DEF Upgrade, ChunksKnown, Known, StoredChunks, TypeOK
<1>22. CASE ClearIndex
  <2>1. \A f \in Source : StoredChunks(f)' = {}
    BY <1>22 DEF ClearIndex, TypeOK, NoVec, StoredChunks, Source
  <2>. QED
    BY <2>1 DEF ChunksKnown, Known
<1>23. CASE UNCHANGED vars
  BY <1>23 DEF vars, ChunksKnown, Known, StoredChunks, TypeOK
<1>. QED
  BY <1>1, <1>2, <1>3, <1>4, <1>5, <1>6, <1>7, <1>8, <1>9, <1>10, <1>11, <1>12, <1>13, <1>14, <1>15, <1>16, <1>17, <1>18, <1>19, <1>20, <1>21, <1>22, <1>23
     DEF Next, RunStep, UserStep

\* What was read is what was hashed or has changed since.
LEMMA ReadsStep ==
  ASSUME TypeOK, VersionsPast, ReadsCurrent, [Next]_vars
  PROVE  ReadsCurrent'
<1>. USE DEF diskVars, storeVars, runVars, repairVars, Full
<1>1. CASE Diff
  BY <1>1 DEF Diff, AfterDiff, ReadsCurrent, TypeOK
<1>2. CASE ClearVectors
  BY <1>2 DEF ClearVectors, ReadsCurrent, TypeOK
<1>3. CASE ClearArtifacts
  BY <1>3 DEF ClearArtifacts, ReadsCurrent, TypeOK
<1>4. CASE Chunk
  BY <1>4 DEF Chunk, ReadsCurrent, TypeOK
<1>5. CASE StoreBatch
  BY <1>5 DEF StoreBatch, ReadsCurrent, TypeOK
<1>6. CASE SaveHashes
  BY <1>6 DEF SaveHashes, ReadsCurrent, TypeOK
<1>7. CASE BuildMaps
  BY <1>7 DEF BuildMaps, ReadsCurrent, TypeOK
<1>8. CASE RebuildWorkspaceOnly
  BY <1>8 DEF RebuildWorkspaceOnly, ReadsCurrent, TypeOK
<1>9. CASE ReuseIndex
  BY <1>9 DEF ReuseIndex, ReadsCurrent, TypeOK
<1>10. CASE Validate
  BY <1>10 DEF Validate, ReadsCurrent, TypeOK
<1>11. ASSUME NEW f \in Files, RepairRead(f) PROVE ReadsCurrent'
  <2>1. \A g \in Files : rread'[g] = IF g = f THEN disk[root][f] ELSE rread[g]
    BY <1>11 DEF RepairRead, TypeOK, Snapshots
  <2>. QED
    BY <1>11, <2>1, AuthoritativeAssumption DEF RepairRead, ReadsCurrent, TypeOK
<1>12. CASE RepairHash
  BY <1>12 DEF RepairHash, ReadsCurrent, TypeOK
<1>13. CASE RepairApply
  BY <1>13 DEF RepairApply, ReadsCurrent, TypeOK
<1>14. CASE RepairRollback
  BY <1>14 DEF RepairRollback, ReadsCurrent, TypeOK
<1>15. CASE SaveState
  BY <1>15 DEF SaveState, ReadsCurrent, TypeOK
<1>16. ASSUME NEW r \in Roots, NEW f \in Files, Edit(r, f) PROVE ReadsCurrent'
  <2>1. NewerOrGone(r, f) /\ clock' = clock + 1 /\ clock \in Nat
    BY <1>16, EditEffect
  <2>. QED
    BY <1>16, <2>1 DEF NewerOrGone, ReadsCurrent, TypeOK, VersionsPast, Snapshots, Maybe, Content, Edit
<1>17. ASSUME NEW r \in Roots, NEW f \in Files, Delete(r, f) PROVE ReadsCurrent'
  <2>1. NewerOrGone(r, f) /\ clock' = clock + 1 /\ clock \in Nat
    BY <1>17, EditEffect
  <2>. QED
    BY <1>17, <2>1 DEF NewerOrGone, ReadsCurrent, TypeOK, VersionsPast, Snapshots, Maybe, Content, Delete
<1>18. ASSUME NEW f \in Files, Revert(f) PROVE ReadsCurrent'
  BY <1>18 DEF Revert, ReadsCurrent, TypeOK
<1>19. ASSUME NEW r \in Roots, NEW forced \in BOOLEAN, StartIndex(r, forced) PROVE ReadsCurrent'
  BY <1>19 DEF StartIndex, ReadsCurrent, TypeOK
<1>20. CASE Interrupt
  BY <1>20 DEF Interrupt, ReadsCurrent, TypeOK
<1>21. CASE Upgrade
  BY <1>21 DEF Upgrade, ReadsCurrent, TypeOK
<1>22. CASE ClearIndex
  BY <1>22 DEF ClearIndex, ReadsCurrent, TypeOK
<1>23. CASE UNCHANGED vars
  BY <1>23 DEF vars, ReadsCurrent, TypeOK
<1>. QED
  BY <1>1, <1>2, <1>3, <1>4, <1>5, <1>6, <1>7, <1>8, <1>9, <1>10, <1>11, <1>12, <1>13, <1>14, <1>15, <1>16, <1>17, <1>18, <1>19, <1>20, <1>21, <1>22, <1>23
     DEF Next, RunStep, UserStep

\* A full rebuild stores what it read and nothing else.
LEMMA FullStep ==
  ASSUME TypeOK, DecisionSound, NothingPending, VersionsPast, Emptied, WorkKnown, ReadsCurrent, FullExact, [Next]_vars
  PROVE  FullExact'
<1>. USE DEF diskVars, storeVars, runVars, repairVars, Full
<1>1. CASE Diff
  BY <1>1 DEF Diff, AfterDiff, DecisionSound, FullExact, AfterHash, TypeOK
<1>2. CASE ClearVectors
  BY <1>2 DEF ClearVectors, FullExact, AfterHash, TypeOK
<1>3. CASE ClearArtifacts
  BY <1>3 DEF ClearArtifacts, FullExact, AfterHash, TypeOK
<1>4. CASE Chunk
  <2>1. decision = Full => vec = NoVec
    BY <1>4 DEF Chunk, Emptied
  <2>2. \A f \in Files : read'[f] = None \/ f \in pending' \/ read'[f].lines = {}
    BY <1>4 DEF Chunk, Chunked, Present
  <2>3. \A f \in Files : NoVec[f] = ChunksOf(IF f \in pending' THEN None ELSE read'[f])
    BY <2>2 DEF NoVec, ChunksOf
  <2>. QED
    BY <1>4, <2>1, <2>3 DEF Chunk, FullExact, AfterHash
<1>5. CASE StoreBatch
  <2>1. PICK batch \in SUBSET pending :
           /\ vec' = [g \in Files |-> IF g \in batch THEN Upsert(vec[g], read[g]) ELSE vec[g]]
           /\ pending' = pending \ batch
    BY <1>5 DEF StoreBatch
  <2>2. SUFFICES ASSUME decision = Full, NEW f \in Files
               PROVE  vec'[f] = ChunksOf(IF f \in pending' THEN None ELSE read[f])
    BY <1>5 DEF StoreBatch, FullExact, AfterHash
  <2>3. vec[f] = ChunksOf(IF f \in pending THEN None ELSE read[f])
    BY <1>5, <2>2 DEF StoreBatch, FullExact
  <2>4. CASE f \in batch
    <3>1. vec[f] = ChunksOf(None) /\ read[f] # None
      BY <1>5, <2>1, <2>3, <2>4 DEF StoreBatch, TypeOK
    <3>. QED
      BY <2>1, <2>2, <2>4, <3>1 DEF Upsert, ChunksOf
  <2>5. CASE f \notin batch
    BY <2>1, <2>3, <2>5
  <2>. QED
    BY <2>4, <2>5
<1>6. CASE SaveHashes
  BY <1>6 DEF SaveHashes, NothingPending, ReadsCurrent, DecisionSound, WorkKnown, Present, Source, FullExact, AfterHash, TypeOK
<1>7. CASE BuildMaps
  BY <1>7 DEF BuildMaps, FullExact, AfterHash, TypeOK
<1>8. CASE RebuildWorkspaceOnly
  BY <1>8 DEF RebuildWorkspaceOnly, DecisionSound, FullExact, AfterHash, TypeOK
<1>9. CASE ReuseIndex
  BY <1>9 DEF ReuseIndex, DecisionSound, FullExact, AfterHash, TypeOK
<1>10. CASE Validate
  BY <1>10 DEF Validate, FullExact, AfterHash, TypeOK
<1>11. ASSUME NEW f \in Files, RepairRead(f) PROVE FullExact'
  BY <1>11 DEF RepairRead, FullExact, AfterHash, TypeOK
<1>12. CASE RepairHash
  BY <1>12 DEF RepairHash, FullExact, AfterHash, TypeOK
<1>13. CASE RepairApply
  <2>1. \A g \in Files : vec'[g] = IF g \in rset THEN ChunksOf(rread[g]) ELSE vec[g]
    BY <1>13 DEF RepairApply
  <2>2. \A g \in rset : g \notin Source
    BY DEF TypeOK, Source
  <2>3. \A g \in rset : snap[g] # None /\ disk[root][g] = snap[g] => rread[g] = snap[g]
    BY <1>13 DEF RepairApply, ReadsCurrent
  <2>. QED
    BY <1>13, <2>1, <2>2, <2>3 DEF RepairApply, FullExact, AfterHash, Source
<1>14. CASE RepairRollback
  <2>1. PICK f \in rset :
           vec' \in {vec, [vec EXCEPT ![f] = IF rread[f] = None THEN vec[f]
                                            ELSE Upsert(vec[f], rread[f])]}
    BY <1>14 DEF RepairRollback
  <2>2. f \in Files /\ f \notin Source
    BY <2>1, AuthoritativeAssumption DEF TypeOK, Source
  <2>3. \A g \in Files : g # f => vec'[g] = vec[g]
    BY <2>1 DEF TypeOK
  <2>4. ASSUME decision = Full, snap[f] # None, disk[root][f] = snap[f]
        PROVE  vec'[f] = ChunksOf(snap[f])
    <3>1. vec[f] = ChunksOf(snap[f]) /\ rread[f] = snap[f]
      BY <1>14, <2>1, <2>2, <2>4 DEF RepairRollback, FullExact, AfterHash, ReadsCurrent
    <3>2. Upsert(vec[f], rread[f]) = vec[f]
      BY <2>4, <3>1 DEF Upsert, ChunksOf
    <3>. QED
      BY <2>1, <2>2, <3>1, <3>2 DEF TypeOK
  <2>. QED
    BY <1>14, <2>2, <2>3, <2>4 DEF RepairRollback, FullExact, AfterHash, Source
<1>15. CASE SaveState
  BY <1>15 DEF SaveState, FullExact, AfterHash, TypeOK
<1>16. ASSUME NEW r \in Roots, NEW f \in Files, Edit(r, f) PROVE FullExact'
  <2>1. NewerOrGone(r, f) /\ clock' = clock + 1 /\ clock \in Nat
    BY <1>16, EditEffect
  <2>. QED
    BY <1>16, <2>1 DEF NewerOrGone, FullExact, AfterHash, TypeOK, VersionsPast, Snapshots, Maybe, Content, Edit
<1>17. ASSUME NEW r \in Roots, NEW f \in Files, Delete(r, f) PROVE FullExact'
  <2>1. NewerOrGone(r, f) /\ clock' = clock + 1 /\ clock \in Nat
    BY <1>17, EditEffect
  <2>. QED
    BY <1>17, <2>1 DEF NewerOrGone, FullExact, AfterHash, TypeOK, VersionsPast, Snapshots, Maybe, Content, Delete
<1>18. ASSUME NEW f \in Files, Revert(f) PROVE FullExact'
  BY <1>18 DEF Revert, FullExact, AfterHash, TypeOK
<1>19. ASSUME NEW r \in Roots, NEW forced \in BOOLEAN, StartIndex(r, forced) PROVE FullExact'
  BY <1>19 DEF StartIndex, FullExact, AfterHash, TypeOK
<1>20. CASE Interrupt
  BY <1>20 DEF Interrupt, FullExact, AfterHash, TypeOK
<1>21. CASE Upgrade
  BY <1>21 DEF Upgrade, FullExact, AfterHash, TypeOK
<1>22. CASE ClearIndex
  BY <1>22 DEF ClearIndex, FullExact, AfterHash, TypeOK
<1>23. CASE UNCHANGED vars
  BY <1>23 DEF vars, FullExact, AfterHash, TypeOK
<1>. QED
  BY <1>1, <1>2, <1>3, <1>4, <1>5, <1>6, <1>7, <1>8, <1>9, <1>10, <1>11, <1>12, <1>13, <1>14, <1>15, <1>16, <1>17, <1>18, <1>19, <1>20, <1>21, <1>22, <1>23
     DEF Next, RunStep, UserStep

-----------------------------------------------------------------------------
\* The three facts about this invariant, and what it implies.
LEMMA WInvInit == Init => WInv
<1>. SUFFICES ASSUME Init PROVE WInv
  OBVIOUS
<1>1. TypeOK
  BY TypeInit
<1>2. VersionsPast /\ Rooted
  BY <1>1, InitialDisksAssumption
     DEF Init, VersionsPast, Rooted, Under, NoHashes, NoFiles
<1>3. SameRoot /\ MapsThere /\ Emptied
  BY DEF Init, SameRoot, MapsThere, Emptied, NoHashes, NoState, AfterHash
<1>4. ChunksRooted /\ WorkKnown /\ ChunksKnown
  BY DEF Init, ChunksRooted, WorkKnown, ChunksKnown, Known, StoredChunks, NoVec,
         BeforeHash, Source
<1>5. DecisionSound /\ NothingPending /\ PendingRead /\ ReadsCurrent /\ FullExact
  BY DEF Init, DecisionSound, NothingPending, PendingRead, ReadsCurrent, FullExact,
         AfterHash
<1>. QED
  BY <1>1, <1>2, <1>3, <1>4, <1>5 DEF WInv

LEMMA WInvStep == WInv /\ [Next]_vars => WInv'
<1>. SUFFICES ASSUME WInv, [Next]_vars PROVE WInv'
  OBVIOUS
<1>1. TypeOK'
  BY TypeStep DEF WInv
<1>2. DecisionSound' /\ NothingPending' /\ PendingRead'
  BY DecisionStep, NothingPendingStep, PendingStep DEF WInv
<1>3. VersionsPast' /\ Rooted' /\ SameRoot' /\ MapsThere'
  BY VersionsStep, RootedStep, SameRootStep, MapsStep DEF WInv
<1>4. Emptied' /\ ChunksRooted' /\ WorkKnown' /\ ChunksKnown'
  BY EmptiedStep, RootStep, WorkStep, ChunksStep DEF WInv
<1>5. ReadsCurrent' /\ FullExact'
  BY ReadsStep, FullStep DEF WInv
<1>. QED
  BY <1>1, <1>2, <1>3, <1>4, <1>5 DEF WInv

LEMMA WInvImplies ==
  WInv => StateDescribesIndex /\ NoForeignChunks /\ NoOrphanVectors /\ ReindexIsExact
<1>. SUFFICES ASSUME WInv
              PROVE  StateDescribesIndex /\ NoForeignChunks /\ NoOrphanVectors /\ ReindexIsExact
  OBVIOUS
<1>1. StateDescribesIndex
  BY DEF WInv, StateDescribesIndex, SameRoot, MapsThere, AfterHash
<1>2. NoForeignChunks
  BY DEF WInv, NoForeignChunks, ChunksRooted
<1>3. NoOrphanVectors
  BY DEF WInv, NoOrphanVectors, ChunksKnown, Known, Source
<1>4. ReindexIsExact
  BY DEF WInv, ReindexIsExact, FullExact, AfterHash, Present, Source
<1>. QED
  BY <1>1, <1>2, <1>3, <1>4

\* Where nothing was interrupted and no write failed, an index_state.json that
\* allows reuse is of the hash store's project, and the maps it promises exist.
THEOREM StateDescribes == Spec => []StateDescribesIndex
<1>. QED
  BY WInvInit, WInvStep, WInvImplies, PTL DEF Spec

\* Where nothing was interrupted, an idle collection holds chunks of the one
\* project its hash store names, though entries of another project are compared
\* with this one's files by relative path.
THEOREM NoForeign == Spec => []NoForeignChunks
<1>. QED
  BY WInvInit, WInvStep, WInvImplies, PTL DEF Spec

\* Where nothing was interrupted, every source path with chunks is in the hash
\* store, so that removed_paths sees its deletion.
THEOREM NoOrphans == Spec => []NoOrphanVectors
<1>. QED
  BY WInvInit, WInvStep, WInvImplies, PTL DEF Spec

\* A full rebuild of a directory found unedited at its end leaves exactly its
\* chunks, whatever crashes, repairs and older runs had left behind.
THEOREM ReindexExact == Spec => []ReindexIsExact
<1>. QED
  BY WInvInit, WInvStep, WInvImplies, PTL DEF Spec

====
