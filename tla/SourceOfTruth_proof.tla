------------------------ MODULE SourceOfTruth_proof ------------------------
(* Proofs, for any number of manifests, versions, questions, runs, edits and *)
(* failures, of four properties.  A manifest that looks unchanged has all    *)
(* its chunks: SOTInv says what a repair and a run still owe.  Then, on top  *)
(* of it, the types (TInv), that answers about dependencies are backed, and  *)
(* that an answer begins with its source as it was since the question (FInv).*)
(* What the folds of the model compute is proved by induction on sets.       *)
EXTENDS SourceOfTruth, FiniteSetTheorems, WellFoundedInduction, TLAPS

-----------------------------------------------------------------------------
\* The conjuncts of the inductive invariant, beside EntryNeverLies.

\* The versions there have been.
Old == (1..last) \cup {None}

\* Version v is not that of file f, and will not be again.
Gone(f, v) == v = None \/ v # disk[f]

\* The collection has all chunks of version v of file f.
Full(f, v) == \A p \in DOMAIN Chunks(v) : p \in DOMAIN vec[f] /\ vec[f][p] = v

\* Repairs that have loaded the hash store and not yet saved it.
Under == {w \in Workers : rep[w].pc \in {"chunk", "hash", "upsert", "delete", "save"}}

\* As much of the types as the proof needs.
Typed ==
    /\ last \in Nat
    /\ disk \in [Files -> Old] /\ entry \in [Files -> Old]
    /\ vec = [f \in Files |-> vec[f]]
    /\ run \in [pc : {"idle", "clear", "store", "probe"}, snap : [Files -> Old],
                todo : SUBSET Files]
    /\ rep = [w \in Workers |-> rep[w]]
    /\ \A w \in Workers :
          rep[w] \in [pc : {"idle", "load", "chunk", "hash", "upsert", "delete", "save", "done"},
                      file : {rep[w].file}, hashes : [Files -> Old], read : {rep[w].read},
                      old : {rep[w].old}]

\* Repairs that overlap a run or each other excuse every file.
Overlap ==
    /\ \A v, w \in Under : v # w => Files \subseteq excused
    /\ RunActive /\ Under # {} => Files \subseteq excused

\* What repair r is to save for file f is right: for a file that it does not
\* touch, and for the one that it does once its chunks are stored.
Right(r, f) ==
    IF f # r.file
    THEN r.hashes[f] = entry[f] \/ Gone(f, r.hashes[f])
    ELSE /\ r.pc # "chunk" => r.read = disk[f] \/ Gone(f, entry[f])
         /\ r.pc \in {"upsert", "delete", "save"} =>
               r.hashes[f] = r.read \/ Gone(f, r.hashes[f])
         /\ r.pc \in {"delete", "save"} => Full(f, r.read)

Repairing == \A w \in Under, f \in Files \ excused : Right(rep[w], f)

\* A run has stored, or is to store, every file that is as it found it.
Storing ==
    \A f \in Files \ excused :
        /\ run.pc = "clear" => f \in run.todo \/ run.snap[f] = None
        /\ run.pc = "store" /\ run.snap[f] = disk[f] =>
              run.snap[f] = None \/ f \in run.todo \/ Full(f, run.snap[f])

-----------------------------------------------------------------------------
\* What the steps of a repair do to it.

Stages == {"idle", "load", "chunk", "hash", "upsert", "delete", "save", "done"}
RepairRecord(r) ==
    r \in [pc : Stages, file : {r.file}, hashes : [Files -> Old], read : {r.read},
           old : {r.old}]

\* Worker w's repair goes to a stage, with these values; the other's is left alone.
Moved(w, p, f, h, v, o) ==
    /\ rep' = [u \in Workers |-> rep'[u]]
    /\ RepairRecord(rep'[w])
    /\ rep'[w].pc = p /\ rep'[w].file = f /\ rep'[w].hashes = h
    /\ rep'[w].read = v /\ rep'[w].old = o
    /\ \A u \in Workers \ {w} : rep'[u] = rep[u]

LEMMA RepairType ==
  ASSUME Typed
  PROVE  /\ rep = [w \in Workers |-> rep[w]]
         /\ \A w \in Workers : RepairRecord(rep[w])
  BY DEF Typed, RepairRecord, Stages

\* A record in place of a worker's.
LEMMA Replaced ==
  ASSUME Typed, NEW w \in Workers, NEW r, RepairRecord(r), rep' = [rep EXCEPT ![w] = r]
  PROVE  Moved(w, r.pc, r.file, r.hashes, r.read, r.old)
  BY RepairType DEF Moved

LEMMA IdleRecord ==
  /\ RepairRecord(Idle) /\ Idle.pc = "idle"
  /\ \A p \in Stages : \A f :
        /\ RepairRecord([Idle EXCEPT !.pc = p, !.file = f])
        /\ [Idle EXCEPT !.pc = p, !.file = f].pc = p
<1>1. NoFiles \in [Files -> Old]
  BY DEF NoFiles, Old
<1>. QED
  BY <1>1 DEF Idle, RepairRecord, Stages

LEMMA LoadEffect ==
  ASSUME Typed, NEW w \in Workers, RepairLoad(w)
  PROVE  Moved(w, "chunk", rep[w].file, entry, rep[w].read, rep[w].old)
<1>. DEFINE r == [rep[w] EXCEPT !.pc = "chunk", !.hashes = entry]
<1>1. RepairRecord(rep[w]) /\ rep = [u \in Workers |-> rep[u]] /\ entry \in [Files -> Old]
  BY RepairType DEF Typed
<1>2. /\ RepairRecord(r) /\ r.pc = "chunk" /\ r.file = rep[w].file /\ r.hashes = entry
      /\ r.read = rep[w].read /\ r.old = rep[w].old
  BY <1>1 DEF RepairRecord, Stages
<1>3. rep' = [rep EXCEPT ![w] = r]
  BY <1>1 DEF RepairLoad
<1>. HIDE DEF r
<1>4. Moved(w, r.pc, r.file, r.hashes, r.read, r.old)
  BY <1>2, <1>3, Replaced
<1>. QED
  BY <1>2, <1>4

LEMMA ChunkEffect ==
  ASSUME Typed, NEW w \in Workers, RepairChunk(w)
  PROVE  LET f == rep[w].file
         IN Moved(w, IF disk[f] = None THEN "delete" ELSE "hash", f,
                  [rep[w].hashes EXCEPT ![f] = IF disk[f] = None THEN None ELSE @],
                  disk[f], DOMAIN vec[f])
<1>. DEFINE f == rep[w].file
            p == IF disk[f] = None THEN "delete" ELSE "hash"
            h == [rep[w].hashes EXCEPT ![f] = IF disk[f] = None THEN None ELSE @]
            v == disk[f]
            o == DOMAIN vec[f]
            r == [rep[w] EXCEPT !.read = v, !.old = o, !.pc = p, !.hashes = h]
<1>1. RepairRecord(rep[w]) /\ rep = [u \in Workers |-> rep[u]]
  BY RepairType
<1>2. p \in Stages
  BY DEF Stages
<1>3. h \in [Files -> Old]
  <2>1. rep[w].hashes \in [Files -> Old] /\ None \in Old
    BY <1>1 DEF RepairRecord, Old
  <2>. QED
    BY <2>1
<1>4. rep' = [rep EXCEPT ![w] = r]
  BY <1>1 DEF RepairChunk, RepairRecord
<1>. HIDE DEF p, h, v, o
<1>5. /\ RepairRecord(r) /\ r.pc = p /\ r.file = f /\ r.hashes = h /\ r.read = v /\ r.old = o
  BY <1>1, <1>2, <1>3 DEF RepairRecord
<1>. HIDE DEF r
<1>6. Moved(w, r.pc, r.file, r.hashes, r.read, r.old)
  BY <1>4, <1>5, Replaced
<1>. QED
  BY <1>5, <1>6 DEF p, h, v, o

LEMMA HashEffect ==
  ASSUME Typed, NEW w \in Workers, RepairHash(w)
  PROVE  LET f == rep[w].file
         IN Moved(w, "upsert", f,
                  [rep[w].hashes EXCEPT ![f] = IF disk[f] = None THEN @ ELSE disk[f]],
                  rep[w].read, rep[w].old)
<1>. DEFINE f == rep[w].file
            h == [rep[w].hashes EXCEPT ![f] = IF disk[f] = None THEN @ ELSE disk[f]]
            r == [rep[w] EXCEPT !.pc = "upsert", !.hashes = h]
<1>1. RepairRecord(rep[w]) /\ rep = [u \in Workers |-> rep[u]]
  BY RepairType
<1>2. h \in [Files -> Old]
  <2>1. rep[w].hashes \in [Files -> Old] /\ disk \in [Files -> Old]
    BY <1>1 DEF RepairRecord, Typed
  <2>. QED
    BY <2>1
<1>3. rep' = [rep EXCEPT ![w] = r]
  BY <1>1 DEF RepairHash, RepairRecord
<1>. HIDE DEF h
<1>4. /\ RepairRecord(r) /\ r.pc = "upsert" /\ r.file = f /\ r.hashes = h
      /\ r.read = rep[w].read /\ r.old = rep[w].old
  BY <1>1, <1>2 DEF RepairRecord, Stages
<1>. HIDE DEF r
<1>5. Moved(w, r.pc, r.file, r.hashes, r.read, r.old)
  BY <1>3, <1>4, Replaced
<1>. QED
  BY <1>4, <1>5 DEF h

\* A repair that goes to another stage.
LEMMA StageEffect ==
  ASSUME Typed, NEW w \in Workers, NEW p \in Stages, rep' = [rep EXCEPT ![w].pc = p]
  PROVE  Moved(w, p, rep[w].file, rep[w].hashes, rep[w].read, rep[w].old)
<1>. DEFINE r == [rep[w] EXCEPT !.pc = p]
<1>1. RepairRecord(rep[w]) /\ rep = [u \in Workers |-> rep[u]]
  BY RepairType
<1>2. rep' = [rep EXCEPT ![w] = r]
  BY <1>1
<1>3. /\ RepairRecord(r) /\ r.pc = p /\ r.file = rep[w].file /\ r.hashes = rep[w].hashes
      /\ r.read = rep[w].read /\ r.old = rep[w].old
  BY <1>1 DEF RepairRecord
<1>. HIDE DEF r
<1>4. Moved(w, r.pc, r.file, r.hashes, r.read, r.old)
  BY <1>2, <1>3, Replaced
<1>. QED
  BY <1>3, <1>4

\* A worker that begins a repair, or has none any more.
Reset(w) ==
    /\ rep' = [u \in Workers |-> rep'[u]]
    /\ RepairRecord(rep'[w]) /\ rep'[w].pc \in {"idle", "load", "done"}
    /\ \A u \in Workers \ {w} : rep'[u] = rep[u]

LEMMA ResetEffect ==
  ASSUME Typed, NEW w \in Workers, NEW f,
         \/ rep' = [rep EXCEPT ![w] = Idle]
         \/ \E p \in {"load", "done"} : rep' = [rep EXCEPT ![w] = [Idle EXCEPT !.pc = p, !.file = f]]
  PROVE  Reset(w)
<1>1. CASE rep' = [rep EXCEPT ![w] = Idle]
  <2>1. RepairRecord(Idle) /\ Idle.pc = "idle"
    BY IdleRecord DEF Stages
  <2>2. Moved(w, Idle.pc, Idle.file, Idle.hashes, Idle.read, Idle.old)
    BY <1>1, <2>1, Replaced
  <2>. QED
    BY <2>1, <2>2 DEF Moved, Reset
<1>2. ASSUME NEW p \in {"load", "done"}, rep' = [rep EXCEPT ![w] = [Idle EXCEPT !.pc = p, !.file = f]]
      PROVE  Reset(w)
  <2>. DEFINE r == [Idle EXCEPT !.pc = p, !.file = f]
  <2>1. RepairRecord(r) /\ r.pc = p
    <3>1. p \in Stages
      BY DEF Stages
    <3>. HIDE DEF r
    <3>2. RepairRecord([Idle EXCEPT !.pc = p, !.file = f]) /\ [Idle EXCEPT !.pc = p, !.file = f].pc = p
      BY <3>1, IdleRecord
    <3>. QED
      BY <3>2 DEF r
  <2>. HIDE DEF r
  <2>2. rep' = [rep EXCEPT ![w] = r]
    BY <1>2 DEF r
  <2>3. Moved(w, r.pc, r.file, r.hashes, r.read, r.old)
    BY <2>1, <2>2, Replaced
  <2>. QED
    BY <2>1, <2>3 DEF Moved, Reset
<1>. QED
  BY <1>1, <1>2

-----------------------------------------------------------------------------
\* Types.

LEMMA TypedAgain ==
  ASSUME Typed, last' \in Nat, last <= last', disk' \in [Files -> Old'],
         entry' \in [Files -> Old], vec' = [f \in Files |-> vec'[f]],
         run' \in [pc : {"idle", "clear", "store", "probe"}, snap : [Files -> Old],
                   todo : SUBSET Files],
         rep' = [w \in Workers |-> rep'[w]], \A w \in Workers : RepairRecord(rep'[w])
  PROVE  Typed'
<1>1. Old \subseteq Old'
  BY DEF Typed, Old
<1>2. entry' \in [Files -> Old']
  BY <1>1
<1>3. run' \in [pc : {"idle", "clear", "store", "probe"}, snap : [Files -> Old'],
                todo : SUBSET Files]
  <2>1. [Files -> Old] \subseteq [Files -> Old']
    BY <1>1
  <2>. QED
    BY <2>1
<1>4. \A w \in Workers :
         rep'[w] \in [pc : Stages, file : {rep'[w].file}, hashes : [Files -> Old'],
                      read : {rep'[w].read}, old : {rep'[w].old}]
  <2>1. [Files -> Old] \subseteq [Files -> Old']
    BY <1>1
  <2>. QED
    BY <2>1 DEF RepairRecord
<1>. QED
  BY <1>2, <1>3, <1>4 DEF Typed, Stages

\* A step that only lets repairs go on.
LEMMA TypedRepair ==
  ASSUME Typed, UNCHANGED <<disk, last, run>>, entry' \in [Files -> Old],
         vec' = [f \in Files |-> vec'[f]],
         rep' = [w \in Workers |-> rep'[w]], \A w \in Workers : RepairRecord(rep'[w])
  PROVE  Typed'
  BY TypedAgain DEF Typed, Old

-----------------------------------------------------------------------------
\* The inductive invariant.

SOTInv == Typed /\ Overlap /\ Repairing /\ Storing /\ EntryNeverLies

\* EntryNeverLies in terms of the operators above.
LEMMA EntryFacts ==
  EntryNeverLies <=> \A f \in Files \ excused :
                        run.pc \in {"idle", "probe"} => Gone(f, entry[f]) \/ Full(f, entry[f])
  BY DEF EntryNeverLies, LooksUnchanged, Gone, Full

LEMMA EntryAgain ==
  ASSUME \A f \in Files \ excused' :
            run'.pc \in {"idle", "probe"} => Gone(f, entry[f])' \/ Full(f, entry[f])'
  PROVE  EntryNeverLies'
  BY DEF EntryNeverLies, LooksUnchanged, Gone, Full

\* A worker that is reset while at most an entry of a file that is gone is
\* pruned: Recheck, Revalidate, EditEnd, RepairFails.
Pruned ==
    \/ entry' = entry
    \/ \E f : disk[f] = None /\ entry' = [entry EXCEPT ![f] = None]

LEMMA ResetStep ==
  ASSUME SOTInv, NEW w \in Workers, Reset(w), Pruned, UNCHANGED <<disk, last, vec, run, excused>>
  PROVE  SOTInv'
<1>. USE DEF SOTInv
<1>1. entry \in [Files -> Old] /\ disk \in [Files -> Old]
  BY DEF Typed
<1>2. \A f \in Files : entry'[f] = entry[f] \/ (disk[f] = None /\ entry'[f] = None)
  BY <1>1 DEF Pruned
<1>3. entry' \in [Files -> Old]
  BY <1>1 DEF Pruned, Old
<1>4. Typed'
  BY <1>3, RepairType, TypedRepair DEF Reset, Typed
<1>5. \A u \in Under' : u \in Under /\ rep'[u] = rep[u]
  BY DEF Reset, Under
<1>6. \A f \in Files : \A v : Gone(f, v)' <=> Gone(f, v)
  BY DEF Gone
<1>7. \A f \in Files : \A v : Full(f, v)' <=> Full(f, v)
  BY DEF Full
<1>8. Overlap'
  BY <1>5 DEF Overlap, RunActive
<1>9. Repairing'
  <2>1. SUFFICES ASSUME NEW u \in Under', NEW f \in Files \ excused'
                 PROVE  Right(rep[u], f)'
    BY DEF Repairing
  <2>2. rep'[u] = rep[u] /\ Right(rep[u], f) /\ UNCHANGED <<disk, vec>>
        /\ (entry'[f] = entry[f] \/ (disk[f] = None /\ entry'[f] = None))
    BY <1>2, <1>5 DEF Repairing
  <2>. QED
    BY <2>2 DEF Right, Gone, Full
<1>10. Storing'
  BY <1>7 DEF Storing
<1>11. EntryNeverLies'
  <2>1. SUFFICES ASSUME NEW f \in Files \ excused', run'.pc \in {"idle", "probe"}
                 PROVE  Gone(f, entry[f])' \/ Full(f, entry[f])'
    BY EntryAgain
  <2>2. Gone(f, entry[f]) \/ Full(f, entry[f])
    BY <2>1, EntryFacts
  <2>. QED
    BY <1>2, <1>7, <2>1, <2>2 DEF Gone, Full
<1>. QED
  BY <1>4, <1>8, <1>9, <1>10, <1>11

\* A step that changes none of this: questions, the edit engine before it
\* writes, the probe.
LEMMA StillStep ==
  ASSUME SOTInv, UNCHANGED <<disk, last, entry, vec, rep, excused>>,
         run' = run \/ (run.pc = "probe" /\ run' = NoRun)
  PROVE  SOTInv'
<1>. USE DEF SOTInv
<1>1. /\ run' \in [pc : {"idle", "clear", "store", "probe"}, snap : [Files -> Old],
                   todo : SUBSET Files]
      /\ RunActive' => RunActive
      /\ run' = run \/ (run.pc = "probe" /\ run'.pc = "idle")
  BY DEF NoRun, NoFiles, Old, Typed, RunActive
<1>2. Typed'
  <2>1. last' \in Nat /\ disk' \in [Files -> Old'] /\ last <= last'
    BY DEF Typed, Old
  <2>. QED
    BY <1>1, <2>1, RepairType, TypedAgain DEF Typed
<1>3. Overlap'
  BY <1>1 DEF Overlap, Under
<1>4. Repairing'
  <2>1. SUFFICES ASSUME NEW u \in Under', NEW f \in Files \ excused' PROVE Right(rep[u], f)'
    BY DEF Repairing
  <2>2. Right(rep[u], f)
    BY DEF Repairing, Under
  <2>. QED
    BY <2>2 DEF Right, Gone, Full
<1>5. Storing'
  BY <1>1 DEF Storing, Full
<1>6. EntryNeverLies'
  BY <1>1 DEF EntryNeverLies, LooksUnchanged
<1>. QED
  BY <1>2, <1>3, <1>4, <1>5, <1>6

\* A manifest is saved or deleted, by a person or by the edit engine, whose
\* repair begins then.
LEMMA DiskStep ==
  ASSUME SOTInv, NEW f, NEW v, disk' = [disk EXCEPT ![f] = v],
         \/ v = last + 1 /\ last' = last + 1
         \/ v = None /\ last' = last,
         rep' = rep \/ Reset("edit"), UNCHANGED <<entry, vec, run, excused>>
  PROVE  SOTInv'
<1>. USE DEF SOTInv
<1>1. last \in Nat /\ disk \in [Files -> Old] /\ entry \in [Files -> Old]
  BY DEF Typed
<1>2. last' \in Nat /\ last <= last' /\ Old \subseteq Old' /\ v \in Old'
  BY <1>1 DEF Old
<1>3. disk' \in [Files -> Old']
  BY <1>1, <1>2
<1>4. rep' = [w \in Workers |-> rep'[w]] /\ \A w \in Workers : RepairRecord(rep'[w])
  BY RepairType DEF Reset, Workers
<1>5. Typed'
  BY <1>1, <1>2, <1>3, <1>4, TypedAgain DEF Typed
<1>6. \A u \in Under' : u \in Under /\ rep'[u] = rep[u]
  BY DEF Reset, Under
  \* What is gone does not come back, and what was there is the old version.
<1>7. \A g \in Files : disk'[g] = disk[g] \/ \A x \in Old : Gone(g, x)'
  <2>1. v \notin Old \ {None}
    BY <1>1, NoneAssumption DEF Old
  <2>. QED
    BY <1>1, <2>1 DEF Gone
<1>8. Overlap'
  BY <1>6 DEF Overlap, RunActive
<1>9. Repairing'
  <2>1. SUFFICES ASSUME NEW u \in Under', NEW g \in Files \ excused' PROVE Right(rep[u], g)'
    BY DEF Repairing
  <2>2. rep'[u] = rep[u] /\ Right(rep[u], g)
    BY <1>6 DEF Repairing
  <2>3. entry[g] \in Old /\ rep[u].hashes[g] \in Old
    BY <1>1, <1>6, RepairType DEF RepairRecord, Under
  <2>4. CASE disk'[g] = disk[g]
    BY <2>2, <2>4 DEF Right, Gone, Full
  <2>5. CASE \A x \in Old : Gone(g, x)'
    <3>1. Gone(g, entry[g])' /\ Gone(g, rep[u].hashes[g])'
      BY <2>2, <2>3, <2>5 DEF Gone
    <3>2. Full(g, rep[u].read) => Full(g, rep[u].read)'
      BY <2>2 DEF Full
    <3>. QED
      BY <2>2, <3>1, <3>2 DEF Right
  <2>. QED
    BY <1>7, <2>4, <2>5
<1>10. Storing'
  <2>1. SUFFICES ASSUME NEW g \in Files \ excused'
                 PROVE  /\ run'.pc = "clear" => g \in run'.todo \/ run'.snap[g] = None
                        /\ run'.pc = "store" /\ run'.snap[g] = disk'[g] =>
                              run'.snap[g] = None \/ g \in run'.todo \/ Full(g, run.snap[g])'
    BY DEF Storing
  <2>2. run.snap[g] \in Old
    BY DEF Typed
  <2>. QED
    BY <1>7, <2>2 DEF Storing, Gone, Full
<1>11. EntryNeverLies'
  <2>1. SUFFICES ASSUME NEW g \in Files \ excused', run'.pc \in {"idle", "probe"}
                 PROVE  Gone(g, entry[g])' \/ Full(g, entry[g])'
    BY EntryAgain
  <2>2. Gone(g, entry[g]) \/ Full(g, entry[g])
    BY <2>1, EntryFacts
  <2>. QED
    BY <1>1, <1>7, <2>1, <2>2 DEF Gone, Full
<1>. QED
  BY <1>5, <1>8, <1>9, <1>10, <1>11

-----------------------------------------------------------------------------
\* The index run.

\* When every file is excused only the types are left to say.
LEMMA AllExcused ==
  ASSUME Typed', Files \subseteq excused'
  PROVE  SOTInv'
  BY DEF SOTInv, Overlap, Repairing, Storing, EntryNeverLies

\* What the collection has of a file to which a version's chunks are written.
LEMMA UpsertedFull ==
  ASSUME NEW f, NEW v, vec'[f] = Upserted(vec[f], Chunks(v))
  PROVE  Full(f, v)'
<1>1. \A p \in DOMAIN Chunks(v) : Chunks(v)[p] = v
  BY DEF Chunks
<1>. HIDE DEF Chunks
<1>2. \A p \in DOMAIN Chunks(v) : p \in DOMAIN vec'[f] /\ vec'[f][p] = Chunks(v)[p]
  BY DEF Upserted
<1>. QED
  BY <1>1, <1>2 DEF Full, Chunks

\* A step of a run while no repair is under way.
LEMMA RunAgain ==
  ASSUME SOTInv, UNCHANGED <<disk, last, rep, excused>>, entry' \in [Files -> Old],
         vec' = [f \in Files |-> vec'[f]],
         run' \in [pc : {"idle", "clear", "store", "probe"}, snap : [Files -> Old],
                   todo : SUBSET Files],
         Under = {} \/ Files \subseteq excused', Storing', EntryNeverLies'
  PROVE  SOTInv'
<1>1. last \in Nat /\ last' \in Nat /\ last <= last' /\ disk' \in [Files -> Old']
  BY DEF SOTInv, Typed, Old
<1>2. Typed'
  BY <1>1, RepairType, TypedAgain DEF SOTInv, Typed
<1>3. CASE Files \subseteq excused'
  BY <1>2, <1>3, AllExcused
<1>4. CASE Under = {}
  <2>1. Under' = {}
    BY <1>4 DEF Under
  <2>. QED
    BY <1>2, <2>1 DEF SOTInv, Overlap, Repairing
<1>. QED
  BY <1>3, <1>4

LEMMA RunStartStep ==
  ASSUME SOTInv, NEW forced \in BOOLEAN, RunStart(forced)
  PROVE  SOTInv'
<1>. DEFINE changed == {f \in Files : entry[f] # disk[f]}
            full == forced \/ \E f \in Files : entry[f] # None /\ disk[f] = None
<1>1. /\ disk \in [Files -> Old] /\ entry \in [Files -> Old] /\ last \in Nat
      /\ vec = [f \in Files |-> vec[f]]
  BY DEF SOTInv, Typed
<1>2. /\ run.pc = "idle"
      /\ run' = [pc |-> IF full THEN "clear" ELSE "store", snap |-> disk,
                 todo |-> IF full THEN Present(disk) ELSE changed]
      /\ excused' = IF RepairActive # {} THEN Files ELSE excused
      /\ UNCHANGED <<disk, last, rep, entry, vec>>
  BY DEF RunStart, bystanders
<1>3. /\ run'.pc = IF full THEN "clear" ELSE "store"
      /\ run'.snap = disk
      /\ run'.todo = IF full THEN Present(disk) ELSE changed
  BY <1>2
<1>4. run' \in [pc : {"idle", "clear", "store", "probe"}, snap : [Files -> Old],
                todo : SUBSET Files]
  BY <1>1, <1>2 DEF Present
<1>5. Typed'
  <2>1. disk' \in [Files -> Old'] /\ last' \in Nat /\ last <= last'
    BY <1>1, <1>2 DEF Old
  <2>. QED
    BY <1>1, <1>2, <1>4, <2>1, RepairType, TypedAgain DEF SOTInv
<1>6. CASE RepairActive # {}
  BY <1>2, <1>5, <1>6, AllExcused
<1>7. CASE RepairActive = {}
  <2>1. Under = {} /\ excused' = excused
    BY <1>2, <1>7 DEF Under, RepairActive
  <2>2. Storing'
    <3>1. SUFFICES ASSUME NEW f \in Files \ excused
                   PROVE  /\ full => f \in run'.todo \/ run'.snap[f] = None
                          /\ ~full => run'.snap[f] = None \/ f \in run'.todo
                                                          \/ Full(f, run.snap[f])'
      BY <1>3, <2>1 DEF Storing
    <3>2. full => f \in run'.todo \/ run'.snap[f] = None
      BY <1>3 DEF Present
    <3>3. ASSUME ~full, f \notin changed
          PROVE  run'.snap[f] = None \/ Full(f, run.snap[f])'
      <4>1. entry[f] = disk[f]
        BY <3>3
      <4>2. Gone(f, entry[f]) \/ Full(f, entry[f])
        BY <1>2, <3>1, EntryFacts DEF SOTInv
      <4>. QED
        BY <1>2, <1>3, <4>1, <4>2 DEF Gone, Full
    <3>. QED
      BY <1>3, <3>2, <3>3
  <2>3. EntryNeverLies'
    BY <1>3 DEF EntryNeverLies
  <2>4. Overlap' /\ Repairing'
    <3>1. Under' = {}
      BY <1>2, <2>1 DEF Under
    <3>. QED
      BY <3>1 DEF Overlap, Repairing
  <2>. QED
    BY <1>5, <2>2, <2>3, <2>4 DEF SOTInv
<1>. QED
  BY <1>6, <1>7

\* While a run is active and a repair under way every file is excused.
LEMMA RunAlone ==
  ASSUME SOTInv, RunActive, excused' = excused
  PROVE  Under = {} \/ Files \subseteq excused'
  BY DEF SOTInv, Overlap

LEMMA RunClearStep ==
  ASSUME SOTInv, RunClear
  PROVE  SOTInv'
<1>1. /\ run.pc = "clear" /\ run' = [run EXCEPT !.pc = "store"]
      /\ vec' = [f \in Files |-> <<>>] /\ UNCHANGED <<disk, last, rep, entry, excused>>
  BY DEF RunClear, bystanders
<1>2. /\ run' \in [pc : {"idle", "clear", "store", "probe"}, snap : [Files -> Old],
                   todo : SUBSET Files]
      /\ run'.pc = "store" /\ run'.snap = run.snap /\ run'.todo = run.todo
  BY <1>1 DEF SOTInv, Typed
<1>3. Under = {} \/ Files \subseteq excused'
  BY <1>1, RunAlone DEF RunActive
<1>4. Storing'
  BY <1>1, <1>2 DEF SOTInv, Storing
<1>5. EntryNeverLies'
  BY <1>2 DEF EntryNeverLies
<1>6. entry' \in [Files -> Old] /\ vec' = [f \in Files |-> vec'[f]]
  BY <1>1 DEF SOTInv, Typed
<1>. QED
  BY <1>1, <1>2, <1>3, <1>4, <1>5, <1>6, RunAgain

LEMMA RunStoreStep ==
  ASSUME SOTInv, NEW f \in Files, RunStore(f)
  PROVE  SOTInv'
<1>1. /\ run.pc = "store" /\ run' = [run EXCEPT !.todo = @ \ {f}]
      /\ vec' = [vec EXCEPT ![f] = Upserted(@, Chunks(disk[f]))]
      /\ UNCHANGED <<disk, last, rep, entry, excused>>
  BY DEF RunStore, bystanders
<1>2. /\ run' \in [pc : {"idle", "clear", "store", "probe"}, snap : [Files -> Old],
                   todo : SUBSET Files]
      /\ run'.pc = "store" /\ run'.snap = run.snap /\ run'.todo = run.todo \ {f}
  BY <1>1 DEF SOTInv, Typed
<1>3. vec = [g \in Files |-> vec[g]]
  BY DEF SOTInv, Typed
<1>4. /\ vec' = [g \in Files |-> vec'[g]] /\ \A g \in Files \ {f} : vec'[g] = vec[g]
      /\ vec'[f] = Upserted(vec[f], Chunks(disk[f]))
  BY <1>1, <1>3
<1>5. Full(f, disk[f])'
  <2>1. \A v : vec'[f] = Upserted(vec[f], Chunks(v)) => Full(f, v)'
    BY UpsertedFull
  <2>. QED
    BY <1>1, <1>4, <2>1 DEF Full
<1>6. Storing'
  <2>1. SUFFICES ASSUME NEW g \in Files \ excused, run.snap[g] = disk[g], g \notin run.todo \ {f}
                 PROVE  run.snap[g] = None \/ Full(g, run.snap[g])'
    BY <1>1, <1>2 DEF Storing
  <2>2. CASE g = f
    BY <1>1, <1>2, <1>5, <2>1, <2>2 DEF Full
  <2>3. CASE g # f
    <3>1. run.snap[g] = None \/ Full(g, run.snap[g])
      BY <1>1, <2>1, <2>3 DEF SOTInv, Storing
    <3>. QED
      BY <1>2, <1>4, <2>3, <3>1 DEF Full
  <2>. QED
    BY <2>2, <2>3
<1>7. EntryNeverLies'
  BY <1>2 DEF EntryNeverLies
<1>8. Under = {} \/ Files \subseteq excused'
  BY <1>1, RunAlone DEF RunActive
<1>9. entry' \in [Files -> Old]
  BY <1>1 DEF SOTInv, Typed
<1>. QED
  BY <1>1, <1>2, <1>4, <1>6, <1>7, <1>8, <1>9, RunAgain

LEMMA RunSaveStep ==
  ASSUME SOTInv, RunSave
  PROVE  SOTInv'
<1>1. /\ run.pc = "store" /\ run.todo = {} /\ run' = [NoRun EXCEPT !.pc = "probe"]
      /\ entry' = run.snap /\ UNCHANGED <<disk, last, rep, vec, excused>>
  BY DEF RunSave, bystanders
<1>2. /\ run' \in [pc : {"idle", "clear", "store", "probe"}, snap : [Files -> Old],
                   todo : SUBSET Files]
      /\ run'.pc = "probe"
  BY <1>1 DEF NoRun, NoFiles, Old
<1>3. Storing'
  BY <1>2 DEF Storing
<1>4. EntryNeverLies'
  <2>1. SUFFICES ASSUME NEW f \in Files \ excused' PROVE Gone(f, entry[f])' \/ Full(f, entry[f])'
    BY EntryAgain
  <2>2. run.snap[f] = disk[f] => run.snap[f] = None \/ Full(f, run.snap[f])
    BY <1>1, <2>1 DEF SOTInv, Storing
  <2>. QED
    BY <1>1, <2>2 DEF Gone, Full
<1>5. Under = {} \/ Files \subseteq excused'
  BY <1>1, RunAlone DEF RunActive
<1>6. entry' \in [Files -> Old] /\ vec' = [f \in Files |-> vec'[f]]
  BY <1>1 DEF SOTInv, Typed
<1>. QED
  BY <1>1, <1>2, <1>3, <1>4, <1>5, <1>6, RunAgain

LEMMA RunFailsStep ==
  ASSUME SOTInv, RunFails
  PROVE  SOTInv'
<1>1. run' = NoRun /\ excused' = Files /\ UNCHANGED <<disk, last, rep, entry, vec>>
  BY DEF RunFails, bystanders, store
<1>2. run' \in [pc : {"idle", "clear", "store", "probe"}, snap : [Files -> Old],
                todo : SUBSET Files]
  BY <1>1 DEF NoRun, NoFiles, Old
<1>3. disk' \in [Files -> Old'] /\ last' \in Nat /\ last <= last'
  BY <1>1 DEF SOTInv, Typed, Old
<1>4. Typed'
  BY <1>1, <1>2, <1>3, RepairType, TypedAgain DEF SOTInv, Typed
<1>. QED
  BY <1>1, <1>4, AllExcused

-----------------------------------------------------------------------------
\* The repairs.

\* A repair that is under way is alone, or every file is excused.
LEMMA RepairAlone ==
  ASSUME SOTInv, NEW w \in Under
  PROVE  Files \subseteq excused \/ (Under = {w} /\ run.pc = "idle")
  BY DEF SOTInv, Overlap, RunActive

\* What a step of a repair must show.
LEMMA RepairAgain ==
  ASSUME SOTInv, NEW w \in Workers, Typed', UNCHANGED <<disk, run>>, run.pc = "idle",
         Under' \subseteq {w}, w \in Under' => \A f \in Files \ excused' : Right(rep[w], f)',
         EntryNeverLies'
  PROVE  SOTInv'
<1>1. Overlap'
  BY DEF Overlap, RunActive
<1>2. Repairing'
  BY DEF Repairing
<1>3. Storing'
  BY DEF Storing
<1>. QED
  BY <1>1, <1>2, <1>3 DEF SOTInv

\* A repair that moves keeps the types.
LEMMA MovedTyped ==
  ASSUME SOTInv, NEW w \in Workers, NEW p, NEW f, NEW h, NEW v, NEW o, Moved(w, p, f, h, v, o),
         UNCHANGED <<disk, last, run>>, entry' \in [Files -> Old], vec' = [g \in Files |-> vec'[g]]
  PROVE  Typed'
  BY RepairType, TypedRepair DEF SOTInv, Moved

\* Nor does it change who else is under way.
LEMMA MovedUnder ==
  ASSUME NEW w \in Workers, NEW p, NEW f, NEW h, NEW v, NEW o, Moved(w, p, f, h, v, o)
  PROVE  Under' \ {w} = Under \ {w}
  BY DEF Moved, Under

LEMMA LoadStep ==
  ASSUME SOTInv, NEW w \in Workers, RepairLoad(w)
  PROVE  SOTInv'
<1>. USE DEF SOTInv
<1>1. /\ UNCHANGED <<disk, last, run, entry, vec>>
      /\ excused' = IF RunActive \/ RepairActive \ {w} # {} THEN Files ELSE excused
  BY DEF RepairLoad, outside
<1>2. Moved(w, "chunk", rep[w].file, entry, rep[w].read, rep[w].old)
  BY LoadEffect
<1>3. Typed'
  BY <1>1, <1>2, MovedTyped DEF Typed
<1>4. CASE RunActive \/ RepairActive \ {w} # {}
  BY <1>1, <1>3, <1>4, AllExcused
<1>5. CASE ~RunActive /\ RepairActive \ {w} = {}
  <2>1. run.pc = "idle" /\ Under' \subseteq {w} /\ excused' = excused
    <3>1. Under \ {w} = {}
      BY <1>5 DEF Under, RepairActive
    <3>. QED
      BY <1>1, <1>2, <1>5, <3>1, MovedUnder DEF RunActive
  <2>2. \A f \in Files : Right(rep[w], f)'
    BY <1>1, <1>2 DEF Moved, Right
  <2>3. EntryNeverLies'
    BY <1>1, <2>1 DEF EntryNeverLies, LooksUnchanged
  <2>. QED
    BY <1>1, <1>3, <2>1, <2>2, <2>3, RepairAgain
<1>. QED
  BY <1>4, <1>5

LEMMA ChunkStep ==
  ASSUME SOTInv, NEW w \in Workers, RepairChunk(w)
  PROVE  SOTInv'
<1>. USE DEF SOTInv
<1>. DEFINE f == rep[w].file
            p == IF disk[f] = None THEN "delete" ELSE "hash"
            h == [rep[w].hashes EXCEPT ![f] = IF disk[f] = None THEN None ELSE @]
<1>1. UNCHANGED <<disk, last, run, entry, vec, excused>> /\ w \in Under /\ rep[w].pc = "chunk"
  BY DEF RepairChunk, outside, Under
<1>2. Moved(w, p, f, h, disk[f], DOMAIN vec[f])
  BY ChunkEffect
<1>3. p \in {"delete", "hash"} /\ (p = "delete" => disk[f] = None)
  OBVIOUS
<1>4. rep[w].hashes \in [Files -> Old]
  BY RepairType DEF RepairRecord
<1>5. /\ \A g \in Files : g # f => h[g] = rep[w].hashes[g]
      /\ f \in Files /\ disk[f] = None => h[f] = None
  BY <1>4
<1>. HIDE DEF p, h
<1>6. Typed'
  BY <1>1, <1>2, MovedTyped DEF Typed
<1>7. CASE Files \subseteq excused
  BY <1>1, <1>6, <1>7, AllExcused
<1>8. CASE Under = {w} /\ run.pc = "idle"
  <2>1. Under' \subseteq {w}
    BY <1>2, <1>8, MovedUnder
  <2>2. ASSUME NEW g \in Files \ excused' PROVE Right(rep[w], g)'
    <3>1. Right(rep[w], g)
      BY <1>1, <2>2 DEF Repairing
    <3>2. CASE g # f
      BY <1>1, <1>2, <1>5, <3>1, <3>2 DEF Right, Moved, Gone
    <3>3. CASE g = f
      <4>1. p = "delete" => DOMAIN Chunks(disk[f]) = {}
        BY <1>3 DEF Chunks
      <4>2. p = "delete" => h[f] = disk[f]
        BY <1>3, <1>5, <3>3
      <4>. QED
        BY <1>1, <1>2, <1>3, <3>3, <4>1, <4>2 DEF Right, Moved, Full
    <3>. QED
      BY <3>2, <3>3
  <2>3. EntryNeverLies'
    BY <1>1 DEF EntryNeverLies, LooksUnchanged
  <2>. QED
    BY <1>1, <1>6, <1>8, <2>1, <2>2, <2>3, RepairAgain
<1>. QED
  BY <1>1, <1>7, <1>8, RepairAlone

LEMMA HashStep ==
  ASSUME SOTInv, NEW w \in Workers, RepairHash(w)
  PROVE  SOTInv'
<1>. USE DEF SOTInv
<1>. DEFINE f == rep[w].file
            h == [rep[w].hashes EXCEPT ![f] = IF disk[f] = None THEN @ ELSE disk[f]]
<1>1. /\ UNCHANGED <<disk, last, run, entry, vec>> /\ w \in Under /\ rep[w].pc = "hash"
      /\ excused' = IF disk[f] \in {rep[w].read, None} THEN excused ELSE excused \cup {f}
  BY DEF RepairHash, outside, Under
<1>2. Moved(w, "upsert", f, h, rep[w].read, rep[w].old)
  BY HashEffect
<1>3. rep[w].hashes \in [Files -> Old]
  BY RepairType DEF RepairRecord
<1>4. /\ \A g \in Files : g # f => h[g] = rep[w].hashes[g]
      /\ f \in Files /\ disk[f] # None => h[f] = disk[f]
  BY <1>3
<1>. HIDE DEF h
<1>5. Typed'
  BY <1>1, <1>2, MovedTyped DEF Typed
<1>6. CASE Files \subseteq excused
  BY <1>1, <1>5, <1>6, AllExcused
<1>7. CASE Under = {w} /\ run.pc = "idle"
  <2>1. Under' \subseteq {w}
    BY <1>2, <1>7, MovedUnder
  <2>2. ASSUME NEW g \in Files \ excused' PROVE Right(rep[w], g)'
    <3>1. Right(rep[w], g)
      BY <1>1, <2>2 DEF Repairing
    <3>2. CASE g # f
      BY <1>1, <1>2, <1>4, <3>1, <3>2 DEF Right, Moved, Gone
    <3>3. CASE g = f
      <4>1. disk[f] \in {rep[w].read, None}
        BY <1>1, <2>2, <3>3
      <4>2. h[f] = rep[w].read \/ disk[f] = None
        BY <1>4, <3>3, <4>1
      <4>. QED
        BY <1>1, <1>2, <3>1, <3>3, <4>2 DEF Right, Moved, Gone
    <3>. QED
      BY <3>2, <3>3
  <2>3. EntryNeverLies'
    BY <1>1 DEF EntryNeverLies, LooksUnchanged
  <2>. QED
    BY <1>1, <1>5, <1>7, <2>1, <2>2, <2>3, RepairAgain
<1>. QED
  BY <1>1, <1>6, <1>7, RepairAlone

LEMMA UpsertStep ==
  ASSUME SOTInv, NEW w \in Workers, RepairUpsert(w)
  PROVE  SOTInv'
<1>. USE DEF SOTInv
<1>. DEFINE f == rep[w].file
            v == rep[w].read
<1>1. /\ UNCHANGED <<disk, last, run, entry, excused>> /\ w \in Under /\ rep[w].pc = "upsert"
      /\ vec' = [vec EXCEPT ![f] = Upserted(@, Chunks(v))]
      /\ rep' = [rep EXCEPT ![w].pc = "delete"]
  BY DEF RepairUpsert, outside, Under
<1>2. Moved(w, "delete", f, rep[w].hashes, v, rep[w].old)
  BY <1>1, StageEffect DEF Stages
<1>3. vec = [g \in Files |-> vec[g]]
  BY DEF Typed
<1>4. /\ vec' = [g \in Files |-> vec'[g]] /\ \A g \in Files \ {f} : vec'[g] = vec[g]
      /\ f \in Files => vec'[f] = Upserted(vec[f], Chunks(v))
  BY <1>1, <1>3
<1>5. Typed'
  BY <1>1, <1>2, <1>4, MovedTyped DEF Typed
<1>6. CASE Files \subseteq excused
  BY <1>1, <1>5, <1>6, AllExcused
<1>7. CASE Under = {w} /\ run.pc = "idle"
  <2>1. Under' \subseteq {w}
    BY <1>2, <1>7, MovedUnder
  <2>2. f \in Files => \A p \in DOMAIN Chunks(v) : p \in DOMAIN vec'[f] /\ vec'[f][p] = v
    <3>1. \A p \in DOMAIN Chunks(v) : Chunks(v)[p] = v
      BY DEF Chunks
    <3>. HIDE DEF v
    <3>. QED
      BY <1>4, <3>1 DEF Upserted
  <2>3. ASSUME NEW g \in Files \ excused' PROVE Right(rep[w], g)'
    <3>1. Right(rep[w], g)
      BY <1>1, <2>3 DEF Repairing
    <3>2. rep'[w].read = v /\ rep'[w].file = f /\ rep'[w].hashes = rep[w].hashes
          /\ rep'[w].pc = "delete"
      BY <1>2 DEF Moved
    <3>3. CASE g # f
      BY <1>1, <3>1, <3>2, <3>3 DEF Right, Gone
    <3>4. CASE g = f
      BY <1>1, <2>2, <3>1, <3>2, <3>4 DEF Right, Gone, Full
    <3>. QED
      BY <3>3, <3>4
  <2>4. EntryNeverLies'
    <3>1. SUFFICES ASSUME NEW g \in Files \ excused' PROVE Gone(g, entry[g])' \/ Full(g, entry[g])'
      BY EntryAgain
    <3>2. Gone(g, entry[g]) \/ Full(g, entry[g])
      BY <1>1, <1>7, <3>1, EntryFacts
    <3>3. CASE g # f
      BY <1>1, <1>4, <3>2, <3>3 DEF Gone, Full
    <3>4. CASE g = f
      <4>1. v = disk[f] \/ Gone(f, entry[f])
        BY <1>1, <3>1, <3>4 DEF Repairing, Right
      <4>. QED
        BY <1>1, <2>2, <3>4, <4>1 DEF Gone, Full
    <3>. QED
      BY <3>3, <3>4
  <2>. QED
    BY <1>1, <1>5, <1>7, <2>1, <2>3, <2>4, RepairAgain
<1>. QED
  BY <1>1, <1>6, <1>7, RepairAlone

LEMMA DeleteStep ==
  ASSUME SOTInv, NEW w \in Workers, RepairDelete(w)
  PROVE  SOTInv'
<1>. USE DEF SOTInv
<1>. DEFINE f == rep[w].file
            v == rep[w].read
            kept == DOMAIN vec[f] \ (rep[w].old \ DOMAIN Chunks(v))
<1>1. /\ UNCHANGED <<disk, last, run, entry, excused>> /\ w \in Under /\ rep[w].pc = "delete"
      /\ vec' = [vec EXCEPT ![f] = Restrict(vec[f], kept)]
      /\ rep' = [rep EXCEPT ![w].pc = "save"]
  <2>1. vec = [g \in Files |-> vec[g]]
    BY DEF Typed
  <2>. QED
    BY <2>1 DEF RepairDelete, outside, Under
<1>2. Moved(w, "save", f, rep[w].hashes, v, rep[w].old)
  BY <1>1, StageEffect DEF Stages
<1>3. vec = [g \in Files |-> vec[g]]
  BY DEF Typed
<1>4. /\ vec' = [g \in Files |-> vec'[g]] /\ \A g \in Files \ {f} : vec'[g] = vec[g]
      /\ f \in Files => vec'[f] = [p \in kept |-> vec[f][p]]
  BY <1>1, <1>3 DEF Restrict
<1>5. Typed'
  BY <1>1, <1>2, <1>4, MovedTyped DEF Typed
<1>6. CASE Files \subseteq excused
  BY <1>1, <1>5, <1>6, AllExcused
<1>7. CASE Under = {w} /\ run.pc = "idle"
  <2>1. Under' \subseteq {w}
    BY <1>2, <1>7, MovedUnder
  <2>2. f \in Files /\ Full(f, v) => Full(f, v)'
    <3>1. f \in Files =>
             \A p \in DOMAIN Chunks(v) : p \in DOMAIN vec[f] =>
                p \in DOMAIN vec'[f] /\ vec'[f][p] = vec[f][p]
      BY <1>4
    <3>2. rep'[w].read = v /\ rep'[w].file = f
      BY <1>2 DEF Moved
    <3>. QED
      BY <3>1, <3>2 DEF Full
  <2>3. ASSUME NEW g \in Files \ excused' PROVE Right(rep[w], g)'
    <3>1. Right(rep[w], g)
      BY <1>1, <2>3 DEF Repairing
    <3>2. rep'[w].read = v /\ rep'[w].file = f /\ rep'[w].hashes = rep[w].hashes
          /\ rep'[w].pc = "save"
      BY <1>2 DEF Moved
    <3>3. CASE g # f
      BY <1>1, <3>1, <3>2, <3>3 DEF Right, Gone
    <3>4. CASE g = f
      BY <1>1, <2>2, <3>1, <3>2, <3>4 DEF Right, Gone, Full
    <3>. QED
      BY <3>3, <3>4
  <2>4. EntryNeverLies'
    <3>1. SUFFICES ASSUME NEW g \in Files \ excused' PROVE Gone(g, entry[g])' \/ Full(g, entry[g])'
      BY EntryAgain
    <3>2. Gone(g, entry[g]) \/ Full(g, entry[g])
      BY <1>1, <1>7, <3>1, EntryFacts
    <3>3. CASE g # f
      BY <1>1, <1>4, <3>2, <3>3 DEF Gone, Full
    <3>4. CASE g = f
      <4>1. (v = disk[f] \/ Gone(f, entry[f])) /\ Full(f, v)
        BY <1>1, <3>1, <3>4 DEF Repairing, Right
      <4>2. rep'[w].read = v /\ rep'[w].file = f
        BY <1>2 DEF Moved
      <4>. QED
        BY <1>1, <2>2, <3>4, <4>1, <4>2 DEF Gone, Full
    <3>. QED
      BY <3>3, <3>4
  <2>. QED
    BY <1>1, <1>5, <1>7, <2>1, <2>3, <2>4, RepairAgain
<1>. QED
  BY <1>1, <1>6, <1>7, RepairAlone

LEMMA SaveStep ==
  ASSUME SOTInv, NEW w \in Workers, RepairSave(w)
  PROVE  SOTInv'
<1>. USE DEF SOTInv
<1>1. /\ UNCHANGED <<disk, last, run, vec, excused>> /\ w \in Under /\ rep[w].pc = "save"
      /\ entry' = rep[w].hashes
      /\ rep' = [rep EXCEPT ![w] = [Idle EXCEPT !.pc = "done", !.file = rep[w].file]]
  BY DEF RepairSave, outside, Under
<1>2. Reset(w)
  BY <1>1, ResetEffect
<1>3. rep[w].hashes \in [Files -> Old]
  BY RepairType DEF RepairRecord
<1>4. Typed'
  BY <1>1, <1>2, <1>3, RepairType, TypedRepair DEF Reset, Typed
<1>5. CASE Files \subseteq excused
  BY <1>1, <1>4, <1>5, AllExcused
<1>6. CASE Under = {w} /\ run.pc = "idle"
  <2>1. Under' = {}
    BY <1>2, <1>6 DEF Under, Reset
  <2>2. EntryNeverLies'
    <3>1. SUFFICES ASSUME NEW f \in Files \ excused' PROVE Gone(f, entry[f])' \/ Full(f, entry[f])'
      BY EntryAgain
    <3>2. Right(rep[w], f)
      BY <1>1, <3>1 DEF Repairing
    <3>3. Gone(f, entry[f]) \/ Full(f, entry[f])
      BY <1>1, <1>6, <3>1, EntryFacts
    <3>. QED
      BY <1>1, <3>2, <3>3 DEF Right, Gone, Full
  <2>. QED
    BY <1>1, <1>4, <1>6, <2>1, <2>2, RepairAgain
<1>. QED
  BY <1>1, <1>5, <1>6, RepairAlone

-----------------------------------------------------------------------------
\* The theorem.

LEMMA SOTInit == Init => SOTInv
<1>. SUFFICES ASSUME Init PROVE SOTInv
  OBVIOUS
<1>1. /\ last = 1 /\ disk = [f \in Files |-> 1] /\ entry = disk /\ run = NoRun
      /\ vec = [f \in Files |-> Chunks(1)] /\ rep = [w \in Workers |-> Idle]
  BY DEF Init
<1>2. Old = {1} \cup {None}
  BY <1>1 DEF Old
<1>3. run.pc = "idle" /\ run \in [pc : {"idle", "clear", "store", "probe"},
                                 snap : [Files -> Old], todo : SUBSET Files]
  BY <1>1, <1>2 DEF NoRun, NoFiles
<1>4. RepairRecord(Idle) /\ Idle.pc = "idle"
  BY IdleRecord
<1>5. Typed
  BY <1>1, <1>2, <1>3, <1>4 DEF Typed, RepairRecord, Stages
<1>6. Under = {}
  BY <1>1, <1>4 DEF Under
<1>7. EntryNeverLies
  <2>1. \A p \in DOMAIN Chunks(1) : Chunks(1)[p] = 1
    BY DEF Chunks
  <2>. QED
    BY <1>1, <2>1 DEF EntryNeverLies
<1>. QED
  BY <1>3, <1>5, <1>6, <1>7 DEF SOTInv, Overlap, Repairing, Storing

LEMMA SOTStep == SOTInv /\ [Next]_vars => SOTInv'
<1>. SUFFICES ASSUME SOTInv, [Next]_vars PROVE SOTInv'
  OBVIOUS
<1>. USE DEF store, aside, beside, bystanders
<1>0. Typed /\ "ask" \in Workers /\ "edit" \in Workers
  BY DEF SOTInv, Workers
<1>1. ASSUME NEW question \in Questions, Ask(question) PROVE SOTInv'
  BY <1>1, StillStep DEF Ask
<1>2. ASSUME NEW old \in BOOLEAN, Lookup(old) PROVE SOTInv'
  BY <1>2, StillStep DEF Lookup
<1>3. CASE Validate \/ Collect
  BY <1>3, StillStep DEF Validate, Collect
<1>4. CASE Recheck
  <2>1. CASE HealthyNormal(ask.ranked[1])
    BY <1>4, <2>1, StillStep DEF Recheck
  <2>2. CASE ~HealthyNormal(ask.ranked[1])
    <3>1. /\ rep' = [rep EXCEPT !["ask"] = [Idle EXCEPT !.pc = "load", !.file = ask.ranked[1]]]
          /\ UNCHANGED <<disk, last, vec, run, excused>>
      BY <1>4, <2>2 DEF Recheck
    <3>2. Pruned
      BY <1>4, <2>2 DEF Recheck, Pruned
    <3>3. Reset("ask")
      BY <1>0, <3>1, ResetEffect
    <3>. QED
      BY <1>0, <3>1, <3>2, <3>3, ResetStep
  <2>. QED
    BY <2>1, <2>2
<1>5. CASE Revalidate
  <2>1. rep' = [rep EXCEPT !["ask"] = Idle] /\ UNCHANGED <<disk, last, entry, vec, run, excused>>
    BY <1>5 DEF Revalidate
  <2>2. Reset("ask") /\ Pruned
    BY <1>0, <2>1, ResetEffect DEF Pruned
  <2>. QED
    BY <1>0, <2>1, <2>2, ResetStep
<1>6. ASSUME NEW f \in Files, EditLoad(f) PROVE SOTInv'
  BY <1>6, StillStep DEF EditLoad
<1>7. ASSUME NEW once \in BOOLEAN, EditHash \/ EditRead(once) PROVE SOTInv'
  BY <1>7, StillStep DEF EditHash, EditRead
<1>8. CASE EditWrite
  <2>1. /\ disk' = [disk EXCEPT ![edit.file] = last + 1] /\ last' = last + 1
        /\ rep' = [rep EXCEPT !["edit"] = [Idle EXCEPT !.pc = "load", !.file = edit.file]]
        /\ UNCHANGED <<entry, vec, run, excused>>
    BY <1>8 DEF EditWrite
  <2>2. Reset("edit")
    BY <1>0, <2>1, ResetEffect
  <2>. QED
    BY <2>1, <2>2, DiskStep
<1>9. CASE EditEnd
  <2>1. rep' = [rep EXCEPT !["edit"] = Idle] /\ UNCHANGED <<disk, last, entry, vec, run, excused>>
    BY <1>9 DEF EditEnd
  <2>2. Reset("edit") /\ Pruned
    BY <1>0, <2>1, ResetEffect DEF Pruned
  <2>. QED
    BY <1>0, <2>1, <2>2, ResetStep
<1>10. ASSUME NEW f \in Files, Save(f) PROVE SOTInv'
  <2>1. PICK v \in {last + 1, None} :
           /\ disk' = [disk EXCEPT ![f] = v] /\ last' = IF v = None THEN last ELSE v
    BY <1>10 DEF Save
  <2>2. UNCHANGED <<rep, entry, vec, run, excused>>
    BY <1>10 DEF Save
  <2>. QED
    BY <2>1, <2>2, DiskStep
<1>11. ASSUME NEW forced \in BOOLEAN, RunStart(forced) PROVE SOTInv'
  BY <1>11, RunStartStep
<1>12. ASSUME NEW f \in Files, RunStore(f) PROVE SOTInv'
  BY <1>12, RunStoreStep
<1>13. CASE RunClear \/ RunSave \/ RunFails
  BY <1>13, RunClearStep, RunSaveStep, RunFailsStep
<1>14. CASE RunProbe
  BY <1>14, StillStep DEF RunProbe
<1>15. ASSUME NEW w \in Workers, RepairFails(w) PROVE SOTInv'
  <2>1. /\ rep' = [rep EXCEPT ![w] = [Idle EXCEPT !.pc = "done", !.file = rep[w].file]]
        /\ UNCHANGED <<disk, last, entry, vec, run, excused>>
    BY <1>15 DEF RepairFails, outside
  <2>2. Reset(w) /\ Pruned
    BY <1>0, <2>1, ResetEffect DEF Pruned
  <2>. QED
    BY <2>1, <2>2, ResetStep
<1>16. ASSUME NEW w \in Workers, Repair(w) PROVE SOTInv'
  BY <1>15, <1>16, LoadStep, ChunkStep, HashStep, UpsertStep, DeleteStep, SaveStep DEF Repair
<1>17. CASE UNCHANGED vars
  BY <1>17, StillStep DEF vars
<1>. QED
  BY <1>1, <1>2, <1>3, <1>4, <1>5, <1>6, <1>7, <1>8, <1>9, <1>10, <1>11, <1>12, <1>13,
     <1>14, <1>16, <1>17 DEF Next, AskStep, EditStep, RunStep

\* A manifest that looks unchanged has all its chunks, whatever runs, saves,
\* edits and repairs there were, unless its run failed, repairs overlapped or it
\* changed between the chunking and the digest (_repair_index_paths).
THEOREM EntriesAreTrue == Spec => []EntryNeverLies
<1>1. SOTInv => EntryNeverLies
  BY DEF SOTInv
<1>. QED
  BY <1>1, SOTInit, SOTStep, PTL DEF Spec

-----------------------------------------------------------------------------
\* Induction on the naturals, with a set for the predicate: the library's theorem
\* takes an operator, and this follows from the well-foundedness it rests on.
LEMMA SetInduction ==
  ASSUME NEW X, 0 \in X, \A n \in Nat : n \in X => n + 1 \in X
  PROVE  Nat \subseteq X
  <1> DEFINE R == OpToRel(<, Nat)
  <1>1. SUFFICES ASSUME Nat \ X # {} PROVE FALSE
    OBVIOUS
  <1>2. IsWellFoundedOn(R, Nat)
    BY NatLessThanWellFounded
  <1>3. \A x, y \in Nat : x < y => <<x, y>> \in R
    BY DEF OpToRel
  <1> HIDE DEF R
  <1>4. PICK m \in Nat \ X : \A y \in Nat \ X : ~(<<y, m>> \in R)
    BY <1>1, <1>2, WFMin
  <1>5. m # 0 /\ m - 1 \in Nat /\ m - 1 < m /\ m - 1 + 1 = m
    BY <1>4
  <1>6. m - 1 \in X
    BY <1>3, <1>4, <1>5
  <1> QED
    BY <1>4, <1>5, <1>6

\* A finite set is one smaller without one of its elements.
LEMMA TakeOut ==
  ASSUME NEW T, IsFiniteSet(T), NEW x \in T
  PROVE  /\ IsFiniteSet(T \ {x}) /\ Cardinality(T) \in Nat
         /\ Cardinality(T \ {x}) = Cardinality(T) - 1
  <1>1. Cardinality(T) \in Nat
    BY FS_CardinalityType
  <1>2. /\ IsFiniteSet(T \ {x})
        /\ Cardinality(T \ {x}) = IF x \in T THEN Cardinality(T) - 1 ELSE Cardinality(T)
    BY FS_RemoveElement, Zenon
  <1> QED
    BY <1>1, <1>2

\* Induction on the subsets of a finite set, an element at a time.
LEMMA SubsetInduction ==
  ASSUME NEW U, IsFiniteSet(U), NEW X,
         \A T \in SUBSET U : (\A x \in T : T \ {x} \in X) => T \in X
  PROVE  SUBSET U \subseteq X
  <1> DEFINE Y == {n \in Nat : \A T \in SUBSET U : Cardinality(T) = n => T \in X}
  <1>1. 0 \in Y
    <2>1. \A T \in SUBSET U : Cardinality(T) = 0 => T = {}
      BY FS_Subset, FS_EmptySet
    <2> QED
      BY <2>1
  <1>2. ASSUME NEW n \in Nat, n \in Y PROVE n + 1 \in Y
    <2>1. ASSUME NEW T \in SUBSET U, Cardinality(T) = n + 1, NEW x \in T
          PROVE  T \ {x} \in X
      <3>1. Cardinality(T \ {x}) = n
        <4>1. IsFiniteSet(T)
          BY FS_Subset, Zenon
        <4> QED
          BY <2>1, <4>1, TakeOut
      <3> QED
        BY <1>2, <3>1
    <2> QED
      BY <2>1
  <1> HIDE DEF Y
  <1>3. Nat \subseteq Y
    BY <1>1, <1>2, SetInduction
  <1> QED
    BY <1>3, FS_Subset, FS_CardinalityType DEF Y

\* A finite set of integers that has an element has a greatest one.
LEMMA Greatest ==
  ASSUME NEW S, IsFiniteSet(S), S \subseteq Int, S # {}
  PROVE  \E x \in S : \A y \in S : y <= x
  <1> DEFINE Good(T) == \E x \in T : \A y \in T : y <= x
             X == {T \in SUBSET S : T = {} \/ Good(T)}
  <1>1. ASSUME NEW T \in SUBSET S, \A x \in T : T \ {x} \in X PROVE T \in X
    <2>1. CASE T # {}
      <3>1. PICK x \in T : TRUE
        BY <2>1
      <3>2. T \ {x} \in X
        BY <1>1
      <3> QED
        BY <3>1, <3>2
    <2> QED
      BY <2>1
  <1> HIDE DEF X
  <1>2. SUBSET S \subseteq X
    BY <1>1, SubsetInduction
  <1> QED
    BY <1>2 DEF X

\* The last of some places of a sequence is one of them.
LEMMA MaxIsIn ==
  ASSUME NEW n \in Nat, NEW S \in SUBSET (1..n), S # {}
  PROVE  Max(S) \in S /\ \A y \in S : y <= Max(S)
  <1>1. IsFiniteSet(S) /\ S \subseteq Int
    <2>1. IsFiniteSet(1..n)
      BY FS_Interval
    <2>2. IsFiniteSet(S)
      BY <2>1, FS_Subset
    <2>3. S \subseteq Int
      OBVIOUS
    <2> QED
      BY <2>2, <2>3
  <1>2. \E x \in S : \A y \in S : y <= x
    BY <1>1, Greatest
  <1>3. \E x \in S : \A y \in S : x >= y
    BY <1>2
  <1>4. Max(S) \in S /\ \A y \in S : Max(S) >= y
    BY <1>3 DEF Max
  <1> QED
    BY <1>4

\* g folds a sequence with a step: what FoldLeft's recursion says.
Folded(step, base, seq, g, s) ==
    IF s = {} THEN base ELSE step[<<g[s \ {Max(s)}], seq[Max(s)]>>]
Folds(step, base, seq, g) ==
    \A s \in SUBSET (1..Len(seq)) : g[s] = Folded(step, base, seq, g, s)
Fold(A, E, step, base, seq) ==
    step \in [A \X E -> A] /\ base \in A /\ seq \in Seq(E)

\* The recursion has a solution: it is built for sets of growing size.
LEMMA FoldExists ==
  ASSUME NEW A, NEW E, NEW step, NEW base, NEW seq, Fold(A, E, step, base, seq)
  PROVE  \E g : g \in [SUBSET (1..Len(seq)) -> A] /\ Folds(step, base, seq, g)
  <1> DEFINE U == 1..Len(seq)
             Upto(n, g) == /\ g \in [SUBSET U -> A]
                           /\ \A s \in SUBSET U : Cardinality(s) <= n =>
                                 g[s] = Folded(step, base, seq, g, s)
             Y == {n \in Nat : \E g : Upto(n, g)}
  <1>1. /\ Len(seq) \in Nat /\ IsFiniteSet(U) /\ base \in A
        /\ \A a \in A, i \in U : step[<<a, seq[i]>>] \in A
    <2>1. Len(seq) \in Nat /\ base \in A /\ \A i \in U : seq[i] \in E
      BY DEF Fold
    <2>2. IsFiniteSet(U)
      BY <2>1, FS_Interval
    <2>3. \A a \in A, e \in E : step[<<a, e>>] \in A
      BY DEF Fold
    <2> QED
      BY <2>1, <2>2, <2>3
  <1>2. \A s \in SUBSET U : /\ IsFiniteSet(s) /\ Cardinality(s) \in Nat
                            /\ Cardinality(s) <= Cardinality(U)
    BY <1>1, FS_Subset, FS_CardinalityType
  <1>3. \A s \in SUBSET U : s # {} => Max(s) \in s
    BY <1>1, MaxIsIn
  <1> HIDE DEF U
  <1>4. 0 \in Y
    <2>1. \A s \in SUBSET U : Cardinality(s) <= 0 => s = {}
      BY <1>2, FS_EmptySet
    <2>2. Upto(0, [s \in SUBSET U |-> base])
      BY <1>1, <2>1 DEF Folded
    <2> HIDE DEF Upto
    <2> QED
      BY <2>2
  <1>5. ASSUME NEW n \in Nat, n \in Y PROVE n + 1 \in Y
    <2>1. PICK g : Upto(n, g)
      BY <1>5
    <2> DEFINE h == [s \in SUBSET U |-> Folded(step, base, seq, g, s)]
    <2>2. h \in [SUBSET U -> A]
      <3>1. ASSUME NEW s \in SUBSET U PROVE Folded(step, base, seq, g, s) \in A
        <4>1. CASE s # {}
          <5>1. s \ {Max(s)} \in SUBSET U /\ Max(s) \in U
            BY <1>3, <4>1
          <5>2. g[s \ {Max(s)}] \in A
            BY <2>1, <5>1
          <5> QED
            BY <1>1, <4>1, <5>1, <5>2 DEF Folded
        <4> QED
          BY <1>1, <4>1 DEF Folded
      <3> QED
        BY <3>1
    <2>3. ASSUME NEW s \in SUBSET U, Cardinality(s) <= n + 1
          PROVE  h[s] = Folded(step, base, seq, h, s)
      <3>1. CASE s = {}
        BY <3>1 DEF Folded
      <3>2. CASE s # {}
        <4> DEFINE x == Max(s)
        <4>1. x \in s
          BY <1>3, <3>2
        <4> HIDE DEF x
        <4>2. Cardinality(s \ {x}) <= n
          <5>1. Cardinality(s) \in Nat /\ Cardinality(s \ {x}) = Cardinality(s) - 1
            BY <1>2, <4>1, TakeOut, Zenon
          <5> QED
            BY <2>3, <5>1
        <4>3. h[s \ {x}] = g[s \ {x}]
          BY <2>1, <4>2
        <4> QED
          BY <3>2, <4>3 DEF Folded, x
      <3> QED
        BY <3>1, <3>2
    <2> HIDE DEF h
    <2>4. Upto(n + 1, h)
      BY <2>2, <2>3
    <2> QED
      BY <2>4
  <1> HIDE DEF Y
  <1>6. Cardinality(U) \in Y
    BY <1>1, <1>2, <1>4, <1>5, SetInduction
  <1> QED
    BY <1>1, <1>2, <1>6 DEF Y, Folds, U

\* A solution taken element by element.
Stepwise(step, base, seq, g) ==
    /\ g[1..0] = base
    /\ \A i \in 1..Len(seq) : g[1..i] = step[<<g[1..(i - 1)], seq[i]>>]

LEMMA FoldSteps ==
  ASSUME NEW seq, NEW step, NEW base, NEW g, Len(seq) \in Nat, Folds(step, base, seq, g)
  PROVE  Stepwise(step, base, seq, g)
  <1>1. g[1..0] = base
    <2>1. 1..0 = {} /\ {} \in SUBSET (1..Len(seq))
      OBVIOUS
    <2> QED
      BY <2>1 DEF Folds, Folded
  <1>2. ASSUME NEW i \in 1..Len(seq) PROVE g[1..i] = step[<<g[1..(i - 1)], seq[i]>>]
    <2>1. (1..i) \in SUBSET (1..Len(seq)) /\ 1..i # {} /\ i \in 1..i
      OBVIOUS
    <2>2. Max(1..i) = i
      <3>1. Max(1..i) \in 1..i /\ i <= Max(1..i)
        BY <2>1, MaxIsIn
      <3> QED
        BY <3>1
    <2>3. (1..i) \ {i} = 1..(i - 1)
      OBVIOUS
    <2> QED
      BY <2>1, <2>2, <2>3 DEF Folds, Folded
  <1> QED
    BY <1>1, <1>2 DEF Stepwise

\* The elements of a sequence that are in S are of both sets.
LEMMA AmongType ==
  ASSUME NEW X, NEW seq, seq \in Seq(X), NEW S
  PROVE  Among(seq, S) \in Seq(X \cap S)
  <1> DEFINE A == Seq(X \cap S)
             U == 1..Len(seq)
             step == [ae \in A \X X |-> IF ae[2] \in S THEN Append(ae[1], ae[2]) ELSE ae[1]]
             Real(g, s) == IF s = {} THEN <<>>
                           ELSE IF seq[Max(s)] \in S THEN Append(g[s \ {Max(s)}], seq[Max(s)])
                           ELSE g[s \ {Max(s)}]
             F == CHOOSE f : f = [s \in SUBSET U |-> Real(f, s)]
  <1>1. Among(seq, S) = F[U]
    <2>1. DOMAIN seq = U
      OBVIOUS
    <2> QED
      BY <2>1 DEF Among, FoldLeft, MapThenFoldSet
  <1>2. /\ \A a \in A, x \in X : step[<<a, x>>] = IF x \in S THEN Append(a, x) ELSE a
        /\ step \in [A \X X -> A] /\ <<>> \in A
    OBVIOUS
  <1>3. Fold(A, X, step, <<>>, seq) /\ Len(seq) \in Nat
    BY <1>2 DEF Fold
  <1>4. PICK g : g \in [SUBSET U -> A] /\ Folds(step, <<>>, seq, g)
    BY <1>3, FoldExists
  <1> HIDE DEF step
  <1>5. \A s \in SUBSET U : s # {} => Max(s) \in s
    BY <1>3, MaxIsIn
  <1>6. \A s \in SUBSET U : g[s] = Real(g, s)
    <2>1. ASSUME NEW s \in SUBSET U, s # {} PROVE g[s] = Real(g, s)
      <3>1. g[s \ {Max(s)}] \in A /\ seq[Max(s)] \in X
        <4>1. Max(s) \in U /\ s \ {Max(s)} \in SUBSET U
          BY <1>5, <2>1
        <4> QED
          BY <1>3, <1>4, <4>1 DEF Fold
      <3> QED
        BY <1>2, <1>4, <2>1, <3>1 DEF Folds, Folded
    <2> QED
      BY <1>4, <2>1 DEF Folds, Folded
  <1>7. F = [s \in SUBSET U |-> Real(F, s)]
    <2> HIDE DEF Real
    <2>1. g = [s \in SUBSET U |-> Real(g, s)]
      BY <1>4, <1>6
    <2> QED
      BY <2>1
  <1>8. F[U] = g[U]
    <2> HIDE DEF F
    <2> DEFINE T == {s \in SUBSET U : F[s] = g[s]}
    <2>1. ASSUME NEW s \in SUBSET U, \A x \in s : s \ {x} \in T PROVE s \in T
      BY <1>5, <1>6, <1>7, <2>1
    <2>2. IsFiniteSet(U)
      BY <1>3, FS_Interval
    <2> HIDE DEF T
    <2>3. SUBSET U \subseteq T
      BY <2>1, <2>2, SubsetInduction
    <2> QED
      BY <2>3 DEF T
  <1> QED
    BY <1>1, <1>4, <1>8

-----------------------------------------------------------------------------
\* The chunks of a manifest in their order.

\* Finitely many chunks, each of a version that has its place.
Placed(v) ==
    /\ IsFiniteSet(DOMAIN v)
    /\ \A p \in DOMAIN v : v[p] \in Versions /\ p \in 1..Size[v[p]]

\* Among finitely many places there is one with any number of places before it.
LEMMA PlaceExists ==
  ASSUME NEW D, D \subseteq Nat, IsFiniteSet(D), NEW i \in 1..Cardinality(D)
  PROVE  \E p \in D : Cardinality({q \in D : q < p}) = i - 1
<1>. DEFINE Good(T) == \A k \in 1..Cardinality(T) : \E p \in T : Cardinality({q \in T : q < p}) = k - 1
            X == {T \in SUBSET D : Good(T)}
<1>1. ASSUME NEW T \in SUBSET D, \A x \in T : T \ {x} \in X, NEW k \in 1..Cardinality(T)
      PROVE  \E p \in T : Cardinality({q \in T : q < p}) = k - 1
  <2>1. IsFiniteSet(T) /\ Cardinality(T) \in Nat
    BY FS_Subset, FS_CardinalityType
  <2>2. T # {}
    BY <2>1, FS_EmptySet
  <2>3. PICK x \in T : \A y \in T : y <= x
    <3>1. T \subseteq Int
      OBVIOUS
    <3>. QED
      BY <2>1, <2>2, <3>1, Greatest
  <2>4. Cardinality(T \ {x}) = Cardinality(T) - 1
    BY <2>1, TakeOut
  <2>5. CASE k = Cardinality(T)
    <3>1. {q \in T : q < x} = T \ {x}
      <4>1. x \in Nat /\ \A q \in T : q \in Nat
        OBVIOUS
      <4>2. \A q \in T : q < x <=> q # x
        BY <2>3, <4>1
      <4>. QED
        BY <4>2
    <3>. QED
      BY <2>4, <2>5, <3>1
  <2>6. CASE k < Cardinality(T)
    <3>1. k \in 1..Cardinality(T \ {x})
      BY <2>1, <2>4, <2>6
    <3>2. PICK p \in T \ {x} : Cardinality({q \in T \ {x} : q < p}) = k - 1
      BY <1>1, <3>1
    <3>3. {q \in T \ {x} : q < p} = {q \in T : q < p}
      BY <2>3, <3>2
    <3>. QED
      BY <3>2, <3>3
  <2>. QED
    BY <2>1, <2>5, <2>6
<1>2. ASSUME NEW T \in SUBSET D, \A x \in T : T \ {x} \in X PROVE T \in X
  BY <1>1, <1>2
<1>. HIDE DEF X
<1>3. SUBSET D \subseteq X
  BY <1>2, SubsetInduction
<1>. QED
  BY <1>3 DEF X

\* What is fetched of a manifest: its chunks, one for each place there is.
At(f, i) == CHOOSE p \in DOMAIN vec[f] : Cardinality({q \in DOMAIN vec[f] : q < p}) = i - 1

LEMMA FetchIs ==
  ASSUME NEW f, Placed(vec[f])
  PROVE  LET n == Cardinality(DOMAIN vec[f])
         IN /\ n \in Nat /\ IsFiniteSet(DOMAIN vec[f]) /\ DOMAIN vec[f] \subseteq Nat
            /\ Fetch(f) = [i \in 1..n |-> [file |-> f, at |-> At(f, i), version |-> vec[f][At(f, i)]]]
            /\ \A i \in 1..n : /\ At(f, i) \in DOMAIN vec[f]
                               /\ Cardinality({q \in DOMAIN vec[f] : q < At(f, i)}) = i - 1
<1>. DEFINE D == DOMAIN vec[f]
            n == Cardinality(D)
<1>1. IsFiniteSet(D) /\ D \subseteq Nat
  BY DEF Placed
<1>2. n \in Nat
  BY <1>1, FS_CardinalityType
<1>3. ASSUME NEW i \in 1..n
      PROVE  At(f, i) \in D /\ Cardinality({q \in D : q < At(f, i)}) = i - 1
  <2>1. \E p \in D : Cardinality({q \in D : q < p}) = i - 1
    BY <1>1, <1>3, PlaceExists
  <2>. QED
    BY <2>1 DEF At
<1>. QED
  BY <1>1, <1>2, <1>3 DEF Fetch, At

LEMMA FetchType ==
  ASSUME NEW f \in Files, Placed(vec[f])
  PROVE  Fetch(f) \in Seq(Found) /\ \A i \in DOMAIN Fetch(f) : Fetch(f)[i].file = f
<1>. DEFINE n == Cardinality(DOMAIN vec[f])
            chunk(i) == [file |-> f, at |-> At(f, i), version |-> vec[f][At(f, i)]]
<1>1. n \in Nat /\ DOMAIN vec[f] \subseteq Nat /\ Fetch(f) = [i \in 1..n |-> chunk(i)]
  BY FetchIs
<1>2. ASSUME NEW i \in 1..n PROVE chunk(i) \in Found /\ chunk(i).file = f
  <2>1. At(f, i) \in DOMAIN vec[f]
    BY FetchIs
  <2>2. At(f, i) \in Nat /\ vec[f][At(f, i)] \in Versions
    BY <1>1, <2>1 DEF Placed
  <2>. QED
    BY <2>2 DEF Found
<1>. HIDE DEF chunk, n
<1>. QED
  BY <1>1, <1>2

\* A manifest that has all chunks of a version begins with them.
LEMMA FetchFull ==
  ASSUME NEW f \in Files, Placed(vec[f]), NEW v \in Versions, Full(f, v)
  PROVE  /\ Size[v] \in Nat /\ Size[v] <= Len(Fetch(f))
         /\ \A p \in 1..Size[v] : Fetch(f)[p] = [file |-> f, at |-> p, version |-> v]
<1>. DEFINE D == DOMAIN vec[f]
            n == Cardinality(D)
            m == Size[v]
<1>1. /\ n \in Nat /\ IsFiniteSet(D) /\ D \subseteq Nat
      /\ Fetch(f) = [i \in 1..n |-> [file |-> f, at |-> At(f, i), version |-> vec[f][At(f, i)]]]
  BY FetchIs
<1>2. m \in Nat /\ v # None
  BY SizeAssumption, NoneAssumption DEF Versions
<1>3. 1..m \subseteq D /\ \A p \in 1..m : vec[f][p] = v
  BY <1>2 DEF Full, Chunks
<1>4. m <= n
  <2>1. Cardinality(1..m) = m
    BY <1>2, FS_Interval
  <2>2. Cardinality(1..m) <= Cardinality(D)
    BY <1>1, <1>3, FS_Subset, Zenon
  <2>. QED
    BY <2>1, <2>2
<1>5. ASSUME NEW i \in 1..m PROVE At(f, i) = i
  <2>1. i \in 1..n /\ i \in Nat
    BY <1>1, <1>2, <1>4
  <2>2. At(f, i) \in D /\ Cardinality({q \in D : q < At(f, i)}) = i - 1
    BY <2>1, FetchIs
  <2>. DEFINE a == At(f, i)
              B == {q \in D : q < a}
  <2>3. a \in Nat /\ \A q \in D : q \in Nat /\ q >= 1
    BY <1>1, <2>2 DEF Placed
  <2>4. IsFiniteSet(B) /\ IsFiniteSet(1..(a - 1))
    <3>1. B \subseteq D
      OBVIOUS
    <3>2. IsFiniteSet(B)
      BY <1>1, <3>1, FS_Subset
    <3>. QED
      BY <2>3, <3>2, FS_Interval
  <2>5. Cardinality(B) = i - 1
    BY <2>2
  <2>6. a >= 1
    BY <2>2, <2>3
  <2>7. a <= i
    <3>1. SUFFICES ASSUME a > i PROVE FALSE
      BY <2>1, <2>3
    <3>2. 1..i \subseteq B
      BY <1>2, <1>3, <2>1, <2>3, <3>1
    <3>3. Cardinality(1..i) = i /\ Cardinality(1..i) <= Cardinality(B)
      <4>1. Cardinality(1..i) = i
        BY <2>1, FS_Interval
      <4>. QED
        BY <2>4, <3>2, <4>1, FS_Subset, Zenon
    <3>. QED
      BY <2>1, <2>5, <3>3
  <2>8. a >= i
    <3>1. B \subseteq 1..(a - 1)
      BY <2>3
    <3>2. Cardinality(1..(a - 1)) = a - 1
      BY <2>3, <2>6, FS_Interval
    <3>3. Cardinality(B) <= Cardinality(1..(a - 1))
      BY <2>4, <3>1, FS_Subset, Zenon
    <3>. QED
      BY <2>1, <2>3, <2>5, <3>2, <3>3
  <2>. QED
    BY <2>1, <2>3, <2>7, <2>8
<1>6. Len(Fetch(f)) = n
  BY <1>1
<1>7. ASSUME NEW p \in 1..m PROVE Fetch(f)[p] = [file |-> f, at |-> p, version |-> v]
  <2>1. p \in 1..n
    BY <1>1, <1>2, <1>4
  <2>2. Fetch(f)[p] = [file |-> f, at |-> At(f, p), version |-> vec[f][At(f, p)]]
    BY <1>1, <2>1
  <2>. QED
    BY <1>3, <1>5, <2>2
<1>. QED
  BY <1>2, <1>4, <1>6, <1>7

-----------------------------------------------------------------------------
\* The chunks of several manifests (Gather), a manifest at a time.

Gathered(t, order) ==
    /\ t \in [0..Len(order) -> Seq(Found)] /\ t[0] = <<>>
    /\ \A i \in 1..Len(order) :
          t[i] = IF Len(t[i - 1]) >= NResults THEN t[i - 1] ELSE t[i - 1] \o Fetch(order[i])

AllPlaced == \A f \in Files : Placed(vec[f])

LEMMA GatherSteps ==
  ASSUME AllPlaced, NEW order, order \in Seq(Files)
  PROVE  \E t : Gathered(t, order) /\ Gather(order) = t[Len(order)]
  <1> DEFINE A == Seq(Found)
             U == 1..Len(order)
             Add(a, f) == IF Len(a) >= NResults THEN a ELSE a \o Fetch(f)
             step == [ae \in A \X Files |-> Add(ae[1], ae[2])]
             Real(g, s) == IF s = {} THEN <<>> ELSE Add(g[s \ {Max(s)}], order[Max(s)])
             F == CHOOSE f : f = [s \in SUBSET U |-> Real(f, s)]
  <1>1. Gather(order) = F[U]
    <2>1. DOMAIN order = U
      OBVIOUS
    <2> QED
      BY <2>1 DEF Gather, FoldLeft, MapThenFoldSet
  <1>2. /\ \A a \in A, f \in Files : step[<<a, f>>] = Add(a, f)
        /\ step \in [A \X Files -> A] /\ <<>> \in A
    <2>1. \A f \in Files : Fetch(f) \in A
      BY FetchType DEF AllPlaced
    <2>2. \A a \in A, f \in Files : Add(a, f) \in A
      BY <2>1
    <2> HIDE DEF Add
    <2> QED
      BY <2>2
  <1>3. Fold(A, Files, step, <<>>, order) /\ Len(order) \in Nat
    BY <1>2 DEF Fold
  <1>4. PICK g : g \in [SUBSET U -> A] /\ Folds(step, <<>>, order, g)
    BY <1>3, FoldExists
  <1> HIDE DEF step, Add
  <1>5. \A s \in SUBSET U : s # {} => Max(s) \in s
    BY <1>3, MaxIsIn
  <1>6. \A s \in SUBSET U : g[s] = Real(g, s)
    <2>1. ASSUME NEW s \in SUBSET U, s # {} PROVE g[s] = Real(g, s)
      <3>1. g[s \ {Max(s)}] \in A /\ order[Max(s)] \in Files
        <4>1. Max(s) \in U /\ s \ {Max(s)} \in SUBSET U
          BY <1>5, <2>1
        <4> QED
          BY <1>3, <1>4, <4>1 DEF Fold
      <3> QED
        BY <1>2, <1>4, <2>1, <3>1 DEF Folds, Folded
    <2> QED
      BY <1>4, <2>1 DEF Folds, Folded
  <1>7. F = [s \in SUBSET U |-> Real(F, s)]
    <2> HIDE DEF Real
    <2>1. g = [s \in SUBSET U |-> Real(g, s)]
      BY <1>4, <1>6
    <2> QED
      BY <2>1
  <1>8. F[U] = g[U]
    <2> HIDE DEF F
    <2> DEFINE T == {s \in SUBSET U : F[s] = g[s]}
    <2>1. ASSUME NEW s \in SUBSET U, \A x \in s : s \ {x} \in T PROVE s \in T
      BY <1>5, <1>6, <1>7, <2>1
    <2>2. IsFiniteSet(U)
      BY <1>3, FS_Interval
    <2> HIDE DEF T
    <2>3. SUBSET U \subseteq T
      BY <2>1, <2>2, SubsetInduction
    <2> QED
      BY <2>3 DEF T
  <1> DEFINE t == [i \in 0..Len(order) |-> g[1..i]]
  <1>9. g[1..0] = <<>> /\ \A i \in U : g[1..i] = step[<<g[1..(i - 1)], order[i]>>]
    <2>1. Len(order) \in Nat /\ Folds(step, <<>>, order, g)
      BY <1>3, <1>4
    <2>2. Stepwise(step, <<>>, order, g)
      BY <2>1, FoldSteps
    <2> QED
      BY <2>2 DEF Stepwise
  <1>10. \A i \in 0..Len(order) : 1..i \in SUBSET U
    BY <1>3
  <1>11. t \in [0..Len(order) -> A] /\ t[0] = <<>>
    BY <1>3, <1>4, <1>9, <1>10
  <1>12. ASSUME NEW i \in U PROVE t[i] = Add(t[i - 1], order[i])
    <2>1. i \in 0..Len(order) /\ i - 1 \in 0..Len(order) /\ order[i] \in Files
      BY <1>3 DEF Fold
    <2>2. g[1..(i - 1)] \in A
      BY <1>4, <1>10, <2>1
    <2> QED
      BY <1>2, <1>9, <2>1, <2>2
  <1>13. Gather(order) = t[Len(order)]
    BY <1>1, <1>3, <1>8
  <1> HIDE DEF t
  <1>14. Gathered(t, order)
    BY <1>11, <1>12 DEF Gathered, Add
  <1> QED
    BY <1>13, <1>14

\* Every manifest that is in the answer has a chunk among the first n_results.
InFront(s) == \A i \in DOMAIN s : \E j \in DOMAIN s : j <= NResults /\ s[j].file = s[i].file
BeginsWith(s, u) == Len(u) <= Len(s) /\ \A p \in 1..Len(u) : s[p] = u[p]

LEMMA GatherFacts ==
  ASSUME AllPlaced, NEW order, order \in Seq(Files)
  PROVE  /\ Gather(order) \in Seq(Found)
         /\ InFront(Gather(order))
         /\ \A i \in DOMAIN Gather(order) : Gather(order)[i].file \in Range(order)
         /\ order # <<>> => BeginsWith(Gather(order), Fetch(order[1]))
<1>1. PICK t : Gathered(t, order) /\ Gather(order) = t[Len(order)]
  BY GatherSteps
<1>. DEFINE m == Len(order)
            Good(n) == /\ InFront(t[n])
                       /\ \A i \in DOMAIN t[n] : t[n][i].file \in Range(order)
                       /\ n >= 1 => BeginsWith(t[n], Fetch(order[1]))
            X == {n \in Nat : n <= m => Good(n)}
<1>2. /\ m \in Nat /\ t[0] = <<>> /\ \A n \in 0..m : t[n] \in Seq(Found)
      /\ NResults \in Nat \ {0}
  <2>1. m \in Nat
    OBVIOUS
  <2>2. t \in [0..m -> Seq(Found)] /\ t[0] = <<>>
    BY <1>1 DEF Gathered
  <2>. HIDE DEF m
  <2>3. \A n \in 0..m : t[n] \in Seq(Found)
    BY <2>2
  <2>. QED
    BY <2>1, <2>2, <2>3, SizeAssumption
<1>3. 0 \in X
  BY <1>2 DEF InFront
<1>4. ASSUME NEW n \in Nat, n \in X PROVE n + 1 \in X
  <2>1. SUFFICES ASSUME n + 1 <= m PROVE Good(n + 1)
    OBVIOUS
  <2>. DEFINE f == order[n + 1]
              s == t[n]
              u == Fetch(f)
  <2>2. n \in 0..m /\ n + 1 \in 1..m /\ n + 1 - 1 = n /\ n + 1 >= 1
    BY <1>2, <2>1
  <2>3. /\ f \in Files /\ f \in Range(order)
        /\ t[n + 1] = IF Len(s) >= NResults THEN s ELSE s \o u
    <3>1. f \in Files /\ f \in Range(order)
      BY <2>2 DEF Range
    <3>2. t[n + 1] = IF Len(t[n + 1 - 1]) >= NResults THEN t[n + 1 - 1] ELSE t[n + 1 - 1] \o Fetch(order[n + 1])
      BY <1>1, <2>2 DEF Gathered
    <3>. QED
      BY <2>2, <3>1, <3>2
  <2>4. s \in Seq(Found) /\ Good(n)
    BY <1>2, <1>4, <2>2
  <2>5. u \in Seq(Found) /\ \A i \in DOMAIN u : u[i].file = f
    BY <2>3, FetchType DEF AllPlaced
  <2>. HIDE DEF f, u
  <2>6. CASE n = 0
    <3>1. s = <<>> /\ f = order[1]
      BY <1>2, <2>6 DEF f
    <3>2. t[n + 1] = u
      BY <1>2, <2>3, <2>5, <3>1
    <3>3. InFront(u)
      <4>1. ASSUME NEW i \in DOMAIN u PROVE 1 \in DOMAIN u /\ 1 <= NResults /\ u[1].file = u[i].file
        BY <1>2, <2>5
      <4>. QED
        BY <4>1 DEF InFront
    <3>4. BeginsWith(u, Fetch(order[1]))
      BY <2>5, <3>1 DEF BeginsWith, u
    <3>. QED
      BY <2>3, <2>5, <3>2, <3>3, <3>4
  <2>7. CASE n # 0 /\ Len(s) >= NResults
    <3>1. t[n + 1] = s /\ n >= 1
      BY <2>3, <2>7
    <3>. HIDE DEF s
    <3>. QED
      BY <2>4, <3>1 DEF s
  <2>8. CASE n # 0 /\ ~(Len(s) >= NResults)
    <3>1. t[n + 1] = s \o u /\ n >= 1
      BY <2>3, <2>8
    <3>. HIDE DEF s
    <3>2. Good(n) => /\ InFront(s) /\ (\A i \in DOMAIN s : s[i].file \in Range(order))
                     /\ BeginsWith(s, Fetch(order[1]))
      BY <3>1 DEF s
    <3>. DEFINE w == s \o u
    <3>3. /\ w \in Seq(Found) /\ Len(w) = Len(s) + Len(u) /\ Len(s) \in Nat /\ Len(u) \in Nat
          /\ \A i \in 1..Len(s) : w[i] = s[i]
          /\ \A i \in 1..Len(u) : w[Len(s) + i] = u[i]
          /\ DOMAIN s = 1..Len(s) /\ DOMAIN u = 1..Len(u) /\ DOMAIN w = 1..Len(w)
      BY <2>4, <2>5
    <3>. HIDE DEF w
    <3>4. ASSUME NEW i \in DOMAIN w
          PROVE  /\ w[i].file \in Range(order)
                 /\ \E j \in DOMAIN w : j <= NResults /\ w[j].file = w[i].file
      <4>1. CASE i <= Len(s)
        <5>1. i \in DOMAIN s /\ w[i] = s[i]
          BY <3>3, <4>1
        <5>2. PICK j \in DOMAIN s : j <= NResults /\ s[j].file = s[i].file
          BY <2>4, <3>2, <5>1 DEF InFront
        <5>3. j \in DOMAIN w /\ w[j] = s[j]
          BY <3>3, <5>2
        <5>. QED
          BY <2>4, <3>2, <5>1, <5>2, <5>3
      <4>2. CASE i > Len(s)
        <5>1. i - Len(s) \in 1..Len(u) /\ w[i] = u[i - Len(s)]
          <6>1. i - Len(s) \in 1..Len(u) /\ Len(s) + (i - Len(s)) = i
            BY <3>3, <4>2
          <6>. QED
            BY <3>3, <6>1
        <5>2. w[i].file = f
          BY <2>5, <3>3, <5>1
        <5>3. 1 \in 1..Len(u) /\ Len(s) + 1 \in DOMAIN w /\ Len(s) + 1 <= NResults
          BY <1>2, <2>8, <3>3, <5>1 DEF s
        <5>4. w[Len(s) + 1].file = f
          BY <2>5, <3>3, <5>3
        <5>. QED
          BY <2>3, <5>2, <5>3, <5>4
      <4>. QED
        BY <3>3, <4>1, <4>2
    <3>5. BeginsWith(w, Fetch(order[1]))
      <4>1. order[1] \in Files
        BY <1>2, <2>2
      <4>2. Len(Fetch(order[1])) \in Nat
        BY <4>1, FetchType DEF AllPlaced
      <4>. QED
        BY <2>4, <3>2, <3>3, <4>2 DEF BeginsWith
    <3>. QED
      BY <3>1, <3>4, <3>5 DEF w, InFront
  <2>. QED
    BY <2>6, <2>7, <2>8
<1>. HIDE DEF X
<1>5. m \in X
  BY <1>2, <1>3, <1>4, SetInduction
<1>6. order # <<>> => m >= 1
  BY <1>2
<1>. HIDE DEF m
<1>. QED
  BY <1>1, <1>2, <1>5, <1>6 DEF X, m

-----------------------------------------------------------------------------
\* The invariant of the types: SOTInv with the rest of the state.

StoreT ==
    /\ last \in Versions
    /\ counts \in [Files -> Nat \cup {None}]
    /\ AllPlaced
    /\ known \subseteq Files /\ fp \in [Files -> Contents]
    /\ probe \in {"healthy", "warning"}
    /\ excused \subseteq Files

WorkT ==
    \A w \in Workers : /\ rep[w].file \in Files \cup {None} /\ rep[w].read \in Contents
                       /\ rep[w].pc # "idle" => rep[w].file \in Files

EditT ==
    /\ edit \in [pc : {"idle", "hash", "read", "write", "reindex"}, file : Files \cup {None},
                 digest : Contents]
    /\ edit.pc # "idle" => edit.file \in Files

AskStages == {"idle", "lookup", "validate", "recheck", "revalidate", "collect", "answered"}
AskT ==
    /\ ask \in [pc : AskStages, question : Questions \cup {None}, ranked : Seq(Files),
                tried : Nat, healthy : Files \cup {None}, cached : BOOLEAN, answer : Answer,
                seen : [Files -> SUBSET Contents], calm : BOOLEAN]
    /\ ask.pc # "idle" => ask.question \in Questions
    /\ ask.tried <= Len(ask.ranked)
    /\ ask.pc = "lookup" => ask.tried = 0
    /\ ask.pc = "recheck" => ask.ranked # <<>>
    /\ ask.pc \in {"lookup", "validate", "recheck", "revalidate"} => ask.healthy = None
    /\ Len(ask.answer.chunks) <= NResults

CacheT ==
    \A e \in cache : /\ e.question \in Questions /\ e.fp \in [Files -> Contents]
                     /\ e.answer \in Answer /\ e.answer.chunks # <<>>
                     /\ Len(e.answer.chunks) <= NResults

TInv == SOTInv /\ StoreT /\ WorkT /\ EditT /\ AskT /\ CacheT

LEMMA Basics ==
  /\ Versions = 1..Len(Size) /\ Len(Size) \in Nat \ {0} /\ NResults \in Nat \ {0}
  /\ \A v \in Versions : Size[v] \in Nat
  /\ None \notin Versions /\ None \in Contents /\ Versions \subseteq Contents
  BY SizeAssumption, NoneAssumption DEF Versions, Contents

LEMMA OldContents ==
  ASSUME last \in Versions
  PROVE  Old \subseteq Contents
<1>1. \A v \in 1..last : v \in Versions
  BY Basics
<1>. QED
  BY <1>1, Basics DEF Old, Contents

\* What SOTInv says of the files, in terms of Contents.
LEMMA Holdings ==
  ASSUME SOTInv, last \in Versions
  PROVE  /\ disk \in [Files -> Contents] /\ entry \in [Files -> Contents]
         /\ run.snap \in [Files -> Contents]
         /\ run \in [pc : {"idle", "clear", "store", "probe"}, snap : [Files -> Contents],
                     todo : SUBSET Files]
         /\ \A w \in Workers : rep[w].pc \in Stages /\ rep[w].hashes \in [Files -> Contents]
         /\ vec = [f \in Files |-> vec[f]]
<1>1. Typed /\ Old \subseteq Contents
  BY OldContents DEF SOTInv
<1>2. [Files -> Old] \subseteq [Files -> Contents]
  BY <1>1
<1>3. disk \in [Files -> Old] /\ entry \in [Files -> Old] /\ vec = [f \in Files |-> vec[f]]
  BY <1>1 DEF Typed
<1>4. run \in [pc : {"idle", "clear", "store", "probe"}, snap : [Files -> Old], todo : SUBSET Files]
  BY <1>1 DEF Typed
<1>5. run \in [pc : {"idle", "clear", "store", "probe"}, snap : [Files -> Contents], todo : SUBSET Files]
  BY <1>2, <1>4
<1>6. \A w \in Workers : rep[w].pc \in Stages /\ rep[w].hashes \in [Files -> Old]
  BY <1>1, RepairType DEF RepairRecord
<1>. QED
  BY <1>2, <1>3, <1>5, <1>6

LEMMA ChunksPlaced ==
  ASSUME NEW v \in Contents
  PROVE  Placed(Chunks(v)) /\ DOMAIN Chunks(v) \subseteq Nat
<1>1. CASE v = None
  <2>1. DOMAIN Chunks(v) = {}
    BY <1>1 DEF Chunks
  <2>. QED
    BY <2>1, FS_EmptySet DEF Placed
<1>2. CASE v # None
  <2>1. v \in Versions /\ Size[v] \in Nat
    BY <1>2, Basics DEF Contents
  <2>2. DOMAIN Chunks(v) = 1..Size[v] /\ \A p \in 1..Size[v] : Chunks(v)[p] = v
    BY <1>2 DEF Chunks
  <2>3. IsFiniteSet(1..Size[v])
    BY <2>1, FS_Interval
  <2>. QED
    BY <2>1, <2>2, <2>3 DEF Placed
<1>. QED
  BY <1>1, <1>2

LEMMA UpsertedPlaced ==
  ASSUME NEW x, NEW v \in Contents, Placed(x)
  PROVE  Placed(Upserted(x, Chunks(v)))
<1>. DEFINE y == Chunks(v)
<1>1. Placed(y)
  BY ChunksPlaced
<1>. HIDE DEF y
<1>2. IsFiniteSet(DOMAIN x \cup DOMAIN y)
  <2>1. IsFiniteSet(DOMAIN x) /\ IsFiniteSet(DOMAIN y)
    BY <1>1 DEF Placed
  <2>. QED
    BY <2>1, FS_Union
<1>3. DOMAIN Upserted(x, y) = DOMAIN x \cup DOMAIN y
  BY DEF Upserted
<1>4. ASSUME NEW p \in DOMAIN x \cup DOMAIN y
      PROVE  Upserted(x, y)[p] \in Versions /\ p \in 1..Size[Upserted(x, y)[p]]
  BY <1>1 DEF Upserted, Placed
<1>5. Placed(Upserted(x, y))
  BY <1>2, <1>3, <1>4 DEF Placed
<1>. QED
  BY <1>5 DEF y

LEMMA RestrictPlaced ==
  ASSUME NEW x, NEW S, Placed(x)
  PROVE  Placed(Restrict(x, DOMAIN x \ S))
<1>1. IsFiniteSet(DOMAIN x \ S)
  BY FS_Subset DEF Placed
<1>2. Restrict(x, DOMAIN x \ S) = [p \in DOMAIN x \ S |-> x[p]]
  BY DEF Restrict
<1>3. DOMAIN [p \in DOMAIN x \ S |-> x[p]] = DOMAIN x \ S
  OBVIOUS
<1>. QED
  BY <1>1, <1>2, <1>3 DEF Placed

LEMMA NothingPlaced == Placed(<<>>)
<1>1. DOMAIN <<>> = {}
  OBVIOUS
<1>. QED
  BY <1>1, FS_EmptySet DEF Placed

\* One manifest's chunks in place of the old ones.
LEMMA PlacedAgain ==
  ASSUME AllPlaced, NEW f, NEW x, vec = [g \in Files |-> vec[g]], vec' = [vec EXCEPT ![f] = x],
         f \in Files => Placed(x)
  PROVE  AllPlaced'
<1>1. ASSUME NEW g \in Files PROVE vec'[g] = vec[g] \/ (g = f /\ vec'[g] = x)
  OBVIOUS
<1>2. ASSUME NEW g \in Files PROVE Placed(vec[g])'
  <2>1. CASE vec'[g] = vec[g]
    BY <2>1 DEF AllPlaced, Placed
  <2>2. CASE g = f /\ vec'[g] = x
    BY <2>2 DEF Placed
  <2>. QED
    BY <1>1, <2>1, <2>2
<1>. QED
  BY <1>2 DEF AllPlaced

LEMMA StoreStays ==
  ASSUME TInv, UNCHANGED <<counts, vec, known, fp, probe>>, last' \in Versions, excused' \subseteq Files
  PROVE  StoreT'
<1>1. AllPlaced'
  BY DEF TInv, StoreT, AllPlaced, Placed
<1>. QED
  BY <1>1 DEF TInv, StoreT

LEMMA StoreRepair ==
  ASSUME TInv, NEW w \in Workers, Repair(w)
  PROVE  StoreT'
<1>. USE DEF TInv
<1>. DEFINE f == rep[w].file
            v == rep[w].read
<1>1. /\ last' = last /\ last \in Versions /\ excused \subseteq Files /\ AllPlaced
      /\ vec = [g \in Files |-> vec[g]] /\ disk \in [Files -> Contents]
      /\ UNCHANGED <<known, fp, probe>> /\ v \in Contents
      /\ rep[w].pc # "idle" /\ f \in Files
  <2>1. last \in Versions /\ excused \subseteq Files /\ AllPlaced
    BY DEF StoreT
  <2>2. UNCHANGED <<last, known, fp, probe>>
    BY DEF Repair, RepairLoad, RepairChunk, RepairHash, RepairUpsert, RepairDelete, RepairSave,
           RepairFails, outside
  <2>3. rep[w].pc # "idle"
    BY DEF Repair, RepairLoad, RepairChunk, RepairHash, RepairUpsert, RepairDelete, RepairSave,
           RepairFails
  <2>. QED
    BY <2>1, <2>2, <2>3, Holdings DEF WorkT
<1>2. CASE RepairLoad(w) \/ RepairChunk(w) \/ RepairHash(w) \/ RepairFails(w)
  <2>1. UNCHANGED <<counts, vec>> /\ excused' \subseteq Files
    BY <1>1, <1>2 DEF RepairLoad, RepairChunk, RepairHash, RepairFails
  <2>. QED
    BY <1>1, <2>1, StoreStays
<1>3. CASE RepairUpsert(w)
  <2>1. /\ UNCHANGED <<counts, excused>>
        /\ vec' = [vec EXCEPT ![f] = Upserted(vec[f], Chunks(v))]
    BY <1>1, <1>3 DEF RepairUpsert
  <2>. HIDE DEF f, v
  <2>2. f \in Files => Placed(Upserted(vec[f], Chunks(v)))
    BY <1>1, UpsertedPlaced DEF AllPlaced
  <2>3. AllPlaced'
    BY <1>1, <2>1, <2>2, PlacedAgain
  <2>. QED
    BY <1>1, <2>1, <2>3 DEF StoreT
<1>4. CASE RepairDelete(w)
  <2>. DEFINE stale == rep[w].old \ DOMAIN Chunks(v)
  <2>1. /\ UNCHANGED <<counts, excused>>
        /\ vec' = [vec EXCEPT ![f] = Restrict(vec[f], DOMAIN vec[f] \ stale)]
    BY <1>1, <1>4 DEF RepairDelete
  <2>. HIDE DEF f, v, stale
  <2>2. f \in Files => Placed(Restrict(vec[f], DOMAIN vec[f] \ stale))
    BY <1>1, RestrictPlaced DEF AllPlaced
  <2>3. AllPlaced'
    BY <1>1, <2>1, <2>2, PlacedAgain
  <2>. QED
    BY <1>1, <2>1, <2>3 DEF StoreT
<1>5. CASE RepairSave(w)
  <2>. DEFINE n == IF v = None THEN None ELSE Size[v]
  <2>1. UNCHANGED <<vec, excused>> /\ counts' = [counts EXCEPT ![f] = n]
    BY <1>5 DEF RepairSave
  <2>2. n \in Nat \cup {None}
    BY <1>1, Basics DEF Contents
  <2>. HIDE DEF n
  <2>3. counts' \in [Files -> Nat \cup {None}]
    BY <2>1, <2>2 DEF StoreT
  <2>4. AllPlaced'
    BY <1>1, <2>1 DEF AllPlaced, Placed
  <2>. QED
    BY <1>1, <2>1, <2>3, <2>4 DEF StoreT
<1>. QED
  BY <1>2, <1>3, <1>4, <1>5 DEF Repair

LEMMA StoreRun ==
  ASSUME TInv, RunStep
  PROVE  StoreT'
<1>. USE DEF TInv, bystanders
<1>1. /\ last' = last /\ last \in Versions /\ excused \subseteq Files /\ AllPlaced
      /\ vec = [g \in Files |-> vec[g]] /\ disk \in [Files -> Contents]
      /\ run.snap \in [Files -> Contents]
  <2>1. last' = last
    BY DEF RunStep, RunStart, RunClear, RunStore, RunSave, RunProbe, RunFails
  <2>. QED
    BY <2>1, Holdings DEF StoreT
<1>2. ASSUME NEW forced \in BOOLEAN, RunStart(forced) PROVE StoreT'
  <2>1. UNCHANGED <<counts, vec, known, probe>> /\ fp' = disk /\ excused' \subseteq Files
    BY <1>1, <1>2 DEF RunStart
  <2>2. AllPlaced'
    BY <1>1, <2>1 DEF AllPlaced, Placed
  <2>. QED
    BY <1>1, <2>1, <2>2 DEF StoreT
<1>3. CASE RunClear
  <2>1. /\ vec' = [f \in Files |-> <<>>] /\ counts' = NoFiles /\ known' = {}
        /\ UNCHANGED <<fp, probe, excused>>
    BY <1>3 DEF RunClear
  <2>2. AllPlaced'
    BY <2>1, NothingPlaced DEF AllPlaced, Placed
  <2>. QED
    BY <1>1, <2>1, <2>2 DEF StoreT, NoFiles
<1>4. ASSUME NEW f \in Files, RunStore(f) PROVE StoreT'
  <2>. DEFINE v == disk[f]
              n == IF v = None THEN counts[f] ELSE Size[v]
  <2>1. /\ vec' = [vec EXCEPT ![f] = Upserted(vec[f], Chunks(v))]
        /\ counts' = [counts EXCEPT ![f] = n] /\ UNCHANGED <<known, fp, probe, excused>>
    BY <1>1, <1>4 DEF RunStore, StoreT
  <2>2. v \in Contents /\ n \in Nat \cup {None}
    <3>1. v \in Contents
      BY <1>1
    <3>2. counts[f] \in Nat \cup {None}
      BY DEF StoreT
    <3>. QED
      BY <3>1, <3>2, Basics DEF Contents
  <2>. HIDE DEF v, n
  <2>3. Placed(Upserted(vec[f], Chunks(v)))
    BY <1>1, <2>2, UpsertedPlaced DEF AllPlaced
  <2>4. AllPlaced'
    BY <1>1, <2>1, <2>3, PlacedAgain
  <2>5. counts' \in [Files -> Nat \cup {None}]
    BY <2>1, <2>2 DEF StoreT
  <2>. QED
    BY <1>1, <2>1, <2>4, <2>5 DEF StoreT
<1>5. CASE RunSave \/ RunProbe \/ RunFails
  <2>1. /\ UNCHANGED <<counts, vec, fp>> /\ excused' \subseteq Files /\ known' \subseteq Files
        /\ probe' \in {"healthy", "warning"}
    BY <1>1, <1>5 DEF RunSave, RunProbe, RunFails, Present, Probed, StoreT, store
  <2>2. AllPlaced'
    BY <1>1, <2>1 DEF AllPlaced, Placed
  <2>. QED
    BY <1>1, <2>1, <2>2 DEF StoreT
<1>. QED
  BY <1>2, <1>3, <1>4, <1>5 DEF RunStep

LEMMA StoreTStep == TInv /\ [Next]_vars => StoreT'
<1>. SUFFICES ASSUME TInv, [Next]_vars PROVE StoreT'
  OBVIOUS
<1>. USE DEF store, aside, beside, bystanders
<1>1. last \in Versions /\ excused \subseteq Files
  BY DEF TInv, StoreT
<1>2. CASE AskStep
  <2>1. UNCHANGED <<counts, vec, known, fp, last, excused>> /\ probe' \in {"healthy", "warning"}
    <3>1. probe \in {"healthy", "warning"}
      BY DEF TInv, StoreT
    <3>. QED
      BY <1>2, <3>1 DEF AskStep, Ask, Lookup, Validate, Recheck, Revalidate, Collect, Probed
  <2>2. AllPlaced'
    BY <2>1 DEF TInv, StoreT, AllPlaced, Placed
  <2>. QED
    BY <1>1, <2>1, <2>2 DEF TInv, StoreT
<1>3. CASE EditStep \/ \E f \in Files : Save(f)
  <2>1. /\ UNCHANGED <<counts, vec, known, fp, probe, excused>>
        /\ last' = last \/ (last < Len(Size) /\ last' = last + 1)
    <3>1. CASE EditStep
      BY <3>1 DEF EditStep, EditLoad, EditHash, EditRead, EditWrite, EditEnd, EditFails
    <3>2. ASSUME NEW f \in Files, Save(f)
          PROVE  /\ UNCHANGED <<counts, vec, known, fp, probe, excused>>
                 /\ last' = last \/ (last < Len(Size) /\ last' = last + 1)
      BY <3>2 DEF Save
    <3>. QED
      BY <1>3, <3>1, <3>2
  <2>2. last' \in Versions
    BY <1>1, <2>1, Basics
  <2>. QED
    BY <1>1, <2>1, <2>2, StoreStays
<1>4. CASE UNCHANGED vars
  BY <1>1, <1>4, StoreStays DEF vars
<1>. QED
  BY <1>2, <1>3, <1>4, StoreRepair, StoreRun DEF Next

\* A worker's record in place of the one it had.
LEMMA WorkAgain ==
  ASSUME TInv, NEW w \in Workers,
         rep'[w].file \in Files \cup {None}, rep'[w].read \in Contents,
         rep'[w].pc # "idle" => rep'[w].file \in Files,
         \A u \in Workers \ {w} : rep'[u] = rep[u]
  PROVE  WorkT'
<1>1. ASSUME NEW u \in Workers
      PROVE  /\ rep'[u].file \in Files \cup {None} /\ rep'[u].read \in Contents
             /\ rep'[u].pc # "idle" => rep'[u].file \in Files
  BY DEF TInv, WorkT
<1>. QED
  BY <1>1 DEF WorkT

LEMMA NewRepair ==
  ASSUME TInv, NEW w \in Workers, NEW p, NEW f,
         rep' = [rep EXCEPT ![w] = [Idle EXCEPT !.pc = p, !.file = f]], f \in Files
  PROVE  WorkT'
<1>1. rep = [u \in Workers |-> rep[u]]
  BY RepairType DEF TInv, SOTInv
<1>2. rep'[w] = [Idle EXCEPT !.pc = p, !.file = f] /\ \A u \in Workers \ {w} : rep'[u] = rep[u]
  BY <1>1
<1>3. rep'[w].file = f /\ rep'[w].read = None
  BY <1>2 DEF Idle
<1>. QED
  BY <1>2, <1>3, Basics, WorkAgain

LEMMA NoRepair ==
  ASSUME TInv, NEW w \in Workers, rep' = [rep EXCEPT ![w] = Idle]
  PROVE  WorkT'
<1>1. rep = [u \in Workers |-> rep[u]]
  BY RepairType DEF TInv, SOTInv
<1>2. rep'[w] = Idle /\ \A u \in Workers \ {w} : rep'[u] = rep[u]
  BY <1>1
<1>3. rep'[w].file = None /\ rep'[w].read = None /\ rep'[w].pc = "idle"
  BY <1>2 DEF Idle
<1>. QED
  BY <1>2, <1>3, Basics, WorkAgain

LEMMA WorkTRepair ==
  ASSUME TInv, NEW w \in Workers, Repair(w)
  PROVE  WorkT'
<1>. DEFINE f == rep[w].file
<1>1. Typed /\ f \in Files /\ rep[w].read \in Contents /\ disk[f] \in Contents
  <2>1. rep[w].pc # "idle"
    BY DEF Repair, RepairLoad, RepairChunk, RepairHash, RepairUpsert, RepairDelete, RepairSave,
           RepairFails
  <2>2. f \in Files /\ rep[w].read \in Contents
    BY <2>1 DEF TInv, WorkT
  <2>3. disk \in [Files -> Contents] /\ Typed
    BY Holdings DEF TInv, SOTInv, StoreT
  <2>. QED
    BY <2>2, <2>3
<1>2. CASE RepairLoad(w)
  <2>1. Moved(w, "chunk", f, entry, rep[w].read, rep[w].old)
    BY <1>1, <1>2, LoadEffect
  <2>. HIDE DEF f
  <2>. QED
    BY <1>1, <2>1, WorkAgain DEF Moved
<1>3. CASE RepairChunk(w)
  <2>1. rep'[w].file = f /\ rep'[w].read = disk[f] /\ \A u \in Workers \ {w} : rep'[u] = rep[u]
    BY <1>1, <1>3, ChunkEffect DEF Moved
  <2>. HIDE DEF f
  <2>. QED
    BY <1>1, <2>1, WorkAgain
<1>4. CASE RepairHash(w)
  <2>1. rep'[w].file = f /\ rep'[w].read = rep[w].read /\ \A u \in Workers \ {w} : rep'[u] = rep[u]
    BY <1>1, <1>4, HashEffect DEF Moved
  <2>. HIDE DEF f
  <2>. QED
    BY <1>1, <2>1, WorkAgain
<1>5. CASE RepairUpsert(w) \/ RepairDelete(w)
  <2>1. PICK p \in Stages : rep' = [rep EXCEPT ![w].pc = p]
    BY <1>5 DEF RepairUpsert, RepairDelete, Stages
  <2>2. Moved(w, p, f, rep[w].hashes, rep[w].read, rep[w].old)
    BY <1>1, <2>1, StageEffect
  <2>. HIDE DEF f
  <2>. QED
    BY <1>1, <2>2, WorkAgain DEF Moved
<1>6. CASE RepairSave(w) \/ RepairFails(w)
  <2>1. rep' = [rep EXCEPT ![w] = [Idle EXCEPT !.pc = "done", !.file = f]]
    BY <1>6 DEF RepairSave, RepairFails
  <2>. QED
    BY <1>1, <2>1, NewRepair
<1>. QED
  BY <1>2, <1>3, <1>4, <1>5, <1>6 DEF Repair

LEMMA WorkTStep == TInv /\ [Next]_vars => WorkT'
<1>. SUFFICES ASSUME TInv, [Next]_vars PROVE WorkT'
  OBVIOUS
<1>. USE DEF store, aside, beside, bystanders
<1>1. "ask" \in Workers /\ "edit" \in Workers
  BY DEF Workers
<1>2. CASE UNCHANGED rep
  BY <1>2 DEF TInv, WorkT
<1>3. CASE AskStep
  <2>1. CASE Recheck
    <3>. DEFINE f == ask.ranked[1]
    <3>1. f \in Files
      BY <2>1 DEF TInv, AskT, Recheck
    <3>2. rep' = rep \/ rep' = [rep EXCEPT !["ask"] = [Idle EXCEPT !.pc = "load", !.file = f]]
      BY <2>1 DEF Recheck
    <3>. QED
      BY <1>1, <1>2, <3>1, <3>2, NewRepair
  <2>2. CASE Revalidate
    BY <1>1, <2>2, NoRepair DEF Revalidate
  <2>3. CASE (\E question \in Questions : Ask(question)) \/ (\E old \in BOOLEAN : Lookup(old))
             \/ Validate \/ Collect
    BY <1>2, <2>3 DEF Ask, Lookup, Validate, Collect
  <2>. QED
    BY <1>3, <2>1, <2>2, <2>3 DEF AskStep
<1>4. CASE EditStep
  <2>1. CASE EditWrite
    <3>1. edit.file \in Files
      BY <2>1 DEF TInv, EditT, EditWrite
    <3>. QED
      BY <1>1, <2>1, <3>1, NewRepair DEF EditWrite
  <2>2. CASE EditEnd
    BY <1>1, <2>2, NoRepair DEF EditEnd
  <2>3. CASE (\E f \in Files : EditLoad(f)) \/ EditHash \/ (\E once \in BOOLEAN : EditRead(once))
    BY <1>2, <2>3 DEF EditLoad, EditHash, EditRead
  <2>. QED
    BY <1>4, <2>1, <2>2, <2>3 DEF EditStep
<1>5. CASE RunStep
  BY <1>2, <1>5 DEF RunStep, RunStart, RunClear, RunStore, RunSave, RunProbe, RunFails
<1>6. CASE (\E f \in Files : Save(f)) \/ UNCHANGED vars
  BY <1>2, <1>6 DEF Save, vars
<1>. QED
  BY <1>3, <1>4, <1>5, <1>6, WorkTRepair DEF Next

LEMMA EditTStep == TInv /\ [Next]_vars => EditT'
<1>. SUFFICES ASSUME TInv, [Next]_vars PROVE EditT'
  OBVIOUS
<1>. USE DEF store, aside, beside, bystanders
<1>1. CASE UNCHANGED edit
  BY <1>1 DEF TInv, EditT
<1>2. CASE edit' = NoEdit
  BY <1>2, Basics DEF EditT, NoEdit
<1>3. CASE EditStep
  <2>1. ASSUME NEW f \in Files, EditLoad(f) PROVE EditT'
    <3>1. entry[f] \in Contents /\ edit' = [edit EXCEPT !.pc = "hash", !.file = f, !.digest = entry[f]]
      BY <2>1, Holdings DEF TInv, StoreT, EditLoad
    <3>. QED
      BY <3>1 DEF TInv, EditT
  <2>2. CASE EditHash
    <3>1. CASE edit' = [edit EXCEPT !.pc = "read"]
      BY <2>2, <3>1 DEF TInv, EditT, EditHash
    <3>. QED
      BY <1>2, <2>2, <3>1 DEF EditHash, EditFails
  <2>3. ASSUME NEW once \in BOOLEAN, EditRead(once) PROVE EditT'
    <3>1. CASE edit' = [edit EXCEPT !.pc = "write", !.digest = None]
      BY <2>3, <3>1, Basics DEF TInv, EditT, EditRead
    <3>. QED
      BY <1>2, <2>3, <3>1 DEF EditRead, EditFails
  <2>4. CASE EditWrite
    BY <2>4 DEF TInv, EditT, EditWrite
  <2>5. CASE EditEnd
    BY <1>2, <2>5 DEF EditEnd
  <2>. QED
    BY <1>3, <2>1, <2>2, <2>3, <2>4, <2>5 DEF EditStep
<1>4. CASE AskStep
  BY <1>1, <1>4 DEF AskStep, Ask, Lookup, Validate, Recheck, Revalidate, Collect
<1>5. CASE RunStep
  BY <1>1, <1>5 DEF RunStep, RunStart, RunClear, RunStore, RunSave, RunProbe, RunFails
<1>6. CASE \E w \in Workers : Repair(w)
  BY <1>1, <1>6 DEF Repair, RepairLoad, RepairChunk, RepairHash, RepairUpsert, RepairDelete,
                    RepairSave, RepairFails, outside
<1>7. CASE (\E f \in Files : Save(f)) \/ UNCHANGED vars
  BY <1>1, <1>7 DEF Save, vars
<1>. QED
  BY <1>3, <1>4, <1>5, <1>6, <1>7 DEF Next

-----------------------------------------------------------------------------
\* What an answer is made of.

LEMMA CutIs ==
  ASSUME NEW s, NEW n, s \in Seq(Found), n \in Nat
  PROVE  /\ Cut(s, n) \in Seq(Found) /\ Len(Cut(s, n)) = IF Len(s) < n THEN Len(s) ELSE n
         /\ Len(Cut(s, n)) <= n /\ DOMAIN Cut(s, n) \subseteq DOMAIN s
         /\ \A p \in DOMAIN Cut(s, n) : Cut(s, n)[p] = s[p]
<1>. DEFINE m == IF Len(s) < n THEN Len(s) ELSE n
<1>1. m \in Nat /\ m <= n /\ m <= Len(s)
  OBVIOUS
<1>. HIDE DEF m
<1>2. /\ SubSeq(s, 1, m) \in Seq(Found) /\ Len(SubSeq(s, 1, m)) = m
      /\ \A p \in 1..m : SubSeq(s, 1, m)[p] = s[p]
  BY <1>1
<1>3. Cut(s, n) = SubSeq(s, 1, m)
  BY DEF Cut, m
<1>4. DOMAIN Cut(s, n) = 1..m /\ DOMAIN s = 1..Len(s)
  BY <1>2, <1>3
<1>. QED
  BY <1>1, <1>2, <1>3, <1>4 DEF m

\* Some of the manifests, in their order.
LEMMA SomeFiles ==
  ASSUME NEW seq, NEW S, seq \in Seq(Files)
  PROVE  /\ Among(seq, S) \in Seq(Files)
         /\ \A i \in DOMAIN Among(seq, S) : Among(seq, S)[i] \in S
<1>1. Among(seq, S) \in Seq(Files \cap S)
  BY AmongType
<1>. HIDE DEF Among
<1>. QED
  BY <1>1

LEMMA DependencyFirst ==
  ASSUME NEW s, s \in Seq(Found), InFront(s), HasDependency(s)
  PROVE  HasDependency(Cut(s, NResults))
<1>1. PICK i \in DOMAIN s : kind[s[i].file] = "dependency"
  BY DEF HasDependency
<1>2. PICK j \in DOMAIN s : j <= NResults /\ s[j].file = s[i].file
  BY <1>1 DEF InFront
<1>3. Len(Cut(s, NResults)) = IF Len(s) < NResults THEN Len(s) ELSE NResults
  BY CutIs, Basics
<1>4. Cut(s, NResults) \in Seq(Found) /\ \A p \in DOMAIN Cut(s, NResults) : Cut(s, NResults)[p] = s[p]
  BY CutIs, Basics
<1>5. j \in DOMAIN Cut(s, NResults)
  BY <1>2, <1>3, <1>4, Basics
<1>. QED
  BY <1>1, <1>2, <1>4, <1>5 DEF HasDependency

Limited(a) == a \in Answer /\ Len(a.chunks) <= NResults
Backed(a) == Dependency => HasDependency(a.chunks) \/ a.notice # "none"

LEMMA SayingSo ==
  ASSUME NEW n \in Notices \ {"none"}
  PROVE  Limited([notice |-> n, chunks |-> <<>>]) /\ Backed([notice |-> n, chunks |-> <<>>])
<1>. DEFINE a == [notice |-> n, chunks |-> <<>>]
<1>1. a \in Answer /\ Len(a.chunks) = 0 /\ a.notice # "none"
  BY DEF Answer
<1>. HIDE DEF a
<1>2. Limited(a) /\ Backed(a)
  BY <1>1, Basics DEF Limited, Backed
<1>. QED
  BY <1>2 DEF a

LEMMA EnforcedIs ==
  ASSUME AllPlaced, ask.ranked \in Seq(Files), NEW found, found \in Seq(Found)
  PROVE  Limited(EnforcedDependency(found)) /\ Backed(EnforcedDependency(found))
<1>. DEFINE order == OfKind(ask.ranked, "dependency")
            G == Gather(order)
            recovered == Cut(G, NResults)
            inferred == Among(found, {c \in Range(found) : kind[c.file] # "dependency"})
            more == Cut(inferred, NResults - Len(recovered))
<1>1. order \in Seq(Files) /\ \A i \in DOMAIN order : kind[order[i]] = "dependency"
  BY SomeFiles DEF OfKind
<1>. HIDE DEF order
<1>2. G \in Seq(Found) /\ \A i \in DOMAIN G : G[i].file \in Range(order)
  BY <1>1, GatherFacts
<1>3. \A i \in DOMAIN G : kind[G[i].file] = "dependency"
  BY <1>1, <1>2 DEF Range
<1>. HIDE DEF G
<1>4. /\ recovered \in Seq(Found) /\ Len(recovered) <= NResults
      /\ DOMAIN recovered \subseteq DOMAIN G /\ \A p \in DOMAIN recovered : recovered[p] = G[p]
  BY <1>2, Basics, CutIs
<1>. HIDE DEF recovered
<1>5. inferred \in Seq(Found)
  <2>. DEFINE S == {c \in Range(found) : kind[c.file] # "dependency"}
  <2>1. Among(found, S) \in Seq(Found \cap S)
    BY AmongType
  <2>. HIDE DEF S
  <2>2. Among(found, S) \in Seq(Found)
    BY <2>1
  <2>. QED
    BY <2>2 DEF S
<1>. HIDE DEF inferred
<1>6. Len(recovered) \in Nat /\ NResults - Len(recovered) \in Nat
  BY <1>4, Basics
<1>7. more \in Seq(Found) /\ Len(more) <= NResults - Len(recovered)
  BY <1>5, <1>6, CutIs
<1>. HIDE DEF more
<1>8. CASE recovered # <<>>
  <2>. DEFINE w == recovered \o more
              a == [notice |-> "none", chunks |-> w]
  <2>1. w \in Seq(Found) /\ Len(w) <= NResults /\ 1 \in DOMAIN w /\ w[1] = recovered[1]
        /\ 1 \in DOMAIN recovered
    <3>1. w \in Seq(Found) /\ Len(w) = Len(recovered) + Len(more) /\ Len(more) \in Nat
      BY <1>4, <1>7
    <3>2. Len(recovered) >= 1 /\ w[1] = recovered[1]
      BY <1>4, <1>7, <1>8
    <3>. HIDE DEF w
    <3>. QED
      BY <1>4, <1>6, <1>7, <3>1, <3>2, Basics
  <2>. HIDE DEF w
  <2>2. kind[w[1].file] = "dependency"
    BY <1>3, <1>4, <2>1
  <2>3. a \in Answer /\ a.chunks = w
    BY <2>1 DEF Answer, Notices
  <2>4. HasDependency(w)
    BY <2>1, <2>2 DEF HasDependency
  <2>. HIDE DEF a
  <2>5. Limited(a) /\ Backed(a)
    BY <2>1, <2>3, <2>4 DEF Limited, Backed
  <2>6. EnforcedDependency(found) = a
    BY <1>8 DEF EnforcedDependency, a, w, more, inferred, recovered, G, order
  <2>. QED
    BY <2>5, <2>6
<1>9. CASE recovered = <<>>
  <2>. DEFINE n == IF order # <<>> THEN "not indexed" ELSE "incomplete"
              c == Cut(found, NResults)
              a == [notice |-> n, chunks |-> c]
  <2>1. n \in Notices \ {"none"}
    BY DEF Notices
  <2>2. c \in Seq(Found) /\ Len(c) <= NResults
    BY Basics, CutIs
  <2>. HIDE DEF n, c
  <2>3. a \in Answer /\ a.chunks = c /\ a.notice = n
    BY <2>1, <2>2 DEF Answer
  <2>. HIDE DEF a
  <2>4. Limited(a) /\ Backed(a)
    BY <2>1, <2>2, <2>3 DEF Limited, Backed
  <2>5. EnforcedDependency(found) = a
    BY <1>9 DEF EnforcedDependency, a, n, c, recovered, G, order
  <2>. QED
    BY <2>4, <2>5
<1>. QED
  BY <1>8, <1>9

LEMMA BestEffortIs ==
  ASSUME AllPlaced, ask.ranked \in Seq(Files)
  PROVE  Limited(BestEffort) /\ BestEffort.notice # "none"
<1>. DEFINE found == Gather(ask.ranked)
            c == Cut(found, NResults)
            a == [notice |-> "stale", chunks |-> c]
<1>1. found \in Seq(Found)
  BY GatherFacts
<1>. HIDE DEF found
<1>2. c \in Seq(Found) /\ Len(c) <= NResults
  BY <1>1, Basics, CutIs
<1>. HIDE DEF c
<1>3. a \in Answer /\ a.chunks = c /\ a.notice = "stale"
  BY <1>2 DEF Answer, Notices
<1>. HIDE DEF a
<1>4. BestEffort = a \/ BestEffort = [notice |-> "integrity", chunks |-> <<>>]
  BY DEF BestEffort, a, c, found
<1>5. "integrity" \in Notices \ {"none"}
  BY DEF Notices
<1>. QED
  BY <1>2, <1>3, <1>4, <1>5, SayingSo DEF Limited

\* The order in which a healthy manifest is collected, with the others after it.
Sources == <<ask.healthy>> \o Among(ask.ranked, Files \ {ask.healthy})

LEMMA SourcesAre ==
  ASSUME ask.ranked \in Seq(Files), ask.healthy \in Files
  PROVE  Sources \in Seq(Files) /\ Sources # <<>> /\ Sources[1] = ask.healthy
<1>. DEFINE next == Among(ask.ranked, Files \ {ask.healthy})
<1>1. next \in Seq(Files)
  BY SomeFiles
<1>. HIDE DEF next
<1>2. <<ask.healthy>> \o next \in Seq(Files) /\ Len(<<ask.healthy>> \o next) >= 1
      /\ (<<ask.healthy>> \o next)[1] = ask.healthy
  BY <1>1
<1>3. Sources = <<ask.healthy>> \o next
  BY DEF Sources, next
<1>. QED
  BY <1>2, <1>3

LEMMA AuthoritativeIs ==
  ASSUME AllPlaced, ask.ranked \in Seq(Files), ask.healthy \in Files
  PROVE  Limited(Authoritative) /\ Backed(Authoritative)
<1>. DEFINE found == Gather(Sources)
            c == Cut(found, NResults)
            a == [notice |-> "none", chunks |-> c]
<1>1. found \in Seq(Found) /\ InFront(found)
  BY SourcesAre, GatherFacts
<1>2. Authoritative = IF found = <<>> THEN NothingFound
                      ELSE IF Dependency /\ ~HasDependency(found) THEN EnforcedDependency(found)
                      ELSE a
  BY DEF Authoritative, Sources
<1>. HIDE DEF found
<1>3. CASE Authoritative = NothingFound
  <2>. DEFINE n == IF ~Dependency THEN "missing"
                   ELSE IF OfKind(ask.ranked, "dependency") = <<>> THEN "no dependency files"
                   ELSE "not indexed"
  <2>1. n \in Notices \ {"none"}
    BY DEF Notices
  <2>2. NothingFound = [notice |-> n, chunks |-> <<>>]
    BY DEF NothingFound
  <2>. HIDE DEF n
  <2>. QED
    BY <1>3, <2>1, <2>2, SayingSo
<1>4. CASE Authoritative = EnforcedDependency(found)
  BY <1>1, <1>4, EnforcedIs
<1>5. CASE Authoritative = a /\ (Dependency => HasDependency(found))
  <2>1. c \in Seq(Found) /\ Len(c) <= NResults
    BY <1>1, Basics, CutIs
  <2>2. Dependency => HasDependency(c)
    BY <1>1, <1>5, DependencyFirst
  <2>. HIDE DEF c
  <2>3. a \in Answer /\ a.chunks = c
    BY <2>1 DEF Answer, Notices
  <2>. HIDE DEF a
  <2>. QED
    BY <1>5, <2>1, <2>2, <2>3 DEF Limited, Backed
<1>. QED
  BY <1>2, <1>3, <1>4, <1>5

-----------------------------------------------------------------------------
\* The question.

\* What a cached answer is when it is given.
LEMMA CutCached ==
  ASSUME NEW e, e.answer \in Answer, Len(e.answer.chunks) <= NResults,
         Dependency => HasDependency(e.answer.chunks)
  PROVE  LET cut(a) == [a EXCEPT !.chunks = SubSeq(@, 1, IF a.notice = "none" \/ Len(@) < NResults
                                                       THEN Len(@) ELSE NResults - 1)]
         IN Limited(cut(e.answer)) /\ Backed(cut(e.answer))
<1>. DEFINE s == e.answer.chunks
            m == IF e.answer.notice = "none" \/ Len(s) < NResults THEN Len(s) ELSE NResults - 1
            t == SubSeq(s, 1, m)
            a == [e.answer EXCEPT !.chunks = t]
<1>1. s \in Seq(Found) /\ Len(s) \in Nat /\ Len(s) <= NResults /\ e.answer.notice \in Notices
  BY DEF Answer
<1>. HIDE DEF s
<1>2. m \in Nat /\ m <= NResults /\ m <= Len(s)
  BY <1>1, Basics
<1>3. e.answer.notice = "none" => m = Len(s)
  OBVIOUS
<1>. HIDE DEF m
<1>4. t \in Seq(Found) /\ Len(t) = m
  BY <1>1, <1>2
<1>5. e.answer.notice = "none" => t = s
  BY <1>1, <1>3, <1>4
<1>. HIDE DEF t
<1>6. a \in Answer /\ a.chunks = t /\ a.notice = e.answer.notice
  BY <1>4 DEF Answer
<1>. HIDE DEF a
<1>7. Limited(a)
  BY <1>2, <1>4, <1>6 DEF Limited
<1>8. Backed(a)
  BY <1>5, <1>6 DEF Backed, s
<1>. QED
  BY <1>7, <1>8 DEF a, t, m, s

LEMMA AnsweredT ==
  ASSUME AskT, ask.pc # "idle", NEW a, NEW b \in BOOLEAN, Limited(a), ask' = Answered(a, b)
  PROVE  /\ AskT' /\ ask'.pc = "answered" /\ ask'.answer = a /\ ask'.question = ask.question
         /\ ask'.cached = b /\ ask'.healthy = ask.healthy /\ ask'.seen = ask.seen
         /\ ask'.calm = ask.calm
<1>. DEFINE n == [ask EXCEPT !.pc = "answered", !.answer = a, !.cached = b]
<1>1. a \in Answer /\ Len(a.chunks) <= NResults
  BY DEF Limited
<1>2. /\ n \in [pc : AskStages, question : Questions \cup {None}, ranked : Seq(Files),
                tried : Nat, healthy : Files \cup {None}, cached : BOOLEAN, answer : Answer,
                seen : [Files -> SUBSET Contents], calm : BOOLEAN]
      /\ n.pc = "answered" /\ n.answer = a /\ n.question = ask.question /\ n.cached = b
      /\ n.healthy = ask.healthy /\ n.seen = ask.seen /\ n.calm = ask.calm
      /\ n.tried = ask.tried /\ n.ranked = ask.ranked
  BY <1>1 DEF AskT, AskStages
<1>3. ask' = n
  BY DEF Answered
<1>. HIDE DEF n
<1>. QED
  BY <1>1, <1>2, <1>3 DEF AskT

\* The answer that is collected.
LEMMA CollectIs ==
  ASSUME TInv, Collect
  PROVE  \E a : /\ a = IF ask.healthy = None THEN BestEffort ELSE Authoritative
                /\ Limited(a) /\ Backed(a) /\ ask' = Answered(a, FALSE)
                /\ ask.healthy = None => a.notice # "none"
<1>. DEFINE a == IF ask.healthy = None THEN BestEffort ELSE Authoritative
<1>1. AllPlaced /\ ask.ranked \in Seq(Files) /\ ask.healthy \in Files \cup {None}
  BY DEF TInv, StoreT, AskT
<1>2. CASE ask.healthy = None
  <2>1. Limited(a) /\ a.notice # "none"
    BY <1>1, <1>2, BestEffortIs
  <2>2. Backed(a)
    BY <2>1 DEF Backed
  <2>3. ask' = Answered(a, FALSE)
    BY DEF Collect
  <2>. HIDE DEF a
  <2>4. a = a /\ (ask.healthy = None => a.notice # "none")
    BY <2>1
  <2>. QED
    BY <1>2, <2>1, <2>2, <2>3 DEF a
<1>3. CASE ask.healthy # None
  <2>1. ask.healthy \in Files
    BY <1>1, <1>3
  <2>2. Limited(a) /\ Backed(a)
    BY <1>1, <1>3, <2>1, AuthoritativeIs
  <2>3. ask' = Answered(a, FALSE)
    BY DEF Collect
  <2>. HIDE DEF a
  <2>. QED
    BY <1>3, <2>2, <2>3 DEF a
<1>. QED
  BY <1>2, <1>3

LEMMA LookupIs ==
  ASSUME TInv, NEW old \in BOOLEAN, Lookup(old)
  PROVE  \/ \E a : \E b \in BOOLEAN :
               /\ Limited(a) /\ Backed(a) /\ ask' = Answered(a, b) /\ (b \/ a.notice # "none")
         \/ ask' = [ask EXCEPT !.pc = "validate", !.ranked = Ranked]
<1>. DEFINE cut(a) == [a EXCEPT !.chunks = SubSeq(@, 1, IF a.notice = "none" \/ Len(@) < NResults
                                                       THEN Len(@) ELSE NResults - 1)]
            good == {e \in {d \in cache : d.question = ask.question /\ d.fp = fp} :
                        /\ old \/ probe # "warning"
                        /\ Dependency => HasDependency(e.answer.chunks)}
            none == [notice |-> "empty", chunks |-> <<>>]
<1>1. CASE ask' = Answered(none, FALSE)
  <2>1. "empty" \in Notices \ {"none"} /\ none.notice # "none"
    BY DEF Notices
  <2>2. Limited(none) /\ Backed(none)
    BY <2>1, SayingSo
  <2>. HIDE DEF none
  <2>. QED
    BY <1>1, <2>1, <2>2
<1>2. ASSUME NEW e \in good, ask' = Answered(cut(e.answer), TRUE)
      PROVE  \E a : \E b \in BOOLEAN :
               /\ Limited(a) /\ Backed(a) /\ ask' = Answered(a, b) /\ (b \/ a.notice # "none")
  <2>1. /\ e.answer \in Answer /\ Len(e.answer.chunks) <= NResults
        /\ Dependency => HasDependency(e.answer.chunks)
    BY DEF TInv, CacheT
  <2>2. Limited(cut(e.answer)) /\ Backed(cut(e.answer))
    BY <2>1, CutCached
  <2>. HIDE DEF cut
  <2>. QED
    BY <1>2, <2>2
<1>3. \/ ask' = Answered(none, FALSE)
      \/ \E e \in good : ask' = Answered(cut(e.answer), TRUE)
      \/ ask' = [ask EXCEPT !.pc = "validate", !.ranked = Ranked]
  BY DEF Lookup
<1>. HIDE DEF good, cut, none
<1>. QED
  BY <1>1, <1>2, <1>3

LEMMA CacheTStep == TInv /\ [Next]_vars => CacheT'
<1>. SUFFICES ASSUME TInv, [Next]_vars PROVE CacheT'
  OBVIOUS
<1>. USE DEF store, aside, beside, bystanders
<1>1. CASE cache' \subseteq cache
  BY <1>1 DEF TInv, CacheT
<1>2. CASE Collect
  <2>1. PICK a : a = (IF ask.healthy = None THEN BestEffort ELSE Authoritative) /\ Limited(a)
    BY <1>2, CollectIs
  <2>. DEFINE e == [question |-> ask.question, fp |-> fp, answer |-> a]
  <2>2. cache' \subseteq cache \/ (a.chunks # <<>> /\ cache' \subseteq cache \cup {e})
    BY <1>2, <2>1 DEF Collect
  <2>3. ask.question \in Questions /\ fp \in [Files -> Contents]
    BY <1>2 DEF TInv, AskT, StoreT, Collect
  <2>4. /\ e.question \in Questions /\ e.fp \in [Files -> Contents] /\ e.answer \in Answer
        /\ Len(e.answer.chunks) <= NResults /\ e.answer.chunks = a.chunks
    BY <2>1, <2>3 DEF Limited
  <2>. HIDE DEF e
  <2>5. CASE a.chunks # <<>> /\ cache' \subseteq cache \cup {e}
    <3>1. e.answer.chunks # <<>>
      BY <2>4, <2>5
    <3>2. ASSUME NEW x \in cache'
          PROVE  /\ x.question \in Questions /\ x.fp \in [Files -> Contents]
                 /\ x.answer \in Answer /\ x.answer.chunks # <<>>
                 /\ Len(x.answer.chunks) <= NResults
      <4>1. CASE x = e
        BY <2>4, <3>1, <4>1
      <4>2. CASE x \in cache
        BY <4>2 DEF TInv, CacheT
      <4>. QED
        BY <2>5, <4>1, <4>2
    <3>. QED
      BY <3>2 DEF CacheT
  <2>. QED
    BY <1>1, <2>2, <2>5
<1>3. CASE AskStep
  BY <1>1, <1>2, <1>3 DEF AskStep, Ask, Lookup, Validate, Recheck, Revalidate
<1>4. CASE EditStep
  BY <1>1, <1>4 DEF EditStep, EditLoad, EditHash, EditRead, EditWrite, EditEnd
<1>5. CASE RunStep
  BY <1>1, <1>5 DEF RunStep, RunStart, RunClear, RunStore, RunSave, RunProbe, RunFails
<1>6. CASE \E w \in Workers : Repair(w)
  BY <1>1, <1>6 DEF Repair, RepairLoad, RepairChunk, RepairHash, RepairUpsert, RepairDelete,
                    RepairSave, RepairFails, outside
<1>7. CASE (\E f \in Files : Save(f)) \/ UNCHANGED vars
  BY <1>1, <1>7 DEF Save, vars
<1>. QED
  BY <1>3, <1>4, <1>5, <1>6, <1>7 DEF Next

LEMMA OrdersAre == \A o \in Orders : o \in Seq(Files)
<1>1. Cardinality(Files) \in Nat
  BY FilesAssumption, FS_CardinalityType
<1>. QED
  BY <1>1 DEF Orders

\* What others do to the question: note a version that was there, or that a run began.
LEMMA AskOthers ==
  ASSUME TInv, [Next]_vars, ~AskStep
  PROVE  \/ disk' = disk /\ (ask' = ask \/ Uncalm)
         \/ \E f \in Files : \E v \in Contents : Seen(f, v) /\ disk' = [disk EXCEPT ![f] = v]
<1>. USE DEF store, aside, beside, bystanders
<1>1. CASE EditWrite
  <2>1. last + 1 \in Contents /\ edit.file \in Files
    <3>1. last \in Versions /\ last < Len(Size) /\ edit.file \in Files
      BY <1>1 DEF TInv, StoreT, EditT, EditWrite
    <3>. QED
      BY <3>1, Basics
  <2>. QED
    BY <1>1, <2>1 DEF EditWrite
<1>2. ASSUME NEW f \in Files, Save(f)
      PROVE  \E v \in Contents : Seen(f, v) /\ disk' = [disk EXCEPT ![f] = v]
  <2>1. PICK v \in {last + 1, None} : Seen(f, v) /\ disk' = [disk EXCEPT ![f] = v]
    BY <1>2 DEF Save
  <2>2. v \in Contents
    <3>1. last \in Versions /\ last < Len(Size)
      BY <1>2 DEF TInv, StoreT, Save
    <3>. QED
      BY <2>1, <3>1, Basics
  <2>. QED
    BY <2>1, <2>2
<1>3. CASE EditStep
  BY <1>1, <1>3 DEF EditStep, EditLoad, EditHash, EditRead, EditEnd
<1>4. CASE RunStep
  BY <1>4 DEF RunStep, RunStart, RunClear, RunStore, RunSave, RunProbe, RunFails
<1>5. CASE \E w \in Workers : Repair(w)
  BY <1>5 DEF Repair, RepairLoad, RepairChunk, RepairHash, RepairUpsert, RepairDelete,
              RepairSave, RepairFails, outside
<1>. QED
  BY <1>2, <1>3, <1>4, <1>5 DEF Next, vars

LEMMA AskTStep == TInv /\ [Next]_vars => AskT'
<1>. SUFFICES ASSUME TInv, [Next]_vars PROVE AskT'
  OBVIOUS
<1>. DEFINE A == [pc : AskStages, question : Questions \cup {None}, ranked : Seq(Files),
                  tried : Nat, healthy : Files \cup {None}, cached : BOOLEAN, answer : Answer,
                  seen : [Files -> SUBSET Contents], calm : BOOLEAN]
<1>1. AskT /\ ask \in A
  BY DEF TInv, AskT
<1>2. ASSUME NEW q \in Questions, Ask(q) PROVE AskT'
  <2>. DEFINE s == [f \in Files |-> {disk[f]}]
              b == ~RunActive
              n == [NoAsk EXCEPT !.pc = "lookup", !.question = q, !.seen = s, !.calm = b]
  <2>1. s \in [Files -> SUBSET Contents] /\ b \in BOOLEAN
    BY Holdings DEF TInv, StoreT
  <2>2. ask' = n
    BY <1>2 DEF Ask
  <2>. HIDE DEF s, b
  <2>3. NoAnswer \in Answer /\ Len(NoAnswer.chunks) = 0
    BY DEF NoAnswer, Answer, Notices
  <2>4. /\ NoAsk \in A /\ NoAsk.tried = 0 /\ NoAsk.ranked = <<>> /\ NoAsk.answer = NoAnswer
        /\ NoAsk.healthy = None
    <3>. DEFINE none == [f \in Files |-> {}]
    <3>1. none \in [Files -> SUBSET Contents]
      OBVIOUS
    <3>2. NoAsk = [pc |-> "idle", question |-> None, ranked |-> <<>>, tried |-> 0, healthy |-> None,
                   cached |-> FALSE, answer |-> NoAnswer, seen |-> none, calm |-> TRUE]
      BY DEF NoAsk
    <3>. HIDE DEF none
    <3>. QED
      BY <2>3, <3>1, <3>2 DEF AskStages
  <2>5. /\ n \in A /\ n.pc = "lookup" /\ n.question = q /\ n.tried = 0 /\ n.ranked = <<>>
        /\ n.answer = NoAnswer /\ n.healthy = None
    BY <2>1, <2>4 DEF AskStages
  <2>. HIDE DEF n
  <2>. QED
    BY <2>2, <2>3, <2>5, Basics DEF AskT
<1>3. ASSUME NEW old \in BOOLEAN, Lookup(old) PROVE AskT'
  <2>1. ask.pc = "lookup" /\ ask.question \in Questions /\ ask.tried = 0
    BY <1>1, <1>3 DEF Lookup, AskT
  <2>2. ASSUME NEW a, NEW b \in BOOLEAN, Limited(a), ask' = Answered(a, b) PROVE AskT'
    BY <1>1, <2>1, <2>2, AnsweredT
  <2>3. CASE ask' = [ask EXCEPT !.pc = "validate", !.ranked = Ranked]
    <3>1. Ranked \in Seq(Files)
      <4>1. ask.question.order \in Seq(Files)
        BY <2>1, OrdersAre DEF Questions
      <4>. QED
        BY <4>1, SomeFiles DEF Ranked
    <3>2. /\ ask' \in A /\ ask'.pc = "validate" /\ ask'.question = ask.question
          /\ ask'.healthy = ask.healthy
          /\ ask'.tried = 0 /\ ask'.ranked = Ranked /\ ask'.answer = ask.answer
      BY <1>1, <2>1, <2>3, <3>1 DEF AskStages
    <3>. QED
      BY <1>1, <2>1, <3>1, <3>2 DEF AskT
  <2>4. \/ \E a : \E b \in BOOLEAN : Limited(a) /\ ask' = Answered(a, b)
        \/ ask' = [ask EXCEPT !.pc = "validate", !.ranked = Ranked]
    BY <1>3, LookupIs
  <2>. QED
    BY <2>2, <2>3, <2>4
<1>4. CASE Validate
  <2>1. ask.pc = "validate" /\ ask.question \in Questions /\ ask.tried \in Nat
        /\ ask.ranked \in Seq(Files) /\ ask.tried <= Len(ask.ranked) /\ ask.healthy = None
    BY <1>1, <1>4 DEF Validate, AskT
  <2>2. CASE ask.tried = Len(ask.ranked)
    <3>. DEFINE p == IF ask.ranked = <<>> THEN "collect" ELSE "recheck"
    <3>1. ask' = [ask EXCEPT !.pc = p]
      BY <1>4, <2>2 DEF Validate
    <3>2. p \in AskStages /\ (p = "recheck" => ask.ranked # <<>>) /\ p \notin {"lookup", "idle"}
      BY DEF AskStages
    <3>. HIDE DEF p
    <3>. QED
      BY <1>1, <2>1, <3>1, <3>2 DEF AskT
  <2>3. CASE ask.tried # Len(ask.ranked)
    <3>. DEFINE f == ask.ranked[ask.tried + 1]
    <3>1. f \in Files /\ ask.tried + 1 <= Len(ask.ranked)
      BY <2>1, <2>3
    <3>2. \/ ask' = [ask EXCEPT !.pc = "collect", !.healthy = f]
          \/ ask' = [ask EXCEPT !.tried = @ + 1]
      BY <1>4, <2>3 DEF Validate
    <3>. HIDE DEF f
    <3>3. CASE ask' = [ask EXCEPT !.pc = "collect", !.healthy = f]
      BY <1>1, <2>1, <3>1, <3>3 DEF AskT, AskStages
    <3>4. CASE ask' = [ask EXCEPT !.tried = @ + 1]
      <4>1. /\ ask' \in A /\ ask'.pc = "validate" /\ ask'.question = ask.question
            /\ ask'.healthy = ask.healthy
            /\ ask'.tried = ask.tried + 1 /\ ask'.ranked = ask.ranked /\ ask'.answer = ask.answer
        BY <1>1, <2>1, <3>4
      <4>. QED
        BY <1>1, <2>1, <3>1, <4>1 DEF AskT
    <3>. QED
      BY <3>2, <3>3, <3>4
  <2>. QED
    BY <2>2, <2>3
<1>5. CASE Recheck
  <2>. DEFINE f == ask.ranked[1]
  <2>1. f \in Files /\ ask.pc = "recheck"
    BY <1>1, <1>5 DEF AskT, Recheck
  <2>2. ask' = [ask EXCEPT !.pc = "collect", !.healthy = f] \/ ask' = [ask EXCEPT !.pc = "revalidate"]
    BY <1>5 DEF Recheck
  <2>. HIDE DEF f
  <2>. QED
    BY <1>1, <2>1, <2>2 DEF AskT, AskStages
<1>6. CASE Revalidate
  <2>. DEFINE h == IF HealthyDeep(rep["ask"].file) THEN rep["ask"].file ELSE None
  <2>1. h \in Files \cup {None} /\ ask.pc = "revalidate"
    BY <1>6 DEF Revalidate, TInv, WorkT, Workers
  <2>2. ask' = [ask EXCEPT !.pc = "collect", !.healthy = h]
    BY <1>6 DEF Revalidate
  <2>. HIDE DEF h
  <2>. QED
    BY <1>1, <2>1, <2>2 DEF AskT, AskStages
<1>7. CASE Collect
  <2>1. PICK a : Limited(a) /\ ask' = Answered(a, FALSE)
    BY <1>7, CollectIs
  <2>. QED
    BY <1>1, <1>7, <2>1, AnsweredT DEF Collect
<1>8. CASE ask' = ask
  BY <1>1, <1>8 DEF AskT
<1>9. ASSUME NEW f \in Files, NEW v \in Contents, Seen(f, v) PROVE AskT'
  <2>1. CASE ask' = [ask EXCEPT !.seen[f] = @ \cup {v}]
    BY <1>1, <2>1 DEF AskT
  <2>. QED
    BY <1>8, <1>9, <2>1 DEF Seen
<1>10. CASE Uncalm
  <2>1. CASE ask' = [ask EXCEPT !.calm = FALSE]
    BY <1>1, <2>1 DEF AskT
  <2>. QED
    BY <1>8, <1>10, <2>1 DEF Uncalm
<1>11. CASE ~AskStep
  BY <1>8, <1>9, <1>10, <1>11, AskOthers
<1>. QED
  BY <1>2, <1>3, <1>4, <1>5, <1>6, <1>7, <1>11 DEF AskStep

LEMMA TInit == Init => TInv
<1>. SUFFICES ASSUME Init PROVE TInv
  OBVIOUS
<1>1. 1 \in Versions /\ 1 \in Contents /\ Size[1] \in Nat
  BY Basics
<1>2. SOTInv
  BY SOTInit
<1>3. AllPlaced
  <2>1. vec = [f \in Files |-> Chunks(1)]
    BY DEF Init
  <2>. QED
    BY <1>1, <2>1, ChunksPlaced DEF AllPlaced
<1>4. StoreT
  <2>1. counts = [f \in Files |-> Size[1]] /\ disk = [f \in Files |-> 1]
    BY DEF Init
  <2>. QED
    BY <1>1, <1>3, <2>1 DEF Init, StoreT
<1>5. WorkT
  BY Basics DEF Init, WorkT, Idle
<1>6. EditT
  BY Basics DEF Init, EditT, NoEdit
<1>7. AskT
  <2>1. NoAnswer \in Answer /\ Len(NoAnswer.chunks) = 0
    BY DEF NoAnswer, Answer, Notices
  <2>2. [f \in Files |-> {}] \in [Files -> SUBSET Contents]
    OBVIOUS
  <2>. QED
    BY <2>1, <2>2, Basics DEF Init, AskT, NoAsk, AskStages
<1>8. CacheT
  BY DEF Init, CacheT
<1>. QED
  BY <1>2, <1>4, <1>5, <1>6, <1>7, <1>8 DEF TInv

LEMMA TStep == TInv /\ [Next]_vars => TInv'
  BY SOTStep, StoreTStep, WorkTStep, EditTStep, AskTStep, CacheTStep DEF TInv

\* Every variable has its type; an answer has at most n_results chunks, and no manifest
\* has chunks at places that no version of it has (_fetch_exact_file, search).
THEOREM Types == Spec => []TypeOK
<1>1. ASSUME TInv PROVE TypeOK
  <2>. USE DEF TInv
  <2>1. /\ disk \in [Files -> Contents] /\ last \in Versions
        /\ entry \in [Files -> Contents] /\ counts \in [Files -> Nat \cup {None}]
        /\ known \subseteq Files /\ fp \in [Files -> Contents]
        /\ probe \in {"healthy", "warning"} /\ excused \subseteq Files
        /\ run \in [pc : {"idle", "clear", "store", "probe"}, snap : [Files -> Contents],
                    todo : SUBSET Files]
    BY <1>1, Holdings DEF StoreT
  <2>2. ASSUME NEW f \in Files
        PROVE  /\ Range(vec[f]) \subseteq Versions
               /\ \A p \in DOMAIN vec[f] : p \in DOMAIN Chunks(vec[f][p])
    <3>1. Placed(vec[f])
      BY <1>1 DEF StoreT, AllPlaced
    <3>2. \A p \in DOMAIN vec[f] : vec[f][p] # None
      BY <3>1, Basics DEF Placed
    <3>. QED
      BY <3>1, <3>2 DEF Placed, Range, Chunks
  <2>3. \A e \in cache : /\ e.question \in Questions /\ e.fp \in [Files -> Contents]
                         /\ e.answer \in Answer /\ e.answer.chunks # <<>>
    BY <1>1 DEF CacheT
  <2>4. \A w \in Workers : /\ rep[w].pc \in {"idle", "load", "chunk", "hash", "upsert", "delete",
                                            "save", "done"}
                           /\ rep[w].file \in Files \cup {None}
                           /\ rep[w].hashes \in [Files -> Contents]
    BY <1>1, <2>1, Holdings DEF WorkT, Stages
  <2>5. /\ edit.pc \in {"idle", "hash", "read", "write", "reindex"}
        /\ edit.file \in Files \cup {None} /\ edit.digest \in Contents
    BY <1>1 DEF EditT
  <2>6. /\ ask.pc \in {"idle", "lookup", "validate", "recheck", "revalidate", "collect", "answered"}
        /\ ask.answer \in Answer /\ Len(ask.answer.chunks) <= NResults
    BY <1>1 DEF AskT, AskStages
  <2>. QED
    BY <2>1, <2>2, <2>3, <2>4, <2>5, <2>6 DEF TypeOK
<1>. QED
  BY <1>1, TInit, TStep, PTL DEF Spec

-----------------------------------------------------------------------------
\* What is answered.

\* A question is answered as it was asked, or what is answered stays, or nothing is.
LEMMA AskMoves ==
  ASSUME TInv, [Next]_vars
  PROVE  \/ ask'.pc # "answered"
         \/ ask' = ask
         \/ \E a : \E b \in BOOLEAN :
               /\ ask.pc # "idle" /\ Limited(a) /\ Backed(a) /\ ask' = Answered(a, b)
               /\ b \/ a.notice # "none" \/ (Collect /\ ask.healthy # None /\ a = Authoritative)
<1>1. AskT /\ AskT'
  BY AskTStep DEF TInv
<1>2. ASSUME NEW q \in Questions, Ask(q) PROVE ask'.pc = "lookup"
  BY <1>2 DEF Ask, NoAsk
<1>3. ASSUME NEW old \in BOOLEAN, Lookup(old)
      PROVE  \/ ask'.pc # "answered"
             \/ \E a : \E b \in BOOLEAN :
                   /\ ask.pc # "idle" /\ Limited(a) /\ Backed(a) /\ ask' = Answered(a, b)
                   /\ b \/ a.notice # "none"
  <2>1. ask.pc = "lookup"
    BY <1>3 DEF Lookup
  <2>2. CASE ask' = [ask EXCEPT !.pc = "validate", !.ranked = Ranked]
    BY <1>1, <2>2 DEF AskT
  <2>. QED
    BY <1>3, <2>1, <2>2, LookupIs
<1>4. CASE Validate
  BY <1>1, <1>4 DEF AskT, Validate
<1>5. CASE Recheck \/ Revalidate
  BY <1>1, <1>5 DEF AskT, Recheck, Revalidate
<1>6. CASE Collect
  <2>1. PICK a : /\ a = IF ask.healthy = None THEN BestEffort ELSE Authoritative
                 /\ Limited(a) /\ Backed(a) /\ ask' = Answered(a, FALSE)
                 /\ ask.healthy = None => a.notice # "none"
    BY <1>6, CollectIs
  <2>2. ask.pc # "idle"
    BY <1>6 DEF Collect
  <2>3. a.notice # "none" \/ (ask.healthy # None /\ a = Authoritative)
    BY <2>1
  <2>. QED
    BY <1>6, <2>1, <2>2, <2>3
<1>7. CASE ~AskStep
  <2>1. ASSUME NEW f \in Files, NEW v \in Contents, Seen(f, v)
        PROVE  ask' = ask \/ ask'.pc # "answered"
    BY <1>1, <2>1 DEF Seen, Asking, AskT
  <2>2. CASE Uncalm
    BY <1>1, <2>2 DEF Uncalm, Asking, AskT
  <2>. QED
    BY <1>7, <2>1, <2>2, AskOthers
<1>. QED
  BY <1>2, <1>3, <1>4, <1>5, <1>6, <1>7 DEF AskStep

LEMMA BackedInit == Init => AnswersAreBacked
  BY DEF Init, NoAsk, AnswersAreBacked

LEMMA BackedStep == TInv /\ AnswersAreBacked /\ [Next]_vars => AnswersAreBacked'
<1>. SUFFICES ASSUME TInv, AnswersAreBacked, [Next]_vars PROVE AnswersAreBacked'
  OBVIOUS
<1>1. CASE ask'.pc # "answered"
  BY <1>1 DEF AnswersAreBacked
<1>2. CASE ask' = ask
  BY <1>2 DEF AnswersAreBacked, Dependency
<1>3. ASSUME NEW a, NEW b \in BOOLEAN, ask.pc # "idle", Limited(a), Backed(a), ask' = Answered(a, b)
      PROVE  AnswersAreBacked'
  <2>1. ask'.answer = a /\ ask'.question = ask.question
    BY <1>3, AnsweredT DEF TInv
  <2>. QED
    BY <1>3, <2>1 DEF Backed, AnswersAreBacked, Dependency
<1>. QED
  BY <1>1, <1>2, <1>3, AskMoves

\* An answer about dependencies has a chunk of a dependency file or says what is
\* missing, for any number of manifests and of chunks in them (search,
\* _retrieve_config_first).
THEOREM BacksAnswers == Spec => []AnswersAreBacked
  BY TInit, TStep, BackedInit, BackedStep, PTL DEF Spec

-----------------------------------------------------------------------------
\* The first source of an answer.

\* The versions a question has seen include those there are.
SeenNow == Asking => \A f \in Files : disk[f] \in ask.seen[f]
CalmRun == Asking /\ ask.calm => run.pc = "idle"

\* The collection has a version of h that the question has seen, and a repair that
\* is to write h writes one that it has seen.
Fresh(h) ==
    /\ \E v \in ask.seen[h] : Full(h, v)
    /\ \A w \in Under : rep[w].file = h /\ rep[w].pc # "chunk" => rep[w].read \in ask.seen[h]

Current ==
    ask.pc = "collect" /\ ask.calm
        => \A h \in Files \ excused : h = ask.healthy /\ h # None => Fresh(h)

FInv == TInv /\ SeenNow /\ CalmRun /\ Current /\ FirstSourceIsCurrent

LEMMA ExcusedGrows ==
  ASSUME TInv, [Next]_vars
  PROVE  excused \subseteq excused'
<1>. USE DEF store, aside, beside, bystanders
<1>1. excused \subseteq Files
  BY DEF TInv, StoreT
<1>2. CASE AskStep
  BY <1>2 DEF AskStep, Ask, Lookup, Validate, Recheck, Revalidate, Collect
<1>3. CASE EditStep
  BY <1>3 DEF EditStep, EditLoad, EditHash, EditRead, EditWrite, EditEnd
<1>4. CASE RunStep
  BY <1>1, <1>4 DEF RunStep, RunStart, RunClear, RunStore, RunSave, RunProbe, RunFails
<1>5. CASE \E w \in Workers : Repair(w)
  BY <1>1, <1>5 DEF Repair, RepairLoad, RepairChunk, RepairHash, RepairUpsert, RepairDelete,
                    RepairSave, RepairFails
<1>6. CASE (\E f \in Files : Save(f)) \/ UNCHANGED vars
  BY <1>6 DEF Save, vars
<1>. QED
  BY <1>2, <1>3, <1>4, <1>5, <1>6 DEF Next

\* What a question that goes on keeps.
GoesOn ==
    /\ Asking
    /\ ask'.calm => ask.calm
    /\ \A f \in Files : ask.seen[f] \subseteq ask'.seen[f]
    /\ \A f \in Files : disk'[f] = disk[f] \/ disk'[f] \in ask'.seen[f]

LEMMA AskGoesOn ==
  ASSUME TInv, [Next]_vars, Asking', \A q \in Questions : ~Ask(q)
  PROVE  GoesOn
<1>. USE DEF store, aside, beside, bystanders
<1>1. AskT /\ AskT' /\ ask.seen \in [Files -> SUBSET Contents] /\ disk \in [Files -> Contents]
  BY AskTStep, Holdings DEF TInv, AskT, StoreT
<1>2. CASE AskStep
  <2>1. disk' = disk /\ Asking
    BY <1>2 DEF AskStep, Lookup, Validate, Recheck, Revalidate, Collect, Asking
  <2>2. ask'.seen = ask.seen /\ ask'.calm = ask.calm
    <3>1. ASSUME NEW old \in BOOLEAN, Lookup(old) PROVE ask'.seen = ask.seen /\ ask'.calm = ask.calm
      <4>1. ASSUME NEW a, NEW b \in BOOLEAN, ask' = Answered(a, b)
            PROVE  ask'.seen = ask.seen /\ ask'.calm = ask.calm
        BY <1>1, <4>1 DEF AskT, Answered
      <4>2. CASE ask' = [ask EXCEPT !.pc = "validate", !.ranked = Ranked]
        BY <1>1, <4>2 DEF AskT
      <4>. QED
        BY <3>1, <4>1, <4>2, LookupIs
    <3>2. CASE Validate
      BY <1>1, <3>2 DEF AskT, Validate
    <3>3. CASE Recheck \/ Revalidate
      BY <1>1, <3>3 DEF AskT, Recheck, Revalidate
    <3>4. CASE Collect
      BY <1>1, <3>4 DEF AskT, Collect, Answered
    <3>. QED
      BY <1>2, <3>1, <3>2, <3>3, <3>4 DEF AskStep
  <2>. QED
    BY <2>1, <2>2 DEF GoesOn
<1>3. ASSUME NEW f \in Files, NEW v \in Contents, Seen(f, v), disk' = [disk EXCEPT ![f] = v]
      PROVE  GoesOn
  <2>1. CASE Asking
    <3>1. ask' = [ask EXCEPT !.seen[f] = @ \cup {v}]
      BY <1>3, <2>1 DEF Seen
    <3>2. /\ ask'.calm = ask.calm /\ ask'.seen[f] = ask.seen[f] \cup {v}
          /\ \A g \in Files \ {f} : ask'.seen[g] = ask.seen[g]
      BY <1>1, <3>1 DEF AskT
    <3>3. \A g \in Files \ {f} : disk'[g] = disk[g]
      BY <1>1, <1>3
    <3>4. disk'[f] = v
      BY <1>1, <1>3
    <3>. QED
      BY <2>1, <3>2, <3>3, <3>4 DEF GoesOn
  <2>2. CASE ~Asking
    BY <1>3, <2>2 DEF Seen, Asking
  <2>. QED
    BY <2>1, <2>2
<1>4. CASE ~AskStep /\ disk' = disk /\ (ask' = ask \/ Uncalm)
  <2>1. CASE ask' = ask
    BY <1>4, <2>1 DEF GoesOn, Asking
  <2>2. CASE Uncalm /\ Asking
    <3>1. ask'.calm = FALSE /\ ask'.seen = ask.seen
      BY <1>1, <2>2 DEF AskT, Uncalm
    <3>. QED
      BY <1>4, <2>2, <3>1 DEF GoesOn
  <2>. QED
    BY <1>4, <2>1, <2>2 DEF Uncalm
<1>5. CASE ~AskStep
  <2>1. \/ disk' = disk /\ (ask' = ask \/ Uncalm)
        \/ \E f \in Files : \E v \in Contents : Seen(f, v) /\ disk' = [disk EXCEPT ![f] = v]
    BY <1>5, AskOthers
  <2>. QED
    BY <1>3, <1>4, <1>5, <2>1
<1>. QED
  BY <1>2, <1>5

LEMMA SeenStep ==
  ASSUME TInv, SeenNow, [Next]_vars
  PROVE  SeenNow'
<1>1. ASSUME NEW q \in Questions, Ask(q) PROVE SeenNow'
  <2>. DEFINE s == [f \in Files |-> {disk[f]}]
  <2>1. ask'.seen = s
    <3>. HIDE DEF s
    <3>. QED
      BY <1>1 DEF Ask, NoAsk, s
  <2>2. disk' = disk
    BY <1>1 DEF Ask, aside
  <2>. QED
    BY <2>1, <2>2 DEF SeenNow
<1>2. CASE Asking' /\ \A q \in Questions : ~Ask(q)
  <2>1. GoesOn
    BY <1>2, AskGoesOn
  <2>. QED
    BY <2>1 DEF GoesOn, SeenNow
<1>. QED
  BY <1>1, <1>2 DEF SeenNow

LEMMA CalmStep ==
  ASSUME TInv, CalmRun, [Next]_vars
  PROVE  CalmRun'
<1>. USE DEF store, aside, beside, bystanders
<1>1. ASSUME NEW q \in Questions, Ask(q) PROVE CalmRun'
  BY <1>1 DEF Ask, NoAsk, CalmRun, RunActive
<1>2. CASE Asking' /\ ask'.calm /\ \A q \in Questions : ~Ask(q)
  <2>1. Asking /\ ask.calm /\ run.pc = "idle"
    BY <1>2, AskGoesOn DEF GoesOn, CalmRun
  <2>2. CASE run' = run
    BY <2>1, <2>2 DEF CalmRun
  <2>3. CASE RunStep
    <3>1. \A forced \in BOOLEAN : ~RunStart(forced)
      <4>1. ASSUME NEW forced \in BOOLEAN, RunStart(forced) PROVE FALSE
        <5>1. ask' = [ask EXCEPT !.calm = FALSE]
          BY <2>1, <4>1 DEF RunStart, Uncalm
        <5>. QED
          BY <1>2, <5>1 DEF TInv, AskT
      <4>. QED
        BY <4>1
    <3>. QED
      BY <2>1, <2>3, <3>1 DEF RunStep, RunClear, RunStore, RunSave, RunProbe, RunFails
  <2>4. CASE AskStep
    BY <2>2, <2>4 DEF AskStep, Ask, Lookup, Validate, Recheck, Revalidate, Collect
  <2>5. CASE EditStep
    BY <2>2, <2>5 DEF EditStep, EditLoad, EditHash, EditRead, EditWrite, EditEnd
  <2>6. CASE \E w \in Workers : Repair(w)
    BY <2>2, <2>6 DEF Repair, RepairLoad, RepairChunk, RepairHash, RepairUpsert, RepairDelete,
                      RepairSave, RepairFails, outside
  <2>7. CASE (\E f \in Files : Save(f)) \/ UNCHANGED vars
    BY <2>2, <2>7 DEF Save, vars
  <2>. QED
    BY <2>3, <2>4, <2>5, <2>6, <2>7 DEF Next
<1>. QED
  BY <1>1, <1>2 DEF CalmRun

\* A manifest that looks unchanged is collected as it is, and a repair of it that
\* has read it has read that.
LEMMA FreshNow ==
  ASSUME TInv, SeenNow, Asking, run.pc = "idle", NEW h, h \in Files \ excused, LooksUnchanged(h)
  PROVE  Fresh(h)
<1>1. entry[h] = disk[h] /\ disk[h] # None /\ disk[h] \in ask.seen[h] /\ ~Gone(h, entry[h])
  BY DEF LooksUnchanged, SeenNow, Gone
<1>2. Full(h, entry[h])
  BY <1>1, EntryFacts DEF TInv, SOTInv
<1>3. ASSUME NEW w \in Under, rep[w].file = h, rep[w].pc # "chunk"
      PROVE  rep[w].read \in ask.seen[h]
  <2>1. Right(rep[w], h)
    BY DEF TInv, SOTInv, Repairing
  <2>2. rep[w].read = disk[h]
    BY <1>1, <1>3, <2>1 DEF Right
  <2>. QED
    BY <1>1, <2>2
<1>. QED
  BY <1>1, <1>2, <1>3 DEF Fresh

LEMMA HealthyLooks ==
  \A f : \A n : Healthy(f, n) => LooksUnchanged(f)
  BY DEF Healthy, Stale, LooksUnchanged

\* Fresh, after a step that leaves the collection as it is.
LEMMA FreshStays ==
  ASSUME NEW h, Fresh(h), vec' = vec, ask.seen[h] \subseteq ask'.seen[h],
         \A w \in Under' : w \in Under /\ rep'[w] = rep[w]
  PROVE  Fresh(h)'
<1>1. (\E v \in ask.seen[h] : Full(h, v))'
  BY DEF Fresh, Full
<1>2. (\A w \in Under : rep[w].file = h /\ rep[w].pc # "chunk" => rep[w].read \in ask.seen[h])'
  BY DEF Fresh
<1>. QED
  BY <1>1, <1>2 DEF Fresh

\* A question that comes to collect.
LEMMA CurrentAsk ==
  ASSUME FInv, AskStep
  PROVE  Current'
<1>. USE DEF FInv, store, aside
<1>1. [Next]_vars /\ AskT /\ AskT'
  BY AskTStep DEF TInv, Next
<1>2. SUFFICES ASSUME ask'.pc = "collect", ask'.calm, NEW h, h \in Files \ excused',
                      h = ask'.healthy, h # None
               PROVE  Fresh(h)'
  BY DEF Current
<1>3. excused' = excused /\ vec' = vec /\ \A q \in Questions : ~Ask(q)
  <2>1. excused' = excused /\ vec' = vec
    BY DEF AskStep, Ask, Lookup, Validate, Recheck, Revalidate, Collect
  <2>2. ASSUME NEW q \in Questions, Ask(q) PROVE FALSE
    <3>1. ask'.pc = "lookup"
      BY <2>2 DEF Ask, NoAsk
    <3>. QED
      BY <1>2, <3>1
  <2>. QED
    BY <2>1, <2>2
<1>4. Asking' /\ GoesOn
  <2>1. Asking'
    BY <1>2 DEF Asking
  <2>. QED
    BY <1>1, <1>3, <2>1, AskGoesOn
<1>5. /\ Asking /\ ask.calm /\ run.pc = "idle" /\ ask.seen[h] \subseteq ask'.seen[h]
      /\ h \in Files \ excused
  BY <1>2, <1>3, <1>4 DEF GoesOn, CalmRun
<1>6. ASSUME LooksUnchanged(h) PROVE Fresh(h)
  BY <1>5, <1>6, FreshNow
<1>7. \A old \in BOOLEAN : ~Lookup(old)
  <2>1. ASSUME NEW old \in BOOLEAN, Lookup(old) PROVE FALSE
    <3>1. ASSUME NEW a, NEW b \in BOOLEAN, ask' = Answered(a, b) PROVE ask'.pc = "answered"
      BY <1>1, <3>1 DEF AskT, Answered
    <3>2. CASE ask' = [ask EXCEPT !.pc = "validate", !.ranked = Ranked]
      BY <1>1, <1>2, <3>2 DEF AskT
    <3>. QED
      BY <1>2, <2>1, <3>1, <3>2, LookupIs
  <2>. QED
    BY <2>1
<1>8. ~Collect
  <2>1. ASSUME Collect PROVE FALSE
    <3>1. PICK a : ask' = Answered(a, FALSE)
      BY <2>1, CollectIs
    <3>. QED
      BY <1>1, <1>2, <3>1 DEF AskT, Answered
  <2>. QED
    BY <2>1
<1>9. CASE Validate
  <2>1. rep' = rep
    BY <1>9 DEF Validate
  <2>2. LooksUnchanged(h)
    <3>1. ask.healthy = None /\ ask.pc = "validate"
      BY <1>1, <1>9 DEF AskT, Validate
    <3>2. CASE ask.tried = Len(ask.ranked)
      BY <1>1, <1>2, <1>9, <3>1, <3>2 DEF AskT, Validate
    <3>3. CASE ask.tried # Len(ask.ranked)
      <4>. DEFINE f == ask.ranked[ask.tried + 1]
      <4>1. ask' = IF HealthyNormal(f) THEN [ask EXCEPT !.pc = "collect", !.healthy = f]
                   ELSE [ask EXCEPT !.tried = @ + 1]
        BY <1>9, <3>3 DEF Validate
      <4>. HIDE DEF f
      <4>2. HealthyNormal(f) /\ h = f
        BY <1>1, <1>2, <3>1, <4>1 DEF AskT
      <4>. QED
        BY <4>2, HealthyLooks DEF HealthyNormal
    <3>. QED
      BY <3>2, <3>3
  <2>. QED
    BY <1>3, <1>5, <1>6, <2>1, <2>2, FreshStays DEF Under
<1>10. CASE Recheck
  <2>. DEFINE f == ask.ranked[1]
  <2>1. CASE HealthyNormal(f)
    <3>1. rep' = rep /\ ask' = [ask EXCEPT !.pc = "collect", !.healthy = f]
      BY <1>10, <2>1 DEF Recheck
    <3>. HIDE DEF f
    <3>2. h = f
      BY <1>1, <1>2, <3>1 DEF AskT
    <3>3. LooksUnchanged(h)
      BY <2>1, <3>2, HealthyLooks DEF HealthyNormal
    <3>. QED
      BY <1>3, <1>5, <1>6, <3>1, <3>3, FreshStays DEF Under
  <2>2. CASE ~HealthyNormal(f)
    <3>1. ask' = [ask EXCEPT !.pc = "revalidate"]
      BY <1>10, <2>2 DEF Recheck
    <3>. QED
      BY <1>1, <1>2, <3>1 DEF AskT
  <2>. QED
    BY <2>1, <2>2
<1>11. CASE Revalidate
  <2>. DEFINE f == rep["ask"].file
              x == IF HealthyDeep(f) THEN f ELSE None
  <2>1. ask' = [ask EXCEPT !.pc = "collect", !.healthy = x] /\ rep' = [rep EXCEPT !["ask"] = Idle]
    BY <1>11 DEF Revalidate
  <2>2. h = x
    <3>. HIDE DEF x
    <3>. QED
      BY <1>1, <1>2, <2>1 DEF AskT
  <2>3. LooksUnchanged(h)
    BY <1>2, <2>2, HealthyLooks DEF HealthyDeep
  <2>4. Reset("ask")
    BY <2>1, ResetEffect DEF TInv, SOTInv, Workers
  <2>5. \A w \in Under' : w \in Under /\ rep'[w] = rep[w]
    BY <2>4 DEF Reset, Under
  <2>. QED
    BY <1>3, <1>5, <1>6, <2>3, <2>5, FreshStays
<1>. QED
  BY <1>3, <1>7, <1>8, <1>9, <1>10, <1>11 DEF AskStep

\* A repair beside a question that is about to collect: what it has written is right.
LEMMA CurrentRepair ==
  ASSUME FInv, NEW w \in Workers, Repair(w), NEW h, h \in Files \ excused', Fresh(h),
         Asking, ask' = ask
  PROVE  Fresh(h)'
<1>. USE DEF FInv
<1>. DEFINE f == rep[w].file
<1>1. /\ SOTInv /\ SOTInv' /\ Typed /\ excused \subseteq excused' /\ disk' = disk
      /\ vec = [g \in Files |-> vec[g]] /\ h \in Files \ excused
  <2>1. [Next]_vars
    BY DEF Next
  <2>2. excused \subseteq excused' /\ SOTInv'
    BY <2>1, SOTStep, ExcusedGrows DEF TInv
  <2>3. disk' = disk
    BY DEF Repair, RepairLoad, RepairChunk, RepairHash, RepairUpsert, RepairDelete, RepairSave,
           RepairFails, outside
  <2>. QED
    BY <2>2, <2>3 DEF TInv, SOTInv, Typed
  \* Stages that leave the collection as it is, and the repair's file.
<1>2. ASSUME vec' = vec, \A u \in Workers \ {w} : rep'[u] = rep[u],
             \/ rep'[w].pc \in {"chunk", "save", "idle", "load", "done"}
             \/ rep'[w].file = f /\ rep'[w].read = rep[w].read /\ w \in Under /\ rep[w].pc # "chunk"
             \/ rep'[w].file = f /\ rep'[w].read = disk[f],
             rep'[w].pc # "save"
      PROVE  Fresh(h)'
  <2>1. (\E v \in ask.seen[h] : Full(h, v))'
    BY <1>2 DEF Fresh, Full
  <2>2. ASSUME NEW u \in Under', rep'[u].file = h, rep'[u].pc # "chunk"
        PROVE  rep'[u].read \in ask.seen[h]
    <3>1. CASE u # w
      BY <1>2, <2>2, <3>1 DEF Under, Fresh
    <3>2. CASE u = w
      <4>1. rep'[w].pc \notin {"chunk", "save", "idle", "load", "done"}
        BY <1>2, <2>2, <3>2 DEF Under
      <4>2. disk[h] \in ask.seen[h]
        BY <1>1 DEF SeenNow
      <4>. QED
        BY <1>2, <2>2, <3>2, <4>1, <4>2 DEF Fresh
    <3>. QED
      BY <3>1, <3>2
  <2>. QED
    BY <2>1, <2>2 DEF Fresh
<1>3. CASE RepairLoad(w)
  <2>1. vec' = vec /\ Moved(w, "chunk", f, entry, rep[w].read, rep[w].old)
    BY <1>1, <1>3, LoadEffect DEF RepairLoad
  <2>. HIDE DEF f
  <2>. QED
    BY <1>2, <2>1 DEF Moved
<1>4. CASE RepairChunk(w)
  <2>1. /\ vec' = vec /\ rep'[w].pc # "save" /\ rep'[w].file = f /\ rep'[w].read = disk[f]
        /\ \A u \in Workers \ {w} : rep'[u] = rep[u]
    <3>1. vec' = vec
      BY <1>4 DEF RepairChunk
    <3>2. Moved(w, IF disk[f] = None THEN "delete" ELSE "hash", f,
                [rep[w].hashes EXCEPT ![f] = IF disk[f] = None THEN None ELSE @],
                disk[f], DOMAIN vec[f])
      BY <1>1, <1>4, ChunkEffect
    <3>3. (IF disk[f] = None THEN "delete" ELSE "hash") # "save"
      OBVIOUS
    <3>. QED
      BY <3>1, <3>2, <3>3 DEF Moved
  <2>. HIDE DEF f
  <2>. QED
    BY <1>2, <2>1
<1>5. CASE RepairHash(w)
  <2>1. /\ vec' = vec /\ rep'[w].pc # "save" /\ rep'[w].file = f /\ rep'[w].read = rep[w].read
        /\ \A u \in Workers \ {w} : rep'[u] = rep[u]
    BY <1>1, <1>5, HashEffect DEF RepairHash, Moved
  <2>. HIDE DEF f
  <2>2. w \in Under /\ rep[w].pc # "chunk"
    BY <1>5 DEF RepairHash, Under
  <2>. QED
    BY <1>2, <2>1, <2>2
<1>6. CASE RepairUpsert(w) \/ RepairDelete(w)
  <2>1. PICK p \in {"delete", "save"} : rep' = [rep EXCEPT ![w].pc = p]
    BY <1>6 DEF RepairUpsert, RepairDelete
  <2>2. Moved(w, p, f, rep[w].hashes, rep[w].read, rep[w].old)
    BY <1>1, <2>1, StageEffect DEF Stages
  <2>3. /\ w \in Under /\ w \in Under' /\ rep[w].pc # "chunk" /\ rep'[w].pc \in {"delete", "save"}
        /\ rep'[w].file = f /\ rep'[w].read = rep[w].read /\ \A u \in Workers \ {w} : rep'[u] = rep[u]
    BY <1>6, <2>2 DEF RepairUpsert, RepairDelete, Moved, Under
  <2>4. \A g \in Files \ {f} : vec'[g] = vec[g]
    BY <1>1, <1>6 DEF RepairUpsert, RepairDelete
  <2>. HIDE DEF f
  <2>5. (\E v \in ask.seen[h] : Full(h, v))'
    <3>1. CASE f = h
      <4>1. Right(rep[w], h)'
        BY <1>1, <2>3 DEF SOTInv, Repairing
      <4>2. Full(h, rep[w].read)'
        BY <2>3, <3>1, <4>1 DEF Right
      <4>3. rep'[w].read \in ask'.seen[h]
        BY <2>3, <3>1 DEF Fresh, f
      <4>. QED
        BY <4>2, <4>3
    <3>2. CASE f # h
      <4>1. vec'[h] = vec[h]
        BY <1>1, <2>4, <3>2
      <4>. QED
        BY <4>1 DEF Fresh, Full
    <3>. QED
      BY <3>1, <3>2
  <2>6. (\A u \in Under : rep[u].file = h /\ rep[u].pc # "chunk" => rep[u].read \in ask.seen[h])'
    <3>1. ASSUME NEW u \in Under', rep'[u].file = h, rep'[u].pc # "chunk"
          PROVE  rep'[u].read \in ask.seen[h]
      <4>1. CASE u # w
        BY <2>3, <3>1, <4>1 DEF Under, Fresh
      <4>2. CASE u = w
        BY <2>3, <3>1, <4>2 DEF Fresh, f
      <4>. QED
        BY <4>1, <4>2
    <3>. QED
      BY <3>1
  <2>. QED
    BY <2>5, <2>6 DEF Fresh
<1>7. CASE RepairSave(w) \/ RepairFails(w)
  <2>1. vec' = vec /\ rep' = [rep EXCEPT ![w] = [Idle EXCEPT !.pc = "done", !.file = f]]
    BY <1>7 DEF RepairSave, RepairFails
  <2>2. Reset(w)
    BY <1>1, <2>1, ResetEffect
  <2>. QED
    BY <1>2, <2>1, <2>2 DEF Reset
<1>. QED
  BY <1>3, <1>4, <1>5, <1>6, <1>7 DEF Repair

LEMMA CurrentStep ==
  ASSUME FInv, [Next]_vars
  PROVE  Current'
<1>. USE DEF FInv, store, beside, bystanders
<1>1. CASE AskStep
  BY <1>1, CurrentAsk
<1>2. CASE ~AskStep
  <2>1. SUFFICES ASSUME ask'.pc = "collect", ask'.calm, NEW h, h \in Files \ excused',
                        h = ask'.healthy, h # None
                 PROVE  Fresh(h)'
    BY DEF Current
  <2>2. Asking' /\ GoesOn
    <3>1. Asking' /\ \A q \in Questions : ~Ask(q)
      BY <1>2, <2>1 DEF Asking, AskStep
    <3>. QED
      BY <3>1, AskGoesOn
  <2>3. AskT /\ AskT' /\ h \in Files \ excused
    BY <2>1, AskTStep, ExcusedGrows DEF TInv
  <2>4. ask.pc = "collect" /\ ask.healthy = h
    <3>1. ASSUME NEW f \in Files, NEW v \in Contents, Seen(f, v)
          PROVE  ask'.pc = ask.pc /\ ask'.healthy = ask.healthy
      BY <2>3, <3>1 DEF Seen, AskT
    <3>2. ASSUME Uncalm PROVE ask'.pc = ask.pc /\ ask'.healthy = ask.healthy
      BY <2>3, <3>2 DEF Uncalm, AskT
    <3>3. ask'.pc = ask.pc /\ ask'.healthy = ask.healthy
      BY <1>2, <3>1, <3>2, AskOthers
    <3>. QED
      BY <2>1, <3>3
  <2>5. Fresh(h) /\ ask.calm /\ Asking /\ run.pc = "idle" /\ ask.seen[h] \subseteq ask'.seen[h]
    BY <2>1, <2>2, <2>3, <2>4 DEF Current, GoesOn, CalmRun
  <2>6. CASE RunStep
    <3>1. ASSUME NEW forced \in BOOLEAN, RunStart(forced) PROVE FALSE
      <4>1. ask' = [ask EXCEPT !.calm = FALSE]
        BY <2>5, <3>1 DEF RunStart, Uncalm
      <4>. QED
        BY <2>1, <2>3, <4>1 DEF AskT
    <3>. QED
      BY <2>5, <2>6, <3>1 DEF RunStep, RunClear, RunStore, RunSave, RunProbe, RunFails
  <2>7. ASSUME NEW w \in Workers, Repair(w) PROVE Fresh(h)'
    <3>1. ask' = ask
      BY <2>7 DEF Repair, RepairLoad, RepairChunk, RepairHash, RepairUpsert, RepairDelete,
                  RepairSave, RepairFails, outside
    <3>. QED
      BY <2>1, <2>5, <2>7, <3>1, CurrentRepair
  <2>8. CASE EditStep
    <3>1. vec' = vec
      BY <2>8 DEF EditStep, EditLoad, EditHash, EditRead, EditWrite, EditEnd
    <3>2. rep' = rep \/ Reset("edit")
      <4>1. Typed /\ "edit" \in Workers
        BY DEF TInv, SOTInv, Workers
      <4>2. CASE EditWrite
        BY <4>1, <4>2, ResetEffect DEF EditWrite
      <4>3. CASE EditEnd
        BY <4>1, <4>3, ResetEffect DEF EditEnd
      <4>. QED
        BY <2>8, <4>2, <4>3 DEF EditStep, EditLoad, EditHash, EditRead
    <3>3. \A w \in Under' : w \in Under /\ rep'[w] = rep[w]
      BY <3>2 DEF Reset, Under
    <3>. QED
      BY <2>5, <3>1, <3>3, FreshStays
  <2>9. CASE (\E f \in Files : Save(f)) \/ UNCHANGED vars
    <3>1. vec' = vec /\ rep' = rep
      BY <2>9 DEF Save, vars
    <3>2. \A w \in Under' : w \in Under /\ rep'[w] = rep[w]
      BY <3>1 DEF Under
    <3>. QED
      BY <2>5, <3>1, <3>2, FreshStays
  <2>. QED
    BY <1>2, <2>6, <2>7, <2>8, <2>9 DEF Next
<1>. QED
  BY <1>1, <1>2

\* The chunks of a version, as far as they go, at the front of an answer.
Leads(chunks, h, v) ==
    \A p \in 1..NResults :
        p \in DOMAIN Chunks(v) =>
            (p \in DOMAIN chunks /\ chunks[p] = [file |-> h, at |-> p, version |-> v])

LEMMA FirstCollected ==
  ASSUME FInv, ask.pc = "collect", ask.calm, NEW h, h = ask.healthy, h # None, h \notin excused,
         Authoritative.notice = "none", Dependency => kind[h] = "dependency"
  PROVE  \E v \in ask.seen[h] : Leads(Authoritative.chunks, h, v)
<1>. DEFINE found == Gather(Sources)
            c == Cut(found, NResults)
            a == [notice |-> "none", chunks |-> c]
<1>1. /\ AllPlaced /\ ask.ranked \in Seq(Files) /\ h \in Files /\ Placed(vec[h])
      /\ ask.seen[h] \subseteq Contents
  BY DEF FInv, TInv, StoreT, AskT, AllPlaced
<1>2. PICK v \in ask.seen[h] : Full(h, v)
  BY <1>1 DEF FInv, Current, Fresh
<1>3. CASE DOMAIN Chunks(v) = {}
  BY <1>2, <1>3 DEF Leads
<1>4. CASE DOMAIN Chunks(v) # {}
  <2>1. v \in Versions /\ DOMAIN Chunks(v) = 1..Size[v] /\ Size[v] \in Nat /\ Size[v] >= 1
    <3>1. v # None
      BY <1>4 DEF Chunks
    <3>2. v \in Versions /\ Size[v] \in Nat
      BY <1>1, <1>2, <3>1, Basics DEF Contents
    <3>. QED
      BY <1>4, <3>1, <3>2 DEF Chunks
  <2>2. /\ Size[v] <= Len(Fetch(h)) /\ Fetch(h) \in Seq(Found)
        /\ \A p \in 1..Size[v] : Fetch(h)[p] = [file |-> h, at |-> p, version |-> v]
    BY <1>1, <1>2, <2>1, FetchFull, FetchType
  <2>3. found \in Seq(Found) /\ BeginsWith(found, Fetch(h))
    BY <1>1, SourcesAre, GatherFacts
  <2>4. Authoritative = IF found = <<>> THEN NothingFound
                        ELSE IF Dependency /\ ~HasDependency(found) THEN EnforcedDependency(found)
                        ELSE a
    BY DEF Authoritative, Sources
  <2>. HIDE DEF found
  <2>5. \A p \in 1..Size[v] : /\ p \in DOMAIN found
                              /\ found[p] = [file |-> h, at |-> p, version |-> v]
    <3>1. Len(Fetch(h)) \in Nat /\ Len(found) \in Nat /\ DOMAIN found = 1..Len(found)
          /\ Len(Fetch(h)) <= Len(found)
      BY <2>2, <2>3 DEF BeginsWith
    <3>2. ASSUME NEW p \in 1..Size[v]
          PROVE  p \in 1..Len(found) /\ p \in 1..Len(Fetch(h))
      BY <2>1, <2>2, <3>1
    <3>. QED
      BY <2>2, <2>3, <3>1, <3>2 DEF BeginsWith
  <2>6. found # <<>> /\ (Dependency => HasDependency(found))
    <3>1. 1 \in 1..Size[v]
      BY <2>1
    <3>2. 1 \in DOMAIN found /\ found[1] = [file |-> h, at |-> 1, version |-> v]
      BY <2>5, <3>1
    <3>3. found[1].file = h
      BY <3>2
    <3>. QED
      BY <3>2, <3>3 DEF HasDependency
  <2>7. Authoritative.chunks = c
    BY <2>4, <2>6
  <2>8. Leads(c, h, v)
    <3>1. /\ Len(c) = IF Len(found) < NResults THEN Len(found) ELSE NResults
          /\ c \in Seq(Found) /\ \A p \in DOMAIN c : c[p] = found[p]
      BY <2>3, CutIs, Basics
    <3>. HIDE DEF c
    <3>2. ASSUME NEW p \in 1..NResults, p \in DOMAIN Chunks(v)
          PROVE  p \in DOMAIN c /\ c[p] = [file |-> h, at |-> p, version |-> v]
      <4>1. p \in DOMAIN found /\ found[p] = [file |-> h, at |-> p, version |-> v]
        BY <2>1, <2>5, <3>2
      <4>2. p \in DOMAIN c
        BY <2>3, <3>1, <3>2, <4>1, Basics
      <4>. QED
        BY <3>1, <4>1, <4>2
    <3>. QED
      BY <3>2 DEF Leads
  <2>. QED
    BY <1>2, <2>7, <2>8
<1>. QED
  BY <1>3, <1>4

LEMMA FirstStep ==
  ASSUME FInv, [Next]_vars
  PROVE  FirstSourceIsCurrent'
<1>. USE DEF FInv
<1>1. excused \subseteq excused' /\ AskT
  BY ExcusedGrows DEF TInv
<1>2. CASE ask'.pc # "answered"
  BY <1>2 DEF FirstSourceIsCurrent
<1>3. CASE ask' = ask
  BY <1>1, <1>3 DEF FirstSourceIsCurrent, Dependency
<1>4. ASSUME NEW a, NEW b \in BOOLEAN, ask.pc # "idle", Limited(a), ask' = Answered(a, b),
             b \/ a.notice # "none" \/ (Collect /\ ask.healthy # None /\ a = Authoritative)
      PROVE  FirstSourceIsCurrent'
  <2>1. /\ ask'.answer = a /\ ask'.question = ask.question /\ ask'.cached = b
        /\ ask'.healthy = ask.healthy /\ ask'.seen = ask.seen /\ ask'.calm = ask.calm
    BY <1>1, <1>4, AnsweredT
  <2>2. CASE b \/ a.notice # "none"
    BY <2>1, <2>2 DEF FirstSourceIsCurrent
  <2>3. CASE Collect /\ ask.healthy # None /\ a = Authoritative
    <3>. DEFINE h == ask.healthy
    <3>1. SUFFICES ASSUME ask.calm, a.notice = "none", h \notin excused,
                          Dependency => kind[h] = "dependency"
                   PROVE  \E v \in ask.seen[h] : Leads(a.chunks, h, v)
      BY <1>1, <2>1 DEF FirstSourceIsCurrent, Leads, Dependency
    <3>2. ask.pc = "collect"
      BY <2>3 DEF Collect
    <3>. QED
      BY <2>3, <3>1, <3>2, FirstCollected
  <2>. QED
    BY <1>4, <2>2, <2>3
<1>. QED
  BY <1>2, <1>3, <1>4, AskMoves

\* An answer without a notice begins with its healthy manifest as it was at some moment
\* since the question, whatever saves and repairs there were between the validation and
\* the collection (select_healthy_authoritative_path, _retrieve_config_first).
THEOREM FirstSourceCurrent == Spec => []FirstSourceIsCurrent
<1>1. Init => FInv
  <2>1. Init => ask.pc = "idle"
    BY DEF Init, NoAsk
  <2>. QED
    BY <2>1, TInit DEF FInv, SeenNow, CalmRun, Current, FirstSourceIsCurrent, Asking
<1>2. FInv /\ [Next]_vars => FInv'
  <2>1. FInv /\ [Next]_vars => TInv' /\ SeenNow' /\ CalmRun' /\ Current' /\ FirstSourceIsCurrent'
    BY TStep, SeenStep, CalmStep, CurrentStep, FirstStep DEF FInv
  <2>. QED
    BY <2>1 DEF FInv
<1>3. FInv => FirstSourceIsCurrent
  BY DEF FInv
<1>. QED
  BY <1>1, <1>2, <1>3, PTL DEF Spec
=============================================================================
