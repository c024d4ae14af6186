-------------------------- MODULE AutoIndex_proof --------------------------
(* Proofs about the watcher, for any number of directories, files, edits and *)
(* watch threads: the types, that a change is not lost, and that a switch of *)
(* the directory is clean.                                                   *)
EXTENDS AutoIndex, TLAPS

-----------------------------------------------------------------------------
\* The conjuncts of the inductive invariant.

\* Contents carry the directory they were written in, and no version of the
\* future.
Own(tree, r) == \A f \in Files : tree[f] # None => tree[f][1] = r
Past(tree) == \A f \in Files : tree[f] # None => tree[f][2] <= clock

\* A directory, and what a thread has read of one, is that directory's.
OwnContents ==
    /\ \A r \in Roots : Own(disk[r], r) /\ Past(disk[r])
    /\ \A t \in Threads : At(t, "merge") => Own(watch[t].current, watch[t].root)
    /\ \A t \in Threads : Past(watch[t].current)
    /\ Past(snapshot)

\* At rest the owner has no goal.  It starts a watch only while the manager is
\* enabled, and has taken the fields of the last one away when it waits and
\* starts.
OwnerGoal ==
    /\ owner.goal # None => enabled /\ started < MaxStarts
    /\ owner.pc = "start" => owner.goal # None
    /\ owner.pc = "idle" => owner.goal = None
    /\ owner.pc \in {"join", "start"} =>
          indexed_root = None /\ thread = 0 /\ ~watching /\ back = {}

\* A batch exists while it is run.
BatchRuns == \A t \in Threads : ~At(t, "run") => watch[t].batch = {}

\* Without a lapse the threads alive are the one that watches, or the one whose
\* end the owner waits for.
Sole ==
    ~overlap => \A t \in Threads : Alive(t) =>
        \/ owner.pc \in {"idle", "stop"} /\ t = thread /\ watching
        \/ owner.pc = "join" /\ t = owner.joins

\* Threads are numbered as they start; one that runs under a disabled manager
\* is a lapse.
Started ==
    /\ thread <= started
    /\ \A t \in Threads : t > started => ~Alive(t)
    /\ Alive(thread) /\ ~enabled => muted

\* Without a lapse the watching thread works on the root of the manager, and the
\* snapshot it compares with is of that root.
SameRoot ==
    Alive(thread) /\ ~overlap /\ ~muted =>
        /\ watch[thread].pc \in {"snap", "merge", "run"} =>
              watch[thread].root = indexed_root
        /\ Own(snapshot, indexed_root)

\* A file that the snapshots, old or new, or the directory do not have has been
\* absent in this watch.
AbsenceKnown ==
    Watched =>
        /\ \A f \in Files : disk[indexed_root][f] = None \/ snapshot[f] = None => f \in absent
        /\ At(thread, "merge") =>
              \A f \in Files : watch[thread].current[f] = None => f \in absent

\* What is watched is a directory.
Rooted == Watched => indexed_root # None

\* SwitchIsClean follows from these, NoChangeIsLost is one of them.
AIInv ==
    /\ TypeOK /\ OwnContents /\ OwnerGoal /\ BatchRuns /\ Sole /\ Started
    /\ SameRoot /\ AbsenceKnown /\ Rooted /\ NoChangeIsLost

-----------------------------------------------------------------------------
\* What the actions do to the threads.

WatchRecord == [pc: {"dead", "top", "snap", "merge", "run"}, root: Roots \cup {None},
                current: Tree, batch: SUBSET Files]

\* Thread t goes to place p with root r, content c and batch b; no other moves.
Moved(t, p, r, c, b) ==
    /\ watch' \in [Threads -> WatchRecord]
    /\ watch'[t].pc = p /\ watch'[t].root = r
    /\ watch'[t].current = c /\ watch'[t].batch = b
    /\ \A s \in Threads \ {t} : watch'[s] = watch[s]

\* What Merge finds, and all that is pending with it.
New(t) == {f \in Files : snapshot[f] # watch[t].current[f]}
All(t) == pending \cup New(t)

\* The blank values are well typed.
LEMMA BlankTypes == Nothing \in Tree /\ Dead \in WatchRecord
  BY DEF Nothing, Tree, Dead, WatchRecord

\* The threads' records are typed as TypeOK says.
LEMMA WatchType == ASSUME TypeOK PROVE watch \in [Threads -> WatchRecord]
  BY DEF TypeOK, WatchRecord

\* A moved thread keeps the type.
LEMMA MovedType ==
  ASSUME TypeOK, NEW t \in Threads, NEW p, NEW r, NEW c, NEW b,
         Moved(t, p, r, c, b), p \in {"snap", "merge", "run"} => r # None
  PROVE  /\ watch' \in [Threads -> [pc: {"dead", "top", "snap", "merge", "run"},
                                     root: Roots \cup {None}, current: Tree,
                                     batch: SUBSET Files]]
         /\ \A s \in Threads :
               watch'[s].pc \in {"snap", "merge", "run"} => watch'[s].root # None
  BY DEF Moved, WatchRecord, TypeOK

\* What becomes of a record that is changed.
LEMMA RecordChange ==
  ASSUME NEW w \in WatchRecord, NEW p \in {"dead", "top", "snap", "merge", "run"}
  PROVE  /\ [w EXCEPT !.pc = p] \in WatchRecord
         /\ [w EXCEPT !.pc = p].pc = p
         /\ [w EXCEPT !.pc = p].root = w.root
         /\ [w EXCEPT !.pc = p].current = w.current
         /\ [w EXCEPT !.pc = p].batch = w.batch
  BY DEF WatchRecord

LEMMA DeadRecord ==
  /\ Dead \in WatchRecord /\ Dead.pc = "dead" /\ Dead.root = None
  /\ Dead.current = Nothing /\ Dead.batch = {}
  BY BlankTypes DEF Dead

\* What each step of a thread does to it.
LEMMA TopEffect ==
  ASSUME TypeOK, NEW t \in Threads, Top(t)
  PROVE  IF watching /\ indexed_root # None
         THEN Moved(t, "snap", indexed_root, Nothing, {})
         ELSE Moved(t, "dead", None, Nothing, {})
<1>1. indexed_root \in Roots \cup {None}
  BY DEF TypeOK
<1>2. /\ [Dead EXCEPT !.pc = "snap", !.root = indexed_root] \in WatchRecord
      /\ [Dead EXCEPT !.pc = "snap", !.root = indexed_root].pc = "snap"
      /\ [Dead EXCEPT !.pc = "snap", !.root = indexed_root].root = indexed_root
      /\ [Dead EXCEPT !.pc = "snap", !.root = indexed_root].current = Nothing
      /\ [Dead EXCEPT !.pc = "snap", !.root = indexed_root].batch = {}
  BY <1>1, BlankTypes DEF Dead, WatchRecord
<1>. QED
  BY <1>2, WatchType, DeadRecord DEF Top, Moved

LEMMA SnapshotEffect ==
  ASSUME TypeOK, NEW t \in Threads, Snapshot(t)
  PROVE  Moved(t, "merge", watch[t].root, disk[watch[t].root], watch[t].batch)
<1>1. watch[t] \in WatchRecord /\ watch \in [Threads -> WatchRecord]
  BY WatchType
<1>2. disk[watch[t].root] \in Tree
  BY DEF Snapshot, At, TypeOK
<1>3. PICK w \in WatchRecord :
         /\ w.pc = "merge" /\ w.root = watch[t].root
         /\ w.current = disk[watch[t].root] /\ w.batch = watch[t].batch
         /\ watch' = [watch EXCEPT ![t] = w]
  <2>. DEFINE w == [watch[t] EXCEPT !.pc = "merge", !.current = disk[watch[t].root]]
  <2>1. w \in WatchRecord
    BY <1>1, <1>2 DEF WatchRecord
  <2>2. w.pc = "merge" /\ w.root = watch[t].root
        /\ w.current = disk[watch[t].root] /\ w.batch = watch[t].batch
    BY <1>1 DEF WatchRecord
  <2>3. watch' = [watch EXCEPT ![t] = w]
    BY <1>1 DEF Snapshot
  <2>. QED
    BY <2>1, <2>2, <2>3
<1>. QED
  BY <1>1, <1>3 DEF Moved

LEMMA RaiseEffect ==
  ASSUME TypeOK, NEW t \in Threads, SnapshotRaises(t)
  PROVE  Moved(t, "top", None, Nothing, {})
  BY WatchType, DeadRecord, RecordChange DEF SnapshotRaises, Moved

LEMMA MergeEffect ==
  ASSUME TypeOK, NEW t \in Threads, NEW ready \in BOOLEAN, Merge(t, ready)
  PROVE  /\ IF ready THEN Moved(t, "run", watch[t].root, Nothing, All(t))
                     ELSE Moved(t, "top", None, Nothing, {})
         /\ snapshot' = watch[t].current
         /\ pending' = IF ready THEN {} ELSE All(t)
<1>1. watch \in [Threads -> WatchRecord] /\ watch[t].root \in Roots \cup {None}
  BY WatchType DEF WatchRecord
<1>2. All(t) \in SUBSET Files
  BY DEF All, New, TypeOK
<1>3. /\ [Dead EXCEPT !.pc = "run", !.root = watch[t].root, !.batch = All(t)] \in WatchRecord
      /\ [Dead EXCEPT !.pc = "run", !.root = watch[t].root, !.batch = All(t)].pc = "run"
      /\ [Dead EXCEPT !.pc = "run", !.root = watch[t].root, !.batch = All(t)].root = watch[t].root
      /\ [Dead EXCEPT !.pc = "run", !.root = watch[t].root, !.batch = All(t)].current = Nothing
      /\ [Dead EXCEPT !.pc = "run", !.root = watch[t].root, !.batch = All(t)].batch = All(t)
  BY <1>1, <1>2, BlankTypes DEF Dead, WatchRecord
<1>4. /\ snapshot' = watch[t].current
      /\ pending' = IF ready THEN {} ELSE All(t)
      /\ watch' = [watch EXCEPT ![t] =
            IF ready THEN [Dead EXCEPT !.pc = "run", !.root = watch[t].root, !.batch = All(t)]
                     ELSE [Dead EXCEPT !.pc = "top"]]
  BY DEF Merge, All, New
<1>5. CASE ready
  BY <1>1, <1>3, <1>4, <1>5 DEF Moved
<1>6. CASE ~ready
  BY <1>1, <1>4, <1>6, DeadRecord, RecordChange DEF Moved
<1>. QED
  BY <1>4, <1>5, <1>6

LEMMA RunEffect ==
  ASSUME TypeOK, NEW t \in Threads, NEW result, Run(t, result)
  PROVE  IF result = "raised" THEN Moved(t, "dead", None, Nothing, {})
                              ELSE Moved(t, "top", None, Nothing, {})
  BY WatchType, DeadRecord, RecordChange DEF Run, Moved

LEMMA BeginEffect ==
  ASSUME TypeOK, OwnerGoal, BatchRuns, Started, Begin(FALSE)
  PROVE  /\ started + 1 \in Threads
         /\ Moved(started + 1, "top", watch[started + 1].root, watch[started + 1].current, {})
<1>1. started + 1 \in Threads
  BY BoundsAssumption DEF Begin, OwnerGoal, TypeOK, Threads
<1>2. watch \in [Threads -> WatchRecord] /\ watch[started + 1] \in WatchRecord
  BY <1>1, WatchType
<1>3. started + 1 > started /\ started + 1 # 0
  BY DEF TypeOK
<1>4. watch[started + 1].batch = {}
  BY <1>1, <1>3 DEF BatchRuns, At, Started, Alive
<1>5. watch' = [watch EXCEPT ![started + 1] = [watch[started + 1] EXCEPT !.pc = "top"]]
  BY <1>2 DEF Begin
<1>. QED
  BY <1>1, <1>2, <1>4, <1>5, RecordChange DEF Moved

\* No step of a thread revives one, or touches what the owner decides.
LEMMA ThreadStep ==
  ASSUME TypeOK, NEW t \in Threads, Step(t)
  PROVE  /\ UNCHANGED <<disk, clock, enabled, indexed_root, watching, thread, started, owner,
                        absent, back, overlap, muted>>
         /\ \A s \in Threads : watch[s].pc = "dead" => watch'[s].pc = "dead"
<1>. USE DEF fields, lapses
<1>1. CASE Top(t)
  BY <1>1, TopEffect DEF Top, At, Moved
<1>2. CASE Snapshot(t)
  BY <1>2, SnapshotEffect DEF Snapshot, At, Moved
<1>3. CASE SnapshotRaises(t)
  BY <1>3, RaiseEffect DEF SnapshotRaises, At, Moved
<1>4. ASSUME NEW ready \in BOOLEAN, Merge(t, ready)
      PROVE  /\ UNCHANGED <<disk, clock, enabled, indexed_root, watching, thread, started,
                            owner, absent, back, overlap, muted>>
             /\ \A s \in Threads : watch[s].pc = "dead" => watch'[s].pc = "dead"
  BY <1>4, MergeEffect DEF Merge, At, Moved
<1>5. ASSUME NEW result \in {"ran", "refused", "raised"}, Run(t, result)
      PROVE  /\ UNCHANGED <<disk, clock, enabled, indexed_root, watching, thread, started,
                            owner, absent, back, overlap, muted>>
             /\ \A s \in Threads : watch[s].pc = "dead" => watch'[s].pc = "dead"
  BY <1>5, RunEffect DEF Run, At, Moved
<1>. QED
  BY <1>1, <1>2, <1>3, <1>4, <1>5 DEF Step

\* So what is watched after it was watched before.
LEMMA ThreadLives ==
  ASSUME TypeOK, NEW t \in Threads, Step(t)
  PROVE  (Alive(thread)' => Alive(thread)) /\ (Watched' => Watched)
<1>1. thread # 0 => thread \in Threads
  BY BoundsAssumption DEF TypeOK, Threads
<1>2. Alive(thread)' => Alive(thread)
  BY <1>1, ThreadStep DEF Alive
<1>. QED
  BY <1>2, ThreadStep DEF Watched

-----------------------------------------------------------------------------
\* Types.
LEMMA TypeInit == Init => TypeOK
<1>. SUFFICES ASSUME Init PROVE TypeOK
  OBVIOUS
<1>1. disk \in [Roots -> Tree]
  BY BoundsAssumption DEF Init, Tree, Content
<1>2. watch \in [Threads -> [pc: {"dead", "top", "snap", "merge", "run"},
                             root: Roots \cup {None}, current: Tree,
                             batch: SUBSET Files]]
  BY BlankTypes DEF Init, WatchRecord
<1>3. \A t \in Threads : watch[t].pc = "dead"
  BY DEF Init, Dead
<1>4. owner = AtRest /\ AtRest \in [pc: {"idle", "stop", "join", "start"},
                                    goal: Roots \cup {None}, joins: 0..MaxStarts]
  BY BoundsAssumption DEF Init, AtRest
<1>5. clock \in 0..MaxEdits /\ thread \in 0..MaxStarts /\ started \in 0..MaxStarts
  BY BoundsAssumption DEF Init
<1>6. /\ snapshot \in Tree /\ told \in Tree /\ indexed_root \in Roots \cup {None}
      /\ pending \subseteq Files /\ absent \subseteq Files /\ back \subseteq absent
  BY BlankTypes DEF Init
<1>7. /\ enabled \in BOOLEAN /\ watching \in BOOLEAN /\ settling \in BOOLEAN
      /\ rerun \in BOOLEAN /\ overlap \in BOOLEAN /\ muted \in BOOLEAN
  BY DEF Init
<1>. QED
  BY <1>1, <1>2, <1>3, <1>4, <1>5, <1>6, <1>7 DEF TypeOK

\* Every action keeps the types; the owner's goal bounds the threads started.
LEMMA TypeStep ==
  ASSUME TypeOK, OwnerGoal, BatchRuns, Started, [Next]_vars
  PROVE  TypeOK'
<1>. USE DEF fields, lapses
<1>1. ASSUME NEW r \in Roots, NEW f \in Files,
             NEW content \in {None, <<r, clock + 1>>}, Edit(r, f, content)
      PROVE  TypeOK'
  BY <1>1, BoundsAssumption DEF Edit, Tree, Content, TypeOK
<1>2. ASSUME NEW b \in BOOLEAN, set_enabled(b)
      PROVE  TypeOK'
  BY <1>2 DEF set_enabled, TypeOK
<1>3. ASSUME NEW r \in Roots, start_for_root(r)
      PROVE  TypeOK'
  BY <1>3 DEF start_for_root, TypeOK
<1>4. CASE stop
  BY <1>4 DEF stop, TypeOK
<1>5. CASE Stop
  <2>1. owner \in [pc: {"idle", "stop", "join", "start"}, goal: Roots \cup {None},
                    joins: 0..MaxStarts] /\ thread \in 0..MaxStarts
    BY DEF TypeOK
  <2>2. owner' \in [pc: {"idle", "stop", "join", "start"}, goal: Roots \cup {None},
                    joins: 0..MaxStarts]
    BY <1>5, <2>1 DEF Stop
  <2>3. /\ snapshot' \in Tree /\ told' \in Tree /\ thread' \in 0..MaxStarts
        /\ pending' \subseteq Files /\ absent' \subseteq Files /\ back' \subseteq absent'
    BY <1>5, BlankTypes, BoundsAssumption DEF Stop
  <2>4. UNCHANGED <<disk, clock, enabled, rerun, started, watch, overlap>>
        /\ watching' = FALSE /\ settling' = FALSE /\ indexed_root' = None /\ muted' = FALSE
    BY <1>5 DEF Stop
  <2>. QED
    BY <2>2, <2>3, <2>4 DEF TypeOK
<1>6. CASE Join
  <2>1. owner \in [pc: {"idle", "stop", "join", "start"}, goal: Roots \cup {None},
                    joins: 0..MaxStarts] /\ 0 \in 0..MaxStarts
    BY BoundsAssumption DEF TypeOK
  <2>2. owner' \in [pc: {"idle", "stop", "join", "start"}, goal: Roots \cup {None},
                    joins: 0..MaxStarts]
    <3>1. CASE owner.goal = None
      BY <1>6, <2>1, <3>1 DEF Join, AtRest
    <3>2. CASE owner.goal # None
      BY <1>6, <2>1, <3>2 DEF Join
    <3>. QED
      BY <3>1, <3>2
  <2>. QED
    BY <1>6, <2>2 DEF Join, TypeOK, Alive
<1>7. ASSUME NEW raised \in BOOLEAN, Begin(raised)
      PROVE  TypeOK'
  <2>1. CASE raised
    BY <1>7, <2>1 DEF Begin, TypeOK, OwnerGoal, AtRest
  <2>2. CASE ~raised
    <3>1. /\ started + 1 \in Threads
          /\ Moved(started + 1, "top", watch[started + 1].root, watch[started + 1].current, {})
      BY <1>7, <2>2, BeginEffect
    <3>2. watch[started + 1].root \in Roots \cup {None} /\ watch[started + 1].current \in Tree
      BY <3>1 DEF TypeOK
    <3>3. /\ watch' \in [Threads -> [pc: {"dead", "top", "snap", "merge", "run"},
                                     root: Roots \cup {None}, current: Tree,
                                     batch: SUBSET Files]]
          /\ \A s \in Threads :
                watch'[s].pc \in {"snap", "merge", "run"} => watch'[s].root # None
      BY <3>1, <3>2, MovedType
    <3>4. owner.goal \in Roots /\ disk[owner.goal] \in Tree /\ back = {}
      BY <1>7 DEF Begin, OwnerGoal, TypeOK
    <3>5. owner' \in [pc: {"idle", "stop", "join", "start"}, goal: Roots \cup {None},
                      joins: 0..MaxStarts]
      BY <1>7, BoundsAssumption DEF Begin, AtRest
    <3>6. absent' \subseteq Files /\ overlap' \in BOOLEAN
      BY <1>7, <2>2 DEF Begin
    <3>7. started' \in 0..MaxStarts /\ thread' \in 0..MaxStarts
      BY <1>7, <2>2, <3>1 DEF Begin, Threads
    <3>. QED
      BY <1>7, <2>2, <3>3, <3>4, <3>5, <3>6, <3>7 DEF Begin, TypeOK
  <2>. QED
    BY <2>1, <2>2
<1>8. CASE notify_auto_run_end
  BY <1>8 DEF notify_auto_run_end, TypeOK
<1>9. ASSUME NEW t \in Threads, Top(t)
      PROVE  TypeOK'
  <2>1. /\ watch' \in [Threads -> [pc: {"dead", "top", "snap", "merge", "run"},
                                     root: Roots \cup {None}, current: Tree,
                                     batch: SUBSET Files]]
        /\ \A s \in Threads :
              watch'[s].pc \in {"snap", "merge", "run"} => watch'[s].root # None
    BY <1>9, BlankTypes, MovedType, TopEffect DEF TypeOK
  <2>. QED
    BY <1>9, <2>1 DEF Top, TypeOK
<1>10. ASSUME NEW t \in Threads, Snapshot(t)
      PROVE  TypeOK'
  <2>1. /\ watch' \in [Threads -> [pc: {"dead", "top", "snap", "merge", "run"},
                                     root: Roots \cup {None}, current: Tree,
                                     batch: SUBSET Files]]
        /\ \A s \in Threads :
              watch'[s].pc \in {"snap", "merge", "run"} => watch'[s].root # None
    BY <1>10, BlankTypes, MovedType, SnapshotEffect DEF TypeOK, Snapshot, At
  <2>. QED
    BY <1>10, <2>1 DEF Snapshot, TypeOK
<1>11. ASSUME NEW t \in Threads, SnapshotRaises(t)
      PROVE  TypeOK'
  <2>1. /\ watch' \in [Threads -> [pc: {"dead", "top", "snap", "merge", "run"},
                                     root: Roots \cup {None}, current: Tree,
                                     batch: SUBSET Files]]
        /\ \A s \in Threads :
              watch'[s].pc \in {"snap", "merge", "run"} => watch'[s].root # None
    BY <1>11, BlankTypes, MovedType, RaiseEffect DEF TypeOK
  <2>. QED
    BY <1>11, <2>1 DEF SnapshotRaises, TypeOK
<1>12. ASSUME NEW t \in Threads, NEW ready \in BOOLEAN, Merge(t, ready)
      PROVE  TypeOK'
  <2>1. /\ watch' \in [Threads -> [pc: {"dead", "top", "snap", "merge", "run"},
                                     root: Roots \cup {None}, current: Tree,
                                     batch: SUBSET Files]]
        /\ \A s \in Threads :
              watch'[s].pc \in {"snap", "merge", "run"} => watch'[s].root # None
    BY <1>12, BlankTypes, MovedType, MergeEffect DEF TypeOK, Merge, At, All, New
  <2>2. snapshot' \in Tree /\ pending' \subseteq Files
    <3>1. watch[t].current \in Tree
      BY WatchType DEF WatchRecord
    <3>2. All(t) \subseteq Files
      BY DEF TypeOK, All, New
    <3>. QED
      BY <1>12, <3>1, <3>2, MergeEffect
  <2>. QED
    BY <1>12, <2>1, <2>2 DEF Merge, TypeOK
<1>13. ASSUME NEW t \in Threads, NEW result \in {"ran", "refused", "raised"},
             Run(t, result)
      PROVE  TypeOK'
  <2>1. /\ watch' \in [Threads -> [pc: {"dead", "top", "snap", "merge", "run"},
                                     root: Roots \cup {None}, current: Tree,
                                     batch: SUBSET Files]]
        /\ \A s \in Threads :
              watch'[s].pc \in {"snap", "merge", "run"} => watch'[s].root # None
    BY <1>13, BlankTypes, MovedType, RunEffect DEF TypeOK
  <2>2. told' \in Tree /\ rerun' \in BOOLEAN
    BY <1>13 DEF Run, TypeOK, At
  <2>. QED
    BY <1>13, <2>1, <2>2 DEF Run, TypeOK
<1>14. CASE UNCHANGED vars
  BY <1>14 DEF vars, TypeOK
<1>. QED
  BY <1>1, <1>2, <1>3, <1>4, <1>5, <1>6, <1>7, <1>8, <1>9, <1>10, <1>11, <1>12, <1>13, <1>14
     DEF Next, OwnerStep, Step

-----------------------------------------------------------------------------
\* Each of the other conjuncts is kept by every action.

\* The owner's fields keep what its place promises.
LEMMA OwnerStepKeeps ==
  ASSUME TypeOK, OwnerGoal, BatchRuns, Started, [Next]_vars
  PROVE  OwnerGoal'
<1>. USE DEF fields, lapses
<1>1. ASSUME NEW r \in Roots, NEW f \in Files,
             NEW content \in {None, <<r, clock + 1>>}, Edit(r, f, content)
      PROVE  OwnerGoal'
  BY <1>1, NoneAssumption DEF Edit, OwnerGoal, TypeOK, Idle
<1>2. ASSUME NEW b \in BOOLEAN, set_enabled(b)
      PROVE  OwnerGoal'
  BY <1>2 DEF set_enabled, OwnerGoal, TypeOK, Idle
<1>3. ASSUME NEW r \in Roots, start_for_root(r)
      PROVE  OwnerGoal'
  BY <1>3 DEF start_for_root, OwnerGoal, TypeOK, Idle
<1>4. CASE stop
  BY <1>4 DEF stop, OwnerGoal, TypeOK, Idle
<1>5. CASE Stop
  BY <1>5 DEF Stop, OwnerGoal, TypeOK, Idle
<1>6. CASE Join
  BY <1>6 DEF Join, AtRest, OwnerGoal, TypeOK, Idle
<1>7. ASSUME NEW raised \in BOOLEAN, Begin(raised)
      PROVE  OwnerGoal'
  <2>1. CASE raised
    BY <1>7, <2>1 DEF Begin, AtRest, OwnerGoal, TypeOK, Idle
  <2>2. CASE ~raised
    <3>1. /\ started + 1 \in Threads
          /\ Moved(started + 1, "top", watch[started + 1].root, watch[started + 1].current, {})
      BY <1>7, <2>2, BeginEffect
    <3>. QED
      BY <1>7, <2>2, <3>1 DEF Begin, AtRest, Moved, OwnerGoal, TypeOK, Idle
  <2>. QED
    BY <2>1, <2>2
<1>8. CASE notify_auto_run_end
  BY <1>8 DEF notify_auto_run_end, OwnerGoal, TypeOK, Idle
<1>9. ASSUME NEW t \in Threads, Step(t)
      PROVE  OwnerGoal'
  BY <1>9, ThreadStep, ThreadLives DEF OwnerGoal
<1>10. CASE UNCHANGED vars
  BY <1>10 DEF vars, OwnerGoal, TypeOK, Idle
<1>. QED
  BY <1>1, <1>2, <1>3, <1>4, <1>5, <1>6, <1>7, <1>8, <1>9, <1>10
     DEF Next, OwnerStep

\* A batch is dropped with the run that took it.
LEMMA BatchStep ==
  ASSUME TypeOK, OwnContents, OwnerGoal, BatchRuns, Sole, Started, [Next]_vars
  PROVE  BatchRuns'
<1>. USE DEF fields, lapses
<1>1. ASSUME NEW r \in Roots, NEW f \in Files,
             NEW content \in {None, <<r, clock + 1>>}, Edit(r, f, content)
      PROVE  BatchRuns'
  BY <1>1 DEF Edit, BatchRuns, At, TypeOK
<1>2. ASSUME NEW b \in BOOLEAN, set_enabled(b)
      PROVE  BatchRuns'
  BY <1>2 DEF set_enabled, BatchRuns, At, TypeOK
<1>3. ASSUME NEW r \in Roots, start_for_root(r)
      PROVE  BatchRuns'
  BY <1>3 DEF start_for_root, BatchRuns, At, TypeOK
<1>4. CASE stop
  BY <1>4 DEF stop, BatchRuns, At, TypeOK
<1>5. CASE Stop
  BY <1>5 DEF Stop, BatchRuns, At, TypeOK
<1>6. CASE Join
  BY <1>6 DEF Join, AtRest, BatchRuns, At, TypeOK
<1>7. ASSUME NEW raised \in BOOLEAN, Begin(raised)
      PROVE  BatchRuns'
  <2>1. CASE raised
    BY <1>7, <2>1 DEF Begin, AtRest, BatchRuns, At, TypeOK
  <2>2. CASE ~raised
    <3>1. /\ started + 1 \in Threads
          /\ Moved(started + 1, "top", watch[started + 1].root, watch[started + 1].current, {})
      BY <1>7, <2>2, BeginEffect
    <3>. QED
      BY <1>7, <2>2, <3>1 DEF Begin, AtRest, Moved, BatchRuns, At, TypeOK
  <2>. QED
    BY <2>1, <2>2
<1>8. CASE notify_auto_run_end
  BY <1>8 DEF notify_auto_run_end, BatchRuns, At, TypeOK
<1>9. ASSUME NEW t \in Threads, Top(t)
      PROVE  BatchRuns'
  BY <1>9, TopEffect DEF Top, Moved, BatchRuns, At, TypeOK
<1>10. ASSUME NEW t \in Threads, Snapshot(t)
      PROVE  BatchRuns'
  BY <1>10, SnapshotEffect DEF Snapshot, Moved, BatchRuns, At, TypeOK
<1>11. ASSUME NEW t \in Threads, SnapshotRaises(t)
      PROVE  BatchRuns'
  BY <1>11, RaiseEffect DEF SnapshotRaises, Moved, BatchRuns, At, TypeOK
<1>12. ASSUME NEW t \in Threads, NEW ready \in BOOLEAN, Merge(t, ready)
      PROVE  BatchRuns'
  BY <1>12, MergeEffect DEF Merge, Moved, BatchRuns, At, TypeOK
<1>13. ASSUME NEW t \in Threads, NEW result \in {"ran", "refused", "raised"},
             Run(t, result)
      PROVE  BatchRuns'
  BY <1>13, RunEffect DEF Run, Moved, BatchRuns, At, TypeOK
<1>14. CASE UNCHANGED vars
  BY <1>14 DEF vars, BatchRuns, At, TypeOK
<1>. QED
  BY <1>1, <1>2, <1>3, <1>4, <1>5, <1>6, <1>7, <1>8, <1>9, <1>10, <1>11, <1>12, <1>13, <1>14
     DEF Next, OwnerStep, Step

\* No second thread starts while one is left, but by a stop that gave up.
LEMMA SoleStep ==
  ASSUME TypeOK, OwnContents, OwnerGoal, BatchRuns, Sole, Started, [Next]_vars
  PROVE  Sole'
<1>. USE DEF fields, lapses
<1>1. ASSUME NEW r \in Roots, NEW f \in Files,
             NEW content \in {None, <<r, clock + 1>>}, Edit(r, f, content)
      PROVE  Sole'
  BY <1>1 DEF Edit, Sole, Alive, Idle, OwnerGoal, TypeOK
<1>2. ASSUME NEW b \in BOOLEAN, set_enabled(b)
      PROVE  Sole'
  BY <1>2 DEF set_enabled, Sole, Alive, Idle, OwnerGoal, TypeOK
<1>3. ASSUME NEW r \in Roots, start_for_root(r)
      PROVE  Sole'
  BY <1>3 DEF start_for_root, Sole, Alive, Idle, OwnerGoal, TypeOK
<1>4. CASE stop
  BY <1>4 DEF stop, Sole, Alive, Idle, OwnerGoal, TypeOK
<1>5. CASE Stop
  BY <1>5 DEF Stop, Sole, Alive, Idle, OwnerGoal, TypeOK
<1>6. CASE Join
  BY <1>6 DEF Join, AtRest, Sole, Alive, Idle, OwnerGoal, TypeOK
<1>7. ASSUME NEW raised \in BOOLEAN, Begin(raised)
      PROVE  Sole'
  <2>1. CASE raised
    BY <1>7, <2>1 DEF Begin, AtRest, Sole, Alive, Idle, OwnerGoal, TypeOK
  <2>2. CASE ~raised
    <3>1. /\ started + 1 \in Threads
          /\ Moved(started + 1, "top", watch[started + 1].root, watch[started + 1].current, {})
      BY <1>7, <2>2, BeginEffect
    <3>. QED
      BY <1>7, <2>2, <3>1 DEF Begin, AtRest, Moved, Sole, Alive, Idle, OwnerGoal, TypeOK
  <2>. QED
    BY <2>1, <2>2
<1>8. CASE notify_auto_run_end
  BY <1>8 DEF notify_auto_run_end, Sole, Alive, Idle, OwnerGoal, TypeOK
<1>9. ASSUME NEW t \in Threads, Step(t)
      PROVE  Sole'
  BY <1>9, ThreadStep, ThreadLives DEF Sole, Alive
<1>10. CASE UNCHANGED vars
  BY <1>10 DEF vars, Sole, Alive, Idle, OwnerGoal, TypeOK
<1>. QED
  BY <1>1, <1>2, <1>3, <1>4, <1>5, <1>6, <1>7, <1>8, <1>9, <1>10
     DEF Next, OwnerStep

\* Threads are numbered as they start.
LEMMA StartedStep ==
  ASSUME TypeOK, OwnContents, OwnerGoal, BatchRuns, Sole, Started, [Next]_vars
  PROVE  Started'
<1>. USE DEF fields, lapses
<1>1. ASSUME NEW r \in Roots, NEW f \in Files,
             NEW content \in {None, <<r, clock + 1>>}, Edit(r, f, content)
      PROVE  Started'
  BY <1>1 DEF Edit, Started, Alive, Idle, OwnerGoal, TypeOK, Threads
<1>2. ASSUME NEW b \in BOOLEAN, set_enabled(b)
      PROVE  Started'
  BY <1>2 DEF set_enabled, Started, Alive, Idle, OwnerGoal, TypeOK, Threads
<1>3. ASSUME NEW r \in Roots, start_for_root(r)
      PROVE  Started'
  BY <1>3 DEF start_for_root, Started, Alive, Idle, OwnerGoal, TypeOK, Threads
<1>4. CASE stop
  BY <1>4 DEF stop, Started, Alive, Idle, OwnerGoal, TypeOK, Threads
<1>5. CASE Stop
  BY <1>5 DEF Stop, Started, Alive, Idle, OwnerGoal, TypeOK, Threads
<1>6. CASE Join
  BY <1>6 DEF Join, AtRest, Started, Alive, Idle, OwnerGoal, TypeOK, Threads
<1>7. ASSUME NEW raised \in BOOLEAN, Begin(raised)
      PROVE  Started'
  <2>1. CASE raised
    BY <1>7, <2>1 DEF Begin, AtRest, Started, Alive, Idle, OwnerGoal, TypeOK, Threads
  <2>2. CASE ~raised
    <3>1. /\ started + 1 \in Threads
          /\ Moved(started + 1, "top", watch[started + 1].root, watch[started + 1].current, {})
      BY <1>7, <2>2, BeginEffect
    <3>. QED
      BY <1>7, <2>2, <3>1 DEF Begin, AtRest, Moved, Started, Alive, Idle, OwnerGoal, TypeOK, Threads
  <2>. QED
    BY <2>1, <2>2
<1>8. CASE notify_auto_run_end
  BY <1>8 DEF notify_auto_run_end, Started, Alive, Idle, OwnerGoal, TypeOK, Threads
<1>9. ASSUME NEW t \in Threads, Step(t)
      PROVE  Started'
  BY <1>9, ThreadStep, ThreadLives DEF Started, Alive, TypeOK, Threads
<1>10. CASE UNCHANGED vars
  BY <1>10 DEF vars, Started, Alive, Idle, OwnerGoal, TypeOK, Threads
<1>. QED
  BY <1>1, <1>2, <1>3, <1>4, <1>5, <1>6, <1>7, <1>8, <1>9, <1>10
     DEF Next, OwnerStep

\* What is watched is a directory.
LEMMA RootedStep ==
  ASSUME TypeOK, OwnContents, OwnerGoal, BatchRuns, Sole, Started, Rooted, [Next]_vars
  PROVE  Rooted'
<1>. USE DEF fields, lapses
<1>1. ASSUME NEW r \in Roots, NEW f \in Files,
             NEW content \in {None, <<r, clock + 1>>}, Edit(r, f, content)
      PROVE  Rooted'
  BY <1>1 DEF Edit, Rooted, Watched, Alive, Idle, OwnerGoal, TypeOK, Started, Threads
<1>2. ASSUME NEW b \in BOOLEAN, set_enabled(b)
      PROVE  Rooted'
  BY <1>2 DEF set_enabled, Rooted, Watched, Alive, Idle, OwnerGoal, TypeOK, Started, Threads
<1>3. ASSUME NEW r \in Roots, start_for_root(r)
      PROVE  Rooted'
  BY <1>3 DEF start_for_root, Rooted, Watched, Alive, Idle, OwnerGoal, TypeOK, Started, Threads
<1>4. CASE stop
  BY <1>4 DEF stop, Rooted, Watched, Alive, Idle, OwnerGoal, TypeOK, Started, Threads
<1>5. CASE Stop
  BY <1>5 DEF Stop, Rooted, Watched, Alive, Idle, OwnerGoal, TypeOK, Started, Threads
<1>6. CASE Join
  BY <1>6 DEF Join, AtRest, Rooted, Watched, Alive, Idle, OwnerGoal, TypeOK, Started, Threads
<1>7. ASSUME NEW raised \in BOOLEAN, Begin(raised)
      PROVE  Rooted'
  <2>1. CASE raised
    BY <1>7, <2>1 DEF Begin, AtRest, Rooted, Watched, Alive, Idle, OwnerGoal, TypeOK, Started, Threads
  <2>2. CASE ~raised
    <3>1. /\ started + 1 \in Threads
          /\ Moved(started + 1, "top", watch[started + 1].root, watch[started + 1].current, {})
      BY <1>7, <2>2, BeginEffect
    <3>. QED
      BY <1>7, <2>2, <3>1 DEF Begin, AtRest, Moved, Rooted, Watched, Alive, Idle, OwnerGoal, TypeOK, Started, Threads
  <2>. QED
    BY <2>1, <2>2
<1>8. CASE notify_auto_run_end
  BY <1>8 DEF notify_auto_run_end, Rooted, Watched, Alive, Idle, OwnerGoal, TypeOK, Started, Threads
<1>9. ASSUME NEW t \in Threads, Step(t)
      PROVE  Rooted'
  BY <1>9, ThreadStep, ThreadLives DEF Rooted
<1>10. CASE UNCHANGED vars
  BY <1>10 DEF vars, Rooted, Watched, Alive, Idle, OwnerGoal, TypeOK, Started, Threads
<1>. QED
  BY <1>1, <1>2, <1>3, <1>4, <1>5, <1>6, <1>7, <1>8, <1>9, <1>10
     DEF Next, OwnerStep

\* Whatever is read of a directory is that directory's.
LEMMA MovedOwn ==
  ASSUME TypeOK, OwnContents, UNCHANGED <<disk, clock>>,
         NEW t \in Threads, NEW p, NEW r, NEW c, NEW b, Moved(t, p, r, c, b),
         \/ p # "merge" /\ c \in {Nothing, watch[t].current}
         \/ r \in Roots /\ c = disk[r],
         snapshot' \in {snapshot, watch[t].current} \cup {disk[q] : q \in Roots}
  PROVE  OwnContents'
<1>1. Past(c) /\ (p = "merge" => Own(c, r))
  BY DEF OwnContents, Past, Own, Nothing
<1>2. Past(snapshot')
  BY DEF OwnContents
<1>3. Past(snapshot)'
  BY <1>2 DEF Past
<1>4. \A s \in Threads : Past(watch'[s].current)
  BY <1>1 DEF OwnContents, Moved
<1>5. \A s \in Threads : Past(watch[s].current)'
  BY <1>4 DEF Past
<1>6. \A s \in Threads : At(s, "merge")' => Own(watch[s].current, watch[s].root)'
  BY <1>1 DEF OwnContents, Moved, At, Own
<1>7. \A q \in Roots : Own(disk[q], q)' /\ Past(disk[q])'
  BY DEF OwnContents, Own, Past
<1>. QED
  BY <1>3, <1>5, <1>6, <1>7 DEF OwnContents

\* Contents stay those of their directory.
LEMMA OwnStep ==
  ASSUME TypeOK, OwnContents, OwnerGoal, BatchRuns, Sole, Started, [Next]_vars
  PROVE  OwnContents'
<1>. USE DEF fields, lapses
<1>1. ASSUME NEW r \in Roots, NEW f \in Files,
             NEW content \in {None, <<r, clock + 1>>}, Edit(r, f, content)
      PROVE  OwnContents'
  <2>1. \A q \in Roots, g \in Files :
           disk'[q][g] = IF q = r /\ g = f THEN content ELSE disk[q][g]
    BY <1>1 DEF Edit, TypeOK, Tree
  <2>2. clock \in Nat /\ clock' = clock + 1
    BY <1>1, BoundsAssumption DEF Edit, TypeOK
  <2>3. \A k : k \in Content => k[2] \in Nat
    BY BoundsAssumption DEF Content
  <2>4. \A q \in Roots : Own(disk[q], q)' /\ Past(disk[q])'
    BY <2>1, <2>2, <2>3 DEF OwnContents, Own, Past, TypeOK, Tree
  <2>5. \A tree \in Tree : Past(tree) => \A g \in Files : tree[g] # None => tree[g][2] <= clock'
    BY <2>2, <2>3 DEF Past, Tree
  <2>6. Past(snapshot)' /\ \A t \in Threads : Past(watch[t].current)'
    BY <1>1, <2>5 DEF Edit, OwnContents, Past, TypeOK
  <2>. QED
    BY <1>1, <2>4, <2>6 DEF Edit, OwnContents, Own, At
<1>2. ASSUME NEW b \in BOOLEAN, set_enabled(b)
      PROVE  OwnContents'
  BY <1>2 DEF set_enabled, OwnContents, Own, Past, At, TypeOK
<1>3. ASSUME NEW r \in Roots, start_for_root(r)
      PROVE  OwnContents'
  BY <1>3 DEF start_for_root, OwnContents, Own, Past, At, TypeOK
<1>4. CASE stop
  BY <1>4 DEF stop, OwnContents, Own, Past, At, TypeOK
<1>5. CASE Stop
  BY <1>5 DEF Stop, Nothing, OwnContents, Own, Past, At, TypeOK
<1>6. CASE Join
  BY <1>6 DEF Join, AtRest, OwnContents, Own, Past, At, TypeOK
<1>7. ASSUME NEW raised \in BOOLEAN, Begin(raised)
      PROVE  OwnContents'
  <2>1. CASE raised
    BY <1>7, <2>1 DEF Begin, OwnContents, Own, Past, At
  <2>2. CASE ~raised
    <3>1. /\ started + 1 \in Threads
          /\ Moved(started + 1, "top", watch[started + 1].root, watch[started + 1].current, {})
      BY <1>7, <2>2, BeginEffect
    <3>2. snapshot' = disk[owner.goal] /\ owner.goal \in Roots /\ UNCHANGED <<disk, clock>>
      BY <1>7, <2>2 DEF Begin, OwnerGoal, TypeOK
    <3>. QED
      BY <3>1, <3>2, MovedOwn
  <2>. QED
    BY <2>1, <2>2
<1>8. CASE notify_auto_run_end
  BY <1>8 DEF notify_auto_run_end, OwnContents, Own, Past, At, TypeOK
<1>9. ASSUME NEW t \in Threads, Top(t)
      PROVE  OwnContents'
  <2>1. UNCHANGED <<disk, clock>>
    BY <1>9 DEF Top
  <2>. QED
    BY <1>9, <2>1, TopEffect, MovedOwn DEF Top, At, TypeOK
<1>10. ASSUME NEW t \in Threads, Snapshot(t)
      PROVE  OwnContents'
  <2>1. UNCHANGED <<disk, clock>>
    BY <1>10 DEF Snapshot
  <2>. QED
    BY <1>10, <2>1, SnapshotEffect, MovedOwn DEF Snapshot, At, TypeOK
<1>11. ASSUME NEW t \in Threads, SnapshotRaises(t)
      PROVE  OwnContents'
  <2>1. UNCHANGED <<disk, clock>>
    BY <1>11 DEF SnapshotRaises
  <2>. QED
    BY <1>11, <2>1, RaiseEffect, MovedOwn DEF SnapshotRaises, At, TypeOK
<1>12. ASSUME NEW t \in Threads, NEW ready \in BOOLEAN, Merge(t, ready)
      PROVE  OwnContents'
  <2>1. UNCHANGED <<disk, clock>>
    BY <1>12 DEF Merge
  <2>. QED
    BY <1>12, <2>1, MergeEffect, MovedOwn DEF Merge, At, TypeOK
<1>13. ASSUME NEW t \in Threads, NEW result \in {"ran", "refused", "raised"},
             Run(t, result)
      PROVE  OwnContents'
  <2>1. UNCHANGED <<disk, clock>>
    BY <1>13 DEF Run
  <2>. QED
    BY <1>13, <2>1, RunEffect, MovedOwn DEF Run, At, TypeOK
<1>14. CASE UNCHANGED vars
  BY <1>14 DEF vars, OwnContents, Own, Past, At, TypeOK
<1>. QED
  BY <1>1, <1>2, <1>3, <1>4, <1>5, <1>6, <1>7, <1>8, <1>9, <1>10, <1>11, <1>12, <1>13, <1>14
     DEF Next, OwnerStep, Step

\* Without a lapse the one thread that steps, while one watches, is that one.
LEMMA OnlyThread ==
  ASSUME TypeOK, OwnerGoal, Sole, NEW t \in Threads, Step(t), Alive(thread)', ~overlap
  PROVE  t = thread /\ Alive(thread)
<1>1. Alive(thread) /\ thread \in Threads
  BY ThreadLives, BoundsAssumption DEF TypeOK, Threads, Alive
<1>2. t # 0 /\ t \in Threads
  BY DEF Threads
<1>3. watch[t].pc # "dead"
  BY DEF Step, Top, Snapshot, SnapshotRaises, Merge, Run, At
<1>. QED
  BY <1>1, <1>2, <1>3 DEF Sole, OwnerGoal, Alive

\* The thread and its snapshot stay with the root of the manager.
LEMMA SameRootStep ==
  ASSUME TypeOK, OwnContents, OwnerGoal, BatchRuns, Sole, Started, SameRoot, [Next]_vars
  PROVE  SameRoot'
<1>. USE DEF fields, lapses
<1>1. ASSUME NEW r \in Roots, NEW f \in Files,
             NEW content \in {None, <<r, clock + 1>>}, Edit(r, f, content)
      PROVE  SameRoot'
  BY <1>1 DEF Edit, SameRoot, Own, Alive, TypeOK
<1>2. ASSUME NEW b \in BOOLEAN, set_enabled(b)
      PROVE  SameRoot'
  BY <1>2 DEF set_enabled, SameRoot, Own, Alive, TypeOK
<1>3. ASSUME NEW r \in Roots, start_for_root(r)
      PROVE  SameRoot'
  BY <1>3 DEF start_for_root, Started, Idle, OwnerGoal, SameRoot, Own, Alive, TypeOK
<1>4. CASE stop
  BY <1>4 DEF stop, SameRoot, Own, Alive, TypeOK
<1>5. CASE Stop
  BY <1>5 DEF Stop, SameRoot, Own, Alive, TypeOK
<1>6. CASE Join
  BY <1>6 DEF Join, SameRoot, Own, Alive, TypeOK
<1>7. ASSUME NEW raised \in BOOLEAN, Begin(raised)
      PROVE  SameRoot'
  <2>1. CASE raised
    BY <1>7, <2>1 DEF Begin, SameRoot, OwnerGoal, Alive
  <2>2. CASE ~raised
    <3>1. /\ started + 1 \in Threads
          /\ Moved(started + 1, "top", watch[started + 1].root, watch[started + 1].current, {})
      BY <1>7, <2>2, BeginEffect
    <3>. QED
      BY <1>7, <2>2, <3>1 DEF Begin, SameRoot, Moved, OwnContents, OwnerGoal, Own, TypeOK
  <2>. QED
    BY <2>1, <2>2
<1>8. CASE notify_auto_run_end
  BY <1>8 DEF notify_auto_run_end, SameRoot, Own, Alive, TypeOK
<1>9. ASSUME NEW t \in Threads, Top(t)
      PROVE  SameRoot'
  <2>1. SUFFICES ASSUME Alive(thread)', ~overlap', ~muted'
               PROVE  /\ watch'[thread'].pc \in {"snap", "merge", "run"} =>
                            watch'[thread'].root = indexed_root'
                      /\ Own(snapshot', indexed_root')
    BY DEF SameRoot, Own
  <2>2. Step(t) /\ UNCHANGED <<disk, indexed_root, thread, overlap, muted>>
    BY <1>9, ThreadStep DEF Step
  <2>3. t = thread /\ Alive(thread) /\ ~overlap /\ ~muted
    BY <2>1, <2>2, OnlyThread
  <2>4. /\ watch[t].pc \in {"snap", "merge", "run"} => watch[t].root = indexed_root
        /\ Own(snapshot, indexed_root)
    BY <2>3 DEF SameRoot
  <2>. QED
    BY <1>9, <2>2, <2>3, <2>4, TopEffect DEF Top, At, Moved, Own, OwnContents
<1>10. ASSUME NEW t \in Threads, Snapshot(t)
      PROVE  SameRoot'
  <2>1. SUFFICES ASSUME Alive(thread)', ~overlap', ~muted'
               PROVE  /\ watch'[thread'].pc \in {"snap", "merge", "run"} =>
                            watch'[thread'].root = indexed_root'
                      /\ Own(snapshot', indexed_root')
    BY DEF SameRoot, Own
  <2>2. Step(t) /\ UNCHANGED <<disk, indexed_root, thread, overlap, muted>>
    BY <1>10, ThreadStep DEF Step
  <2>3. t = thread /\ Alive(thread) /\ ~overlap /\ ~muted
    BY <2>1, <2>2, OnlyThread
  <2>4. /\ watch[t].pc \in {"snap", "merge", "run"} => watch[t].root = indexed_root
        /\ Own(snapshot, indexed_root)
    BY <2>3 DEF SameRoot
  <2>. QED
    BY <1>10, <2>2, <2>3, <2>4, SnapshotEffect DEF Snapshot, At, Moved, Own, OwnContents
<1>11. ASSUME NEW t \in Threads, SnapshotRaises(t)
      PROVE  SameRoot'
  <2>1. SUFFICES ASSUME Alive(thread)', ~overlap', ~muted'
               PROVE  /\ watch'[thread'].pc \in {"snap", "merge", "run"} =>
                            watch'[thread'].root = indexed_root'
                      /\ Own(snapshot', indexed_root')
    BY DEF SameRoot, Own
  <2>2. Step(t) /\ UNCHANGED <<disk, indexed_root, thread, overlap, muted>>
    BY <1>11, ThreadStep DEF Step
  <2>3. t = thread /\ Alive(thread) /\ ~overlap /\ ~muted
    BY <2>1, <2>2, OnlyThread
  <2>4. /\ watch[t].pc \in {"snap", "merge", "run"} => watch[t].root = indexed_root
        /\ Own(snapshot, indexed_root)
    BY <2>3 DEF SameRoot
  <2>. QED
    BY <1>11, <2>2, <2>3, <2>4, RaiseEffect DEF SnapshotRaises, At, Moved, Own, OwnContents
<1>12. ASSUME NEW t \in Threads, NEW ready \in BOOLEAN, Merge(t, ready)
      PROVE  SameRoot'
  <2>1. SUFFICES ASSUME Alive(thread)', ~overlap', ~muted'
               PROVE  /\ watch'[thread'].pc \in {"snap", "merge", "run"} =>
                            watch'[thread'].root = indexed_root'
                      /\ Own(snapshot', indexed_root')
    BY DEF SameRoot, Own
  <2>2. Step(t) /\ UNCHANGED <<disk, indexed_root, thread, overlap, muted>>
    BY <1>12, ThreadStep DEF Step
  <2>3. t = thread /\ Alive(thread) /\ ~overlap /\ ~muted
    BY <2>1, <2>2, OnlyThread
  <2>4. /\ watch[t].pc \in {"snap", "merge", "run"} => watch[t].root = indexed_root
        /\ Own(snapshot, indexed_root)
    BY <2>3 DEF SameRoot
  <2>. QED
    BY <1>12, <2>2, <2>3, <2>4, MergeEffect DEF Merge, At, Moved, Own, OwnContents
<1>13. ASSUME NEW t \in Threads, NEW result \in {"ran", "refused", "raised"},
             Run(t, result)
      PROVE  SameRoot'
  <2>1. SUFFICES ASSUME Alive(thread)', ~overlap', ~muted'
               PROVE  /\ watch'[thread'].pc \in {"snap", "merge", "run"} =>
                            watch'[thread'].root = indexed_root'
                      /\ Own(snapshot', indexed_root')
    BY DEF SameRoot, Own
  <2>2. Step(t) /\ UNCHANGED <<disk, indexed_root, thread, overlap, muted>>
    BY <1>13, ThreadStep DEF Step
  <2>3. t = thread /\ Alive(thread) /\ ~overlap /\ ~muted
    BY <2>1, <2>2, OnlyThread
  <2>4. /\ watch[t].pc \in {"snap", "merge", "run"} => watch[t].root = indexed_root
        /\ Own(snapshot, indexed_root)
    BY <2>3 DEF SameRoot
  <2>. QED
    BY <1>13, <2>2, <2>3, <2>4, RunEffect DEF Run, At, Moved, Own, OwnContents
<1>14. CASE UNCHANGED vars
  BY <1>14 DEF vars, SameRoot, Own, Alive, TypeOK
<1>. QED
  BY <1>1, <1>2, <1>3, <1>4, <1>5, <1>6, <1>7, <1>8, <1>9, <1>10, <1>11, <1>12, <1>13, <1>14
     DEF Next, OwnerStep, Step

\* An absence is noted when it begins.
LEMMA AbsenceStep ==
  ASSUME TypeOK, OwnContents, OwnerGoal, BatchRuns, Sole, Started, SameRoot, Rooted, AbsenceKnown, [Next]_vars
  PROVE  AbsenceKnown'
<1>. USE DEF fields, lapses
<1>1. ASSUME NEW r \in Roots, NEW f \in Files,
             NEW content \in {None, <<r, clock + 1>>}, Edit(r, f, content)
      PROVE  AbsenceKnown'
  <2>1. \A q \in Roots, g \in Files :
           disk'[q][g] = IF q = r /\ g = f THEN content ELSE disk[q][g]
    BY <1>1 DEF Edit, TypeOK, Tree
  <2>2. content # None \/ content = None
    OBVIOUS
  <2>3. <<r, clock + 1>> # None
    BY NoneAssumption, BoundsAssumption DEF TypeOK
  <2>. QED
    BY <1>1, <2>1, <2>3 DEF Edit, AbsenceKnown, Watched, Alive, At, Rooted, TypeOK
<1>2. ASSUME NEW b \in BOOLEAN, set_enabled(b)
      PROVE  AbsenceKnown'
  BY <1>2 DEF set_enabled, AbsenceKnown, Watched, Alive, At, TypeOK
<1>3. ASSUME NEW r \in Roots, start_for_root(r)
      PROVE  AbsenceKnown'
  BY <1>3 DEF start_for_root, Started, Idle, OwnerGoal, AbsenceKnown, Watched, Alive, At, TypeOK
<1>4. CASE stop
  BY <1>4 DEF stop, AbsenceKnown, Watched, Alive, At, TypeOK
<1>5. CASE Stop
  BY <1>5 DEF Stop, AbsenceKnown, Watched, Alive, At, TypeOK
<1>6. CASE Join
  BY <1>6 DEF Join, AbsenceKnown, Watched, Alive, At, TypeOK
<1>7. ASSUME NEW raised \in BOOLEAN, Begin(raised)
      PROVE  AbsenceKnown'
  <2>1. CASE raised
    BY <1>7, <2>1 DEF Begin, AbsenceKnown, Watched, OwnerGoal, Alive
  <2>2. CASE ~raised
    <3>1. /\ started + 1 \in Threads
          /\ Moved(started + 1, "top", watch[started + 1].root, watch[started + 1].current, {})
      BY <1>7, <2>2, BeginEffect
    <3>. QED
      BY <1>7, <2>2, <3>1 DEF Begin, AbsenceKnown, Moved, At
  <2>. QED
    BY <2>1, <2>2
<1>8. CASE notify_auto_run_end
  BY <1>8 DEF notify_auto_run_end, AbsenceKnown, Watched, Alive, At, TypeOK
<1>9. ASSUME NEW t \in Threads, Top(t)
      PROVE  AbsenceKnown'
  <2>1. SUFFICES ASSUME Watched'
               PROVE  /\ \A f \in Files : disk'[indexed_root'][f] = None \/ snapshot'[f] = None
                                             => f \in absent'
                      /\ watch'[thread'].pc = "merge" =>
                            \A f \in Files : watch'[thread'].current[f] = None => f \in absent'
    BY DEF AbsenceKnown, At
  <2>2. Step(t) /\ Watched /\ UNCHANGED <<disk, indexed_root, thread, overlap, muted, absent>>
    BY <1>9, <2>1, ThreadStep, ThreadLives DEF Step
  <2>3. t = thread
    BY <2>1, <2>2, OnlyThread DEF Watched
  <2>4. /\ \A f \in Files : disk[indexed_root][f] = None \/ snapshot[f] = None => f \in absent
        /\ watch[t].pc = "merge" =>
              \A f \in Files : watch[t].current[f] = None => f \in absent
    BY <2>2, <2>3 DEF AbsenceKnown, At
  <2>5. watch[t].pc = "snap" => watch[t].root = indexed_root
    BY <2>2, <2>3 DEF SameRoot, Watched
  <2>. QED
    BY <1>9, <2>2, <2>3, <2>4, <2>5, TopEffect DEF Top, At, Moved
<1>10. ASSUME NEW t \in Threads, Snapshot(t)
      PROVE  AbsenceKnown'
  <2>1. SUFFICES ASSUME Watched'
               PROVE  /\ \A f \in Files : disk'[indexed_root'][f] = None \/ snapshot'[f] = None
                                             => f \in absent'
                      /\ watch'[thread'].pc = "merge" =>
                            \A f \in Files : watch'[thread'].current[f] = None => f \in absent'
    BY DEF AbsenceKnown, At
  <2>2. Step(t) /\ Watched /\ UNCHANGED <<disk, indexed_root, thread, overlap, muted, absent>>
    BY <1>10, <2>1, ThreadStep, ThreadLives DEF Step
  <2>3. t = thread
    BY <2>1, <2>2, OnlyThread DEF Watched
  <2>4. /\ \A f \in Files : disk[indexed_root][f] = None \/ snapshot[f] = None => f \in absent
        /\ watch[t].pc = "merge" =>
              \A f \in Files : watch[t].current[f] = None => f \in absent
    BY <2>2, <2>3 DEF AbsenceKnown, At
  <2>5. watch[t].pc = "snap" => watch[t].root = indexed_root
    BY <2>2, <2>3 DEF SameRoot, Watched
  <2>6. watch'[t].current = disk[indexed_root] /\ snapshot' = snapshot
    BY <1>10, <2>5, SnapshotEffect DEF Snapshot, At, Moved
  <2>. QED
    BY <2>2, <2>3, <2>4, <2>6
<1>11. ASSUME NEW t \in Threads, SnapshotRaises(t)
      PROVE  AbsenceKnown'
  <2>1. SUFFICES ASSUME Watched'
               PROVE  /\ \A f \in Files : disk'[indexed_root'][f] = None \/ snapshot'[f] = None
                                             => f \in absent'
                      /\ watch'[thread'].pc = "merge" =>
                            \A f \in Files : watch'[thread'].current[f] = None => f \in absent'
    BY DEF AbsenceKnown, At
  <2>2. Step(t) /\ Watched /\ UNCHANGED <<disk, indexed_root, thread, overlap, muted, absent>>
    BY <1>11, <2>1, ThreadStep, ThreadLives DEF Step
  <2>3. t = thread
    BY <2>1, <2>2, OnlyThread DEF Watched
  <2>4. /\ \A f \in Files : disk[indexed_root][f] = None \/ snapshot[f] = None => f \in absent
        /\ watch[t].pc = "merge" =>
              \A f \in Files : watch[t].current[f] = None => f \in absent
    BY <2>2, <2>3 DEF AbsenceKnown, At
  <2>5. watch[t].pc = "snap" => watch[t].root = indexed_root
    BY <2>2, <2>3 DEF SameRoot, Watched
  <2>. QED
    BY <1>11, <2>2, <2>3, <2>4, <2>5, RaiseEffect DEF SnapshotRaises, At, Moved
<1>12. ASSUME NEW t \in Threads, NEW ready \in BOOLEAN, Merge(t, ready)
      PROVE  AbsenceKnown'
  <2>1. SUFFICES ASSUME Watched'
               PROVE  /\ \A f \in Files : disk'[indexed_root'][f] = None \/ snapshot'[f] = None
                                             => f \in absent'
                      /\ watch'[thread'].pc = "merge" =>
                            \A f \in Files : watch'[thread'].current[f] = None => f \in absent'
    BY DEF AbsenceKnown, At
  <2>2. Step(t) /\ Watched /\ UNCHANGED <<disk, indexed_root, thread, overlap, muted, absent>>
    BY <1>12, <2>1, ThreadStep, ThreadLives DEF Step
  <2>3. t = thread
    BY <2>1, <2>2, OnlyThread DEF Watched
  <2>4. /\ \A f \in Files : disk[indexed_root][f] = None \/ snapshot[f] = None => f \in absent
        /\ watch[t].pc = "merge" =>
              \A f \in Files : watch[t].current[f] = None => f \in absent
    BY <2>2, <2>3 DEF AbsenceKnown, At
  <2>5. watch[t].pc = "snap" => watch[t].root = indexed_root
    BY <2>2, <2>3 DEF SameRoot, Watched
  <2>. QED
    BY <1>12, <2>2, <2>3, <2>4, <2>5, MergeEffect DEF Merge, At, Moved
<1>13. ASSUME NEW t \in Threads, NEW result \in {"ran", "refused", "raised"},
             Run(t, result)
      PROVE  AbsenceKnown'
  <2>1. SUFFICES ASSUME Watched'
               PROVE  /\ \A f \in Files : disk'[indexed_root'][f] = None \/ snapshot'[f] = None
                                             => f \in absent'
                      /\ watch'[thread'].pc = "merge" =>
                            \A f \in Files : watch'[thread'].current[f] = None => f \in absent'
    BY DEF AbsenceKnown, At
  <2>2. Step(t) /\ Watched /\ UNCHANGED <<disk, indexed_root, thread, overlap, muted, absent>>
    BY <1>13, <2>1, ThreadStep, ThreadLives DEF Step
  <2>3. t = thread
    BY <2>1, <2>2, OnlyThread DEF Watched
  <2>4. /\ \A f \in Files : disk[indexed_root][f] = None \/ snapshot[f] = None => f \in absent
        /\ watch[t].pc = "merge" =>
              \A f \in Files : watch[t].current[f] = None => f \in absent
    BY <2>2, <2>3 DEF AbsenceKnown, At
  <2>5. watch[t].pc = "snap" => watch[t].root = indexed_root
    BY <2>2, <2>3 DEF SameRoot, Watched
  <2>. QED
    BY <1>13, <2>2, <2>3, <2>4, <2>5, RunEffect DEF Run, At, Moved
<1>14. CASE UNCHANGED vars
  BY <1>14 DEF vars, AbsenceKnown, Watched, Alive, At, TypeOK
<1>. QED
  BY <1>1, <1>2, <1>3, <1>4, <1>5, <1>6, <1>7, <1>8, <1>9, <1>10, <1>11, <1>12, <1>13, <1>14
     DEF Next, OwnerStep, Step

\* No change is lost.
LEMMA LostStep ==
  ASSUME TypeOK, OwnContents, OwnerGoal, BatchRuns, Sole, Started, SameRoot, Rooted, AbsenceKnown, NoChangeIsLost, [Next]_vars
  PROVE  NoChangeIsLost'
<1>. USE DEF fields, lapses
<1>1. ASSUME NEW r \in Roots, NEW f \in Files,
             NEW content \in {None, <<r, clock + 1>>}, Edit(r, f, content)
      PROVE  NoChangeIsLost'
  <2>1. \A q \in Roots, g \in Files :
           disk'[q][g] = IF q = r /\ g = f THEN content ELSE disk[q][g]
    BY <1>1 DEF Edit, TypeOK, Tree
  <2>2. SUFFICES ASSUME Watched', NEW g \in Files \ back', disk'[indexed_root'][g] # told'[g]
               PROVE  \/ snapshot'[g] # disk'[indexed_root'][g]
                      \/ g \in pending' \/ g \in watch'[thread'].batch \/ rerun'
    BY DEF NoChangeIsLost
  <2>3. Watched /\ indexed_root \in Roots
    BY <1>1, <2>2 DEF Edit, Watched, Alive, Rooted, TypeOK
  <2>4. CASE r = indexed_root /\ g = f /\ content = None
    <3>1. f \notin absent
      BY <1>1, <2>2, <2>4 DEF Edit
    <3>2. snapshot[f] # None
      BY <2>3, <3>1 DEF AbsenceKnown
    <3>. QED
      BY <1>1, <2>1, <2>3, <2>4, <3>2 DEF Edit
  <2>5. CASE r = indexed_root /\ g = f /\ content # None
    <3>1. content = <<r, clock + 1>> /\ clock \in Nat
      BY <1>1, <2>5, BoundsAssumption DEF TypeOK
    <3>2. snapshot[f] # content
      <4>1. snapshot[f] # None => snapshot[f][2] <= clock
        BY DEF OwnContents, Past
      <4>. QED
        BY <2>5, <3>1, <4>1
    <3>. QED
      BY <1>1, <2>1, <2>3, <2>5, <3>2 DEF Edit
  <2>6. CASE ~(r = indexed_root /\ g = f)
    <3>1. disk'[indexed_root][g] = disk[indexed_root][g] /\ g \notin back
      BY <1>1, <2>1, <2>2, <2>3, <2>6 DEF Edit
    <3>. QED
      BY <1>1, <2>2, <2>3, <3>1 DEF Edit, NoChangeIsLost
  <2>. QED
    BY <2>4, <2>5, <2>6
<1>2. ASSUME NEW b \in BOOLEAN, set_enabled(b)
      PROVE  NoChangeIsLost'
  BY <1>2 DEF set_enabled, Started, NoChangeIsLost, Watched, Alive, TypeOK
<1>3. ASSUME NEW r \in Roots, start_for_root(r)
      PROVE  NoChangeIsLost'
  BY <1>3 DEF start_for_root, Started, Idle, OwnerGoal, NoChangeIsLost, Watched, Alive, TypeOK
<1>4. CASE stop
  BY <1>4 DEF stop, NoChangeIsLost, Watched, Alive, TypeOK
<1>5. CASE Stop
  BY <1>5 DEF Stop, NoChangeIsLost, Watched, Alive, TypeOK
<1>6. CASE Join
  BY <1>6 DEF Join, NoChangeIsLost, Watched, Alive, TypeOK
<1>7. ASSUME NEW raised \in BOOLEAN, Begin(raised)
      PROVE  NoChangeIsLost'
  <2>1. CASE raised
    BY <1>7, <2>1 DEF Begin, NoChangeIsLost, Watched, OwnerGoal, Alive
  <2>2. CASE ~raised
    BY <1>7, <2>2 DEF Begin, NoChangeIsLost
  <2>. QED
    BY <2>1, <2>2
<1>8. CASE notify_auto_run_end
  BY <1>8 DEF notify_auto_run_end, Rooted, NoChangeIsLost, Watched, Alive, TypeOK
<1>9. ASSUME NEW t \in Threads, Top(t)
      PROVE  NoChangeIsLost'
  <2>1. SUFFICES ASSUME Watched', NEW f \in Files \ back', disk'[indexed_root'][f] # told'[f]
               PROVE  \/ snapshot'[f] # disk'[indexed_root'][f]
                      \/ f \in pending' \/ f \in watch'[thread'].batch \/ rerun'
    BY DEF NoChangeIsLost
  <2>2. Step(t) /\ Watched /\ UNCHANGED <<disk, indexed_root, thread, overlap, muted, back>>
    BY <1>9, <2>1, ThreadStep, ThreadLives DEF Step
  <2>3. t = thread
    BY <2>1, <2>2, OnlyThread DEF Watched
  <2>4. disk[indexed_root][f] # told[f] =>
           \/ snapshot[f] # disk[indexed_root][f]
           \/ f \in pending \/ f \in watch[t].batch \/ rerun
    BY <2>1, <2>2, <2>3 DEF NoChangeIsLost
  <2>5. /\ watch[t].pc = "run" => watch[t].root = indexed_root
        /\ watch[t].pc # "run" => watch[t].batch = {}
    BY <2>2, <2>3 DEF SameRoot, Watched, BatchRuns, At
  <2>6. watch'[t].pc # "dead"
    BY <2>1, <2>2, <2>3 DEF Watched, Alive
  <2>. QED
    BY <1>9, <2>1, <2>2, <2>3, <2>4, <2>5, <2>6, TopEffect DEF Top, At, Moved
<1>10. ASSUME NEW t \in Threads, Snapshot(t)
      PROVE  NoChangeIsLost'
  <2>1. SUFFICES ASSUME Watched', NEW f \in Files \ back', disk'[indexed_root'][f] # told'[f]
               PROVE  \/ snapshot'[f] # disk'[indexed_root'][f]
                      \/ f \in pending' \/ f \in watch'[thread'].batch \/ rerun'
    BY DEF NoChangeIsLost
  <2>2. Step(t) /\ Watched /\ UNCHANGED <<disk, indexed_root, thread, overlap, muted, back>>
    BY <1>10, <2>1, ThreadStep, ThreadLives DEF Step
  <2>3. t = thread
    BY <2>1, <2>2, OnlyThread DEF Watched
  <2>4. disk[indexed_root][f] # told[f] =>
           \/ snapshot[f] # disk[indexed_root][f]
           \/ f \in pending \/ f \in watch[t].batch \/ rerun
    BY <2>1, <2>2, <2>3 DEF NoChangeIsLost
  <2>5. /\ watch[t].pc = "run" => watch[t].root = indexed_root
        /\ watch[t].pc # "run" => watch[t].batch = {}
    BY <2>2, <2>3 DEF SameRoot, Watched, BatchRuns, At
  <2>6. watch'[t].pc # "dead"
    BY <2>1, <2>2, <2>3 DEF Watched, Alive
  <2>. QED
    BY <1>10, <2>1, <2>2, <2>3, <2>4, <2>5, <2>6, SnapshotEffect DEF Snapshot, At, Moved
<1>11. ASSUME NEW t \in Threads, SnapshotRaises(t)
      PROVE  NoChangeIsLost'
  <2>1. SUFFICES ASSUME Watched', NEW f \in Files \ back', disk'[indexed_root'][f] # told'[f]
               PROVE  \/ snapshot'[f] # disk'[indexed_root'][f]
                      \/ f \in pending' \/ f \in watch'[thread'].batch \/ rerun'
    BY DEF NoChangeIsLost
  <2>2. Step(t) /\ Watched /\ UNCHANGED <<disk, indexed_root, thread, overlap, muted, back>>
    BY <1>11, <2>1, ThreadStep, ThreadLives DEF Step
  <2>3. t = thread
    BY <2>1, <2>2, OnlyThread DEF Watched
  <2>4. disk[indexed_root][f] # told[f] =>
           \/ snapshot[f] # disk[indexed_root][f]
           \/ f \in pending \/ f \in watch[t].batch \/ rerun
    BY <2>1, <2>2, <2>3 DEF NoChangeIsLost
  <2>5. /\ watch[t].pc = "run" => watch[t].root = indexed_root
        /\ watch[t].pc # "run" => watch[t].batch = {}
    BY <2>2, <2>3 DEF SameRoot, Watched, BatchRuns, At
  <2>6. watch'[t].pc # "dead"
    BY <2>1, <2>2, <2>3 DEF Watched, Alive
  <2>. QED
    BY <1>11, <2>1, <2>2, <2>3, <2>4, <2>5, <2>6, RaiseEffect DEF SnapshotRaises, At, Moved
<1>12. ASSUME NEW t \in Threads, NEW ready \in BOOLEAN, Merge(t, ready)
      PROVE  NoChangeIsLost'
  <2>1. SUFFICES ASSUME Watched', NEW f \in Files \ back', disk'[indexed_root'][f] # told'[f]
               PROVE  \/ snapshot'[f] # disk'[indexed_root'][f]
                      \/ f \in pending' \/ f \in watch'[thread'].batch \/ rerun'
    BY DEF NoChangeIsLost
  <2>2. Step(t) /\ Watched /\ UNCHANGED <<disk, indexed_root, thread, overlap, muted, back>>
    BY <1>12, <2>1, ThreadStep, ThreadLives DEF Step
  <2>3. t = thread
    BY <2>1, <2>2, OnlyThread DEF Watched
  <2>4. disk[indexed_root][f] # told[f] =>
           \/ snapshot[f] # disk[indexed_root][f]
           \/ f \in pending \/ f \in watch[t].batch \/ rerun
    BY <2>1, <2>2, <2>3 DEF NoChangeIsLost
  <2>5. /\ watch[t].pc = "run" => watch[t].root = indexed_root
        /\ watch[t].pc # "run" => watch[t].batch = {}
    BY <2>2, <2>3 DEF SameRoot, Watched, BatchRuns, At
  <2>6. watch'[t].pc # "dead"
    BY <2>1, <2>2, <2>3 DEF Watched, Alive
  <2>. QED
    BY <1>12, <2>1, <2>2, <2>3, <2>4, <2>5, <2>6, MergeEffect DEF Merge, At, Moved, All, New
<1>13. ASSUME NEW t \in Threads, NEW result \in {"ran", "refused", "raised"},
             Run(t, result)
      PROVE  NoChangeIsLost'
  <2>1. SUFFICES ASSUME Watched', NEW f \in Files \ back', disk'[indexed_root'][f] # told'[f]
               PROVE  \/ snapshot'[f] # disk'[indexed_root'][f]
                      \/ f \in pending' \/ f \in watch'[thread'].batch \/ rerun'
    BY DEF NoChangeIsLost
  <2>2. Step(t) /\ Watched /\ UNCHANGED <<disk, indexed_root, thread, overlap, muted, back>>
    BY <1>13, <2>1, ThreadStep, ThreadLives DEF Step
  <2>3. t = thread
    BY <2>1, <2>2, OnlyThread DEF Watched
  <2>4. disk[indexed_root][f] # told[f] =>
           \/ snapshot[f] # disk[indexed_root][f]
           \/ f \in pending \/ f \in watch[t].batch \/ rerun
    BY <2>1, <2>2, <2>3 DEF NoChangeIsLost
  <2>5. /\ watch[t].pc = "run" => watch[t].root = indexed_root
        /\ watch[t].pc # "run" => watch[t].batch = {}
    BY <2>2, <2>3 DEF SameRoot, Watched, BatchRuns, At
  <2>6. watch'[t].pc # "dead"
    BY <2>1, <2>2, <2>3 DEF Watched, Alive
  <2>. QED
    BY <1>13, <2>1, <2>2, <2>3, <2>4, <2>5, <2>6, RunEffect DEF Run, At, Moved
<1>14. CASE UNCHANGED vars
  BY <1>14 DEF vars, NoChangeIsLost, Watched, Alive, TypeOK
<1>. QED
  BY <1>1, <1>2, <1>3, <1>4, <1>5, <1>6, <1>7, <1>8, <1>9, <1>10, <1>11, <1>12, <1>13, <1>14
     DEF Next, OwnerStep, Step

-----------------------------------------------------------------------------
\* The three facts about the inductive invariant.
LEMMA InvInit == Init => AIInv
<1>. SUFFICES ASSUME Init PROVE AIInv
  OBVIOUS
<1>1. TypeOK
  BY TypeInit
<1>2. thread = 0 /\ ~watching /\ owner.pc = "idle" /\ owner.goal = None
      /\ \A t \in Threads : watch[t] = Dead
  BY DEF Init, AtRest
<1>3. OwnContents
  BY <1>2, DeadRecord DEF Init, OwnContents, Own, Past, At, Nothing
<1>4. OwnerGoal /\ Started
  BY <1>1, <1>2, DeadRecord DEF Init, OwnerGoal, Started, Alive, Threads
<1>5. BatchRuns /\ Sole
  BY <1>2, DeadRecord DEF BatchRuns, Sole, At, Alive
<1>6. SameRoot /\ AbsenceKnown /\ Rooted /\ NoChangeIsLost
  BY <1>2 DEF SameRoot, AbsenceKnown, Rooted, NoChangeIsLost, Watched, Alive
<1>. QED
  BY <1>1, <1>3, <1>4, <1>5, <1>6 DEF AIInv

LEMMA InvStep == AIInv /\ [Next]_vars => AIInv'
<1>. SUFFICES ASSUME AIInv, [Next]_vars PROVE AIInv'
  OBVIOUS
<1>1. TypeOK' /\ OwnContents' /\ OwnerGoal'
  BY TypeStep, OwnStep, OwnerStepKeeps DEF AIInv
<1>2. BatchRuns' /\ Sole' /\ Started' /\ Rooted'
  BY BatchStep, SoleStep, StartedStep, RootedStep DEF AIInv
<1>3. SameRoot' /\ AbsenceKnown' /\ NoChangeIsLost'
  BY SameRootStep, AbsenceStep, LostStep DEF AIInv
<1>. QED
  BY <1>1, <1>2, <1>3 DEF AIInv

LEMMA InvImpliesClean == AIInv => SwitchIsClean
<1>. SUFFICES ASSUME AIInv, Idle, ~overlap, ~muted PROVE
          /\ \A t \in Threads : Alive(t) => t = thread /\ watching
          /\ Alive(thread) => \A f \in Files :
                snapshot[f] # None => snapshot[f][1] = indexed_root
          /\ \A t \in Threads : At(t, "run") => watch[t].root = indexed_root
  BY DEF SwitchIsClean
<1>1. \A t \in Threads : Alive(t) => t = thread /\ watching
  BY DEF AIInv, Sole, Idle
<1>2. Alive(thread) => Own(snapshot, indexed_root)
  BY DEF AIInv, SameRoot
<1>3. ASSUME NEW t \in Threads, At(t, "run") PROVE watch[t].root = indexed_root
  <2>1. Alive(t)
    BY <1>3 DEF At, Alive, Threads
  <2>. QED
    BY <1>1, <1>3, <2>1 DEF AIInv, SameRoot, At
<1>. QED
  BY <1>1, <1>2, <1>3 DEF Own

\* Every reachable state of the manager and of its threads is well typed.
THEOREM TypeCorrect == Spec => []TypeOK
<1>. QED
  BY InvInit, InvStep, PTL DEF Spec, AIInv

\* A change of the watched directory that no index run has read is still to be
\* seen, pending, about to be run or covered by a requested rerun, whatever the
\* order of polls, refusals, edits and calls of the owner.
THEOREM ChangesAreKept == Spec => []NoChangeIsLost
<1>. QED
  BY InvInit, InvStep, PTL DEF Spec, AIInv

\* When start_for_root or stop has returned, and no stop gave up waiting, the one
\* thread left compares, collects and runs the directory asked for.
THEOREM SwitchesAreClean == Spec => []SwitchIsClean
<1>. QED
  BY InvInit, InvStep, InvImpliesClean, PTL DEF Spec

=============================================================================
