------------------------- MODULE IndexServer_proof -------------------------
(* Proofs about IndexServer: its type invariant; that the run lock keeps     *)
(* runs apart whoever drives them; and what the runs leave in the stores: a  *)
(* run that says "done" left exactly its snapshot, a chat reads nothing      *)
(* older than its freshness check saw, an active session has an index.       *)
EXTENDS IndexServer, SequenceTheorems, TLAPS

Events == {"busy", "error", "done", "end"}

\* What a producer puts is appended to a queue of events.
LEMMA PutType ==
    ASSUME queue \in [Requests -> Seq(Events)], NEW r, NEW es \in Seq(Events), Put(r, es)
    PROVE  queue' \in [Requests -> Seq(Events)]
<1>1. CASE r \in Requests
  <2>1. queue[r] \o es \in Seq(Events)
    BY <1>1, ConcatProperties
  <2>2. QED
    BY <1>1, <2>1 DEF Put
<1>2. CASE r \notin Requests
  BY <1>2 DEF Put
<1>3. QED
  BY <1>1, <1>2

\* What the reader leaves in a queue is still a queue of events.
LEMMA ConsumeType ==
    ASSUME queue \in [Requests -> Seq(Events)], NEW i \in Requests, Consume(i)
    PROVE  queue' \in [Requests -> Seq(Events)]
<1>1. Tail(queue[i]) \in Seq(Events)
  BY HeadTailProperties DEF Consume
<1>2. QED
  BY <1>1 DEF Consume

-----------------------------------------------------------------------------
\* The type invariant in groups of variables that change together.
TypeStores ==
    /\ disk \in [Projects -> [Files -> Content]] /\ clock \in 0..MaxEdits
    /\ col \in Trees
    /\ hashes \in [root: Maybe(Projects), files: Trees]
    /\ pmap \in Maybe(Projects) /\ stored \in Maybe(Projects)
RunType == [pc: {"none", "acquire", "ended"} \cup Running, root: Maybe(Projects),
            snap: Trees, todo: SUBSET Files, forced: BOOLEAN]
TypeRun == run \in [Runners -> RunType] /\ holder \in Maybe(Runners)
TypeQueue == queue \in [Requests -> Seq(Events)]
TypeSession ==
    /\ client \in [Requests -> {"unsent", "accepted", "open", "ended", "gone"}]
    /\ loop \in Maybe(Chats)
    /\ calm \subseteq Chats
    /\ faults \in 0..MaxFaults /\ clears \in 0..MaxClears
TypeFlags == active \in BOOLEAN /\ damaged \in BOOLEAN
TypeChats ==
    /\ chat \in [Chats -> {"unsent", "rejected", "accepted", "stale", "refreshing",
                           "answering", "answered", "failed"}]
    /\ aim \in [Chats -> [root: Maybe(Projects), files: Trees]]
    /\ seen \in [Chats -> Trees]

\* A run that started, or is about to, has a project to index.
RootsKnown ==
    /\ \A r \in Runners : run[r].pc \notin {"none", "ended"} => run[r].root \in Projects
    /\ \A i \in Requests : client[i] = "accepted" => run[i].root \in Projects
    /\ \A c \in Chats : chat[c] = "stale" => aim[c].root \in Projects

\* Whoever is between acquire and release is the holder of the lock.
HolderRuns == \A r \in Runners : run[r].pc \in Running => holder = r

IInv == TypeStores /\ TypeRun /\ TypeQueue /\ TypeSession /\ TypeFlags /\ TypeChats
        /\ RootsKnown /\ HolderRuns

Places == {"none", "acquire", "ended"} \cup Running

\* Moving a run to another place changes nothing else about it.
LEMMA GotoType ==
    ASSUME run \in [Runners -> RunType], NEW r \in Runners, NEW place \in Places,
           Goto(r, place)
    PROVE  /\ run' \in [Runners -> RunType]
           /\ run'[r] = [run[r] EXCEPT !.pc = place]
           /\ \A s \in Runners \ {r} : run'[s] = run[s]
<1>1. run[r] \in RunType /\ [run[r] EXCEPT !.pc = place] \in RunType
  BY DEF RunType, Places
<1>2. run' = [run EXCEPT ![r] = [run[r] EXCEPT !.pc = place]]
  BY DEF Goto
<1>3. QED
  BY <1>1, <1>2

\* The invariant gives both properties.
LEMMA Strong == IInv => TypeOK /\ OneRunAtATime
  BY DEF IInv, TypeStores, TypeRun, RunType, TypeQueue, TypeSession, TypeFlags, TypeChats,
     HolderRuns, TypeOK, OneRunAtATime, Events

LEMMA InitStrong == Init => IInv
<1> SUFFICES ASSUME Init PROVE IInv
  OBVIOUS
<1> USE BoundsAssumption DEF Init, NoTree, NoHashes, NoRun, NoAim, Trees, Maybe, Content
<1>1. TypeStores
  BY DEF TypeStores
<1>2. TypeRun
  BY DEF TypeRun, RunType, Running
<1>3. TypeQueue
  <2>1. <<>> \in Seq(Events)
    BY EmptySeq
  <2>2. QED
    BY <2>1 DEF TypeQueue
<1>4. TypeSession
  BY DEF TypeSession
<1>8. TypeFlags
  BY DEF TypeFlags
<1>5. TypeChats
  BY DEF TypeChats
<1>6. RootsKnown /\ HolderRuns
  BY DEF RootsKnown, HolderRuns, Runners, Running
<1>7. QED
  BY <1>1, <1>2, <1>3, <1>4, <1>5, <1>6, <1>8 DEF IInv

\* An edit of a file preserves the invariant.
LEMMA EditStep ==
    ASSUME IInv, NEW p \in Projects, NEW f \in Files, Edit(p, f)
    PROVE  IInv'
<1> USE BoundsAssumption, RunnersAssumption, NoneAssumption DEF IInv
<1>1. TypeRun' /\ TypeQueue' /\ TypeSession' /\ TypeFlags' /\ TypeChats' /\ RootsKnown' /\ HolderRuns'
  BY DEF Edit, storeVars, chatVars, HolderRuns, RootsKnown, TypeChats, TypeFlags,
     TypeQueue, TypeRun, TypeSession
<1>2. TypeStores'
  BY DEF Edit, storeVars, chatVars, LoopFree, At, Maybe, Content, Trees, NoTree,
     NoHashes, TypeStores, RootsKnown
<1>3. QED
  BY <1>1, <1>2

\* Taking the lock preserves the invariant.
LEMMA AcquireStep ==
    ASSUME IInv, NEW r \in Runners, Acquire(r)
    PROVE  IInv'
<1> USE BoundsAssumption, RunnersAssumption, NoneAssumption DEF IInv
<1>r. /\ run' \in [Runners -> RunType]
      /\ run'[r] = [run[r] EXCEPT !.pc = "begin"]
      /\ \A s \in Runners \ {r} : run'[s] = run[s]
  BY GotoType DEF Acquire, TypeRun, Places, Running, Runners
<1>1. TypeStores' /\ TypeQueue' /\ TypeFlags' /\ TypeChats'
  BY DEF Acquire, storeVars, chatVars, TypeChats, TypeFlags, TypeQueue, TypeStores
<1>2. TypeRun'
  BY <1>r DEF Acquire, TypeRun, Maybe, Runners, storeVars, chatVars
<1>3. TypeSession'
  BY DEF Acquire, storeVars, chatVars, LoopFree, At, Goto, Return, Maybe, Runners,
     TypeSession
<1>4. RootsKnown'
  BY <1>r DEF Acquire, RootsKnown, TypeRun, RunType, TypeStores, Running, At,
     Return, Runners, storeVars, chatVars
<1>5. HolderRuns'
  BY <1>r DEF Acquire, HolderRuns, TypeRun, RunType, Running, At, Runners,
     storeVars, chatVars
<1>6. QED
  BY <1>1, <1>2, <1>3, <1>4, <1>5

\* Finding the lock taken preserves the invariant.
LEMMA BusyStep ==
    ASSUME IInv, NEW r \in Runners, Busy(r)
    PROVE  IInv'
<1> USE BoundsAssumption, RunnersAssumption, NoneAssumption DEF IInv
<1>r. /\ run' \in [Runners -> RunType]
      /\ run'[r] = [run[r] EXCEPT !.pc = "ended"]
      /\ \A s \in Runners \ {r} : run'[s] = run[s]
  BY GotoType DEF Busy, TypeRun, Places, Running, Runners
<1>1. TypeStores' /\ TypeFlags'
  BY DEF Busy, storeVars, chatVars, TypeFlags, TypeStores
<1>2. TypeRun'
  BY <1>r DEF Busy, TypeRun, Maybe, Runners, storeVars, chatVars
<1>3. TypeQueue'
  <2>1. <<"busy", "end">> \in Seq(Events)
    BY DEF Events
  <2>2. Put(r, <<"busy", "end">>)
    BY DEF Busy
  <2>3. QED
    BY <2>1, <2>2, PutType DEF TypeQueue
<1>4. TypeSession'
  BY DEF Busy, storeVars, chatVars, LoopFree, At, Goto, Return, Maybe, Runners,
     TypeSession
<1>5. TypeChats'
  BY DEF Busy, storeVars, chatVars, LoopFree, At, Return, Changed, NoAim, NoTree,
     Maybe, Trees, TypeStores, TypeChats
<1>6. RootsKnown'
  <2>1. \A s \in Runners : run'[s].pc \notin {"none", "ended"} => run'[s].root \in Projects
    BY <1>r DEF RootsKnown, TypeRun, RunType
  <2>2. \A i \in Requests : client'[i] = "accepted" => run'[i].root \in Projects
    BY <1>r DEF RootsKnown, TypeRun, RunType, Runners, Busy
  <2>3. \A c \in Chats : chat'[c] = "stale" => chat[c] = "stale"
    BY DEF TypeChats, Busy, Return
  <2>4. QED
    BY <2>1, <2>2, <2>3 DEF RootsKnown, Busy
<1>7. HolderRuns'
  BY <1>r DEF Busy, HolderRuns, TypeRun, RunType, Running, At, Runners, storeVars,
     chatVars
<1>8. QED
  BY <1>1, <1>2, <1>3, <1>4, <1>5, <1>6, <1>7

\* The diff and the decision preserves the invariant.
LEMMA BeginStep ==
    ASSUME IInv, NEW r \in Runners, Begin(r)
    PROVE  IInv'
<1> USE BoundsAssumption, RunnersAssumption, NoneAssumption DEF IInv
<1>p. PICK place \in Running, todo \in SUBSET Files :
            run' = [run EXCEPT ![r].pc = place, ![r].snap = disk[run[r].root], ![r].todo = todo]
  BY DEF Begin, Running
<1>t. disk[run[r].root] \in Trees
  BY DEF Begin, At, RootsKnown, TypeStores, Trees, Maybe
<1>r. /\ run' \in [Runners -> RunType]
      /\ run'[r] = [run[r] EXCEPT !.pc = place, !.snap = disk[run[r].root], !.todo = todo]
      /\ \A s \in Runners \ {r} : run'[s] = run[s]
  <2>1. r \in Runners /\ run[r] \in RunType
    BY DEF TypeRun, Runners
  <2>2. [run[r] EXCEPT !.pc = place, !.snap = disk[run[r].root], !.todo = todo] \in RunType
    BY <1>p, <1>t, <2>1 DEF RunType, TypeRun
  <2>3. run' = [run EXCEPT ![r] = [run[r] EXCEPT !.pc = place, !.snap = disk[run[r].root], !.todo = todo]]
    BY <1>p, <1>t, <2>1 DEF TypeRun
  <2>4. QED
    BY <2>1, <2>2, <2>3 DEF TypeRun
<1>1. TypeStores' /\ TypeQueue' /\ TypeSession' /\ TypeFlags' /\ TypeChats'
  BY DEF Begin, storeVars, chatVars, TypeChats, TypeFlags, TypeQueue, TypeSession,
     TypeStores
<1>2. TypeRun'
  BY <1>r, <1>p DEF Begin, TypeRun, Maybe, Runners, storeVars, chatVars
<1>3. RootsKnown'
  BY <1>r, <1>p DEF Begin, RootsKnown, TypeRun, RunType, TypeStores, Running, At,
     Return, Runners, storeVars, chatVars
<1>4. HolderRuns'
  BY <1>r, <1>p DEF Begin, HolderRuns, TypeRun, RunType, Running, At, Runners,
     storeVars, chatVars
<1>5. QED
  BY <1>1, <1>2, <1>3, <1>4

\* Emptying the stores preserves the invariant.
LEMMA ClearStoresStep ==
    ASSUME IInv, NEW r \in Runners, ClearStores(r)
    PROVE  IInv'
<1> USE BoundsAssumption, RunnersAssumption, NoneAssumption DEF IInv
<1>r. /\ run' \in [Runners -> RunType]
      /\ run'[r] = [run[r] EXCEPT !.pc = "store"]
      /\ \A s \in Runners \ {r} : run'[s] = run[s]
  BY GotoType DEF ClearStores, TypeRun, Places, Running, Runners
<1>1. TypeQueue' /\ TypeChats'
  BY DEF ClearStores, storeVars, chatVars, TypeChats, TypeQueue
<1>2. TypeStores'
  BY DEF ClearStores, storeVars, chatVars, LoopFree, At, Maybe, Content, Trees,
     NoTree, NoHashes, TypeStores, RootsKnown
<1>3. TypeRun'
  BY <1>r DEF ClearStores, TypeRun, Maybe, Runners, storeVars, chatVars
<1>4. TypeSession'
  BY DEF ClearStores, storeVars, chatVars, LoopFree, At, Goto, Return, Maybe,
     Runners, TypeSession
<1>5. TypeFlags'
  BY DEF ClearStores, storeVars, chatVars, LoopFree, TypeFlags
<1>6. RootsKnown'
  BY <1>r DEF ClearStores, RootsKnown, TypeRun, RunType, TypeStores, Running, At,
     Return, Runners, storeVars, chatVars
<1>7. HolderRuns'
  BY <1>r DEF ClearStores, HolderRuns, TypeRun, RunType, Running, At, Runners,
     storeVars, chatVars
<1>8. QED
  BY <1>1, <1>2, <1>3, <1>4, <1>5, <1>6, <1>7

\* Writing the hash store preserves the invariant.
LEMMA SaveHashesStep ==
    ASSUME IInv, NEW r \in Runners, SaveHashes(r)
    PROVE  IInv'
<1> USE BoundsAssumption, RunnersAssumption, NoneAssumption DEF IInv
<1>r. /\ run' \in [Runners -> RunType]
      /\ run'[r] = [run[r] EXCEPT !.pc = IF At(r, "hash") THEN "maps" ELSE "state"]
      /\ \A s \in Runners \ {r} : run'[s] = run[s]
  BY GotoType DEF SaveHashes, TypeRun, Places, Running, Runners
<1>1. TypeQueue' /\ TypeSession' /\ TypeFlags' /\ TypeChats'
  BY DEF SaveHashes, storeVars, chatVars, TypeChats, TypeFlags, TypeQueue,
     TypeSession
<1>2. TypeStores'
  <2>1. run[r].snap \in Trees /\ run[r].root \in Maybe(Projects)
    BY DEF TypeRun, RunType
  <2>2. [root |-> run[r].root, files |-> run[r].snap] \in [root: Maybe(Projects), files: Trees]
    BY <2>1
  <2>3. QED
    BY <2>2 DEF TypeStores, SaveHashes
<1>3. TypeRun'
  BY <1>r DEF SaveHashes, TypeRun, Maybe, Runners, storeVars, chatVars
<1>4. RootsKnown'
  BY <1>r DEF SaveHashes, RootsKnown, TypeRun, RunType, TypeStores, Running, At,
     Return, Runners, storeVars, chatVars
<1>5. HolderRuns'
  BY <1>r DEF SaveHashes, HolderRuns, TypeRun, RunType, Running, At, Runners,
     storeVars, chatVars
<1>6. QED
  BY <1>1, <1>2, <1>3, <1>4, <1>5

\* Writing the maps preserves the invariant.
LEMMA BuildMapsStep ==
    ASSUME IInv, NEW r \in Runners, BuildMaps(r)
    PROVE  IInv'
<1> USE BoundsAssumption, RunnersAssumption, NoneAssumption DEF IInv
<1>r. /\ run' \in [Runners -> RunType]
      /\ run'[r] = [run[r] EXCEPT !.pc = "state"]
      /\ \A s \in Runners \ {r} : run'[s] = run[s]
  BY GotoType DEF BuildMaps, TypeRun, Places, Running, Runners
<1>1. TypeQueue' /\ TypeSession' /\ TypeFlags' /\ TypeChats'
  BY DEF BuildMaps, storeVars, chatVars, TypeChats, TypeFlags, TypeQueue,
     TypeSession
<1>2. TypeStores'
  BY DEF BuildMaps, storeVars, chatVars, LoopFree, At, Maybe, Content, Trees,
     NoTree, NoHashes, TypeStores, RootsKnown
<1>3. TypeRun'
  BY <1>r DEF BuildMaps, TypeRun, Maybe, Runners, storeVars, chatVars
<1>4. RootsKnown'
  BY <1>r DEF BuildMaps, RootsKnown, TypeRun, RunType, TypeStores, Running, At,
     Return, Runners, storeVars, chatVars
<1>5. HolderRuns'
  BY <1>r DEF BuildMaps, HolderRuns, TypeRun, RunType, Running, At, Runners,
     storeVars, chatVars
<1>6. QED
  BY <1>1, <1>2, <1>3, <1>4, <1>5

\* Writing the state preserves the invariant.
LEMMA FinishStep ==
    ASSUME IInv, NEW r \in Runners, Finish(r)
    PROVE  IInv'
<1> USE BoundsAssumption, RunnersAssumption, NoneAssumption DEF IInv
<1>r. /\ run' \in [Runners -> RunType]
      /\ run'[r] = [run[r] EXCEPT !.pc = "done"]
      /\ \A s \in Runners \ {r} : run'[s] = run[s]
  BY GotoType DEF Finish, TypeRun, Places, Running, Runners
<1>1. TypeSession' /\ TypeFlags' /\ TypeChats'
  BY DEF Finish, storeVars, chatVars, TypeChats, TypeFlags, TypeSession
<1>2. TypeStores'
  BY DEF Finish, storeVars, chatVars, LoopFree, At, Maybe, Content, Trees, NoTree,
     NoHashes, TypeStores, RootsKnown
<1>3. TypeRun'
  BY <1>r DEF Finish, TypeRun, Maybe, Runners, storeVars, chatVars
<1>4. TypeQueue'
  <2>1. <<"done">> \in Seq(Events)
    BY DEF Events
  <2>2. Put(r, <<"done">>)
    BY DEF Finish
  <2>3. QED
    BY <2>1, <2>2, PutType DEF TypeQueue
<1>5. RootsKnown'
  BY <1>r DEF Finish, RootsKnown, TypeRun, RunType, TypeStores, Running, At,
     Return, Runners, storeVars, chatVars
<1>6. HolderRuns'
  BY <1>r DEF Finish, HolderRuns, TypeRun, RunType, Running, At, Runners,
     storeVars, chatVars
<1>7. QED
  BY <1>1, <1>2, <1>3, <1>4, <1>5, <1>6

\* A failure preserves the invariant.
LEMMA FailStep ==
    ASSUME IInv, NEW r \in Runners, Fail(r)
    PROVE  IInv'
<1> USE BoundsAssumption, RunnersAssumption, NoneAssumption DEF IInv
<1>r. /\ run' \in [Runners -> RunType]
      /\ run'[r] = [run[r] EXCEPT !.pc = "failed"]
      /\ \A s \in Runners \ {r} : run'[s] = run[s]
  BY GotoType DEF Fail, TypeRun, Places, Running, Runners
<1>1. TypeStores' /\ TypeChats'
  BY DEF Fail, storeVars, chatVars, TypeChats, TypeStores
<1>2. TypeRun'
  BY <1>r DEF Fail, TypeRun, Maybe, Runners, storeVars, chatVars
<1>3. TypeQueue'
  <2>1. <<"error">> \in Seq(Events)
    BY DEF Events
  <2>2. Put(r, <<"error">>)
    BY DEF Fail
  <2>3. QED
    BY <2>1, <2>2, PutType DEF TypeQueue
<1>4. TypeSession'
  BY DEF Fail, storeVars, chatVars, LoopFree, At, Goto, Return, Maybe, Runners,
     TypeSession
<1>5. TypeFlags'
  BY DEF Fail, storeVars, chatVars, LoopFree, TypeFlags
<1>6. RootsKnown'
  BY <1>r DEF Fail, RootsKnown, TypeRun, RunType, TypeStores, Running, At, Return,
     Runners, storeVars, chatVars
<1>7. HolderRuns'
  BY <1>r DEF Fail, HolderRuns, TypeRun, RunType, Running, At, Runners, storeVars,
     chatVars
<1>8. QED
  BY <1>1, <1>2, <1>3, <1>4, <1>5, <1>6, <1>7

\* Giving the lock back preserves the invariant.
LEMMA ReleaseStep ==
    ASSUME IInv, NEW r \in Runners, Release(r)
    PROVE  IInv'
<1> USE BoundsAssumption, RunnersAssumption, NoneAssumption DEF IInv
<1>r. /\ run' \in [Runners -> RunType]
      /\ run'[r] = [run[r] EXCEPT !.pc = "ended"]
      /\ \A s \in Runners \ {r} : run'[s] = run[s]
  BY GotoType DEF Release, TypeRun, Places, Running, Runners
<1>1. TypeStores' /\ TypeFlags'
  BY DEF Release, storeVars, chatVars, TypeFlags, TypeStores
<1>2. TypeRun'
  BY <1>r DEF Release, TypeRun, Maybe, Runners, storeVars, chatVars
<1>3. TypeQueue'
  <2>1. <<"end">> \in Seq(Events)
    BY DEF Events
  <2>2. Put(r, <<"end">>)
    BY DEF Release
  <2>3. QED
    BY <2>1, <2>2, PutType DEF TypeQueue
<1>4. TypeSession'
  BY DEF Release, storeVars, chatVars, LoopFree, At, Goto, Return, Maybe, Runners,
     TypeSession
<1>5. TypeChats'
  BY DEF Release, storeVars, chatVars, LoopFree, At, Return, Changed, NoAim,
     NoTree, Maybe, Trees, TypeStores, TypeChats
<1>6. RootsKnown'
  <2>1. \A s \in Runners : run'[s].pc \notin {"none", "ended"} => run'[s].root \in Projects
    BY <1>r DEF RootsKnown, TypeRun, RunType
  <2>2. \A i \in Requests : client'[i] = "accepted" => run'[i].root \in Projects
    BY <1>r DEF RootsKnown, TypeRun, RunType, Runners, Release
  <2>3. \A c \in Chats : chat'[c] = "stale" => chat[c] = "stale"
    BY DEF TypeChats, Release, Return
  <2>4. QED
    BY <2>1, <2>2, <2>3 DEF RootsKnown, Release
<1>7. HolderRuns'
  BY <1>r DEF Release, HolderRuns, TypeRun, RunType, Running, At, Runners,
     storeVars, chatVars
<1>8. QED
  BY <1>1, <1>2, <1>3, <1>4, <1>5, <1>6, <1>7

\* Storing a file preserves the invariant.
LEMMA StoreStep ==
    ASSUME IInv, NEW r \in Runners, NEW f \in Files, Store(r, f)
    PROVE  IInv'
<1> USE BoundsAssumption, RunnersAssumption, NoneAssumption DEF IInv
<1>p. PICK place \in Running, todo \in SUBSET Files :
            run' = [run EXCEPT ![r].todo = todo, ![r].pc = place]
  <2>1. run[r].todo \ {f} \in SUBSET Files
    BY DEF TypeRun, RunType
  <2>2. QED
    BY <2>1 DEF Store, Running
<1>r. /\ run' \in [Runners -> RunType]
      /\ run'[r] = [run[r] EXCEPT !.todo = todo, !.pc = place]
      /\ \A s \in Runners \ {r} : run'[s] = run[s]
  <2>1. r \in Runners /\ run[r] \in RunType
    BY DEF TypeRun, Runners
  <2>2. [run[r] EXCEPT !.todo = todo, !.pc = place] \in RunType
    BY <1>p, <2>1 DEF RunType, TypeRun
  <2>3. run' = [run EXCEPT ![r] = [run[r] EXCEPT !.todo = todo, !.pc = place]]
    BY <1>p, <2>1 DEF TypeRun
  <2>4. QED
    BY <2>1, <2>2, <2>3 DEF TypeRun
<1>1. TypeQueue' /\ TypeSession' /\ TypeFlags' /\ TypeChats'
  BY DEF Store, storeVars, chatVars, TypeChats, TypeFlags, TypeQueue, TypeSession
<1>2. TypeStores'
  <2>1. run[r].snap \in Trees /\ run[r].root \in Maybe(Projects)
    BY DEF TypeRun, RunType
  <2>2. [col EXCEPT ![f] = run[r].snap[f]] \in Trees
    BY <2>1 DEF TypeStores, Trees
  <2>3. QED
    BY <2>2 DEF TypeStores, Store
<1>3. TypeRun'
  BY <1>r, <1>p DEF Store, TypeRun, Maybe, Runners, storeVars, chatVars
<1>4. RootsKnown'
  BY <1>r, <1>p DEF Store, RootsKnown, TypeRun, RunType, TypeStores, Running, At,
     Return, Runners, storeVars, chatVars
<1>5. HolderRuns'
  BY <1>r, <1>p DEF Store, HolderRuns, TypeRun, RunType, Running, At, Runners,
     storeVars, chatVars
<1>6. QED
  BY <1>1, <1>2, <1>3, <1>4, <1>5

\* An index request preserves the invariant.
LEMMA PostIndexStep ==
    ASSUME IInv, NEW i \in Requests, NEW p \in Projects, NEW forced \in BOOLEAN, PostIndex(i, p, forced)
    PROVE  IInv'
<1> USE BoundsAssumption, RunnersAssumption, NoneAssumption DEF IInv
<1>r. /\ run' \in [Runners -> RunType]
      /\ run'[i] = [run[i] EXCEPT !.root = p, !.forced = forced]
      /\ \A s \in Runners \ {i} : run'[s] = run[s]
  <2>1. i \in Runners /\ run[i] \in RunType
    BY DEF TypeRun, Runners
  <2>2. [run[i] EXCEPT !.root = p, !.forced = forced] \in RunType
    BY <2>1 DEF RunType, TypeRun, PostIndex, Maybe, Runners
  <2>3. run' = [run EXCEPT ![i] = [run[i] EXCEPT !.root = p, !.forced = forced]]
    BY <2>1 DEF TypeRun, PostIndex
  <2>4. QED
    BY <2>1, <2>2, <2>3 DEF TypeRun
<1>1. TypeStores' /\ TypeQueue' /\ TypeChats'
  BY DEF PostIndex, storeVars, chatVars, TypeChats, TypeQueue, TypeStores
<1>2. TypeRun'
  BY <1>r DEF PostIndex, TypeRun, Maybe, Runners, storeVars, chatVars
<1>3. TypeSession'
  BY DEF PostIndex, storeVars, chatVars, LoopFree, At, Goto, Return, Maybe,
     Runners, TypeSession
<1>4. TypeFlags'
  BY DEF PostIndex, storeVars, chatVars, LoopFree, TypeFlags
<1>5. RootsKnown'
  BY <1>r DEF PostIndex, RootsKnown, TypeRun, RunType, TypeStores, Running, At,
     Return, Runners, storeVars, chatVars
<1>6. HolderRuns'
  BY <1>r DEF PostIndex, HolderRuns, TypeRun, RunType, Running, At, Runners,
     storeVars, chatVars
<1>7. QED
  BY <1>1, <1>2, <1>3, <1>4, <1>5, <1>6

\* Starting a producer preserves the invariant.
LEMMA StartProducerStep ==
    ASSUME IInv, NEW i \in Requests, StartProducer(i)
    PROVE  IInv'
<1> USE BoundsAssumption, RunnersAssumption, NoneAssumption DEF IInv
<1>r. /\ run' \in [Runners -> RunType]
      /\ run'[i] = [run[i] EXCEPT !.pc = "acquire"]
      /\ \A s \in Runners \ {i} : run'[s] = run[s]
  BY GotoType DEF StartProducer, TypeRun, Places, Running, Runners
<1>1. TypeStores' /\ TypeQueue' /\ TypeFlags' /\ TypeChats'
  BY DEF StartProducer, storeVars, chatVars, TypeChats, TypeFlags, TypeQueue,
     TypeStores
<1>2. TypeRun'
  BY <1>r DEF StartProducer, TypeRun, Maybe, Runners, storeVars, chatVars
<1>3. TypeSession'
  BY DEF StartProducer, storeVars, chatVars, LoopFree, At, Goto, Return, Maybe,
     Runners, TypeSession
<1>4. RootsKnown'
  BY <1>r DEF StartProducer, RootsKnown, TypeRun, RunType, TypeStores, Running, At,
     Return, Runners, storeVars, chatVars
<1>5. HolderRuns'
  BY <1>r DEF StartProducer, HolderRuns, TypeRun, RunType, Running, At, Runners,
     storeVars, chatVars
<1>6. QED
  BY <1>1, <1>2, <1>3, <1>4, <1>5

\* Reading an event preserves the invariant.
LEMMA ConsumeStep ==
    ASSUME IInv, NEW i \in Requests, Consume(i)
    PROVE  IInv'
<1> USE BoundsAssumption, RunnersAssumption, NoneAssumption DEF IInv
<1>1. TypeStores' /\ TypeRun' /\ TypeChats' /\ HolderRuns'
  BY DEF Consume, storeVars, chatVars, HolderRuns, TypeChats, TypeRun, TypeStores
<1>2. TypeQueue'
  BY ConsumeType DEF TypeQueue
<1>3. TypeSession'
  BY DEF Consume, storeVars, chatVars, LoopFree, At, Goto, Return, Maybe, Runners,
     TypeSession
<1>4. TypeFlags'
  BY DEF Consume, storeVars, chatVars, LoopFree, TypeFlags
<1>5. RootsKnown'
  BY DEF Consume, storeVars, chatVars, LoopFree, At, Goto, Return, Changed,
     Runners, Maybe, NoAim, Content, TypeStores, TypeRun, RunType, TypeChats,
     RootsKnown, Running
<1>6. QED
  BY <1>1, <1>2, <1>3, <1>4, <1>5

\* Losing a client preserves the invariant.
LEMMA LoseClientStep ==
    ASSUME IInv, NEW i \in Requests, LoseClient(i)
    PROVE  IInv'
<1> USE BoundsAssumption, RunnersAssumption, NoneAssumption DEF IInv
<1>1. TypeStores' /\ TypeRun' /\ TypeQueue' /\ TypeFlags' /\ TypeChats' /\ HolderRuns'
  BY DEF LoseClient, storeVars, chatVars, HolderRuns, TypeChats, TypeFlags,
     TypeQueue, TypeRun, TypeStores
<1>2. TypeSession'
  BY DEF LoseClient, storeVars, chatVars, LoopFree, At, Goto, Return, Maybe,
     Runners, TypeSession
<1>3. RootsKnown'
  BY DEF LoseClient, storeVars, chatVars, LoopFree, At, Goto, Return, Changed,
     Runners, Maybe, NoAim, Content, TypeStores, TypeRun, RunType, TypeChats,
     RootsKnown, Running
<1>4. QED
  BY <1>1, <1>2, <1>3

\* A clear preserves the invariant.
LEMMA PostClearStep ==
    ASSUME IInv, PostClear
    PROVE  IInv'
<1> USE BoundsAssumption, RunnersAssumption, NoneAssumption DEF IInv
<1>1. TypeRun' /\ TypeQueue' /\ TypeChats' /\ RootsKnown' /\ HolderRuns'
  BY DEF PostClear, storeVars, chatVars, HolderRuns, RootsKnown, TypeChats,
     TypeQueue, TypeRun
<1>2. TypeStores'
  BY DEF PostClear, storeVars, chatVars, LoopFree, At, Maybe, Content, Trees,
     NoTree, NoHashes, TypeStores, RootsKnown
<1>3. TypeSession'
  BY DEF PostClear, storeVars, chatVars, LoopFree, At, Goto, Return, Maybe,
     Runners, TypeSession
<1>4. TypeFlags'
  BY DEF PostClear, storeVars, chatVars, LoopFree, TypeFlags
<1>5. QED
  BY <1>1, <1>2, <1>3, <1>4

\* A restore preserves the invariant.
LEMMA PostRestoreStep ==
    ASSUME IInv, PostRestore
    PROVE  IInv'
<1> USE BoundsAssumption, RunnersAssumption, NoneAssumption DEF IInv
<1>1. TypeStores' /\ TypeRun' /\ TypeQueue' /\ TypeChats' /\ RootsKnown' /\ HolderRuns'
  BY DEF PostRestore, storeVars, chatVars, HolderRuns, RootsKnown, TypeChats,
     TypeQueue, TypeRun, TypeStores
<1>2. TypeSession'
  BY DEF PostRestore, storeVars, chatVars, LoopFree, At, Goto, Return, Maybe,
     Runners, TypeSession
<1>3. TypeFlags'
  BY DEF PostRestore, storeVars, chatVars, LoopFree, TypeFlags
<1>4. QED
  BY <1>1, <1>2, <1>3

\* A chat request preserves the invariant.
LEMMA PostChatStep ==
    ASSUME IInv, NEW c \in Chats, PostChat(c)
    PROVE  IInv'
<1> USE BoundsAssumption, RunnersAssumption, NoneAssumption DEF IInv
<1>1. TypeStores' /\ TypeRun' /\ TypeQueue' /\ TypeSession' /\ TypeFlags' /\ HolderRuns'
  BY DEF PostChat, storeVars, chatVars, HolderRuns, TypeFlags, TypeQueue, TypeRun,
     TypeSession, TypeStores
<1>2. TypeChats'
  BY DEF PostChat, storeVars, chatVars, LoopFree, At, Return, Changed, NoAim,
     NoTree, Maybe, Trees, TypeStores, TypeChats
<1>3. RootsKnown'
  BY DEF PostChat, storeVars, chatVars, LoopFree, At, Goto, Return, Changed,
     Runners, Maybe, NoAim, Content, TypeStores, TypeRun, RunType, TypeChats,
     RootsKnown, Running
<1>4. QED
  BY <1>1, <1>2, <1>3

\* A freshness check preserves the invariant.
LEMMA CheckFreshnessStep ==
    ASSUME IInv, NEW c \in Chats, CheckFreshness(c)
    PROVE  IInv'
<1> USE BoundsAssumption, RunnersAssumption, NoneAssumption DEF IInv
<1>1. TypeStores' /\ TypeRun' /\ TypeQueue' /\ TypeFlags' /\ HolderRuns'
  BY DEF CheckFreshness, storeVars, chatVars, HolderRuns, TypeFlags, TypeQueue,
     TypeRun, TypeStores
<1>2. TypeSession'
  BY DEF CheckFreshness, storeVars, chatVars, LoopFree, At, Goto, Return, Maybe,
     Runners, TypeSession
<1>3. TypeChats'
  BY DEF CheckFreshness, storeVars, chatVars, LoopFree, At, Return, Changed, NoAim,
     NoTree, Maybe, Trees, TypeStores, TypeChats
<1>4. RootsKnown'
  BY DEF CheckFreshness, storeVars, chatVars, LoopFree, At, Goto, Return, Changed,
     Runners, Maybe, NoAim, Content, TypeStores, TypeRun, RunType, TypeChats,
     RootsKnown, Running
<1>5. QED
  BY <1>1, <1>2, <1>3, <1>4

\* Starting a refresh preserves the invariant.
LEMMA StartRefreshStep ==
    ASSUME IInv, NEW c \in Chats, StartRefresh(c)
    PROVE  IInv'
<1> USE BoundsAssumption, RunnersAssumption, NoneAssumption DEF IInv
<1>r. /\ run' \in [Runners -> RunType]
      /\ run'[c] = [run[c] EXCEPT !.pc = "acquire", !.root = aim[c].root]
      /\ \A s \in Runners \ {c} : run'[s] = run[s]
  <2>1. c \in Runners /\ run[c] \in RunType
    BY DEF TypeRun, Runners
  <2>2. [run[c] EXCEPT !.pc = "acquire", !.root = aim[c].root] \in RunType
    BY <2>1 DEF RunType, TypeRun, StartRefresh, RootsKnown, Maybe, Runners
  <2>3. run' = [run EXCEPT ![c] = [run[c] EXCEPT !.pc = "acquire", !.root = aim[c].root]]
    BY <2>1 DEF TypeRun, StartRefresh
  <2>4. QED
    BY <2>1, <2>2, <2>3 DEF TypeRun
<1>1. TypeStores' /\ TypeQueue' /\ TypeFlags'
  BY DEF StartRefresh, storeVars, chatVars, TypeFlags, TypeQueue, TypeStores
<1>2. TypeRun'
  BY <1>r DEF StartRefresh, TypeRun, Maybe, Runners, storeVars, chatVars
<1>3. TypeSession'
  BY DEF StartRefresh, storeVars, chatVars, LoopFree, At, Goto, Return, Maybe,
     Runners, TypeSession
<1>4. TypeChats'
  BY DEF StartRefresh, storeVars, chatVars, LoopFree, At, Return, Changed, NoAim,
     NoTree, Maybe, Trees, TypeStores, TypeChats
<1>5. RootsKnown'
  BY <1>r DEF StartRefresh, RootsKnown, TypeRun, RunType, TypeStores, Running, At,
     Return, Runners, storeVars, chatVars
<1>6. HolderRuns'
  BY <1>r DEF StartRefresh, HolderRuns, TypeRun, RunType, Running, At, Runners,
     storeVars, chatVars
<1>7. QED
  BY <1>1, <1>2, <1>3, <1>4, <1>5, <1>6

\* A retrieval preserves the invariant.
LEMMA RetrieveStep ==
    ASSUME IInv, NEW c \in Chats, Retrieve(c)
    PROVE  IInv'
<1> USE BoundsAssumption, RunnersAssumption, NoneAssumption DEF IInv
<1>1. TypeStores' /\ TypeRun' /\ TypeQueue' /\ TypeSession' /\ TypeFlags' /\ HolderRuns'
  BY DEF Retrieve, storeVars, chatVars, HolderRuns, TypeFlags, TypeQueue, TypeRun,
     TypeSession, TypeStores
<1>2. TypeChats'
  BY DEF Retrieve, storeVars, chatVars, LoopFree, At, Return, Changed, NoAim,
     NoTree, Maybe, Trees, TypeStores, TypeChats
<1>3. RootsKnown'
  BY DEF Retrieve, storeVars, chatVars, LoopFree, At, Goto, Return, Changed,
     Runners, Maybe, NoAim, Content, TypeStores, TypeRun, RunType, TypeChats,
     RootsKnown, Running
<1>4. QED
  BY <1>1, <1>2, <1>3

\* Every step of the server preserves the invariant.
LEMMA StepStrong == IInv /\ [Next]_vars => IInv'
<1> SUFFICES ASSUME IInv, [Next]_vars PROVE IInv'
  OBVIOUS
<1>1. CASE Next
  BY <1>1, EditStep, AcquireStep, BusyStep, BeginStep, ClearStoresStep, SaveHashesStep, BuildMapsStep, FinishStep, FailStep, ReleaseStep, StoreStep, PostIndexStep, StartProducerStep, ConsumeStep, LoseClientStep, PostClearStep, PostRestoreStep, PostChatStep, CheckFreshnessStep, StartRefreshStep, RetrieveStep DEF
     Next, RunStep, ChatStep
<1>2. CASE UNCHANGED vars
  BY <1>2 DEF IInv, vars, storeVars, chatVars, TypeStores, TypeRun, RunType, TypeQueue,
     TypeSession, TypeFlags, TypeChats, RootsKnown, HolderRuns
<1>3. QED
  BY <1>1, <1>2

LEMMA AlwaysStrong == Spec => []IInv
<1>1. QED
  BY InitStrong, StepStrong, PTL DEF Spec

\* The server's globals, queues and stores are well typed in every reachable
\* state (the variables of server.py and what it sees of indexer.py's files).
THEOREM TypeCorrect == Spec => []TypeOK
<1>1. QED
  BY AlwaysStrong, Strong, PTL

\* _index_run_lock keeps runs apart: of all producer threads and refreshes, at
\* most one is between acquire and release, for any number of them.
THEOREM RunsExclude == Spec => []OneRunAtATime
<1>1. QED
  BY AlwaysStrong, Strong, PTL

-----------------------------------------------------------------------------
\* What the runs leave in the stores.

\* Every file of t has a content of project p, at most as new as the directory.
Before(t, p) ==
    \A f \in Files : t[f] # None /\ t[f][1] = p /\ t[f][2] <= disk[p][f][2]

\* The places at which a run has taken its snapshot.
Snapped == {"clear", "store", "reuse", "hash", "maps", "state", "done"}

DiskVersions ==
    \A p \in Projects, f \in Files : disk[p][f][1] = p /\ disk[p][f][2] <= clock
HolderHolds == holder # None => run[holder].pc \in Running
NotStarted == \A i \in Requests : client[i] \in {"unsent", "accepted"} => run[i].pc = "none"
ChatRuns ==
    \A c \in Chats : chat[c] # "refreshing" => run[c].pc \notin {"acquire"} \cup Running

\* The hash store and the snapshots are past states of a directory, and a run
\* that will write the hash store does not take it back in time.
HashesBefore ==
    IF hashes.root = None THEN hashes = NoHashes ELSE Before(hashes.files, hashes.root)
SnapsBefore == \A r \in Runners : run[r].pc \in Snapped => Before(run[r].snap, run[r].root)
SnapsNewer ==
    \A r \in Runners :
        run[r].pc \in {"clear", "store", "hash"} /\ hashes.root = run[r].root =>
            \A f \in Files : hashes.files[f][2] <= run[r].snap[f][2]
ClearsAll == \A r \in Runners : run[r].pc = "clear" => run[r].todo = Files

\* A chunk of the hash store's project is of the digest stored for its file,
\* unless the file has changed since and the next refresh replaces the chunk.
ChunksKnown ==
    ~damaged /\ hashes.root # None =>
        \A f \in Files :
            col[f] # None /\ col[f][1] = hashes.root =>
                col[f] = hashes.files[f] \/ hashes.files[f] # disk[hashes.root][f]

\* What the stores are between runs, and what the run that holds the lock has
\* made of them so far.
OneProject ==
    hashes.root # None =>
        /\ pmap = hashes.root
        /\ \A f \in Files : col[f] # None /\ col[f][1] = hashes.root
Matches(r) == col = run[r].snap /\ hashes = [root |-> run[r].root, files |-> run[r].snap]
Phase(r) ==
    /\ run[r].pc \in {"begin", "clear", "failed"} => OneProject
    /\ run[r].pc = "store" => \A f \in Files \ run[r].todo : col[f] = run[r].snap[f]
    /\ run[r].pc = "hash" => col = run[r].snap
    /\ run[r].pc \in {"maps", "reuse", "state", "done"} => Matches(r)
    /\ run[r].pc \in {"reuse", "state", "done"} => pmap = run[r].root
Phases == ~damaged => (holder = None => OneProject) /\ \A r \in Runners : Phase(r)

\* A chat that nothing came to has checked, and no run but its own is on.
CalmAlone ==
    \A c \in calm : /\ holder \in {None, c}
                    /\ chat[c] \notin {"unsent", "rejected", "accepted"}
AimsBefore == \A c \in Chats : aim[c].root # None => Before(aim[c].files, aim[c].root)
RefreshAims ==
    \A c \in Chats : chat[c] = "refreshing" =>
        /\ run[c].root = aim[c].root
        /\ run[c].pc \in Snapped =>
              \A f \in Files : aim[c].files[f][2] <= run[c].snap[f][2]
Fresh(t, c) ==
    aim[c].root # None =>
        \A f \in Files : /\ t[f] # None /\ t[f][1] = aim[c].root
                         /\ t[f][2] >= aim[c].files[f][2]
ChatsFresh ==
    \A c \in calm : ~damaged => /\ chat[c] = "answering" => Fresh(col, c)
                                /\ chat[c] = "answered" => Fresh(seen[c], c)

\* Until the first clear, no session is active and no "done" is on its way
\* before the hash store names a project.
NothingBefore ==
    clears = 0 /\ hashes.root = None =>
        /\ ~active /\ pmap = None
        /\ \A r \in Runners : run[r].pc \notin {"maps", "state"}
        /\ \A i \in Requests : \A n \in 1..Len(queue[i]) : queue[i][n] # "done"

SInv ==
    /\ IInv
    /\ DiskVersions /\ HolderHolds /\ NotStarted /\ ChatRuns
    /\ HashesBefore /\ SnapsBefore /\ SnapsNewer /\ ClearsAll
    /\ ChunksKnown /\ Phases
    /\ CalmAlone /\ AimsBefore /\ RefreshAims /\ ChatsFresh
    /\ NothingBefore

-----------------------------------------------------------------------------
\* What the actions do to the runs and to the directories.

\* Run r is at place now, and nothing else about any run has changed.
Moved(r, place) ==
    /\ run'[r].pc = place /\ run'[r].root = run[r].root
    /\ run'[r].snap = run[r].snap /\ run'[r].todo = run[r].todo
    /\ \A s \in Runners \ {r} : run'[s] = run[s]

\* Moving a run is only that.
LEMMA GotoMoves ==
    ASSUME IInv, NEW r \in Runners, NEW place \in Places, Goto(r, place)
    PROVE  Moved(r, place)
<1>1. run'[r] = [run[r] EXCEPT !.pc = place] /\ \A s \in Runners \ {r} : run'[s] = run[s]
  BY GotoType DEF IInv, TypeRun
<1>2. run[r] \in RunType
  BY DEF IInv, TypeRun
<1>. QED
  BY <1>1, <1>2 DEF Moved, RunType

\* Where each action that only moves a run leaves it.
LEMMA Moves ==
    ASSUME IInv, NEW r \in Runners
    PROVE  /\ Acquire(r) => Moved(r, "begin")
           /\ Busy(r) \/ Release(r) => Moved(r, "ended")
           /\ ClearStores(r) => Moved(r, "store")
           /\ SaveHashes(r) => Moved(r, IF At(r, "hash") THEN "maps" ELSE "state")
           /\ BuildMaps(r) => Moved(r, "state")
           /\ Finish(r) => Moved(r, "done")
           /\ Fail(r) => Moved(r, "failed")
           /\ StartProducer(r) => Moved(r, "acquire")
<1>. USE DEF Places, Running
<1>1. Acquire(r) => Moved(r, "begin")
  BY GotoMoves DEF Acquire
<1>2. Busy(r) \/ Release(r) => Moved(r, "ended")
  BY GotoMoves DEF Busy, Release
<1>3. ClearStores(r) => Moved(r, "store")
  BY GotoMoves DEF ClearStores
<1>4. SaveHashes(r) => Moved(r, IF At(r, "hash") THEN "maps" ELSE "state")
  BY GotoMoves DEF SaveHashes
<1>6. BuildMaps(r) => Moved(r, "state")
  BY GotoMoves DEF BuildMaps
<1>7. Finish(r) => Moved(r, "done")
  BY GotoMoves DEF Finish
<1>8. Fail(r) => Moved(r, "failed")
  BY GotoMoves DEF Fail
<1>9. StartProducer(r) => Moved(r, "acquire")
  BY GotoMoves DEF StartProducer
<1>. QED
  BY <1>1, <1>2, <1>3, <1>4, <1>6, <1>7, <1>8, <1>9

\* What a run compares its snapshot with, and what it then has to do.
New(r) == {f \in Files : hashes.files[f] # disk[run[r].root][f]}

\* The decision takes the snapshot and what there is to do.
Began(r) ==
    /\ run[r].pc = "begin" /\ run[r].root \in Projects
    /\ run'[r].root = run[r].root /\ run'[r].snap = disk[run[r].root]
    /\ \/ run'[r].pc = "clear" /\ run'[r].todo = Files
       \/ run'[r].pc = "store" /\ run'[r].todo = New(r)
       \/ run'[r].pc = "reuse" /\ New(r) = {}
    /\ \A s \in Runners \ {r} : run'[s] = run[s]
    /\ UNCHANGED <<disk, clock, storeVars, holder, chatVars, damaged, client>>

LEMMA BeginMoves == ASSUME IInv, NEW r \in Runners, Begin(r) PROVE Began(r)
<1>1. \E place \in {"clear", "store", "reuse"}, todo \in {Files, New(r), {}} :
         /\ run' = [run EXCEPT ![r].pc = place, ![r].snap = disk[run[r].root],
                               ![r].todo = todo]
         /\ \/ place = "clear" /\ todo = Files
            \/ place = "store" /\ todo = New(r)
            \/ place = "reuse" /\ New(r) = {}
  BY DEF Begin, New
<1>2. run \in [Runners -> RunType] /\ run[r].root \in Projects /\ run[r].pc = "begin"
  BY DEF IInv, TypeRun, RootsKnown, Begin, At
<1>3. UNCHANGED <<disk, clock, storeVars, holder, chatVars, damaged, client>>
  BY DEF Begin
<1>. QED
  BY <1>1, <1>2, <1>3 DEF RunType, Began

\* A file that is stored leaves the work that is left.
StoredOne(r, f) ==
    /\ run[r].pc = "store" /\ f \in run[r].todo
    /\ run'[r].root = run[r].root /\ run'[r].snap = run[r].snap
    /\ run'[r].todo = run[r].todo \ {f}
    /\ \/ run'[r].pc = "store"
       \/ run'[r].pc = "hash" /\ run[r].todo = {f}
    /\ \A s \in Runners \ {r} : run'[s] = run[s]
    /\ \A g \in Files : col'[g] = IF g = f THEN run[r].snap[f] ELSE col[g]
    /\ col' \in Trees
    /\ UNCHANGED <<disk, clock, hashes, pmap, holder, chatVars, damaged, client>>

LEMMA StoreMoves ==
    ASSUME IInv, NEW r \in Runners, NEW f \in Files, Store(r, f)
    PROVE  StoredOne(r, f)
<1>1. run \in [Runners -> RunType] /\ col \in Trees
  BY DEF IInv, TypeRun, TypeStores
<1>2. run[r].snap[f] \in Maybe(Content)
  BY <1>1 DEF RunType, Trees
<1>. QED
  BY <1>1, <1>2 DEF Store, RunType, Trees, At, StoredOne

\* A request's run gets its root before it starts.
Posted(i) ==
    /\ client[i] = "unsent" /\ run'[i].pc = run[i].pc
    /\ \A s \in Runners \ {i} : run'[s] = run[s]
    /\ \A j \in Requests \ {i} : client'[j] = client[j]
    /\ UNCHANGED <<disk, clock, storeVars, holder, chatVars, damaged>>

LEMMA PostMoves ==
    ASSUME IInv, NEW i \in Requests, NEW p \in Projects, NEW forced \in BOOLEAN,
           PostIndex(i, p, forced)
    PROVE  Posted(i)
<1>1. run \in [Runners -> RunType] /\ i \in Runners
  BY DEF IInv, TypeRun, Runners
<1>2. \A j \in Requests \ {i} : client'[j] = client[j]
  BY DEF PostIndex, IInv, TypeSession
<1>. QED
  BY <1>1, <1>2 DEF PostIndex, RunType, Posted

\* A refresh runs over the root that its check saw.
Refreshes(c) ==
    /\ chat[c] = "stale" /\ run'[c].pc = "acquire" /\ run'[c].root = aim[c].root
    /\ \A s \in Runners \ {c} : run'[s] = run[s]
    /\ chat' = [chat EXCEPT ![c] = "refreshing"]
    /\ UNCHANGED <<disk, clock, storeVars, holder, aim, seen, calm, damaged, client>>

LEMMA RefreshMoves ==
    ASSUME IInv, NEW c \in Chats, StartRefresh(c)
    PROVE  Refreshes(c)
<1>1. run \in [Runners -> RunType] /\ c \in Runners
  BY DEF IInv, TypeRun, Runners
<1>. QED
  BY <1>1 DEF StartRefresh, RunType, Refreshes

\* An edit makes one file newer than anything seen before it.
LEMMA EditGrows ==
    ASSUME SInv, NEW p \in Projects, NEW f \in Files, Edit(p, f)
    PROVE  /\ \A q \in Projects, g \in Files :
                /\ disk'[q][g][1] = q
                /\ disk'[q][g] = disk[q][g] \/ disk'[q][g][2] = clock + 1
           /\ clock \in Nat /\ clock' = clock + 1
<1>1. /\ disk \in [Projects -> [Files -> Content]] /\ clock \in Nat /\ DiskVersions
      /\ disk' = [disk EXCEPT ![p][f] = <<p, clock + 1>>] /\ clock' = clock + 1
  BY BoundsAssumption DEF SInv, IInv, TypeStores, Edit
<1>2. \A q \in Projects, g \in Files :
         disk'[q][g] = IF q = p /\ g = f THEN <<p, clock + 1>> ELSE disk[q][g]
  BY <1>1
<1>. QED
  BY <1>1, <1>2 DEF DiskVersions

\* Every directory, store and snapshot holds pairs of a project and a version.
LEMMA Versions ==
    ASSUME IInv
    PROVE  /\ \A p \in Projects, f \in Files : disk[p][f][2] \in Nat
           /\ \A t \in Trees, f \in Files :
                t[f] # None => t[f] = <<t[f][1], t[f][2]>> /\ t[f][2] \in Nat
           /\ \A p \in Projects, f \in Files : disk[p][f] = <<disk[p][f][1], disk[p][f][2]>>
           /\ hashes.files \in Trees /\ col \in Trees
           /\ \A r \in Runners : run[r].snap \in Trees
           /\ \A c \in Chats : aim[c].files \in Trees /\ seen[c] \in Trees
           /\ \A p \in Projects : disk[p] \in Trees
           /\ None \notin Content
<1>1. \A x \in Content : x = <<x[1], x[2]>> /\ x[2] \in Nat
  BY BoundsAssumption DEF Content
<1>. QED
  BY <1>1, NoneAssumption DEF IInv, TypeStores, TypeRun, RunType, TypeChats, Trees, Maybe

\* What was a past state of a directory stays one.
LEMMA BeforeKept ==
    ASSUME SInv, NEW t \in Trees, NEW q \in Projects, Before(t, q),
           (\E p \in Projects, f \in Files : Edit(p, f)) \/ UNCHANGED disk
    PROVE  \A f \in Files : t[f] # None /\ t[f][1] = q /\ t[f][2] <= disk'[q][f][2]
<1>1. CASE UNCHANGED disk
  BY <1>1 DEF Before
<1>2. ASSUME NEW p \in Projects, NEW f \in Files, Edit(p, f)
      PROVE  \A g \in Files : t[g] # None /\ t[g][1] = q /\ t[g][2] <= disk'[q][g][2]
  BY <1>2, EditGrows, Versions DEF Before, SInv, DiskVersions
<1>. QED
  BY <1>1, <1>2

-----------------------------------------------------------------------------
\* Each part of the invariant is kept by every step.

\* A directory holds its own contents, none from the future.
LEMMA DiskStep ==
    ASSUME SInv, [Next]_vars
    PROVE  DiskVersions'
<1>0. CASE UNCHANGED <<disk, clock>>
  BY <1>0 DEF SInv, DiskVersions
<1>1. ASSUME NEW p \in Projects, NEW f \in Files, Edit(p, f) PROVE DiskVersions'
  BY <1>1, EditGrows, Versions DEF SInv, DiskVersions
<1>. QED
  BY <1>0, <1>1
    DEF Next, RunStep, ChatStep, vars, storeVars, chatVars, Acquire, Busy, Begin,
        ClearStores, Store, SaveHashes, BuildMaps, Finish, Fail, Release, PostIndex,
        StartProducer, Consume, LoseClient, PostClear, PostRestore, PostChat,
        CheckFreshness, StartRefresh, Retrieve

\* The lock is held by a run that has not given it back.
LEMMA HolderStep ==
    ASSUME SInv, [Next]_vars
    PROVE  HolderHolds'
<1>0. CASE UNCHANGED <<holder, run>>
  BY <1>0 DEF SInv, HolderHolds
<1>1. ASSUME NEW r \in Runners, Acquire(r) PROVE HolderHolds'
  <2>1. Moved(r, "begin")
    BY <1>1, Moves DEF SInv
  <2>. QED
    BY <1>1, <2>1
      DEF SInv, Moved, Acquire, HolderHolds, IInv, At, Running, TypeRun, Maybe
<1>2. ASSUME NEW r \in Runners, Busy(r) PROVE HolderHolds'
  <2>1. Moved(r, "ended")
    BY <1>2, Moves DEF SInv
  <2>. QED
    BY <1>2, <2>1 DEF SInv, Moved, Busy, HolderHolds, IInv, At, Running, TypeRun, Maybe
<1>3. ASSUME NEW r \in Runners, Begin(r) PROVE HolderHolds'
  <2>1. Began(r)
    BY <1>3, BeginMoves DEF SInv
  <2>. QED
    BY <2>1 DEF SInv, Began, HolderHolds, HolderRuns, IInv, At, Running, TypeRun, Maybe
<1>4. ASSUME NEW r \in Runners, ClearStores(r) PROVE HolderHolds'
  <2>1. Moved(r, "store")
    BY <1>4, Moves DEF SInv
  <2>. QED
    BY <1>4, <2>1
      DEF SInv, Moved, ClearStores, HolderHolds, HolderRuns, IInv, At, Running, TypeRun,
          Maybe
<1>5. ASSUME NEW r \in Runners, NEW f \in Files, Store(r, f) PROVE HolderHolds'
  <2>1. StoredOne(r, f)
    BY <1>5, StoreMoves DEF SInv
  <2>. QED
    BY <2>1
      DEF SInv, StoredOne, HolderHolds, HolderRuns, IInv, At, Running, TypeRun, Maybe
<1>6. ASSUME NEW r \in Runners, SaveHashes(r) PROVE HolderHolds'
  <2>1. Moved(r, IF At(r, "hash") THEN "maps" ELSE "state")
    BY <1>6, Moves DEF SInv
  <2>. QED
    BY <1>6, <2>1
      DEF SInv, Moved, SaveHashes, HolderHolds, HolderRuns, IInv, At, Running, TypeRun,
          Maybe
<1>7. ASSUME NEW r \in Runners, BuildMaps(r) PROVE HolderHolds'
  <2>1. Moved(r, "state")
    BY <1>7, Moves DEF SInv
  <2>. QED
    BY <1>7, <2>1
      DEF SInv, Moved, BuildMaps, HolderHolds, HolderRuns, IInv, At, Running, TypeRun,
          Maybe
<1>8. ASSUME NEW r \in Runners, Finish(r) PROVE HolderHolds'
  <2>1. Moved(r, "done")
    BY <1>8, Moves DEF SInv
  <2>. QED
    BY <1>8, <2>1
      DEF SInv, Moved, Finish, HolderHolds, HolderRuns, IInv, At, Running, TypeRun,
          Maybe
<1>9. ASSUME NEW r \in Runners, Fail(r) PROVE HolderHolds'
  <2>1. Moved(r, "failed")
    BY <1>9, Moves DEF SInv
  <2>. QED
    BY <1>9, <2>1
      DEF SInv, Moved, Fail, HolderHolds, HolderRuns, IInv, At, Running, TypeRun, Maybe
<1>10. ASSUME NEW r \in Runners, Release(r) PROVE HolderHolds'
  <2>1. Moved(r, "ended")
    BY <1>10, Moves DEF SInv
  <2>. QED
    BY <1>10, <2>1
      DEF SInv, Moved, Release, HolderHolds, HolderRuns, IInv, At, Running, TypeRun,
          Maybe
<1>11. ASSUME NEW i \in Requests, NEW p \in Projects, NEW forced \in BOOLEAN,
             PostIndex(i, p, forced)
      PROVE  HolderHolds'
  <2>1. Posted(i)
    BY <1>11, PostMoves DEF SInv
  <2>. QED
    BY <2>1 DEF SInv, Posted, HolderHolds, HolderRuns, IInv, At, Running, TypeRun, Maybe
<1>12. ASSUME NEW i \in Requests, StartProducer(i) PROVE HolderHolds'
  <2>1. Moved(i, "acquire")
    BY <1>12, Moves DEF SInv, Runners
  <2>. QED
    BY <1>12, <2>1
      DEF SInv, Moved, StartProducer, HolderHolds, HolderRuns, IInv, At, Running,
          TypeRun, Maybe, NotStarted
<1>13. ASSUME NEW c \in Chats, StartRefresh(c) PROVE HolderHolds'
  <2>1. Refreshes(c)
    BY <1>13, RefreshMoves DEF SInv
  <2>. QED
    BY <2>1
      DEF SInv, Refreshes, HolderHolds, HolderRuns, IInv, At, Running, TypeRun, Maybe,
          ChatRuns
<1>. QED
  BY <1>0, <1>1, <1>2, <1>3, <1>4, <1>5, <1>6, <1>7, <1>8, <1>9, <1>10, <1>11, <1>12,
     <1>13
    DEF Next, RunStep, ChatStep, vars, storeVars, chatVars, Edit, Consume, LoseClient,
        PostClear, PostRestore, PostChat, CheckFreshness, Retrieve

\* A request's run starts when its response is first iterated.
LEMMA NotStartedStep ==
    ASSUME SInv, [Next]_vars
    PROVE  NotStarted'
<1>0. CASE UNCHANGED <<client, run>>
  BY <1>0 DEF SInv, NotStarted
<1>1. ASSUME NEW r \in Runners, Acquire(r) PROVE NotStarted'
  <2>1. Moved(r, "begin")
    BY <1>1, Moves DEF SInv
  <2>. QED
    BY <1>1, <2>1
      DEF SInv, Moved, Acquire, NotStarted, IInv, TypeRun, TypeSession, TypeChats,
          Runners, At, Running
<1>2. ASSUME NEW r \in Runners, Busy(r) PROVE NotStarted'
  <2>1. Moved(r, "ended")
    BY <1>2, Moves DEF SInv
  <2>. QED
    BY <1>2, <2>1
      DEF SInv, Moved, Busy, NotStarted, IInv, TypeRun, TypeSession, TypeChats, Runners,
          At, Running
<1>3. ASSUME NEW r \in Runners, Begin(r) PROVE NotStarted'
  <2>1. Began(r)
    BY <1>3, BeginMoves DEF SInv
  <2>. QED
    BY <2>1
      DEF SInv, Began, NotStarted, IInv, TypeRun, TypeSession, TypeChats, Runners, At,
          Running
<1>4. ASSUME NEW r \in Runners, ClearStores(r) PROVE NotStarted'
  <2>1. Moved(r, "store")
    BY <1>4, Moves DEF SInv
  <2>. QED
    BY <1>4, <2>1
      DEF SInv, Moved, ClearStores, NotStarted, IInv, TypeRun, TypeSession, TypeChats,
          Runners, At, Running
<1>5. ASSUME NEW r \in Runners, NEW f \in Files, Store(r, f) PROVE NotStarted'
  <2>1. StoredOne(r, f)
    BY <1>5, StoreMoves DEF SInv
  <2>. QED
    BY <2>1
      DEF SInv, StoredOne, NotStarted, IInv, TypeRun, TypeSession, TypeChats, Runners,
          At, Running
<1>6. ASSUME NEW r \in Runners, SaveHashes(r) PROVE NotStarted'
  <2>1. Moved(r, IF At(r, "hash") THEN "maps" ELSE "state")
    BY <1>6, Moves DEF SInv
  <2>. QED
    BY <1>6, <2>1
      DEF SInv, Moved, SaveHashes, NotStarted, IInv, TypeRun, TypeSession, TypeChats,
          Runners, At, Running
<1>7. ASSUME NEW r \in Runners, BuildMaps(r) PROVE NotStarted'
  <2>1. Moved(r, "state")
    BY <1>7, Moves DEF SInv
  <2>. QED
    BY <1>7, <2>1
      DEF SInv, Moved, BuildMaps, NotStarted, IInv, TypeRun, TypeSession, TypeChats,
          Runners, At, Running
<1>8. ASSUME NEW r \in Runners, Finish(r) PROVE NotStarted'
  <2>1. Moved(r, "done")
    BY <1>8, Moves DEF SInv
  <2>. QED
    BY <1>8, <2>1
      DEF SInv, Moved, Finish, NotStarted, IInv, TypeRun, TypeSession, TypeChats,
          Runners, At, Running
<1>9. ASSUME NEW r \in Runners, Fail(r) PROVE NotStarted'
  <2>1. Moved(r, "failed")
    BY <1>9, Moves DEF SInv
  <2>. QED
    BY <1>9, <2>1
      DEF SInv, Moved, Fail, NotStarted, IInv, TypeRun, TypeSession, TypeChats, Runners,
          At, Running
<1>10. ASSUME NEW r \in Runners, Release(r) PROVE NotStarted'
  <2>1. Moved(r, "ended")
    BY <1>10, Moves DEF SInv
  <2>. QED
    BY <1>10, <2>1
      DEF SInv, Moved, Release, NotStarted, IInv, TypeRun, TypeSession, TypeChats,
          Runners, At, Running
<1>11. ASSUME NEW i \in Requests, NEW p \in Projects, NEW forced \in BOOLEAN,
             PostIndex(i, p, forced)
      PROVE  NotStarted'
  <2>1. Posted(i)
    BY <1>11, PostMoves DEF SInv
  <2>. QED
    BY <2>1
      DEF SInv, Posted, NotStarted, IInv, TypeRun, TypeSession, TypeChats, Runners, At,
          Running
<1>12. ASSUME NEW i \in Requests, StartProducer(i) PROVE NotStarted'
  <2>1. Moved(i, "acquire")
    BY <1>12, Moves DEF SInv, Runners
  <2>. QED
    BY <1>12, <2>1
      DEF SInv, Moved, StartProducer, NotStarted, IInv, TypeRun, TypeSession, TypeChats,
          Runners, At, Running
<1>13. ASSUME NEW i \in Requests, Consume(i) PROVE NotStarted'
  BY <1>13
    DEF SInv, Consume, NotStarted, IInv, TypeRun, TypeSession, TypeChats, Runners, At,
        Running
<1>14. ASSUME NEW i \in Requests, LoseClient(i) PROVE NotStarted'
  BY <1>14
    DEF SInv, LoseClient, NotStarted, IInv, TypeRun, TypeSession, TypeChats, Runners,
        At, Running
<1>15. ASSUME NEW c \in Chats, StartRefresh(c) PROVE NotStarted'
  <2>1. Refreshes(c)
    BY <1>15, RefreshMoves DEF SInv
  <2>. QED
    BY <2>1, RunnersAssumption
      DEF SInv, Refreshes, NotStarted, IInv, TypeRun, TypeSession, TypeChats, Runners,
          At, Running
<1>. QED
  BY <1>0, <1>1, <1>2, <1>3, <1>4, <1>5, <1>6, <1>7, <1>8, <1>9, <1>10, <1>11, <1>12,
     <1>13, <1>14, <1>15
    DEF Next, RunStep, ChatStep, vars, storeVars, chatVars, Edit, PostClear,
        PostRestore, PostChat, CheckFreshness, Retrieve

\* The run of a chat is on while the chat is refreshing only.
LEMMA ChatRunsStep ==
    ASSUME SInv, [Next]_vars
    PROVE  ChatRuns'
<1>0. CASE UNCHANGED <<chat, run>>
  BY <1>0 DEF SInv, ChatRuns, chatVars
<1>1. ASSUME NEW r \in Runners, Acquire(r) PROVE ChatRuns'
  <2>1. Moved(r, "begin")
    BY <1>1, Moves DEF SInv
  <2>. QED
    BY <1>1, <2>1
      DEF SInv, Moved, Acquire, ChatRuns, chatVars, IInv, TypeRun, TypeSession,
          TypeChats, Runners, At, Running
<1>2. ASSUME NEW r \in Runners, Busy(r) PROVE ChatRuns'
  <2>1. Moved(r, "ended")
    BY <1>2, Moves DEF SInv
  <2>. QED
    BY <1>2, <2>1
      DEF SInv, Moved, Busy, ChatRuns, chatVars, IInv, TypeRun, TypeSession, TypeChats,
          Runners, At, Running, Return
<1>3. ASSUME NEW r \in Runners, Begin(r) PROVE ChatRuns'
  <2>1. Began(r)
    BY <1>3, BeginMoves DEF SInv
  <2>. QED
    BY <2>1
      DEF SInv, Began, ChatRuns, chatVars, IInv, TypeRun, TypeSession, TypeChats,
          Runners, At, Running
<1>4. ASSUME NEW r \in Runners, ClearStores(r) PROVE ChatRuns'
  <2>1. Moved(r, "store")
    BY <1>4, Moves DEF SInv
  <2>. QED
    BY <1>4, <2>1
      DEF SInv, Moved, ClearStores, ChatRuns, chatVars, IInv, TypeRun, TypeSession,
          TypeChats, Runners, At, Running
<1>5. ASSUME NEW r \in Runners, NEW f \in Files, Store(r, f) PROVE ChatRuns'
  <2>1. StoredOne(r, f)
    BY <1>5, StoreMoves DEF SInv
  <2>. QED
    BY <2>1
      DEF SInv, StoredOne, ChatRuns, chatVars, IInv, TypeRun, TypeSession, TypeChats,
          Runners, At, Running
<1>6. ASSUME NEW r \in Runners, SaveHashes(r) PROVE ChatRuns'
  <2>1. Moved(r, IF At(r, "hash") THEN "maps" ELSE "state")
    BY <1>6, Moves DEF SInv
  <2>. QED
    BY <1>6, <2>1
      DEF SInv, Moved, SaveHashes, ChatRuns, chatVars, IInv, TypeRun, TypeSession,
          TypeChats, Runners, At, Running
<1>7. ASSUME NEW r \in Runners, BuildMaps(r) PROVE ChatRuns'
  <2>1. Moved(r, "state")
    BY <1>7, Moves DEF SInv
  <2>. QED
    BY <1>7, <2>1
      DEF SInv, Moved, BuildMaps, ChatRuns, chatVars, IInv, TypeRun, TypeSession,
          TypeChats, Runners, At, Running
<1>8. ASSUME NEW r \in Runners, Finish(r) PROVE ChatRuns'
  <2>1. Moved(r, "done")
    BY <1>8, Moves DEF SInv
  <2>. QED
    BY <1>8, <2>1
      DEF SInv, Moved, Finish, ChatRuns, chatVars, IInv, TypeRun, TypeSession,
          TypeChats, Runners, At, Running
<1>9. ASSUME NEW r \in Runners, Fail(r) PROVE ChatRuns'
  <2>1. Moved(r, "failed")
    BY <1>9, Moves DEF SInv
  <2>. QED
    BY <1>9, <2>1
      DEF SInv, Moved, Fail, ChatRuns, chatVars, IInv, TypeRun, TypeSession, TypeChats,
          Runners, At, Running
<1>10. ASSUME NEW r \in Runners, Release(r) PROVE ChatRuns'
  <2>1. Moved(r, "ended")
    BY <1>10, Moves DEF SInv
  <2>. QED
    BY <1>10, <2>1
      DEF SInv, Moved, Release, ChatRuns, chatVars, IInv, TypeRun, TypeSession,
          TypeChats, Runners, At, Running, Return
<1>11. ASSUME NEW i \in Requests, NEW p \in Projects, NEW forced \in BOOLEAN,
             PostIndex(i, p, forced)
      PROVE  ChatRuns'
  <2>1. Posted(i)
    BY <1>11, PostMoves DEF SInv
  <2>. QED
    BY <2>1, RunnersAssumption
      DEF SInv, Posted, ChatRuns, chatVars, IInv, TypeRun, TypeSession, TypeChats,
          Runners, At, Running
<1>12. ASSUME NEW i \in Requests, StartProducer(i) PROVE ChatRuns'
  <2>1. Moved(i, "acquire")
    BY <1>12, Moves DEF SInv, Runners
  <2>. QED
    BY <1>12, <2>1, RunnersAssumption
      DEF SInv, Moved, StartProducer, ChatRuns, chatVars, IInv, TypeRun, TypeSession,
          TypeChats, Runners, At, Running
<1>13. ASSUME NEW c \in Chats, PostChat(c) PROVE ChatRuns'
  BY <1>13
    DEF SInv, PostChat, ChatRuns, chatVars, IInv, TypeRun, TypeSession, TypeChats,
        Runners, At, Running
<1>14. ASSUME NEW c \in Chats, CheckFreshness(c) PROVE ChatRuns'
  BY <1>14
    DEF SInv, CheckFreshness, ChatRuns, chatVars, IInv, TypeRun, TypeSession, TypeChats,
        Runners, At, Running
<1>15. ASSUME NEW c \in Chats, StartRefresh(c) PROVE ChatRuns'
  <2>1. Refreshes(c)
    BY <1>15, RefreshMoves DEF SInv
  <2>. QED
    BY <2>1
      DEF SInv, Refreshes, ChatRuns, chatVars, IInv, TypeRun, TypeSession, TypeChats,
          Runners, At, Running
<1>16. ASSUME NEW c \in Chats, Retrieve(c) PROVE ChatRuns'
  BY <1>16
    DEF SInv, Retrieve, ChatRuns, chatVars, IInv, TypeRun, TypeSession, TypeChats,
        Runners, At, Running
<1>. QED
  BY <1>0, <1>1, <1>2, <1>3, <1>4, <1>5, <1>6, <1>7, <1>8, <1>9, <1>10, <1>11, <1>12,
     <1>13, <1>14, <1>15, <1>16
    DEF Next, RunStep, ChatStep, vars, storeVars, chatVars, Edit, Consume, LoseClient,
        PostClear, PostRestore

\* The hash store describes a past state of its directory.
LEMMA HashesBeforeStep ==
    ASSUME SInv, [Next]_vars
    PROVE  HashesBefore'
<1>0. CASE UNCHANGED <<disk, hashes>>
  BY <1>0 DEF SInv, HashesBefore, Before
<1>1. ASSUME NEW p \in Projects, NEW f \in Files, Edit(p, f) PROVE HashesBefore'
  <2>1. UNCHANGED hashes
    BY <1>1 DEF Edit, storeVars
  <2>2. CASE hashes.root = None
    BY <2>1, <2>2 DEF SInv, HashesBefore
  <2>3. CASE hashes.root # None
    <3>1. hashes.root \in Projects /\ hashes.files \in Trees
      BY <2>3, Versions DEF SInv, IInv, TypeStores, Maybe
    <3>. QED
      BY <1>1, <2>1, <2>3, <3>1, BeforeKept DEF SInv, HashesBefore, Before
  <2>. QED
    BY <2>2, <2>3
<1>2. ASSUME NEW r \in Runners, SaveHashes(r) PROVE HashesBefore'
  <2>1. run[r].root # None /\ Before(run[r].snap, run[r].root)
    BY <1>2, NoneAssumption DEF SInv, IInv, RootsKnown, SnapsBefore, Snapped, SaveHashes
  <2>. QED
    BY <1>2, <2>1 DEF SaveHashes, HashesBefore, Before
<1>3. ASSUME PostClear PROVE HashesBefore'
  BY <1>3, NoneAssumption DEF SInv, PostClear, HashesBefore, Before, NoHashes
<1>. QED
  BY <1>0, <1>1, <1>2, <1>3
    DEF Next, RunStep, ChatStep, vars, storeVars, chatVars, Acquire, Busy, Begin,
        ClearStores, Store, BuildMaps, Finish, Fail, Release, PostIndex, StartProducer,
        Consume, LoseClient, PostRestore, PostChat, CheckFreshness, StartRefresh,
        Retrieve

\* A snapshot is a past state of its directory.
LEMMA SnapsBeforeStep ==
    ASSUME SInv, [Next]_vars
    PROVE  SnapsBefore'
<1>0. CASE UNCHANGED <<disk, run>>
  BY <1>0 DEF SInv, SnapsBefore, Before
<1>1. ASSUME NEW p \in Projects, NEW f \in Files, Edit(p, f) PROVE SnapsBefore'
  <2>. SUFFICES ASSUME NEW r \in Runners, run'[r].pc \in Snapped
                PROVE  Before(run[r].snap, run[r].root)'
    BY DEF SnapsBefore
  <2>1. /\ UNCHANGED run /\ run[r].root \in Projects /\ run[r].snap \in Trees
        /\ Before(run[r].snap, run[r].root)
    BY <1>1, Versions DEF SInv, IInv, RootsKnown, Edit, Snapped, SnapsBefore
  <2>. QED
    BY <1>1, <2>1, BeforeKept DEF Before
<1>2. ASSUME NEW r \in Runners, Acquire(r) PROVE SnapsBefore'
  <2>1. Moved(r, "begin")
    BY <1>2, Moves DEF SInv
  <2>. QED
    BY <1>2, <2>1
      DEF SInv, Moved, Acquire, SnapsBefore, Before, IInv, RootsKnown, At, Running,
          Snapped, storeVars, chatVars
<1>3. ASSUME NEW r \in Runners, Busy(r) PROVE SnapsBefore'
  <2>1. Moved(r, "ended")
    BY <1>3, Moves DEF SInv
  <2>. QED
    BY <1>3, <2>1
      DEF SInv, Moved, Busy, SnapsBefore, Before, IInv, RootsKnown, At, Running,
          Snapped, storeVars, chatVars
<1>4. ASSUME NEW r \in Runners, Begin(r) PROVE SnapsBefore'
  <2>1. run[r].root \in Projects /\ run'[r].root = run[r].root
        /\ run'[r].snap = disk[run[r].root] /\ \A s \in Runners \ {r} : run'[s] = run[s]
    BY <1>4, BeginMoves DEF SInv, Began
  <2>2. Before(disk[run[r].root], run[r].root)
    BY <2>1, Versions, NoneAssumption DEF SInv, IInv, TypeStores, DiskVersions, Before
  <2>. QED
    BY <1>4, <2>1, <2>2, BeginMoves DEF SInv, Began, SnapsBefore, Before
<1>5. ASSUME NEW r \in Runners, ClearStores(r) PROVE SnapsBefore'
  <2>1. Moved(r, "store")
    BY <1>5, Moves DEF SInv
  <2>. QED
    BY <1>5, <2>1
      DEF SInv, Moved, ClearStores, SnapsBefore, Before, IInv, RootsKnown, At, Running,
          Snapped, storeVars, chatVars
<1>6. ASSUME NEW r \in Runners, NEW f \in Files, Store(r, f) PROVE SnapsBefore'
  <2>1. StoredOne(r, f)
    BY <1>6, StoreMoves DEF SInv
  <2>. QED
    BY <2>1
      DEF SInv, StoredOne, SnapsBefore, Before, IInv, RootsKnown, At, Running, Snapped,
          storeVars, chatVars
<1>7. ASSUME NEW r \in Runners, SaveHashes(r) PROVE SnapsBefore'
  <2>1. Moved(r, IF At(r, "hash") THEN "maps" ELSE "state")
    BY <1>7, Moves DEF SInv
  <2>. QED
    BY <1>7, <2>1
      DEF SInv, Moved, SaveHashes, SnapsBefore, Before, IInv, RootsKnown, At, Running,
          Snapped, storeVars, chatVars
<1>8. ASSUME NEW r \in Runners, BuildMaps(r) PROVE SnapsBefore'
  <2>1. Moved(r, "state")
    BY <1>8, Moves DEF SInv
  <2>. QED
    BY <1>8, <2>1
      DEF SInv, Moved, BuildMaps, SnapsBefore, Before, IInv, RootsKnown, At, Running,
          Snapped, storeVars, chatVars
<1>9. ASSUME NEW r \in Runners, Finish(r) PROVE SnapsBefore'
  <2>1. Moved(r, "done")
    BY <1>9, Moves DEF SInv
  <2>. QED
    BY <1>9, <2>1
      DEF SInv, Moved, Finish, SnapsBefore, Before, IInv, RootsKnown, At, Running,
          Snapped, storeVars, chatVars
<1>10. ASSUME NEW r \in Runners, Fail(r) PROVE SnapsBefore'
  <2>1. Moved(r, "failed")
    BY <1>10, Moves DEF SInv
  <2>. QED
    BY <1>10, <2>1
      DEF SInv, Moved, Fail, SnapsBefore, Before, IInv, RootsKnown, At, Running,
          Snapped, storeVars, chatVars
<1>11. ASSUME NEW r \in Runners, Release(r) PROVE SnapsBefore'
  <2>1. Moved(r, "ended")
    BY <1>11, Moves DEF SInv
  <2>. QED
    BY <1>11, <2>1
      DEF SInv, Moved, Release, SnapsBefore, Before, IInv, RootsKnown, At, Running,
          Snapped, storeVars, chatVars
<1>12. ASSUME NEW i \in Requests, NEW p \in Projects, NEW forced \in BOOLEAN,
             PostIndex(i, p, forced)
      PROVE  SnapsBefore'
  <2>1. Posted(i)
    BY <1>12, PostMoves DEF SInv
  <2>. QED
    BY <2>1
      DEF SInv, Posted, SnapsBefore, Before, IInv, RootsKnown, At, Running, Snapped,
          storeVars, chatVars, NotStarted, Runners
<1>13. ASSUME NEW i \in Requests, StartProducer(i) PROVE SnapsBefore'
  <2>1. Moved(i, "acquire")
    BY <1>13, Moves DEF SInv, Runners
  <2>. QED
    BY <1>13, <2>1
      DEF SInv, Moved, StartProducer, SnapsBefore, Before, IInv, RootsKnown, At,
          Running, Snapped, storeVars, chatVars, Runners
<1>14. ASSUME NEW c \in Chats, StartRefresh(c) PROVE SnapsBefore'
  <2>1. Refreshes(c)
    BY <1>14, RefreshMoves DEF SInv
  <2>. QED
    BY <2>1
      DEF SInv, Refreshes, SnapsBefore, Before, IInv, RootsKnown, At, Running, Snapped,
          storeVars, chatVars, Runners
<1>. QED
  BY <1>0, <1>1, <1>2, <1>3, <1>4, <1>5, <1>6, <1>7, <1>8, <1>9, <1>10, <1>11, <1>12,
     <1>13, <1>14
    DEF Next, RunStep, ChatStep, vars, storeVars, chatVars, Consume, LoseClient,
        PostClear, PostRestore, PostChat, CheckFreshness, Retrieve

\* A run does not take the hash store back to an older state.
LEMMA SnapsNewerStep ==
    ASSUME SInv, [Next]_vars
    PROVE  SnapsNewer'
<1>0. CASE UNCHANGED <<hashes, run>>
  BY <1>0 DEF SInv, SnapsNewer
<1>1. ASSUME NEW r \in Runners, Acquire(r) PROVE SnapsNewer'
  <2>1. Moved(r, "begin")
    BY <1>1, Moves DEF SInv
  <2>. QED
    BY <1>1, <2>1
      DEF SInv, Moved, Acquire, SnapsNewer, IInv, RootsKnown, At, Running, Snapped,
          storeVars, chatVars
<1>2. ASSUME NEW r \in Runners, Busy(r) PROVE SnapsNewer'
  <2>1. Moved(r, "ended")
    BY <1>2, Moves DEF SInv
  <2>. QED
    BY <1>2, <2>1
      DEF SInv, Moved, Busy, SnapsNewer, IInv, RootsKnown, At, Running, Snapped,
          storeVars, chatVars
<1>3. ASSUME NEW r \in Runners, Begin(r) PROVE SnapsNewer'
  <2>. USE DEF SInv, IInv
  <2>1. run[r].root # None /\ UNCHANGED <<hashes, disk>>
    BY <1>3, BeginMoves, NoneAssumption DEF Began, storeVars
  <2>2. hashes.root = run[r].root =>
           \A f \in Files : hashes.files[f][2] <= disk[run[r].root][f][2]
    BY <2>1 DEF HashesBefore, Before
  <2>. QED
    BY <1>3, <2>1, <2>2, BeginMoves DEF SnapsNewer, Began
<1>4. ASSUME NEW r \in Runners, ClearStores(r) PROVE SnapsNewer'
  <2>1. Moved(r, "store")
    BY <1>4, Moves DEF SInv
  <2>. QED
    BY <1>4, <2>1
      DEF SInv, Moved, ClearStores, SnapsNewer, IInv, RootsKnown, At, Running, Snapped,
          storeVars, chatVars
<1>5. ASSUME NEW r \in Runners, NEW f \in Files, Store(r, f) PROVE SnapsNewer'
  <2>1. StoredOne(r, f)
    BY <1>5, StoreMoves DEF SInv
  <2>. QED
    BY <2>1
      DEF SInv, StoredOne, SnapsNewer, IInv, RootsKnown, At, Running, Snapped,
          storeVars, chatVars
<1>6. ASSUME NEW r \in Runners, SaveHashes(r) PROVE SnapsNewer'
  <2>1. Moved(r, IF At(r, "hash") THEN "maps" ELSE "state")
    BY <1>6, Moves DEF SInv
  <2>. QED
    BY <1>6, <2>1, HolderStep
      DEF SInv, Moved, SaveHashes, SnapsNewer, IInv, RootsKnown, At, Running, Snapped,
          storeVars, chatVars, HolderRuns
<1>7. ASSUME NEW r \in Runners, BuildMaps(r) PROVE SnapsNewer'
  <2>1. Moved(r, "state")
    BY <1>7, Moves DEF SInv
  <2>. QED
    BY <1>7, <2>1
      DEF SInv, Moved, BuildMaps, SnapsNewer, IInv, RootsKnown, At, Running, Snapped,
          storeVars, chatVars
<1>8. ASSUME NEW r \in Runners, Finish(r) PROVE SnapsNewer'
  <2>1. Moved(r, "done")
    BY <1>8, Moves DEF SInv
  <2>. QED
    BY <1>8, <2>1
      DEF SInv, Moved, Finish, SnapsNewer, IInv, RootsKnown, At, Running, Snapped,
          storeVars, chatVars
<1>9. ASSUME NEW r \in Runners, Fail(r) PROVE SnapsNewer'
  <2>1. Moved(r, "failed")
    BY <1>9, Moves DEF SInv
  <2>. QED
    BY <1>9, <2>1
      DEF SInv, Moved, Fail, SnapsNewer, IInv, RootsKnown, At, Running, Snapped,
          storeVars, chatVars
<1>10. ASSUME NEW r \in Runners, Release(r) PROVE SnapsNewer'
  <2>1. Moved(r, "ended")
    BY <1>10, Moves DEF SInv
  <2>. QED
    BY <1>10, <2>1
      DEF SInv, Moved, Release, SnapsNewer, IInv, RootsKnown, At, Running, Snapped,
          storeVars, chatVars
<1>11. ASSUME NEW i \in Requests, NEW p \in Projects, NEW forced \in BOOLEAN,
             PostIndex(i, p, forced)
      PROVE  SnapsNewer'
  <2>1. Posted(i)
    BY <1>11, PostMoves DEF SInv
  <2>. QED
    BY <2>1
      DEF SInv, Posted, SnapsNewer, IInv, RootsKnown, At, Running, Snapped, storeVars,
          chatVars, NotStarted, Runners
<1>12. ASSUME NEW i \in Requests, StartProducer(i) PROVE SnapsNewer'
  <2>1. Moved(i, "acquire")
    BY <1>12, Moves DEF SInv, Runners
  <2>. QED
    BY <1>12, <2>1
      DEF SInv, Moved, StartProducer, SnapsNewer, IInv, RootsKnown, At, Running,
          Snapped, storeVars, chatVars, Runners
<1>13. ASSUME PostClear PROVE SnapsNewer'
  BY <1>13, NoneAssumption
    DEF SInv, PostClear, SnapsNewer, IInv, RootsKnown, At, Running, Snapped, storeVars,
        chatVars, NoHashes
<1>14. ASSUME NEW c \in Chats, StartRefresh(c) PROVE SnapsNewer'
  <2>1. Refreshes(c)
    BY <1>14, RefreshMoves DEF SInv
  <2>. QED
    BY <2>1
      DEF SInv, Refreshes, SnapsNewer, IInv, RootsKnown, At, Running, Snapped,
          storeVars, chatVars, Runners
<1>. QED
  BY <1>0, <1>1, <1>2, <1>3, <1>4, <1>5, <1>6, <1>7, <1>8, <1>9, <1>10, <1>11, <1>12,
     <1>13, <1>14
    DEF Next, RunStep, ChatStep, vars, storeVars, chatVars, Edit, Consume, LoseClient,
        PostRestore, PostChat, CheckFreshness, Retrieve

\* A run that empties the stores stores every file.
LEMMA ClearsAllStep ==
    ASSUME SInv, [Next]_vars
    PROVE  ClearsAll'
<1>0. CASE UNCHANGED run
  BY <1>0 DEF SInv, ClearsAll
<1>1. ASSUME NEW r \in Runners, Acquire(r) PROVE ClearsAll'
  <2>1. Moved(r, "begin")
    BY <1>1, Moves DEF SInv
  <2>. QED
    BY <1>1, <2>1 DEF SInv, Moved, Acquire, ClearsAll, At, IInv
<1>2. ASSUME NEW r \in Runners, Busy(r) PROVE ClearsAll'
  <2>1. Moved(r, "ended")
    BY <1>2, Moves DEF SInv
  <2>. QED
    BY <1>2, <2>1 DEF SInv, Moved, Busy, ClearsAll, At, IInv
<1>3. ASSUME NEW r \in Runners, Begin(r) PROVE ClearsAll'
  <2>1. Began(r)
    BY <1>3, BeginMoves DEF SInv
  <2>. QED
    BY <2>1 DEF SInv, Began, ClearsAll, At, IInv
<1>4. ASSUME NEW r \in Runners, ClearStores(r) PROVE ClearsAll'
  <2>1. Moved(r, "store")
    BY <1>4, Moves DEF SInv
  <2>. QED
    BY <1>4, <2>1 DEF SInv, Moved, ClearStores, ClearsAll, At, IInv
<1>5. ASSUME NEW r \in Runners, NEW f \in Files, Store(r, f) PROVE ClearsAll'
  <2>1. StoredOne(r, f)
    BY <1>5, StoreMoves DEF SInv
  <2>. QED
    BY <2>1 DEF SInv, StoredOne, ClearsAll, At, IInv
<1>6. ASSUME NEW r \in Runners, SaveHashes(r) PROVE ClearsAll'
  <2>1. Moved(r, IF At(r, "hash") THEN "maps" ELSE "state")
    BY <1>6, Moves DEF SInv
  <2>. QED
    BY <1>6, <2>1 DEF SInv, Moved, SaveHashes, ClearsAll, At, IInv
<1>7. ASSUME NEW r \in Runners, BuildMaps(r) PROVE ClearsAll'
  <2>1. Moved(r, "state")
    BY <1>7, Moves DEF SInv
  <2>. QED
    BY <1>7, <2>1 DEF SInv, Moved, BuildMaps, ClearsAll, At, IInv
<1>8. ASSUME NEW r \in Runners, Finish(r) PROVE ClearsAll'
  <2>1. Moved(r, "done")
    BY <1>8, Moves DEF SInv
  <2>. QED
    BY <1>8, <2>1 DEF SInv, Moved, Finish, ClearsAll, At, IInv
<1>9. ASSUME NEW r \in Runners, Fail(r) PROVE ClearsAll'
  <2>1. Moved(r, "failed")
    BY <1>9, Moves DEF SInv
  <2>. QED
    BY <1>9, <2>1 DEF SInv, Moved, Fail, ClearsAll, At, IInv
<1>10. ASSUME NEW r \in Runners, Release(r) PROVE ClearsAll'
  <2>1. Moved(r, "ended")
    BY <1>10, Moves DEF SInv
  <2>. QED
    BY <1>10, <2>1 DEF SInv, Moved, Release, ClearsAll, At, IInv
<1>11. ASSUME NEW i \in Requests, NEW p \in Projects, NEW forced \in BOOLEAN,
             PostIndex(i, p, forced)
      PROVE  ClearsAll'
  <2>1. Posted(i)
    BY <1>11, PostMoves DEF SInv
  <2>. QED
    BY <2>1 DEF SInv, Posted, ClearsAll, At, IInv, NotStarted, Runners
<1>12. ASSUME NEW i \in Requests, StartProducer(i) PROVE ClearsAll'
  <2>1. Moved(i, "acquire")
    BY <1>12, Moves DEF SInv, Runners
  <2>. QED
    BY <1>12, <2>1 DEF SInv, Moved, StartProducer, ClearsAll, At, IInv, Runners
<1>13. ASSUME NEW c \in Chats, StartRefresh(c) PROVE ClearsAll'
  <2>1. Refreshes(c)
    BY <1>13, RefreshMoves DEF SInv
  <2>. QED
    BY <2>1 DEF SInv, Refreshes, ClearsAll, At, IInv, Runners
<1>. QED
  BY <1>0, <1>1, <1>2, <1>3, <1>4, <1>5, <1>6, <1>7, <1>8, <1>9, <1>10, <1>11, <1>12,
     <1>13
    DEF Next, RunStep, ChatStep, vars, storeVars, chatVars, Edit, Consume, LoseClient,
        PostClear, PostRestore, PostChat, CheckFreshness, Retrieve

\* A chunk is of its file's stored digest, or its file has changed since.
LEMMA ChunksKnownStep ==
    ASSUME SInv, [Next]_vars
    PROVE  ChunksKnown'
<1>0. CASE UNCHANGED <<disk, hashes, col, damaged>>
  BY <1>0 DEF SInv, ChunksKnown
<1>1. ASSUME NEW p \in Projects, NEW f \in Files, Edit(p, f) PROVE ChunksKnown'
  <2>1. UNCHANGED <<col, hashes, damaged>>
    BY <1>1 DEF Edit, storeVars
  <2>2. ASSUME hashes.root # None, NEW g \in Files, hashes.files[g] # disk[hashes.root][g]
        PROVE  hashes.files[g] # disk'[hashes.root][g]
    <3>1. /\ hashes.root \in Projects /\ hashes.files \in Trees
          /\ hashes.files[g][2] <= disk[hashes.root][g][2]
          /\ disk[hashes.root][g][2] <= clock
          /\ hashes.files[g] # None
      BY <2>2 DEF SInv, IInv, TypeStores, Maybe, HashesBefore, Before, DiskVersions
    <3>2. hashes.files[g][2] \in Nat /\ disk[hashes.root][g][2] \in Nat
      BY <3>1, Versions DEF SInv
    <3>3. /\ disk'[hashes.root][g] = disk[hashes.root][g]
             \/ disk'[hashes.root][g][2] = clock + 1
          /\ clock \in Nat
      BY <1>1, <3>1, EditGrows
    <3>. QED
      BY <2>2, <3>1, <3>2, <3>3
  <2>. QED
    BY <2>1, <2>2 DEF SInv, ChunksKnown
<1>2. ASSUME NEW r \in Runners, ClearStores(r) PROVE ChunksKnown'
  <2>1. Moved(r, "store")
    BY <1>2, Moves DEF SInv
  <2>. QED
    BY <1>2, <2>1 DEF SInv, Moved, ClearStores, ChunksKnown, NoTree
<1>3. ASSUME NEW r \in Runners, NEW f \in Files, Store(r, f) PROVE ChunksKnown'
  <2>1. StoredOne(r, f)
    BY <1>3, StoreMoves DEF SInv
  <2>2. ASSUME hashes.root # None, run[r].snap[f] # None, run[r].snap[f][1] = hashes.root,
               hashes.files[f] = disk[hashes.root][f]
        PROVE  run[r].snap[f] = hashes.files[f]
    <3>1. /\ run[r].snap[f][1] = run[r].root
          /\ run[r].snap[f][2] <= disk[run[r].root][f][2]
      BY <2>1 DEF SInv, SnapsBefore, Snapped, Before, StoredOne
    <3>2. hashes.files[f][2] <= run[r].snap[f][2] /\ hashes.root = run[r].root
      BY <2>1, <2>2, <3>1 DEF SInv, SnapsNewer, StoredOne
    <3>3. /\ hashes.root \in Projects /\ hashes.files[f] # None
          /\ hashes.files[f][1] = hashes.root
      BY <2>2 DEF SInv, IInv, TypeStores, Maybe, HashesBefore, Before
    <3>. QED
      BY <2>2, <3>1, <3>2, <3>3, Versions DEF SInv
  <2>. QED
    BY <2>1, <2>2 DEF SInv, StoredOne, ChunksKnown
<1>4. ASSUME NEW r \in Runners, SaveHashes(r) PROVE ChunksKnown'
  <2>1. /\ hashes' = [root |-> run[r].root, files |-> run[r].snap]
        /\ UNCHANGED <<disk, col, damaged>>
    BY <1>4 DEF SaveHashes
  <2>2. ~damaged => col = run[r].snap
    BY <1>4 DEF SInv, Phases, Phase, Matches, SaveHashes
  <2>. QED
    BY <2>1, <2>2 DEF ChunksKnown
<1>5. ASSUME NEW r \in Runners, Fail(r) PROVE ChunksKnown'
  <2>1. Moved(r, "failed")
    BY <1>5, Moves DEF SInv
  <2>. QED
    BY <1>5, <2>1 DEF SInv, Moved, Fail, ChunksKnown, IInv, storeVars, chatVars
<1>6. ASSUME PostClear PROVE ChunksKnown'
  BY <1>6 DEF SInv, PostClear, ChunksKnown, NoHashes, NoTree
<1>. QED
  BY <1>0, <1>1, <1>2, <1>3, <1>4, <1>5, <1>6
    DEF Next, RunStep, ChatStep, vars, storeVars, chatVars, Acquire, Busy, Begin,
        BuildMaps, Finish, Release, PostIndex, StartProducer, Consume, LoseClient,
        PostRestore, PostChat, CheckFreshness, StartRefresh, Retrieve

\* The holder of the lock is alone at work, so a step of its run concerns no
\* other run.
LEMMA PhaseOfHolder ==
    ASSUME SInv, NEW r \in Runners, run[r].pc \in Running,
           \A s \in Runners \ {r} : run'[s] = run[s],
           ~damaged' => (holder' = None => OneProject') /\ Phase(r)'
    PROVE  Phases'
<1>1. \A s \in Runners \ {r} : run'[s].pc \notin Running
  BY DEF SInv, IInv, HolderRuns
<1>2. \A s \in Runners \ {r} : Phase(s)'
  BY <1>1 DEF Phase, Running
<1>. QED
  BY <1>2 DEF Phases

\* Between runs, and before a run changes anything, the stores agree.
LEMMA PhaseSame ==
    ASSUME SInv, NEW r \in Runners, UNCHANGED <<col, hashes, pmap, damaged>>,
           \A s \in Runners \ {r} : run'[s] = run[s],
           run[r].pc \notin Running, run'[r].pc \notin Running, UNCHANGED holder
    PROVE  Phases'
<1>1. \A s \in Runners : ~damaged => Phase(s)'
  BY DEF SInv, Phases, Phase, Running, Matches, OneProject
<1>. QED
  BY <1>1 DEF SInv, Phases, OneProject

\* Each place of a run says what the stores hold by then.
LEMMA PhasesStep ==
    ASSUME SInv, [Next]_vars
    PROVE  Phases'
<1>0. CASE UNCHANGED <<damaged, holder, run, col, hashes, pmap>>
  BY <1>0 DEF SInv, Phases, Phase, OneProject, Matches
<1>1. ASSUME NEW r \in Runners, Acquire(r) PROVE Phases'
  <2>1. Moved(r, "begin")
    BY <1>1, Moves DEF SInv
  <2>2. \A s \in Runners \ {r} : run'[s].pc \notin Running
    BY <1>1, <2>1, NoneAssumption DEF SInv, IInv, HolderRuns, Acquire, Moved
  <2>3. ~damaged => OneProject
    BY <1>1 DEF SInv, Phases, Acquire
  <2>4. ~damaged' => OneProject' /\ \A s \in Runners : Phase(s)'
    BY <1>1, <2>1, <2>2, <2>3 DEF Acquire, Moved, Phase, OneProject, Running, storeVars
  <2>. QED
    BY <1>1, <2>4 DEF Phases
<1>2. ASSUME NEW r \in Runners, Busy(r) PROVE Phases'
  <2>1. Moved(r, "ended")
    BY <1>2, Moves DEF SInv
  <2>. QED
    BY <1>2, <2>1, PhaseSame DEF SInv, Moved, Busy, At, Running, storeVars, chatVars
<1>3. ASSUME NEW r \in Runners, Begin(r) PROVE Phases'
  <2>1. Began(r)
    BY <1>3, BeginMoves DEF SInv
  <2>. SUFFICES ASSUME ~damaged' PROVE (holder' = None => OneProject') /\ Phase(r)'
    BY <1>3, <2>1, PhaseOfHolder DEF Began, Running
  <2>2. run'[r].pc = "clear" => Phase(r)'
    BY <2>1 DEF SInv, Phases, Phase, OneProject, Began, storeVars
  <2>3. ASSUME NEW f \in Files, f \notin New(r) PROVE col[f] = disk[run[r].root][f]
    <3>1. hashes.files[f] = disk[run[r].root][f] /\ run[r].root \in Projects
      BY <2>1, <2>3 DEF New, Began
    <3>2. hashes.files[f] # None /\ hashes.files[f][1] = run[r].root
      BY <3>1, Versions DEF SInv, IInv, TypeStores, DiskVersions
    <3>3. hashes.root # None /\ hashes.root = run[r].root
      BY <3>2 DEF SInv, HashesBefore, NoHashes, NoTree, Before
    <3>4. col[f] # None /\ col[f][1] = hashes.root
      BY <2>1, <3>3 DEF SInv, Phases, Phase, OneProject, Began
    <3>. QED
      BY <2>1, <3>1, <3>3, <3>4 DEF SInv, ChunksKnown, Began
  <2>4. run'[r].pc = "store" => Phase(r)'
    BY <2>1, <2>3 DEF Phase, Began, storeVars
  <2>5. ASSUME run'[r].pc = "reuse" PROVE Phase(r)'
    <3>1. New(r) = {} /\ col \in Trees /\ hashes \in [root: Maybe(Projects), files: Trees]
          /\ disk[run[r].root] \in Trees
      BY <2>1, <2>5, Versions DEF Began, SInv, IInv, TypeStores
    <3>2. col = disk[run[r].root]
      BY <2>3, <3>1 DEF Trees
    <3>3. hashes.files = disk[run[r].root]
      BY <3>1 DEF Trees, New
    <3>4. PICK f \in Files : TRUE
      BY FilesAssumption
    <3>5. hashes.root = run[r].root /\ hashes.root # None
      BY <2>1, <3>3, <3>4, Versions, NoneAssumption
        DEF SInv, HashesBefore, NoHashes, NoTree, Before, Began, IInv, TypeStores, DiskVersions
    <3>6. pmap = run[r].root
      BY <2>1, <3>5 DEF SInv, Phases, Phase, OneProject, Began
    <3>. QED
      BY <2>1, <2>5, <3>1, <3>2, <3>3, <3>5, <3>6 DEF Phase, Matches, Began, storeVars
  <2>. QED
    BY <2>1, <2>2, <2>4, <2>5, NoneAssumption DEF SInv, IInv, HolderRuns, Began, Running
<1>4. ASSUME NEW r \in Runners, ClearStores(r) PROVE Phases'
  <2>1. Moved(r, "store")
    BY <1>4, Moves DEF SInv
  <2>. SUFFICES ASSUME ~damaged' PROVE (holder' = None => OneProject') /\ Phase(r)'
    BY <1>4, <2>1, PhaseOfHolder DEF ClearStores, At, Moved, Running
  <2>2. run'[r].todo = Files
    BY <1>4, <2>1 DEF SInv, ClearsAll, ClearStores, At, Moved
  <2>. QED
    BY <1>4, <2>1, <2>2, NoneAssumption
      DEF SInv, IInv, HolderRuns, ClearStores, At, Running, Moved, Phase
<1>5. ASSUME NEW r \in Runners, NEW f \in Files, Store(r, f) PROVE Phases'
  <2>1. StoredOne(r, f)
    BY <1>5, StoreMoves DEF SInv
  <2>. SUFFICES ASSUME ~damaged' PROVE (holder' = None => OneProject') /\ Phase(r)'
    BY <1>5, <2>1, PhaseOfHolder DEF StoredOne, Running
  <2>2. \A g \in Files \ run'[r].todo : col'[g] = run[r].snap[g]
    BY <2>1 DEF SInv, Phases, Phase, OneProject, StoredOne
  <2>3. run'[r].pc = "hash" => col' = run[r].snap
    <3>1. col' \in Trees /\ run[r].snap \in Trees
      BY <2>1, Versions DEF StoredOne, SInv
    <3>. QED
      BY <2>1, <2>2, <3>1 DEF StoredOne, Trees
  <2>. QED
    BY <2>1, <2>2, <2>3, NoneAssumption
      DEF SInv, IInv, HolderRuns, StoredOne, Phase, Running
<1>6. ASSUME NEW r \in Runners, SaveHashes(r) PROVE Phases'
  <2>1. Moved(r, IF At(r, "hash") THEN "maps" ELSE "state")
    BY <1>6, Moves DEF SInv
  <2>. SUFFICES ASSUME ~damaged' PROVE (holder' = None => OneProject') /\ Phase(r)'
    BY <1>6, <2>1, PhaseOfHolder DEF SaveHashes, Moved, Running
  <2>2. /\ hashes' = [root |-> run[r].root, files |-> run[r].snap]
        /\ UNCHANGED <<col, pmap, holder, damaged>> /\ run[r].pc \in {"hash", "reuse"}
    BY <1>6 DEF SaveHashes
  <2>3. col = run[r].snap /\ (run[r].pc = "reuse" => pmap = run[r].root)
    BY <2>2 DEF SInv, Phases, Phase, OneProject, Matches
  <2>. QED
    BY <2>1, <2>2, <2>3, NoneAssumption
      DEF SInv, IInv, HolderRuns, Moved, Phase, Matches, Running, At
<1>7. ASSUME NEW r \in Runners, BuildMaps(r) PROVE Phases'
  <2>1. Moved(r, "state")
    BY <1>7, Moves DEF SInv
  <2>. SUFFICES ASSUME ~damaged' PROVE (holder' = None => OneProject') /\ Phase(r)'
    BY <1>7, <2>1, PhaseOfHolder DEF BuildMaps, At, Moved, Running
  <2>2. Matches(r) /\ pmap' = run[r].root /\ UNCHANGED <<col, hashes, holder, damaged>>
    BY <1>7 DEF SInv, Phases, Phase, OneProject, BuildMaps, At
  <2>. QED
    BY <1>7, <2>1, <2>2, NoneAssumption
      DEF SInv, IInv, HolderRuns, Moved, Phase, Matches, Running, At, BuildMaps
<1>8. ASSUME NEW r \in Runners, Finish(r) PROVE Phases'
  <2>1. Moved(r, "done")
    BY <1>8, Moves DEF SInv
  <2>. SUFFICES ASSUME ~damaged' PROVE (holder' = None => OneProject') /\ Phase(r)'
    BY <1>8, <2>1, PhaseOfHolder DEF Finish, At, Moved, Running
  <2>2. /\ Matches(r) /\ pmap = run[r].root
        /\ UNCHANGED <<col, hashes, pmap, holder, damaged>>
    BY <1>8 DEF SInv, Phases, Phase, OneProject, Finish, At
  <2>. QED
    BY <1>8, <2>1, <2>2, NoneAssumption
      DEF SInv, IInv, HolderRuns, Moved, Phase, Matches, Running, At, Finish
<1>9. ASSUME NEW r \in Runners, Fail(r) PROVE Phases'
  <2>1. Moved(r, "failed")
    BY <1>9, Moves DEF SInv
  <2>. SUFFICES ASSUME ~damaged' PROVE (holder' = None => OneProject') /\ Phase(r)'
    BY <1>9, <2>1, PhaseOfHolder DEF Fail, Moved, Running
  <2>2. ~Torn /\ UNCHANGED <<col, hashes, pmap, holder>>
    BY <1>9 DEF Fail, storeVars
  <2>3. \A f \in Files : hashes.root # None => col[f] # None /\ col[f][1] = hashes.root
    BY <2>2, NoneAssumption DEF Torn, SInv, IInv, TypeStores, Maybe, Content
  <2>4. OneProject'
    BY <2>2, <2>3 DEF OneProject, Torn
  <2>. QED
    BY <1>9, <2>1, <2>4 DEF Moved, Phase
<1>10. ASSUME NEW r \in Runners, Release(r) PROVE Phases'
  <2>1. Moved(r, "ended")
    BY <1>10, Moves DEF SInv
  <2>. SUFFICES ASSUME ~damaged' PROVE (holder' = None => OneProject') /\ Phase(r)'
    BY <1>10, <2>1, PhaseOfHolder DEF Release, Moved, Running
  <2>2. UNCHANGED <<col, hashes, pmap, damaged>>
    BY <1>10 DEF Release, storeVars
  <2>3. OneProject
    <3>1. CASE run[r].pc = "failed"
      BY <2>2, <3>1 DEF SInv, Phases, Phase, OneProject
    <3>2. CASE run[r].pc = "done"
      <4>1. Matches(r) /\ pmap = run[r].root
        BY <2>2, <3>2 DEF SInv, Phases, Phase, OneProject
      <4>2. Before(run[r].snap, run[r].root)
        BY <3>2 DEF SInv, SnapsBefore, Snapped
      <4>. QED
        BY <4>1, <4>2 DEF Matches, OneProject, Before
    <3>. QED
      BY <1>10, <3>1, <3>2 DEF Release
  <2>. QED
    BY <1>10, <2>1, <2>2, <2>3 DEF Moved, Phase, OneProject
<1>11. ASSUME NEW i \in Requests, NEW p \in Projects, NEW forced \in BOOLEAN,
             PostIndex(i, p, forced)
      PROVE  Phases'
  <2>1. Posted(i) /\ run[i].pc = "none" /\ i \in Runners
    BY <1>11, PostMoves DEF SInv, Posted, NotStarted, Runners
  <2>. QED
    BY <2>1, PhaseSame DEF Posted, Running, storeVars
<1>12. ASSUME NEW i \in Requests, StartProducer(i) PROVE Phases'
  <2>1. Moved(i, "acquire") /\ run[i].pc = "none" /\ i \in Runners
    BY <1>12, Moves DEF SInv, StartProducer, NotStarted, Runners
  <2>. QED
    BY <1>12, <2>1, PhaseSame DEF StartProducer, Moved, Running, storeVars
<1>13. ASSUME PostClear PROVE Phases'
  <2>. SUFFICES ASSUME ~damaged' PROVE Phases'
    BY DEF Phases
  <2>1. holder = None /\ hashes'.root = None /\ UNCHANGED run
    BY <1>13 DEF PostClear, NoHashes
  <2>2. \A s \in Runners : run[s].pc \notin Running
    BY <2>1, NoneAssumption DEF SInv, IInv, HolderRuns
  <2>. QED
    BY <2>1, <2>2 DEF Phases, Phase, Running, OneProject
<1>14. ASSUME NEW c \in Chats, StartRefresh(c) PROVE Phases'
  <2>1. Refreshes(c) /\ run[c].pc \notin Running /\ c \in Runners
    BY <1>14, RefreshMoves DEF SInv, Refreshes, ChatRuns, Runners
  <2>. QED
    BY <2>1, PhaseSame DEF Refreshes, Running, storeVars
<1>. QED
  BY <1>0, <1>1, <1>2, <1>3, <1>4, <1>5, <1>6, <1>7, <1>8, <1>9, <1>10, <1>11, <1>12,
     <1>13, <1>14
    DEF Next, RunStep, ChatStep, vars, storeVars, chatVars, Edit, Consume, LoseClient,
        PostRestore, PostChat, CheckFreshness, Retrieve

\* No other run is on while nothing has come to a chat.
LEMMA CalmAloneStep ==
    ASSUME SInv, [Next]_vars
    PROVE  CalmAlone'
<1>0. CASE UNCHANGED <<calm, holder, chat>>
  BY <1>0 DEF SInv, CalmAlone
<1>1. ASSUME NEW r \in Runners, Acquire(r) PROVE CalmAlone'
  <2>1. calm' = calm \cap {r} /\ holder' = r /\ UNCHANGED chat
    BY <1>1 DEF Acquire
  <2>. QED
    BY <2>1 DEF SInv, CalmAlone
<1>2. ASSUME NEW r \in Runners, Busy(r) PROVE CalmAlone'
  BY <1>2 DEF SInv, Busy, Return, CalmAlone, IInv, TypeChats, TypeSession
<1>3. ASSUME NEW r \in Runners, Release(r) PROVE CalmAlone'
  BY <1>3 DEF SInv, Release, Return, CalmAlone, IInv, TypeChats, TypeSession
<1>4. ASSUME PostClear PROVE CalmAlone'
  BY <1>4 DEF PostClear, CalmAlone
<1>5. ASSUME NEW c \in Chats, PostChat(c) PROVE CalmAlone'
  BY <1>5 DEF SInv, PostChat, CalmAlone, IInv, TypeChats, TypeSession, chatVars
<1>6. ASSUME NEW c \in Chats, CheckFreshness(c) PROVE CalmAlone'
  BY <1>6 DEF SInv, CheckFreshness, CalmAlone, IInv, TypeChats, TypeSession, chatVars
<1>7. ASSUME NEW c \in Chats, StartRefresh(c) PROVE CalmAlone'
  <2>1. Refreshes(c)
    BY <1>7, RefreshMoves DEF SInv
  <2>. QED
    BY <2>1 DEF SInv, Refreshes, CalmAlone, IInv, TypeChats, TypeSession, chatVars
<1>8. ASSUME NEW c \in Chats, Retrieve(c) PROVE CalmAlone'
  BY <1>8 DEF SInv, Retrieve, CalmAlone, IInv, TypeChats, TypeSession, chatVars
<1>. QED
  BY <1>0, <1>1, <1>2, <1>3, <1>4, <1>5, <1>6, <1>7, <1>8
    DEF Next, RunStep, ChatStep, vars, storeVars, chatVars, Edit, Begin, ClearStores,
        Store, SaveHashes, BuildMaps, Finish, Fail, PostIndex, StartProducer, Consume,
        LoseClient, PostRestore

\* What a freshness check saw is a past state of its directory.
LEMMA AimsBeforeStep ==
    ASSUME SInv, [Next]_vars
    PROVE  AimsBefore'
<1>0. CASE UNCHANGED <<aim, disk>>
  BY <1>0 DEF SInv, AimsBefore, Before
<1>1. ASSUME NEW p \in Projects, NEW f \in Files, Edit(p, f) PROVE AimsBefore'
  <2>. SUFFICES ASSUME NEW c \in Chats, aim[c].root # None
                PROVE  Before(aim[c].files, aim[c].root)'
    BY <1>1 DEF Edit, chatVars, AimsBefore
  <2>1. /\ UNCHANGED aim /\ aim[c].root \in Projects /\ aim[c].files \in Trees
        /\ Before(aim[c].files, aim[c].root)
    BY <1>1, Versions DEF SInv, IInv, TypeChats, Maybe, Edit, chatVars, AimsBefore
  <2>. QED
    BY <1>1, <2>1, BeforeKept DEF Before
<1>2. ASSUME NEW c \in Chats, CheckFreshness(c) PROVE AimsBefore'
  <2>1. hashes.root # None => hashes.root \in Projects /\ Before(disk[hashes.root], hashes.root)
    BY Versions, NoneAssumption DEF SInv, IInv, TypeStores, Maybe, DiskVersions, Before
  <2>2. \A e \in Chats \ {c} : aim'[e] = aim[e]
    BY <1>2 DEF SInv, IInv, TypeChats, CheckFreshness
  <2>3. IF hashes.root = None THEN aim'[c].root = None
        ELSE aim'[c].root = hashes.root /\ aim'[c].files = disk[hashes.root]
    BY <1>2 DEF SInv, IInv, TypeChats, CheckFreshness, NoAim
  <2>4. UNCHANGED disk
    BY <1>2 DEF CheckFreshness
  <2>. QED
    BY <2>1, <2>2, <2>3, <2>4 DEF SInv, AimsBefore, Before
<1>. QED
  BY <1>0, <1>1, <1>2
    DEF Next, RunStep, ChatStep, vars, storeVars, chatVars, Acquire, Busy, Begin,
        ClearStores, Store, SaveHashes, BuildMaps, Finish, Fail, Release, PostIndex,
        StartProducer, Consume, LoseClient, PostClear, PostRestore, PostChat,
        StartRefresh, Retrieve

\* A refresh runs over the root its check saw, and sees nothing older.
LEMMA RefreshAimsStep ==
    ASSUME SInv, [Next]_vars
    PROVE  RefreshAims'
<1>0. CASE UNCHANGED <<chat, aim, run>>
  BY <1>0 DEF SInv, RefreshAims
<1>1. ASSUME NEW r \in Runners, Acquire(r) PROVE RefreshAims'
  <2>1. Moved(r, "begin")
    BY <1>1, Moves DEF SInv
  <2>. QED
    BY <1>1, <2>1
      DEF SInv, Moved, Acquire, RefreshAims, IInv, TypeChats, TypeSession, At, Snapped,
          chatVars, Runners
<1>2. ASSUME NEW r \in Runners, Busy(r) PROVE RefreshAims'
  <2>1. Moved(r, "ended")
    BY <1>2, Moves DEF SInv
  <2>. QED
    BY <1>2, <2>1
      DEF SInv, Moved, Busy, RefreshAims, IInv, TypeChats, TypeSession, At, Snapped,
          chatVars, Runners, Return
<1>3. ASSUME NEW r \in Runners, Begin(r) PROVE RefreshAims'
  <2>1. Began(r)
    BY <1>3, BeginMoves DEF SInv
  <2>. SUFFICES ASSUME r \in Chats, chat[r] = "refreshing"
                PROVE  \A f \in Files : aim[r].files[f][2] <= disk[run[r].root][f][2]
    BY <2>1 DEF SInv, Began, RefreshAims, chatVars, Runners
  <2>2. aim[r].root = run[r].root /\ aim[r].root # None
    BY <2>1, NoneAssumption DEF SInv, RefreshAims, Began
  <2>. QED
    BY <2>2 DEF SInv, AimsBefore, Before
<1>4. ASSUME NEW r \in Runners, ClearStores(r) PROVE RefreshAims'
  <2>1. Moved(r, "store")
    BY <1>4, Moves DEF SInv
  <2>. QED
    BY <1>4, <2>1
      DEF SInv, Moved, ClearStores, RefreshAims, IInv, TypeChats, TypeSession, At,
          Snapped, chatVars, Runners
<1>5. ASSUME NEW r \in Runners, NEW f \in Files, Store(r, f) PROVE RefreshAims'
  <2>1. StoredOne(r, f)
    BY <1>5, StoreMoves DEF SInv
  <2>. QED
    BY <2>1
      DEF SInv, StoredOne, RefreshAims, IInv, TypeChats, TypeSession, At, Snapped,
          chatVars, Runners
<1>6. ASSUME NEW r \in Runners, SaveHashes(r) PROVE RefreshAims'
  <2>1. Moved(r, IF At(r, "hash") THEN "maps" ELSE "state")
    BY <1>6, Moves DEF SInv
  <2>. QED
    BY <1>6, <2>1
      DEF SInv, Moved, SaveHashes, RefreshAims, IInv, TypeChats, TypeSession, At,
          Snapped, chatVars, Runners
<1>7. ASSUME NEW r \in Runners, BuildMaps(r) PROVE RefreshAims'
  <2>1. Moved(r, "state")
    BY <1>7, Moves DEF SInv
  <2>. QED
    BY <1>7, <2>1
      DEF SInv, Moved, BuildMaps, RefreshAims, IInv, TypeChats, TypeSession, At,
          Snapped, chatVars, Runners
<1>8. ASSUME NEW r \in Runners, Finish(r) PROVE RefreshAims'
  <2>1. Moved(r, "done")
    BY <1>8, Moves DEF SInv
  <2>. QED
    BY <1>8, <2>1
      DEF SInv, Moved, Finish, RefreshAims, IInv, TypeChats, TypeSession, At, Snapped,
          chatVars, Runners
<1>9. ASSUME NEW r \in Runners, Fail(r) PROVE RefreshAims'
  <2>1. Moved(r, "failed")
    BY <1>9, Moves DEF SInv
  <2>. QED
    BY <1>9, <2>1
      DEF SInv, Moved, Fail, RefreshAims, IInv, TypeChats, TypeSession, At, Snapped,
          chatVars, Runners
<1>10. ASSUME NEW r \in Runners, Release(r) PROVE RefreshAims'
  <2>1. Moved(r, "ended")
    BY <1>10, Moves DEF SInv
  <2>. QED
    BY <1>10, <2>1
      DEF SInv, Moved, Release, RefreshAims, IInv, TypeChats, TypeSession, At, Snapped,
          chatVars, Runners, Return
<1>11. ASSUME NEW i \in Requests, NEW p \in Projects, NEW forced \in BOOLEAN,
             PostIndex(i, p, forced)
      PROVE  RefreshAims'
  <2>1. Posted(i)
    BY <1>11, PostMoves DEF SInv
  <2>. QED
    BY <2>1, RunnersAssumption
      DEF SInv, Posted, RefreshAims, IInv, TypeChats, TypeSession, At, Snapped,
          chatVars, Runners
<1>12. ASSUME NEW i \in Requests, StartProducer(i) PROVE RefreshAims'
  <2>1. Moved(i, "acquire")
    BY <1>12, Moves DEF SInv, Runners
  <2>. QED
    BY <1>12, <2>1, RunnersAssumption
      DEF SInv, Moved, StartProducer, RefreshAims, IInv, TypeChats, TypeSession, At,
          Snapped, chatVars, Runners
<1>13. ASSUME NEW c \in Chats, PostChat(c) PROVE RefreshAims'
  BY <1>13
    DEF SInv, PostChat, RefreshAims, IInv, TypeChats, TypeSession, At, Snapped,
        chatVars, Runners
<1>14. ASSUME NEW c \in Chats, CheckFreshness(c) PROVE RefreshAims'
  BY <1>14
    DEF SInv, CheckFreshness, RefreshAims, IInv, TypeChats, TypeSession, At, Snapped,
        chatVars, Runners
<1>15. ASSUME NEW c \in Chats, StartRefresh(c) PROVE RefreshAims'
  <2>1. Refreshes(c)
    BY <1>15, RefreshMoves DEF SInv
  <2>. QED
    BY <2>1, RunnersAssumption
      DEF SInv, Refreshes, RefreshAims, IInv, TypeChats, TypeSession, At, Snapped,
          chatVars, Runners
<1>16. ASSUME NEW c \in Chats, Retrieve(c) PROVE RefreshAims'
  BY <1>16
    DEF SInv, Retrieve, RefreshAims, IInv, TypeChats, TypeSession, At, Snapped,
        chatVars, Runners
<1>. QED
  BY <1>0, <1>1, <1>2, <1>3, <1>4, <1>5, <1>6, <1>7, <1>8, <1>9, <1>10, <1>11, <1>12,
     <1>13, <1>14, <1>15, <1>16
    DEF Next, RunStep, ChatStep, vars, storeVars, chatVars, Edit, Consume, LoseClient,
        PostClear, PostRestore

\* A calm chat retrieves nothing older than its check saw.
LEMMA ChatsFreshStep ==
    ASSUME SInv, [Next]_vars
    PROVE  ChatsFresh'
<1>0. CASE UNCHANGED <<calm, damaged, chat, col, aim, seen>>
  BY <1>0 DEF SInv, ChatsFresh, Fresh
<1>1. ASSUME NEW r \in Runners, Acquire(r) PROVE ChatsFresh'
  <2>1. calm' = calm \cap {r} /\ UNCHANGED <<damaged, chat, col, aim, seen>>
    BY <1>1 DEF Acquire, storeVars
  <2>. QED
    BY <2>1 DEF SInv, ChatsFresh, Fresh
<1>2. ASSUME NEW r \in Runners, Busy(r) PROVE ChatsFresh'
  BY <1>2 DEF SInv, IInv, TypeChats, TypeSession, Busy, Return, storeVars, ChatsFresh, Fresh
<1>3. ASSUME NEW r \in Runners, ClearStores(r) PROVE ChatsFresh'
  <2>1. \A c \in calm : c = r /\ c \in Chats /\ chat[c] = "refreshing"
    BY <1>3, NoneAssumption
      DEF SInv, IInv, TypeSession, HolderRuns, CalmAlone, ChatRuns, ClearStores, At, Running, Runners
  <2>. QED
    BY <1>3, <2>1 DEF ClearStores, ChatsFresh, chatVars
<1>4. ASSUME NEW r \in Runners, NEW f \in Files, Store(r, f) PROVE ChatsFresh'
  <2>1. \A c \in calm : c = r /\ c \in Chats /\ chat[c] = "refreshing"
    BY <1>4, NoneAssumption
      DEF SInv, IInv, TypeSession, HolderRuns, CalmAlone, ChatRuns, Store, At, Running, Runners
  <2>. QED
    BY <1>4, <2>1 DEF Store, ChatsFresh, chatVars
<1>5. ASSUME NEW r \in Runners, Fail(r) PROVE ChatsFresh'
  BY <1>5 DEF SInv, Fail, storeVars, chatVars, ChatsFresh, Fresh
<1>6. ASSUME NEW r \in Runners, Release(r) PROVE ChatsFresh'
  <2>1. /\ UNCHANGED <<col, aim, seen, calm, damaged>>
        /\ \A c \in Chats : chat'[c] = chat[c] \/ c = r
        /\ r \in Chats => chat'[r] = IF At(r, "done") THEN "answering" ELSE "failed"
    BY <1>6 DEF SInv, IInv, TypeChats, Release, Return, storeVars
  <2>2. ASSUME r \in calm, At(r, "done"), ~damaged, aim[r].root # None PROVE Fresh(col, r)
    <3>1. r \in Chats /\ chat[r] = "refreshing"
      BY <2>2 DEF SInv, IInv, TypeSession, ChatRuns, At, Running
    <3>2. col = run[r].snap /\ run[r].root = aim[r].root
      BY <2>2, <3>1 DEF SInv, Phases, Phase, Matches, RefreshAims, At
    <3>3. \A f \in Files : aim[r].files[f][2] <= run[r].snap[f][2]
      BY <2>2, <3>1 DEF SInv, RefreshAims, Snapped, At
    <3>4. Before(run[r].snap, run[r].root)
      BY <2>2 DEF SInv, SnapsBefore, Snapped, At
    <3>5. \A f \in Files : aim[r].files[f][2] \in Nat /\ run[r].snap[f][2] \in Nat
      BY <2>2, <3>1, <3>2, <3>4, Versions DEF SInv, AimsBefore, Before
    <3>. QED
      BY <3>2, <3>3, <3>4, <3>5 DEF Fresh, Before
  <2>. QED
    BY <2>1, <2>2 DEF SInv, ChatsFresh, Fresh, IInv, TypeSession
<1>7. ASSUME PostClear PROVE ChatsFresh'
  BY <1>7 DEF PostClear, ChatsFresh
<1>8. ASSUME NEW c \in Chats, PostChat(c) PROVE ChatsFresh'
  BY <1>8 DEF SInv, IInv, TypeChats, TypeSession, PostChat, storeVars, ChatsFresh, Fresh
<1>9. ASSUME NEW c \in Chats, CheckFreshness(c) PROVE ChatsFresh'
  <2>1. /\ UNCHANGED <<col, hashes, disk, seen, damaged>>
        /\ \A e \in Chats \ {c} : chat'[e] = chat[e] /\ aim'[e] = aim[e]
        /\ chat[c] = "accepted" /\ chat'[c] = IF Changed THEN "stale" ELSE "answering"
        /\ IF hashes.root = None THEN aim'[c].root = None
           ELSE aim'[c].root = hashes.root /\ aim'[c].files = disk[hashes.root]
        /\ calm' = IF holder = None THEN calm \cup {c} ELSE calm
    BY <1>9 DEF SInv, IInv, TypeChats, CheckFreshness, storeVars, NoAim
  <2>2. \A e \in calm' \ {c} : e \in calm /\ (~damaged =>
            /\ chat'[e] = "answering" => Fresh(col, e)'
            /\ chat'[e] = "answered" => Fresh(seen[e], e)')
    BY <2>1 DEF SInv, IInv, TypeSession, ChatsFresh, Fresh
  <2>3. ASSUME c \in calm', ~damaged, ~Changed, hashes.root # None PROVE Fresh(col, c)'
    <3>1. holder = None
      BY <2>1, <2>3 DEF SInv, CalmAlone
    <3>2. hashes.files = disk[hashes.root] /\ hashes.root \in Projects
      BY <2>3 DEF Changed, SInv, IInv, TypeStores, Maybe
    <3>3. \A f \in Files : /\ col[f] # None /\ col[f][1] = hashes.root
                           /\ col[f] = disk[hashes.root][f]
      BY <2>3, <3>1, <3>2 DEF SInv, Phases, OneProject, ChunksKnown
    <3>4. \A f \in Files : disk[hashes.root][f][2] \in Nat
      BY <3>2, Versions DEF SInv
    <3>. QED
      BY <2>1, <2>3, <3>3, <3>4 DEF Fresh
  <2>4. ~damaged /\ c \in calm' /\ chat'[c] = "answering" => Fresh(col, c)'
    BY <2>1, <2>3 DEF Fresh
  <2>. QED
    BY <2>1, <2>2, <2>4 DEF ChatsFresh
<1>10. ASSUME NEW c \in Chats, StartRefresh(c) PROVE ChatsFresh'
  BY <1>10 DEF SInv, IInv, TypeChats, TypeSession, StartRefresh, storeVars, ChatsFresh, Fresh
<1>11. ASSUME NEW c \in Chats, Retrieve(c) PROVE ChatsFresh'
  <2>1. /\ UNCHANGED <<col, aim, calm, damaged>> /\ chat[c] = "answering" /\ seen'[c] = col
        /\ chat'[c] = "answered"
        /\ \A e \in Chats \ {c} : chat'[e] = chat[e] /\ seen'[e] = seen[e]
    BY <1>11 DEF SInv, IInv, TypeChats, Retrieve, storeVars
  <2>. QED
    BY <2>1 DEF SInv, IInv, TypeSession, ChatsFresh, Fresh
<1>. QED
  BY <1>0, <1>1, <1>2, <1>3, <1>4, <1>5, <1>6, <1>7, <1>8, <1>9, <1>10, <1>11
    DEF Next, RunStep, ChatStep, vars, storeVars, chatVars, Edit, Begin, SaveHashes,
        BuildMaps, Finish, PostIndex, StartProducer, Consume, LoseClient, PostRestore

\* No "done" waits in a queue unless one was put there.
NoDone(q) == \A n \in 1..Len(q) : q[n] # "done"

LEMMA PutNoDone ==
    ASSUME IInv, NEW r, NEW es \in Seq(Events), NoDone(es), Put(r, es),
           NEW i \in Requests, NoDone(queue[i])
    PROVE  NoDone(queue'[i])
<1>1. queue[i] \in Seq(Events) /\ queue \in [Requests -> Seq(Events)]
  BY DEF IInv, TypeQueue
<1>2. NoDone(queue[i] \o es)
  BY <1>1, ConcatProperties DEF NoDone
<1>3. queue'[i] = queue[i] \/ queue'[i] = queue[i] \o es
  BY <1>1 DEF Put
<1>. QED
  BY <1>2, <1>3

\* Nothing looks indexed before the hash store names a project.
LEMMA NothingBeforeStep ==
    ASSUME SInv, [Next]_vars
    PROVE  NothingBefore'
<1>0. CASE UNCHANGED <<clears, hashes, active, pmap, run, queue>>
  BY <1>0 DEF SInv, NothingBefore
<1>1. ASSUME NEW r \in Runners, Acquire(r) PROVE NothingBefore'
  <2>1. Moved(r, "begin")
    BY <1>1, Moves DEF SInv
  <2>. QED
    BY <1>1, <2>1 DEF SInv, Moved, Acquire, NothingBefore, storeVars
<1>2. ASSUME NEW r \in Runners, Busy(r) PROVE NothingBefore'
  <2>1. Moved(r, "ended")
    BY <1>2, Moves DEF SInv
  <2>2. <<"busy", "end">> \in Seq(Events) /\ NoDone(<<"busy", "end">>) /\ Put(r, <<"busy", "end">>)
    BY <1>2 DEF Events, NoDone, Busy
  <2>3. \A i \in Requests : NoDone(queue[i]) => NoDone(queue'[i])
    BY <2>2, PutNoDone DEF SInv
  <2>. QED
    BY <1>2, <2>1, <2>3 DEF SInv, NothingBefore, NoDone, Moved, Busy, storeVars
<1>3. ASSUME NEW r \in Runners, Begin(r) PROVE NothingBefore'
  <2>1. Began(r) /\ UNCHANGED <<clears, hashes, active, pmap, queue>>
    BY <1>3, BeginMoves DEF SInv, Begin, storeVars
  <2>. QED
    BY <2>1 DEF SInv, NothingBefore, Began
<1>4. ASSUME NEW r \in Runners, ClearStores(r) PROVE NothingBefore'
  <2>1. Moved(r, "store")
    BY <1>4, Moves DEF SInv
  <2>. QED
    BY <1>4, <2>1 DEF SInv, Moved, ClearStores, NothingBefore, storeVars
<1>5. ASSUME NEW r \in Runners, NEW f \in Files, Store(r, f) PROVE NothingBefore'
  <2>1. StoredOne(r, f) /\ UNCHANGED <<clears, hashes, active, pmap, queue>>
    BY <1>5, StoreMoves DEF SInv, Store
  <2>. QED
    BY <2>1 DEF SInv, NothingBefore, StoredOne
<1>6. ASSUME NEW r \in Runners, SaveHashes(r) PROVE NothingBefore'
  <2>1. hashes'.root # None
    BY <1>6, NoneAssumption DEF SInv, IInv, RootsKnown, SaveHashes
  <2>. QED
    BY <2>1 DEF NothingBefore
<1>7. ASSUME NEW r \in Runners, BuildMaps(r) PROVE NothingBefore'
  <2>1. hashes' = hashes /\ clears' = clears
    BY <1>7 DEF BuildMaps
  <2>2. ~(clears = 0 /\ hashes.root = None)
    BY <1>7 DEF SInv, NothingBefore, BuildMaps, At
  <2>. QED
    BY <2>1, <2>2 DEF NothingBefore
<1>8. ASSUME NEW r \in Runners, Finish(r) PROVE NothingBefore'
  <2>1. hashes' = hashes /\ clears' = clears
    BY <1>8 DEF Finish
  <2>2. ~(clears = 0 /\ hashes.root = None)
    BY <1>8 DEF SInv, NothingBefore, Finish, At
  <2>. QED
    BY <2>1, <2>2 DEF NothingBefore
<1>9. ASSUME NEW r \in Runners, Fail(r) PROVE NothingBefore'
  <2>1. Moved(r, "failed")
    BY <1>9, Moves DEF SInv
  <2>2. <<"error">> \in Seq(Events) /\ NoDone(<<"error">>) /\ Put(r, <<"error">>)
    BY <1>9 DEF Events, NoDone, Fail
  <2>3. \A i \in Requests : NoDone(queue[i]) => NoDone(queue'[i])
    BY <2>2, PutNoDone DEF SInv
  <2>. QED
    BY <1>9, <2>1, <2>3 DEF SInv, NothingBefore, NoDone, Moved, Fail, storeVars
<1>10. ASSUME NEW r \in Runners, Release(r) PROVE NothingBefore'
  <2>1. Moved(r, "ended")
    BY <1>10, Moves DEF SInv
  <2>2. <<"end">> \in Seq(Events) /\ NoDone(<<"end">>) /\ Put(r, <<"end">>)
    BY <1>10 DEF Events, NoDone, Release
  <2>3. \A i \in Requests : NoDone(queue[i]) => NoDone(queue'[i])
    BY <2>2, PutNoDone DEF SInv
  <2>. QED
    BY <1>10, <2>1, <2>3 DEF SInv, NothingBefore, NoDone, Moved, Release, storeVars
<1>11. ASSUME NEW i \in Requests, NEW p \in Projects, NEW forced \in BOOLEAN,
             PostIndex(i, p, forced)
      PROVE  NothingBefore'
  <2>1. /\ Posted(i) /\ active' = FALSE /\ UNCHANGED <<clears, hashes, pmap, queue>>
        /\ i \in Runners
    BY <1>11, PostMoves DEF SInv, PostIndex, storeVars, Runners
  <2>. QED
    BY <2>1 DEF SInv, NothingBefore, Posted
<1>12. ASSUME NEW i \in Requests, StartProducer(i) PROVE NothingBefore'
  <2>1. Moved(i, "acquire")
    BY <1>12, Moves DEF SInv, Runners
  <2>. QED
    BY <1>12, <2>1 DEF SInv, Moved, StartProducer, NothingBefore, storeVars, Runners
<1>13. ASSUME NEW i \in Requests, Consume(i) PROVE NothingBefore'
  <2>1. /\ queue[i] \in Seq(Events) /\ queue[i] # <<>> /\ queue \in [Requests -> Seq(Events)]
        /\ queue' = [queue EXCEPT ![i] = Tail(queue[i])]
        /\ active' = (active \/ Head(queue[i]) = "done")
        /\ UNCHANGED <<clears, hashes, pmap, run>>
    BY <1>13 DEF SInv, IInv, TypeQueue, Consume, storeVars
  <2>2. Head(queue[i]) = queue[i][1] /\ 1 \in 1..Len(queue[i])
    BY <2>1
  <2>3. NoDone(queue[i]) => NoDone(Tail(queue[i]))
    BY <2>1, HeadTailProperties DEF NoDone
  <2>. QED
    BY <2>1, <2>2, <2>3 DEF SInv, NothingBefore, NoDone
<1>14. ASSUME PostClear PROVE NothingBefore'
  <2>1. clears' # 0
    BY <1>14, BoundsAssumption DEF SInv, IInv, TypeSession, PostClear
  <2>. QED
    BY <2>1 DEF NothingBefore
<1>15. ASSUME PostRestore PROVE NothingBefore'
  BY <1>15 DEF SInv, PostRestore, NothingBefore, storeVars
<1>16. ASSUME NEW c \in Chats, StartRefresh(c) PROVE NothingBefore'
  <2>1. /\ Refreshes(c) /\ UNCHANGED <<clears, hashes, active, pmap, queue>>
        /\ c \in Runners
    BY <1>16, RefreshMoves DEF SInv, StartRefresh, storeVars, Runners
  <2>. QED
    BY <2>1 DEF SInv, NothingBefore, Refreshes
<1>. QED
  BY <1>0, <1>1, <1>2, <1>3, <1>4, <1>5, <1>6, <1>7, <1>8, <1>9, <1>10, <1>11, <1>12,
     <1>13, <1>14, <1>15, <1>16
    DEF Next, RunStep, ChatStep, vars, storeVars, chatVars, Edit, LoseClient, PostChat,
        CheckFreshness, Retrieve

-----------------------------------------------------------------------------
\* The invariant of the stores holds when the server starts.
LEMMA StoresInit == Init => SInv
<1>. SUFFICES ASSUME Init PROVE SInv
  OBVIOUS
<1>1. IInv
  BY InitStrong
<1>2. DiskVersions
  BY BoundsAssumption DEF Init, DiskVersions
<1>3. HolderHolds /\ NotStarted /\ ChatRuns /\ SnapsBefore /\ SnapsNewer /\ ClearsAll
  BY DEF Init, HolderHolds, NotStarted, ChatRuns, SnapsBefore, SnapsNewer, ClearsAll, NoRun,
     Runners, Snapped, Running
<1>4. HashesBefore /\ ChunksKnown
  BY DEF Init, HashesBefore, ChunksKnown, NoHashes
<1>5. Phases
  BY DEF Init, Phases, Phase, OneProject, NoHashes, NoRun
<1>6. CalmAlone /\ AimsBefore /\ RefreshAims /\ ChatsFresh
  BY DEF Init, CalmAlone, AimsBefore, RefreshAims, ChatsFresh, NoAim
<1>7. NothingBefore
  BY DEF Init, NothingBefore, NoRun
<1>. QED
  BY <1>1, <1>2, <1>3, <1>4, <1>5, <1>6, <1>7 DEF SInv

\* Every step of the server keeps it.
LEMMA StoresStep == SInv /\ [Next]_vars => SInv'
<1>. SUFFICES ASSUME SInv, [Next]_vars PROVE SInv'
  OBVIOUS
<1>1. IInv'
  BY StepStrong DEF SInv
<1>. QED
  BY <1>1, DiskStep, HolderStep, NotStartedStep, ChatRunsStep, HashesBeforeStep,
     SnapsBeforeStep, SnapsNewerStep, ClearsAllStep, ChunksKnownStep, PhasesStep,
     CalmAloneStep, AimsBeforeStep, RefreshAimsStep, ChatsFreshStep, NothingBeforeStep
    DEF SInv

\* So it holds in every reachable state.
LEMMA AlwaysStores == Spec => []SInv
<1>. QED
  BY StoresInit, StoresStep, PTL DEF Spec

-----------------------------------------------------------------------------
\* When a run reports "done", the collection and the hash store are exactly its
\* snapshot and the map is its project's (_run_index_stream and the order in
\* which index_codebase_stream writes), for any number of requests and chats.
THEOREM DoneIsWhole == Spec => []DoneMeansWhole
<1>1. SInv => DoneMeansWhole
  BY DEF SInv, Phases, Phase, Matches, DoneMeansWhole, At
<1>. QED
  BY <1>1, AlwaysStores, PTL

\* A chat that no other run and no clear came to since its freshness check
\* retrieves, for every file, what the directory had at the check or newer.
THEOREM ChatsReadFresh == Spec => []AnswersAreFresh
<1>1. SInv => AnswersAreFresh
  BY DEF SInv, ChatsFresh, Fresh, AnswersAreFresh
<1>. QED
  BY <1>1, AlwaysStores, PTL

\* An active session has chunks and a map while nothing runs, as long as no
\* clear and no torn index came (_active_index_session).
THEOREM SessionHasIndex == Spec => []ActiveSessionHasIndex
<1>1. SInv => ActiveSessionHasIndex
  <2>. SUFFICES ASSUME SInv, active, holder = None, ~damaged, clears = 0
                PROVE  col # NoTree /\ pmap # None
    BY DEF ActiveSessionHasIndex
  <2>1. hashes.root # None /\ OneProject
    BY DEF SInv, NothingBefore, Phases
  <2>2. PICK f \in Files : TRUE
    BY FilesAssumption
  <2>. QED
    BY <2>1, <2>2 DEF OneProject, NoTree
<1>. QED
  BY <1>1, AlwaysStores, PTL

=============================================================================
