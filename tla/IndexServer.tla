---------------------------- MODULE IndexServer ----------------------------
(* The session server.py keeps around the indexing pipeline: the run lock,   *)
(* the active-session flag, one producer thread and one queue per /v1/index  *)
(* request, clear and restore, and chats that refresh the index before they  *)
(* answer.                                                                   *)
(*                                                                           *)
(* The handlers run on one event loop, so a handler is atomic up to its next *)
(* await or yield.  A refresh is driven on that loop and blocks it; producer *)
(* threads and the thread pool run beside it.                                *)
(*                                                                           *)
(* The pipeline is reduced to what the server can see of it (its own module  *)
(* is IndexPipeline): a run snapshots the directory, stores file by file,    *)
(* then writes the hash store, then the project map and the state file.      *)
EXTENDS Naturals, Sequences

CONSTANTS
    Projects,   \* directories a user may index
    Files,      \* relative paths of their source files
    Requests,   \* POST /v1/index requests, each sent at most once
    Chats,      \* POST /v1/chat/completions requests, likewise
    None,       \* no project, no runner, no stored content
    MaxEdits,   \* bound: edits of the directories
    MaxFaults,  \* bound: runs that fail
    MaxClears   \* bound: POST /v1/index/clear requests

Runners == Requests \cup Chats
Maybe(S) == S \cup {None}
Content == Projects \X (0..MaxEdits)
Trees == [Files -> Maybe(Content)]

ASSUME BoundsAssumption == MaxEdits \in Nat /\ MaxFaults \in Nat /\ MaxClears \in Nat
ASSUME RunnersAssumption == Requests \cap Chats = {}
\* A project has source files: without any, a run ends in an error and stores nothing.
ASSUME FilesAssumption == Files # {}
ASSUME NoneAssumption == None \notin Runners /\ None \notin Projects /\ None \notin Content

VARIABLES
    disk,     \* disk[p][f]: the content of f under project p
    clock,    \* number of edits
    col,      \* col[f]: the content whose chunks the collection has
    hashes,   \* the hash store: root and digests
    pmap,     \* the project the project map describes
    stored,   \* the root index_state.json names
    holder,   \* who holds _index_run_lock
    run,      \* the run of each runner: where it is, its root and snapshot
    queue,    \* q of each index request
    client,   \* the streamed response of each index request
    active,   \* _active_index_session
    chat,     \* where each chat is
    aim,      \* aim[c]: the root its freshness check saw, and the directory
    seen,     \* seen[c]: the collection its retrieval read
    loop,     \* the chat whose refresh occupies the event loop
    damaged,  \* history: a run was cleared under, or failed and left a torn index
    calm,     \* history: chats no other run nor clear came to since they checked
    faults, clears

storeVars == <<col, hashes, pmap, stored>>
chatVars == <<chat, aim, seen, calm>>
vars == <<disk, clock, storeVars, holder, run, queue, client, active, chatVars,
          loop, damaged, faults, clears>>

NoTree == [f \in Files |-> None]
NoHashes == [root |-> None, files |-> NoTree]
NoRun == [pc |-> "none", root |-> None, snap |-> NoTree, todo |-> {}, forced |-> FALSE]
NoAim == [root |-> None, files |-> NoTree]

\* The places of a run at which the lock is held.
Running == {"begin", "clear", "store", "reuse", "hash", "maps", "state", "done", "failed"}

Init ==
    /\ disk = [p \in Projects |-> [f \in Files |-> <<p, 0>>]]
    /\ clock = 0
    /\ col = NoTree /\ hashes = NoHashes /\ pmap = None /\ stored = None
    /\ holder = None
    /\ run = [r \in Runners |-> NoRun]
    /\ queue = [i \in Requests |-> <<>>]
    /\ client = [i \in Requests |-> "unsent"]
    /\ active = FALSE
    /\ chat = [c \in Chats |-> "unsent"]
    /\ aim = [c \in Chats |-> NoAim]
    /\ seen = [c \in Chats |-> NoTree]
    /\ loop = None
    /\ damaged = FALSE /\ calm = {}
    /\ faults = 0 /\ clears = 0

Edit(p, f) ==
    /\ clock < MaxEdits
    /\ clock' = clock + 1
    /\ disk' = [disk EXCEPT ![p][f] = <<p, clock + 1>>]
    /\ UNCHANGED <<storeVars, holder, run, queue, client, active, chatVars, loop,
                   damaged, faults, clears>>

-----------------------------------------------------------------------------
\* _run_index_stream, on the thread of runner r.

At(r, place) == run[r].pc = place
Goto(r, place) == run' = [run EXCEPT ![r].pc = place]
Put(r, events) ==
    queue' = IF r \in Requests THEN [queue EXCEPT ![r] = @ \o events] ELSE queue

\* A chat's refresh returns: the loop is free again.
Return(r, ok) ==
    IF r \in Chats
    THEN /\ chat' = [chat EXCEPT ![r] = IF ok THEN "answering" ELSE "failed"]
         /\ loop' = None
    ELSE UNCHANGED <<chat, loop>>

\* fault: the result of acquire(blocking=False) is ignored
AcquireAlways(r) ==
    /\ At(r, "acquire")
    /\ holder' = r
    /\ Goto(r, "begin")
    /\ calm' = calm \cap {r}
    /\ UNCHANGED <<disk, clock, storeVars, queue, client, active, chat, aim, seen, loop,
                   damaged, faults, clears>>

Acquire(r) ==
    /\ At(r, "acquire") /\ holder = None
    /\ holder' = r
    /\ Goto(r, "begin")
    /\ calm' = calm \cap {r}
    /\ UNCHANGED <<disk, clock, storeVars, queue, client, active, chat, aim, seen, loop,
                   damaged, faults, clears>>

\* "Index already in progress": the caller is told that the run failed.
Busy(r) ==
    /\ At(r, "acquire") /\ holder # None
    /\ Goto(r, "ended")
    /\ Put(r, <<"busy", "end">>)
    /\ Return(r, FALSE)
    /\ UNCHANGED <<disk, clock, storeVars, holder, client, active, aim, seen, calm,
                   damaged, faults, clears>>

\* fault: the same root is enough to reuse everything
BeginReusing(r) ==
    LET root == run[r].root
        snap == disk[root]
        new  == {f \in Files : hashes.files[f] # snap[f]}
        enter(place, todo) ==
            run' = [run EXCEPT ![r].pc = place, ![r].snap = snap, ![r].todo = todo]
    IN /\ At(r, "begin")
       /\ \/ enter("clear", Files) /\ (run[r].forced \/ stored # root \/ new # {})
          \/ enter("store", new) /\ ~run[r].forced /\ stored = root /\ new # {}
          \/ enter("reuse", {}) /\ ~run[r].forced /\ stored = root
       /\ UNCHANGED <<disk, clock, storeVars, holder, queue, client, active, chatVars,
                      loop, damaged, faults, clears>>

\* Collect, hash and decide.  A changed directory may mean a full rebuild (a
\* file was removed) or an incremental one.
Begin(r) ==
    LET root == run[r].root
        snap == disk[root]
        new  == {f \in Files : hashes.files[f] # snap[f]}
        enter(place, todo) ==
            run' = [run EXCEPT ![r].pc = place, ![r].snap = snap, ![r].todo = todo]
    IN /\ At(r, "begin")
       /\ \/ enter("clear", Files) /\ (run[r].forced \/ stored # root \/ new # {})
          \/ enter("store", new) /\ ~run[r].forced /\ stored = root /\ new # {}
          \/ enter("reuse", {}) /\ ~run[r].forced /\ stored = root /\ new = {}
       /\ UNCHANGED <<disk, clock, storeVars, holder, queue, client, active, chatVars,
                      loop, damaged, faults, clears>>

\* delete_collection and the unlinks that follow it.
ClearStores(r) ==
    /\ At(r, "clear")
    /\ col' = NoTree /\ pmap' = None
    /\ damaged' = FALSE
    /\ Goto(r, "store")
    /\ UNCHANGED <<disk, clock, hashes, stored, holder, queue, client, active, chatVars,
                   loop, faults, clears>>

Store(r, f) ==
    /\ At(r, "store") /\ f \in run[r].todo
    /\ col' = [col EXCEPT ![f] = run[r].snap[f]]
    /\ run' = [run EXCEPT ![r].todo = @ \ {f},
                          ![r].pc = IF run[r].todo = {f} THEN "hash" ELSE "store"]
    /\ UNCHANGED <<disk, clock, hashes, pmap, stored, holder, queue, client, active,
                   chatVars, loop, damaged, faults, clears>>

\* fault: the __root__ entry is forgotten
SaveHashesRootless(r) ==
    /\ run[r].pc \in {"hash", "reuse"}
    /\ hashes' = [files |-> run[r].snap]
    /\ Goto(r, IF At(r, "hash") THEN "maps" ELSE "state")
    /\ UNCHANGED <<disk, clock, col, pmap, stored, holder, queue, client, active,
                   chatVars, loop, damaged, faults, clears>>

\* A run that reuses everything writes the hash store too, but no map.
SaveHashes(r) ==
    /\ run[r].pc \in {"hash", "reuse"}
    /\ hashes' = [root |-> run[r].root, files |-> run[r].snap]
    /\ Goto(r, IF At(r, "hash") THEN "maps" ELSE "state")
    /\ UNCHANGED <<disk, clock, col, pmap, stored, holder, queue, client, active,
                   chatVars, loop, damaged, faults, clears>>

BuildMaps(r) ==
    /\ At(r, "maps")
    /\ pmap' = run[r].root
    /\ Goto(r, "state")
    /\ UNCHANGED <<disk, clock, col, hashes, stored, holder, queue, client, active,
                   chatVars, loop, damaged, faults, clears>>

\* The state file, then the "done" event.
Finish(r) ==
    /\ At(r, "state")
    /\ stored' = run[r].root
    /\ Put(r, <<"done">>)
    /\ Goto(r, "done")
    /\ UNCHANGED <<disk, clock, col, hashes, pmap, holder, client, active, chatVars, loop,
                   damaged, faults, clears>>

\* The hash store names a project whose chunks or map are gone or another's.
Torn ==
    /\ hashes.root # None
    /\ \/ pmap # hashes.root
       \/ \E f \in Files : col[f] \notin {hashes.root} \X (0..MaxEdits)

\* An error event, or an exception turned into one; what was written stays.
Fail(r) ==
    /\ run[r].pc \in Running \ {"done", "failed"} /\ faults < MaxFaults
    /\ faults' = faults + 1
    /\ damaged' = (damaged \/ Torn)
    /\ Put(r, <<"error">>)
    /\ Goto(r, "failed")
    /\ UNCHANGED <<disk, clock, storeVars, holder, client, active, chatVars, loop, clears>>

\* fault: the lock is released on success only
ReleaseIfDone(r) ==
    /\ run[r].pc \in {"done", "failed"}
    /\ holder' = IF At(r, "done") THEN None ELSE holder
    /\ Goto(r, "ended")
    /\ Put(r, <<"end">>)
    /\ Return(r, At(r, "done"))
    /\ UNCHANGED <<disk, clock, storeVars, client, active, aim, seen, calm, damaged,
                   faults, clears>>

\* fault: the end marker follows a done only
ReleaseWithoutEnd(r) ==
    /\ run[r].pc \in {"done", "failed"}
    /\ holder' = None
    /\ Goto(r, "ended")
    /\ Put(r, IF At(r, "done") THEN <<"end">> ELSE <<>>)
    /\ Return(r, At(r, "done"))
    /\ UNCHANGED <<disk, clock, storeVars, client, active, aim, seen, calm, damaged,
                   faults, clears>>

Release(r) ==
    /\ run[r].pc \in {"done", "failed"}
    /\ holder' = None
    /\ Goto(r, "ended")
    /\ Put(r, <<"end">>)
    /\ Return(r, At(r, "done"))
    /\ UNCHANGED <<disk, clock, storeVars, client, active, aim, seen, calm, damaged,
                   faults, clears>>

RunStep(r) ==
    \/ Acquire(r) \/ Busy(r) \/ Begin(r) \/ ClearStores(r)
    \/ \E f \in Files : Store(r, f)
    \/ SaveHashes(r) \/ BuildMaps(r) \/ Finish(r) \/ Fail(r) \/ Release(r)

-----------------------------------------------------------------------------
\* The event loop.  No handler runs while a refresh occupies it.

LoopFree == loop = None

\* POST /v1/index ends the session before anything else; its producer thread
\* starts when the response is first iterated.
PostIndex(i, p, forced) ==
    /\ LoopFree /\ client[i] = "unsent"
    /\ active' = FALSE
    /\ client' = [client EXCEPT ![i] = "accepted"]
    /\ run' = [run EXCEPT ![i].root = p, ![i].forced = forced]
    /\ UNCHANGED <<disk, clock, storeVars, holder, queue, chatVars, loop, damaged,
                   faults, clears>>

StartProducer(i) ==
    /\ LoopFree /\ client[i] = "accepted"
    /\ client' = [client EXCEPT ![i] = "open"]
    /\ Goto(i, "acquire")
    /\ UNCHANGED <<disk, clock, storeVars, holder, queue, active, chatVars, loop, damaged,
                   faults, clears>>

\* fault: any event activates the session
ConsumeAny(i) ==
    /\ LoopFree /\ client[i] = "open" /\ queue[i] # <<>>
    /\ queue' = [queue EXCEPT ![i] = Tail(@)]
    /\ active' = TRUE
    /\ client' = IF Head(queue[i]) = "end" THEN [client EXCEPT ![i] = "ended"] ELSE client
    /\ UNCHANGED <<disk, clock, storeVars, holder, run, chatVars, loop, damaged, faults,
                   clears>>

\* The reader of the queue: "done" makes the session active.
Consume(i) ==
    /\ LoopFree /\ client[i] = "open" /\ queue[i] # <<>>
    /\ queue' = [queue EXCEPT ![i] = Tail(@)]
    /\ active' = (active \/ Head(queue[i]) = "done")
    /\ client' = IF Head(queue[i]) = "end" THEN [client EXCEPT ![i] = "ended"] ELSE client
    /\ UNCHANGED <<disk, clock, storeVars, holder, run, chatVars, loop, damaged, faults,
                   clears>>

\* The client went away, or no event came for 300 seconds: the producer goes on
\* and nobody reads its queue.
LoseClient(i) ==
    /\ LoopFree /\ client[i] \in {"accepted", "open"}
    /\ client' = [client EXCEPT ![i] = "gone"]
    /\ UNCHANGED <<disk, clock, storeVars, holder, run, queue, active, chatVars, loop,
                   damaged, faults, clears>>

\* POST /v1/index/clear asks neither the lock nor the session.
PostClear ==
    /\ LoopFree /\ clears < MaxClears
    /\ clears' = clears + 1
    /\ col' = NoTree /\ hashes' = NoHashes /\ pmap' = None /\ stored' = None
    /\ active' = FALSE
    /\ damaged' = (holder # None)
    /\ calm' = {}
    /\ UNCHANGED <<disk, clock, holder, run, queue, client, chat, aim, seen, loop, faults>>

\* POST /v1/index/restore: a project map and at least one chunk.
PostRestore ==
    /\ LoopFree
    /\ active' = (pmap # None /\ col # NoTree)
    /\ UNCHANGED <<disk, clock, storeVars, holder, run, queue, client, chatVars, loop,
                   damaged, faults, clears>>

\* 409 without an active session; the streamed answer starts later.
PostChat(c) ==
    /\ LoopFree /\ chat[c] = "unsent"
    /\ chat' = [chat EXCEPT ![c] = IF active THEN "accepted" ELSE "rejected"]
    /\ UNCHANGED <<disk, clock, storeVars, holder, run, queue, client, active, aim, seen,
                   calm, loop, damaged, faults, clears>>

Changed == hashes.root # None /\ disk[hashes.root] # hashes.files

\* fault: the index is taken to be fresh
CheckNothing(c) ==
    /\ LoopFree /\ chat[c] = "accepted"
    /\ aim' = [aim EXCEPT ![c] = IF hashes.root = None THEN NoAim
                ELSE [root |-> hashes.root, files |-> disk[hashes.root]]]
    /\ chat' = [chat EXCEPT ![c] = "answering"]
    /\ calm' = IF holder = None THEN calm \cup {c} ELSE calm
    /\ UNCHANGED <<disk, clock, storeVars, holder, run, queue, client, active, seen, loop,
                   damaged, faults, clears>>

\* _index_freshness_payload, then the notice that is streamed before a refresh.
CheckFreshness(c) ==
    /\ LoopFree /\ chat[c] = "accepted"
    /\ aim' = [aim EXCEPT ![c] = IF hashes.root = None THEN NoAim
                ELSE [root |-> hashes.root, files |-> disk[hashes.root]]]
    /\ chat' = [chat EXCEPT ![c] = IF Changed THEN "stale" ELSE "answering"]
    /\ calm' = IF holder = None THEN calm \cup {c} ELSE calm
    /\ UNCHANGED <<disk, clock, storeVars, holder, run, queue, client, active, seen, loop,
                   damaged, faults, clears>>

\* The refresh runs the pipeline on the loop, over the root seen by the check.
StartRefresh(c) ==
    /\ LoopFree /\ chat[c] = "stale"
    /\ loop' = c
    /\ chat' = [chat EXCEPT ![c] = "refreshing"]
    /\ run' = [run EXCEPT ![c].pc = "acquire", ![c].root = aim[c].root]
    /\ UNCHANGED <<disk, clock, storeVars, holder, queue, client, active, aim, seen, calm,
                   damaged, faults, clears>>

\* Retrieval reads the collection, on a pool thread when files were planned.
Retrieve(c) ==
    /\ chat[c] = "answering"
    /\ seen' = [seen EXCEPT ![c] = col]
    /\ chat' = [chat EXCEPT ![c] = "answered"]
    /\ UNCHANGED <<disk, clock, storeVars, holder, run, queue, client, active, aim, calm,
                   loop, damaged, faults, clears>>

ChatStep(c) == CheckFreshness(c) \/ StartRefresh(c) \/ Retrieve(c)

Next ==
    \/ \E p \in Projects, f \in Files : Edit(p, f)
    \/ \E r \in Runners : RunStep(r)
    \/ \E i \in Requests, p \in Projects, forced \in BOOLEAN : PostIndex(i, p, forced)
    \/ \E i \in Requests : StartProducer(i) \/ Consume(i) \/ LoseClient(i)
    \/ PostClear \/ PostRestore
    \/ \E c \in Chats : PostChat(c) \/ ChatStep(c)

Spec == Init /\ [][Next]_vars

\* Threads are scheduled, and the loop runs every task that is ready.
FairSpec ==
    /\ Spec
    /\ \A r \in Runners : WF_vars(RunStep(r))
    /\ \A i \in Requests : SF_vars(StartProducer(i)) /\ SF_vars(Consume(i))
    /\ \A c \in Chats : SF_vars(ChatStep(c))

-----------------------------------------------------------------------------
\* Every variable has its type (the server's globals and the stores).
TypeOK ==
    /\ disk \in [Projects -> [Files -> Content]] /\ clock \in 0..MaxEdits
    /\ col \in Trees
    /\ hashes \in [root: Maybe(Projects), files: Trees]
    /\ pmap \in Maybe(Projects) /\ stored \in Maybe(Projects)
    /\ holder \in Maybe(Runners)
    /\ run \in [Runners -> [pc: {"none", "acquire", "ended"} \cup Running,
                            root: Maybe(Projects), snap: Trees,
                            todo: SUBSET Files, forced: BOOLEAN]]
    /\ queue \in [Requests -> Seq({"busy", "error", "done", "end"})]
    /\ client \in [Requests -> {"unsent", "accepted", "open", "ended", "gone"}]
    /\ active \in BOOLEAN
    /\ chat \in [Chats -> {"unsent", "rejected", "accepted", "stale", "refreshing",
                           "answering", "answered", "failed"}]
    /\ aim \in [Chats -> [root: Maybe(Projects), files: Trees]]
    /\ seen \in [Chats -> Trees]
    /\ loop \in Maybe(Chats)
    /\ damaged \in BOOLEAN /\ calm \subseteq Chats
    /\ faults \in 0..MaxFaults /\ clears \in 0..MaxClears

\* At most one run is between acquire and release of _index_run_lock, whoever
\* drives it: producer threads and the refresh of a chat.
OneRunAtATime ==
    \A r, s \in Runners : run[r].pc \in Running /\ run[s].pc \in Running => r = s

\* When a run reports "done", the collection and the hash store are exactly its
\* snapshot and the project map is its project's, whatever ran, failed or was
\* cleared before it.
DoneMeansWhole ==
    \A r \in Runners : At(r, "done") /\ ~damaged =>
        /\ col = run[r].snap /\ hashes = [root |-> run[r].root, files |-> run[r].snap]
        /\ pmap = run[r].root

\* A chat between whose freshness check and retrieval no other run and no clear
\* came reads, for every file, what the directory had at the check or newer.
AnswersAreFresh ==
    \A c \in calm : chat[c] = "answered" /\ ~damaged /\ aim[c].root # None =>
        \A f \in Files : /\ seen[c][f] # None /\ seen[c][f][1] = aim[c].root
                         /\ seen[c][f][2] >= aim[c].files[f][2]

\* A session is made active only over an index: while nothing runs, an active
\* session has chunks and a map, unless they were cleared or torn.
ActiveSessionHasIndex ==
    active /\ holder = None /\ ~damaged /\ clears = 0 => col # NoTree /\ pmap # None

\* Every run gives the lock back, so that indexing and refreshing stay possible.
LockIsFreed == []<>(holder = None)

\* Every stream ends: an index request whose client stays gets the end of its
\* stream, and an accepted chat is answered or told that the refresh failed.
StreamsEnd ==
    /\ \A i \in Requests : client[i] = "open" ~> client[i] \in {"ended", "gone"}
    /\ \A c \in Chats : chat[c] = "accepted" ~> chat[c] \in {"answered", "failed"}

=============================================================================
