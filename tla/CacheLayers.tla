---------------------------- MODULE CacheLayers ----------------------------
(* The cached layers of andes_cache/manager.py that hold what was retrieved  *)
(* from the collection and what was answered with it, keyed by repository    *)
(* fingerprint, against index runs that replace the collection and move the  *)
(* fingerprint, and questions that use both without any lock.                *)
(*                                                                           *)
(* A fingerprint is a project and the version of its directory.  What the    *)
(* collection holds is a fingerprint too (the chunks of that directory), or  *)
(* Empty, or Partial: something between.  Versions differ in the text of     *)
(* files, not in their number of chunks (IndexPipeline has the leftovers),   *)
(* and the integrity check finds nothing to repair.  All questions have the  *)
(* same text, of the descriptive kind whose answers are kept, so that they   *)
(* share their keys.                                                         *)
EXTENDS Naturals

CONSTANTS
    Roots,      \* projects
    Versions,   \* contents a project's directory may have
    First,      \* the content it has at first
    Questions,  \* chats, each of one question
    Empty, Partial, None,
    MaxEdits,   \* bound: edits of the directories
    MaxFaults   \* bound: failed runs, restarts and clears

Fingerprints == Roots \X Versions
Held == Fingerprints \cup {Empty, Partial}
Maybe(S) == S \cup {None}

ASSUME FirstAssumption == First \in Versions
ASSUME NoneAssumption == None \notin Held /\ None \notin Roots
ASSUME EmptyAssumption == Empty \notin Fingerprints /\ Partial \notin Fingerprints
ASSUME BoundsAssumption == MaxEdits \in Nat /\ MaxFaults \in Nat

VARIABLES
    disk,     \* disk[r]: the version of project r's directory
    col,      \* what the collection holds
    saved,    \* __fingerprint__ of the hash store
    memory,   \* CURRENT_REPO_FINGERPRINT
    stored,   \* the root index_state.json names
    run,      \* the index run (one at a time)
    retrieval, semantic,  \* the entry of each fingerprint
    ask,      \* where each question is
    overlapped,  \* history: questions that a run or a clear came to, or without index
    broken,      \* history: a run failed since the last completed full rebuild
    suspect,     \* history: fingerprints such questions wrote entries for
    edits, faults, clears

indexVars == <<col, saved, memory, stored>>
cacheVars == <<retrieval, semantic>>
history == <<overlapped, broken, suspect>>
counters == <<edits, faults, clears>>
vars == <<disk, indexVars, run, cacheVars, ask, history, counters>>

NoEntries == [fp \in Fingerprints |-> None]
Idle == [pc |-> "none", fp |-> None, previous |-> None, full |-> FALSE, cleared |-> FALSE]
Rest(place) == [pc |-> place, key |-> None, searched |-> None, value |-> None]

Init ==
    /\ disk = [r \in Roots |-> First]
    /\ col = Empty /\ saved = None /\ memory = None /\ stored = None
    /\ run = Idle
    /\ retrieval = NoEntries /\ semantic = NoEntries
    /\ ask = [q \in Questions |-> Rest("none")]
    /\ overlapped = {} /\ broken = FALSE /\ suspect = {}
    /\ edits = 0 /\ faults = 0 /\ clears = 0

InFlight == {q \in Questions : ask[q].pc \notin {"none", "done"}}

\* The fingerprint in memory, or else the one of the hash store.
get_repo_fingerprint == IF memory # None THEN memory ELSE saved

Entry(table, fp) == IF fp = None THEN None ELSE table[fp]

Edit(r, v) ==
    /\ edits < MaxEdits /\ v # disk[r]
    /\ edits' = edits + 1
    /\ disk' = [disk EXCEPT ![r] = v]
    /\ UNCHANGED <<indexVars, run, cacheVars, ask, history, faults, clears>>

-----------------------------------------------------------------------------
\* An index run, by the steps that matter to the cached layers.

Running == run.pc # "none"
Goto(place) == run' = [run EXCEPT !.pc = place]
Overlap == overlapped' = overlapped \cup InFlight

invalidate_repo(fps) ==
    /\ retrieval' = [fp \in Fingerprints |-> IF fp \in fps THEN None ELSE retrieval[fp]]
    /\ semantic' = [fp \in Fingerprints |-> IF fp \in fps THEN None ELSE semantic[fp]]
    /\ suspect' = suspect \ fps

\* How a run is decided: a full rebuild (forced, another root, or a file that
\* was removed), an incremental one, or reuse of all there is.
Decide(r, forced) ==
    LET fp == <<r, disk[r]>>
        enter(place, full) ==
            run' = [pc |-> place, fp |-> fp, previous |-> saved, full |-> full,
                    cleared |-> FALSE]
    IN \/ enter("clear", TRUE) /\ (forced \/ stored # r \/ saved \notin {None, fp})
       \/ enter("embed", FALSE) /\ ~forced /\ stored = r /\ saved # fp
       \/ enter("save", FALSE) /\ ~forced /\ stored = r /\ saved = fp

\* fault: the fingerprint in memory is set by the first run only
StartOnce(r, forced) ==
    /\ ~Running
    /\ memory' = IF memory = None THEN <<r, disk[r]>> ELSE memory
    /\ Decide(r, forced)
    /\ Overlap
    /\ UNCHANGED <<disk, col, saved, stored, cacheVars, ask, broken, suspect, counters>>

\* Hash the directory, set the fingerprint in memory, and decide.
Start(r, forced) ==
    /\ ~Running
    /\ memory' = <<r, disk[r]>>
    /\ Decide(r, forced)
    /\ Overlap
    /\ UNCHANGED <<disk, col, saved, stored, cacheVars, ask, broken, suspect, counters>>

ClearVectors ==
    /\ run.pc = "clear"
    /\ col' = Empty
    /\ run' = [run EXCEPT !.pc = "invalidate", !.cleared = FALSE]
    /\ Overlap
    /\ UNCHANGED <<disk, saved, memory, stored, cacheVars, ask, broken, suspect, counters>>

\* fault: only the previous fingerprint's entries go
InvalidatePrevious ==
    /\ run.pc = "invalidate"
    /\ retrieval' = [fp \in Fingerprints |-> IF fp = run.previous THEN None ELSE retrieval[fp]]
    /\ semantic' = [fp \in Fingerprints |-> IF fp = run.previous THEN None ELSE semantic[fp]]
    /\ suspect' = suspect \ {run.previous, run.fp}
    /\ Goto("embed")
    /\ Overlap
    /\ UNCHANGED <<disk, indexVars, ask, broken, counters>>

\* A full rebuild forgets the previous and the current fingerprint.
Invalidate ==
    /\ run.pc = "invalidate"
    /\ invalidate_repo({run.previous, run.fp})
    /\ Goto("embed")
    /\ Overlap
    /\ UNCHANGED <<disk, indexVars, ask, broken, counters>>

\* Batch after batch is stored; an incremental run completes what was there.
EmbedSome ==
    /\ run.pc = "embed" /\ col # Partial
    /\ col' = Partial
    /\ run' = [run EXCEPT !.pc = IF run.full \/ col = run.previous THEN "embedding"
                                                                   ELSE "patching"]
    /\ Overlap
    /\ UNCHANGED <<disk, saved, memory, stored, cacheVars, ask, broken, suspect, counters>>

\* The last batch.  What a clear removed in between is not stored again.
EmbedAll ==
    /\ run.pc \in {"embed", "embedding", "patching"}
    /\ col' \in CASE run.full /\ run.pc = "embed" -> {run.fp}
                  [] run.cleared /\ run.pc # "embed" -> {Partial}
                  [] ~run.cleared /\ (run.pc = "embedding" \/ col = run.previous) -> {run.fp}
                  [] OTHER -> {run.fp, Partial}
    /\ Goto("expire")
    /\ Overlap
    /\ UNCHANGED <<disk, saved, memory, stored, cacheVars, ask, broken, suspect, counters>>

\* The previous fingerprint's entries go when the fingerprint moves.
Expire ==
    /\ run.pc = "expire"
    /\ invalidate_repo({run.previous} \ {run.fp})
    /\ Goto("save")
    /\ Overlap
    /\ UNCHANGED <<disk, indexVars, ask, broken, counters>>

SaveHashes ==
    /\ run.pc = "save"
    /\ saved' = run.fp
    /\ Goto("state")
    /\ Overlap
    /\ UNCHANGED <<disk, col, memory, stored, cacheVars, ask, broken, suspect, counters>>

SaveState ==
    /\ run.pc = "state"
    /\ stored' = run.fp[1]
    /\ broken' = (run.cleared \/ (broken /\ ~run.full))
    /\ run' = Idle
    /\ Overlap
    /\ UNCHANGED <<disk, col, saved, memory, cacheVars, ask, suspect, counters>>

RunStep ==
    \/ ClearVectors \/ Invalidate \/ EmbedSome \/ EmbedAll \/ Expire \/ SaveHashes \/ SaveState

\* An exception in the run: what was written stays, in memory too.
Fail ==
    /\ Running /\ faults + clears < MaxFaults
    /\ faults' = faults + 1
    /\ broken' = TRUE
    /\ run' = Idle
    /\ Overlap
    /\ UNCHANGED <<disk, indexVars, cacheVars, ask, suspect, edits, clears>>

\* The process ends and starts again: files stay.
Restart ==
    /\ faults + clears < MaxFaults
    /\ faults' = faults + 1
    /\ broken' = (broken \/ Running)
    /\ run' = Idle /\ memory' = None
    /\ ask' = [q \in Questions |-> IF q \in InFlight THEN Rest("done") ELSE ask[q]]
    /\ overlapped' = {}
    /\ UNCHANGED <<disk, col, saved, stored, cacheVars, suspect, edits, clears>>

\* /v1/index/clear removes the stores and every entry, beside a run or not.
PostClear ==
    /\ faults + clears < MaxFaults
    /\ clears' = clears + 1
    /\ col' = Empty /\ saved' = None /\ stored' = None
    /\ retrieval' = NoEntries /\ semantic' = NoEntries /\ suspect' = {}
    /\ run' = [run EXCEPT !.cleared = Running]
    /\ Overlap
    /\ UNCHANGED <<disk, memory, ask, broken, edits, faults>>

-----------------------------------------------------------------------------
\* A question, from its freshness check to the entry it leaves.

At(q, place) == ask[q].pc = place

\* An accepted chat goes on when the directory is what the hash store says, or
\* when a clear has left no hash store (the session may still be active then).
Ask(q) ==
    /\ At(q, "none")
    /\ IF saved = None THEN clears > 0 ELSE disk[saved[1]] = saved[2]
    /\ ask' = [ask EXCEPT ![q].pc = "asked"]
    /\ overlapped' = IF Running \/ saved = None THEN overlapped \cup {q} ELSE overlapped
    /\ UNCHANGED <<disk, indexVars, run, cacheVars, broken, suspect, counters>>

\* _stream takes the fingerprint its answer will be kept under.  An answer kept
\* there before is repeated, and kept again.
Lookup(q) ==
    LET fp == get_repo_fingerprint
        kept == Entry(semantic, fp)
    IN /\ At(q, "asked")
       /\ ask' = [ask EXCEPT ![q] = [pc |-> IF kept = None THEN "search" ELSE "answer",
                                     key |-> fp, searched |-> None, value |-> kept]]
       /\ UNCHANGED <<disk, indexVars, run, cacheVars, history, counters>>

\* The files a plan named are read from the collection.  Otherwise search():
\* nothing in an empty collection, an entry, or retrieval.
Search(q) ==
    LET fp == get_repo_fingerprint
        found(v) == ask' = [ask EXCEPT ![q].pc = "answer", ![q].value = v]
    IN /\ At(q, "search")
       /\ \/ found(col)
          \/ col # Empty /\ Entry(retrieval, fp) # None /\ found(Entry(retrieval, fp))
          \/ /\ col # Empty /\ Entry(retrieval, fp) = None
             /\ ask' = [ask EXCEPT ![q].pc = "read", ![q].searched = fp]
       /\ UNCHANGED <<disk, indexVars, run, cacheVars, history, counters>>

Read(q) ==
    /\ At(q, "read")
    /\ ask' = [ask EXCEPT ![q].pc = "keep", ![q].value = col]
    /\ UNCHANGED <<disk, indexVars, run, cacheVars, history, counters>>

\* Whoever overlapped a run, or came after a failed one, may be wrong.
Suspect(q, fp) ==
    suspect' = IF q \in overlapped \/ broken THEN suspect \cup {fp} ELSE suspect

KeepAs(q, value) ==
    LET fp == ask[q].searched
    IN /\ At(q, "keep")
       /\ IF fp = None THEN UNCHANGED <<retrieval, suspect>>
          ELSE retrieval' = [retrieval EXCEPT ![fp] = value] /\ Suspect(q, fp)
       /\ ask' = [ask EXCEPT ![q].pc = "answer", ![q].searched = None]
       /\ UNCHANGED <<disk, indexVars, run, semantic, overlapped, broken, counters>>

\* fault: an empty result counts as an entry
KeepEmpty(q) == KeepAs(q, ask[q].value)

\* What was retrieved is kept under the fingerprint search() began with; an
\* empty result takes the entry's place and counts as none.
Keep(q) == KeepAs(q, IF ask[q].value = Empty THEN None ELSE ask[q].value)

Finish(q) == ask' = [ask EXCEPT ![q] = Rest("done")] /\ overlapped' = overlapped \ {q}

\* The answer is generated and kept under the fingerprint of the lookup.
Answer(q) ==
    LET fp == ask[q].key
    IN /\ At(q, "answer")
       /\ IF fp # None
          THEN semantic' = [semantic EXCEPT ![fp] = ask[q].value] /\ Suspect(q, fp)
          ELSE UNCHANGED <<semantic, suspect>>
       /\ Finish(q)
       /\ UNCHANGED <<disk, indexVars, run, retrieval, broken, counters>>

\* The client leaves, or generation fails.
Abandon(q) ==
    /\ q \in InFlight
    /\ Finish(q)
    /\ UNCHANGED <<disk, indexVars, run, cacheVars, broken, suspect, counters>>

AskStep(q) == Ask(q) \/ Lookup(q) \/ Search(q) \/ Read(q) \/ Keep(q) \/ Answer(q) \/ Abandon(q)

Next ==
    \/ \E r \in Roots, v \in Versions : Edit(r, v)
    \/ \E r \in Roots, forced \in BOOLEAN : Start(r, forced)
    \/ RunStep \/ Fail \/ Restart \/ PostClear
    \/ \E q \in Questions : AskStep(q)

Spec == Init /\ [][Next]_vars

-----------------------------------------------------------------------------
\* Every variable has its type; an empty retrieval is never an entry.
TypeOK ==
    /\ disk \in [Roots -> Versions]
    /\ col \in Held /\ saved \in Maybe(Fingerprints) /\ memory \in Maybe(Fingerprints)
    /\ stored \in Maybe(Roots)
    /\ run \in [pc: {"none", "clear", "invalidate", "embed", "embedding", "patching",
                     "expire", "save", "state"},
                fp: Maybe(Fingerprints), previous: Maybe(Fingerprints),
                full: BOOLEAN, cleared: BOOLEAN]
    /\ (Running => run.fp # None)
    /\ retrieval \in [Fingerprints -> Maybe(Held \ {Empty})]
    /\ semantic \in [Fingerprints -> Maybe(Held)]
    /\ ask \in [Questions -> [pc: {"none", "asked", "search", "read", "keep", "answer", "done"},
                              key: Maybe(Fingerprints), searched: Maybe(Fingerprints),
                              value: Maybe(Held)]]
    /\ (\A q \in Questions : ask[q].pc \in {"keep", "answer"} => ask[q].value # None)
    /\ overlapped \subseteq Questions /\ broken \in BOOLEAN /\ suspect \subseteq Fingerprints
    /\ edits \in 0..MaxEdits /\ faults \in 0..MaxFaults /\ clears \in 0..MaxFaults

\* Between runs, if none failed since the last full rebuild, the fingerprint
\* that questions use is the hash store's, and the collection is exactly its.
FingerprintIsTrue ==
    ~Running /\ ~broken /\ saved # None =>
        col = saved /\ get_repo_fingerprint = saved /\ stored = saved[1]

\* An entry is what its fingerprint's index gives (docs/caching-architecture.md),
\* unless a question wrote it that overlapped a run or a clear, or that had no
\* index, or came after a failed run, and no rebuild of the fingerprint came since.
EntriesAreExact ==
    \A fp \in Fingerprints \ suspect :
        retrieval[fp] \in {None, fp} /\ semantic[fp] \in {None, fp}

=============================================================================
