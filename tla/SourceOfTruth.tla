---------------------------- MODULE SourceOfTruth ---------------------------
(* Questions about what a project declares: search and                       *)
(* _retrieve_config_first in indexer.py, which take the manifests of the     *)
(* workspace as the source of truth, check them against the hash store       *)
(* (integrity.py) and repair one that is not healthy, beside index runs,     *)
(* people who edit, and the edit engine of edit_engine.py, which repairs the *)
(* index after every edit it applies.                                        *)
(*                                                                           *)
(* A manifest's content is a version; every save makes a new one.  Size says *)
(* into how many chunks it is cut, and a stored chunk is a position with the *)
(* version it came from.  How an index run decides what to do is in          *)
(* IndexPipeline; here it only changes what questions read.                  *)
EXTENDS Integers, FiniteSets, SequencesExt

CONSTANTS
    Files,        \* the manifests
    kind,         \* classify_source_type of each: "dependency" or "manifest"
    Size,         \* chunks of each version: a sequence, from version 1
    None,
    NResults,     \* n_results
    MaxAsks, MaxRuns, MaxEdits, MaxFaults,  \* bounds: questions, index runs, saves and
                                            \* edits, failures
    MaxEvents                               \* bound: all of these

ASSUME FilesAssumption == IsFiniteSet(Files)
ASSUME KindAssumption == kind \in [Files -> {"dependency", "manifest"}]
ASSUME NoneAssumption == None \notin Nat
ASSUME SizeAssumption == Size \in Seq(Nat) /\ Size # <<>> /\ NResults \in Nat \ {0}

VARIABLES
    disk,      \* version of each manifest, or None
    last,      \* the latest version
    entry,     \* .file_hashes.json: the version embedded
    counts,    \* the chunk count state
    vec,       \* the collection: chunks of each manifest
    known,     \* manifests in the workspace index
    fp,        \* the fingerprint in memory, made of the hashes of a run
    cache,     \* retrieval cache: answers by question and fingerprint
    probe,     \* the integrity probe: "healthy" or "warning"
    run,       \* the index run
    rep,       \* the repairs of the question and of the edit engine
    edit,      \* the edit engine
    ask,       \* the question
    done,      \* how many asks, runs, edits and faults there were
    excused    \* history: manifests whose entry may be wrong

store == <<entry, counts, vec, known, fp>>
vars == <<disk, last, store, cache, probe, run, rep, edit, ask, done, excused>>

Versions == DOMAIN Size
Orders == {o \in [1..Cardinality(Files) -> Files] : Range(o) = Files}
Chunks(v) == [p \in 1..(IF v = None THEN 0 ELSE Size[v]) |-> v]
\* Chunks written into the collection, over those at the same places.
Upserted(old, new) ==
    [p \in DOMAIN old \cup DOMAIN new |-> IF p \in DOMAIN new THEN new[p] ELSE old[p]]
\* The elements of a sequence that are in S, in their order.
Among(seq, S) == FoldLeft(LAMBDA kept, x : IF x \in S THEN Append(kept, x) ELSE kept, <<>>, seq)
Present(snap) == {f \in Files : snap[f] # None}
NoFiles == [f \in Files |-> None]
Workers == {"ask", "edit"}
Idle == [pc |-> "idle", file |-> None, hashes |-> NoFiles, read |-> None, old |-> {}]
NoRun == [pc |-> "idle", snap |-> NoFiles, todo |-> {}]
NoEdit == [pc |-> "idle", file |-> None, digest |-> None]
NoAnswer == [notice |-> "none", chunks |-> <<>>]
NoAsk == [pc |-> "idle", question |-> None, ranked |-> <<>>, tried |-> 0, healthy |-> None,
          cached |-> FALSE, answer |-> NoAnswer, seen |-> [f \in Files |-> {}], calm |-> TRUE]

\* A project that has been indexed.
Init ==
    /\ disk = [f \in Files |-> 1] /\ last = 1
    /\ entry = disk /\ counts = [f \in Files |-> Size[1]]
    /\ vec = [f \in Files |-> Chunks(1)]
    /\ known = Files /\ fp = disk
    /\ cache = {} /\ probe = "healthy"
    /\ run = NoRun
    /\ rep = [w \in Workers |-> Idle]
    /\ edit = NoEdit
    /\ ask = NoAsk
    /\ done = [asks |-> 0, runs |-> 0, edits |-> 0, faults |-> 0]
    /\ excused = {}

May(what, bound) ==
    /\ done[what] < bound /\ done.asks + done.runs + done.edits + done.faults < MaxEvents
    /\ done' = [done EXCEPT ![what] = @ + 1]
Fault == May("faults", MaxFaults)

-----------------------------------------------------------------------------
\* Validation (integrity.py).

\* _fetch_exact_file, in the order of the lines.
Fetch(f) ==
    LET places == DOMAIN vec[f]
        at(i) == CHOOSE p \in places : Cardinality({q \in places : q < p}) = i - 1
    IN [i \in 1..Cardinality(places) |->
          [file |-> f, at |-> at(i), version |-> vec[f][at(i)]]]

\* fault: the digest of what is on disk is not compared
StaleIfUnknown(f) == entry[f] = None \/ disk[f] = None

\* What makes a manifest stale, and what only degraded; both are not healthy.
Stale(f) == entry[f] = None \/ disk[f] = None \/ entry[f] # disk[f]
Degraded(f, expected) ==
    Fetch(f) = <<>> \/ (expected # None /\ Len(Fetch(f)) < expected)
Healthy(f, expected) == ~Stale(f) /\ ~Degraded(f, expected)

\* validate_authoritative_integrity_for_mode, NORMAL and DEEP_REPAIR: the expected
\* count is the recorded one, or that of the file as it is now.
HealthyNormal(f) == Healthy(f, counts[f])
HealthyDeep(f) == Healthy(f, IF disk[f] = None THEN None ELSE Size[disk[f]])

\* lightweight_integrity_probe expects no count.
Probed(files) == IF \A f \in files : Healthy(f, None) THEN "healthy" ELSE "warning"

-----------------------------------------------------------------------------
\* _repair_index_paths, for one path.

outside == <<disk, last, known, fp, cache, probe, run, edit, ask>>

\* A repair and a run that overlap can undo each other's entries.
RunActive == run.pc # "idle"
RepairActive ==
    {w \in Workers : rep[w].pc \in {"load", "chunk", "hash", "upsert", "delete", "save"}}

RepairLoad(w) ==
    /\ rep[w].pc = "load"
    /\ rep' = [rep EXCEPT ![w].pc = "chunk", ![w].hashes = entry]
    /\ excused' = IF RunActive \/ RepairActive \ {w} # {} THEN Files ELSE excused
    /\ UNCHANGED <<outside, entry, counts, vec, done>>

\* The chunks there are, and the file read, chunked and embedded; one that is gone
\* loses its chunks and its entry.
RepairChunk(w) ==
    LET f == rep[w].file
    IN /\ rep[w].pc = "chunk"
       /\ rep' = [rep EXCEPT ![w].read = disk[f], ![w].old = DOMAIN vec[f],
                             ![w].pc = IF disk[f] = None THEN "delete" ELSE "hash",
                             ![w].hashes[f] = IF disk[f] = None THEN None ELSE @]
       /\ UNCHANGED <<outside, entry, counts, vec, done, excused>>

\* The digest is taken from the file as it is after the embedding.
RepairHash(w) ==
    LET f == rep[w].file
    IN /\ rep[w].pc = "hash"
       /\ rep' = [rep EXCEPT ![w].pc = "upsert",
                             ![w].hashes[f] = IF disk[f] = None THEN @ ELSE disk[f]]
       /\ excused' = IF disk[f] \in {rep[w].read, None} THEN excused ELSE excused \cup {f}
       /\ UNCHANGED <<outside, entry, counts, vec, done>>

RepairUpsert(w) ==
    LET f == rep[w].file
    IN /\ rep[w].pc = "upsert"
       /\ rep' = [rep EXCEPT ![w].pc = "delete"]
       /\ vec' = [vec EXCEPT ![f] = Upserted(@, Chunks(rep[w].read))]
       /\ UNCHANGED <<outside, entry, counts, done, excused>>

\* Of the chunks there were, those the file has no more.
RepairDelete(w) ==
    LET f == rep[w].file
        stale == rep[w].old \ DOMAIN Chunks(rep[w].read)
    IN /\ rep[w].pc = "delete"
       /\ rep' = [rep EXCEPT ![w].pc = "save"]
       /\ vec' = [vec EXCEPT ![f] = Restrict(@, DOMAIN @ \ stale)]
       /\ UNCHANGED <<outside, entry, counts, done, excused>>

\* The hash store as it was loaded, but for this path.
RepairSave(w) ==
    LET f == rep[w].file
    IN /\ rep[w].pc = "save"
       /\ rep' = [rep EXCEPT ![w] = [Idle EXCEPT !.pc = "done", !.file = f]]
       /\ entry' = rep[w].hashes
       /\ counts' = [counts EXCEPT ![f] = IF rep[w].read = None THEN None ELSE Size[rep[w].read]]
       /\ UNCHANGED <<outside, vec, done, excused>>

\* A store operation raises.  The path it was at is not rolled back.
RepairFails(w) ==
    /\ rep[w].pc \in {"upsert", "delete"} /\ Fault
    /\ rep' = [rep EXCEPT ![w] = [Idle EXCEPT !.pc = "done", !.file = rep[w].file]]
    /\ UNCHANGED <<outside, vec, entry, counts, excused>>

Repair(w) ==
    \/ RepairLoad(w) \/ RepairChunk(w) \/ RepairHash(w)
    \/ RepairUpsert(w) \/ RepairDelete(w) \/ RepairSave(w) \/ RepairFails(w)

-----------------------------------------------------------------------------
\* search, and the route to the source of truth.

aside == <<disk, last, run, edit, excused>>

HasDependency(chunks) == \E i \in DOMAIN chunks : kind[chunks[i].file] = "dependency"
Dependency == ask.question.intent = "dependency"

\* search checks no freshness; its callers do, some time before (IndexServer).
Ask(question) ==
    /\ ask.pc \in {"idle", "answered"}
    /\ May("asks", MaxAsks)
    /\ ask' = [NoAsk EXCEPT !.pc = "lookup", !.question = question,
                            !.seen = [f \in Files |-> {disk[f]}], !.calm = ~RunActive]
    /\ UNCHANGED <<aside, store, cache, probe, rep>>

\* Manifests of the workspace, best first (rank_authoritative_paths).
Ranked == Among(ask.question.order, known)

Answered(answer, cached) ==
    [ask EXCEPT !.pc = "answered", !.answer = answer, !.cached = cached]

\* A cached answer is not used while the probe warns (one that is 15 minutes old does
\* not count), nor for a dependency question when it has no dependency file.  It is cut
\* to n_results, its notice first.  (Of the collection only manifests are in the model:
\* when they have no chunks it may be empty.)
Lookup(old) ==
    /\ ask.pc = "lookup"
    /\ LET hits == {e \in cache : e.question = ask.question /\ e.fp = fp}
           good == {e \in hits : /\ old \/ probe # "warning"
                                 /\ Dependency => HasDependency(e.answer.chunks)}
           cut(a) == [a EXCEPT !.chunks = SubSeq(@, 1, IF a.notice = "none" \/ Len(@) < NResults
                                                       THEN Len(@) ELSE NResults - 1)]
       IN \/ /\ \A f \in Files : vec[f] = <<>>
             /\ ask' = Answered([notice |-> "empty", chunks |-> <<>>], FALSE)
          \/ \E e \in good : ask' = Answered(cut(e.answer), TRUE)
          \/ good = {} /\ ask' = [ask EXCEPT !.pc = "validate", !.ranked = Ranked]
    /\ UNCHANGED <<aside, store, cache, probe, rep, done>>

\* select_healthy_authoritative_path: the first healthy one of the first six.
Validate ==
    /\ ask.pc = "validate"
    /\ IF ask.tried = Len(ask.ranked)
       THEN ask' = [ask EXCEPT !.pc = IF ask.ranked = <<>> THEN "collect" ELSE "recheck"]
       ELSE LET f == ask.ranked[ask.tried + 1]
            IN ask' = IF HealthyNormal(f)
                      THEN [ask EXCEPT !.pc = "collect", !.healthy = f]
                      ELSE [ask EXCEPT !.tried = @ + 1]
    /\ UNCHANGED <<aside, store, cache, probe, rep, done>>

\* _validate_and_repair_authoritative_integrity, for the best one only: an entry of
\* a file that is gone is pruned at once.
Recheck ==
    LET f == ask.ranked[1]
        pruned == IF disk[f] = None THEN [entry EXCEPT ![f] = None] ELSE entry
    IN /\ ask.pc = "recheck"
       /\ IF HealthyNormal(f)
          THEN /\ ask' = [ask EXCEPT !.pc = "collect", !.healthy = f]
               /\ probe' = Probed(known)
               /\ UNCHANGED <<entry, rep>>
          ELSE /\ ask' = [ask EXCEPT !.pc = "revalidate"]
               /\ entry' = pruned
               /\ rep' = [rep EXCEPT !["ask"] = [Idle EXCEPT !.pc = "load", !.file = f]]
               /\ UNCHANGED probe
       /\ UNCHANGED <<aside, counts, vec, known, fp, cache, done>>

Revalidate ==
    LET f == rep["ask"].file
    IN /\ ask.pc = "revalidate" /\ rep["ask"].pc = "done"
       /\ ask' = [ask EXCEPT !.pc = "collect", !.healthy = IF HealthyDeep(f) THEN f ELSE None]
       /\ probe' = Probed(known)
       /\ rep' = [rep EXCEPT !["ask"] = Idle]
       /\ UNCHANGED <<aside, store, cache, done>>

\* Chunks of the files in this order until there are n_results.  No manifest has
\* more chunks than the caps of 6, 8, 40 and 60 per file.
Gather(order) ==
    FoldLeft(LAMBDA all, f : IF Len(all) >= NResults THEN all ELSE all \o Fetch(f), <<>>, order)

\* fault: one chunk too many
CutLate(chunks, n) == SubSeq(chunks, 1, IF Len(chunks) <= n THEN Len(chunks) ELSE n + 1)

Cut(chunks, n) == SubSeq(chunks, 1, IF Len(chunks) < n THEN Len(chunks) ELSE n)
OfKind(order, k) == Among(order, {f \in Files : kind[f] = k})

\* No healthy manifest: what there is, with a caveat.
BestEffort ==
    LET found == Gather(ask.ranked)
    IN IF found = <<>> THEN [notice |-> "integrity", chunks |-> <<>>]
       ELSE [notice |-> "stale", chunks |-> Cut(found, NResults)]

\* A dependency question that found no dependency file looks for one by name; what
\* it finds comes first.
EnforcedDependency(found) ==
    LET recovered == Cut(Gather(OfKind(ask.ranked, "dependency")), NResults)
        inferred == Among(found, {c \in Range(found) : kind[c.file] # "dependency"})
    IN IF recovered # <<>>
       THEN [notice |-> "none",
             chunks |-> recovered \o Cut(inferred, NResults - Len(recovered))]
       ELSE [notice |-> IF OfKind(ask.ranked, "dependency") # <<>> THEN "not indexed"
                        ELSE "incomplete",
             chunks |-> Cut(found, NResults)]

\* What is said when nothing was found.
NothingFound ==
    [notice |-> IF ~Dependency THEN "missing"
                ELSE IF OfKind(ask.ranked, "dependency") = <<>> THEN "no dependency files"
                ELSE "not indexed",
     chunks |-> <<>>]

\* fault: manifests will do for a dependency question
AuthoritativeAnyKind ==
    LET next == Among(ask.ranked, Files \ {ask.healthy})
        found == Gather(<<ask.healthy>> \o next)
    IN IF found = <<>> THEN NothingFound
       ELSE [notice |-> "none", chunks |-> Cut(found, NResults)]

\* fault: the healthy manifest at its rank
AuthoritativeAsRanked ==
    LET found == Gather(ask.ranked)
    IN IF found = <<>> THEN NothingFound
       ELSE IF Dependency /\ ~HasDependency(found) THEN EnforcedDependency(found)
       ELSE [notice |-> "none", chunks |-> Cut(found, NResults)]

\* The healthy manifest first, then the others as they are.  (The recovery by expected
\* names, when nothing is found, fetches from the same manifests again.)
Authoritative ==
    LET next == Among(ask.ranked, Files \ {ask.healthy})
        found == Gather(<<ask.healthy>> \o next)
    IN IF found = <<>> THEN NothingFound
       ELSE IF Dependency /\ ~HasDependency(found) THEN EnforcedDependency(found)
       ELSE [notice |-> "none", chunks |-> Cut(found, NResults)]

\* A limitation alone is not cached.
Collect ==
    LET answer == IF ask.healthy = None THEN BestEffort ELSE Authoritative
    IN /\ ask.pc = "collect"
       /\ ask' = Answered(answer, FALSE)
       /\ cache' = IF answer.chunks = <<>> THEN cache
                   ELSE {e \in cache : e.question # ask.question \/ e.fp # fp}
                        \cup {[question |-> ask.question, fp |-> fp, answer |-> answer]}
       /\ UNCHANGED <<aside, store, probe, rep, done>>

-----------------------------------------------------------------------------
\* FileEditEngine.apply_edit.

\* History of the question that is being answered.
Asking == ask.pc \notin {"idle", "answered"}
Seen(f, v) == ask' = IF Asking THEN [ask EXCEPT !.seen[f] = @ \cup {v}] ELSE ask

beside == <<store, cache, probe, run, ask, excused>>
EditFails == edit' = NoEdit

EditLoad(f) ==
    /\ edit.pc = "idle" /\ May("edits", MaxEdits)
    /\ disk[f] # None /\ entry[f] # None
    /\ edit' = [edit EXCEPT !.pc = "hash", !.file = f, !.digest = entry[f]]
    /\ UNCHANGED <<beside, disk, last, rep>>

EditHash ==
    /\ edit.pc = "hash"
    /\ IF disk[edit.file] = edit.digest THEN edit' = [edit EXCEPT !.pc = "read"] ELSE EditFails
    /\ UNCHANGED <<beside, disk, last, rep, done>>

\* The text is read again, and must have the old content exactly once.
EditRead(once) ==
    /\ edit.pc = "read"
    /\ IF once /\ disk[edit.file] # None
       THEN edit' = [edit EXCEPT !.pc = "write", !.digest = None]
       ELSE EditFails
    /\ UNCHANGED <<beside, disk, last, rep, done>>

EditWrite ==
    /\ edit.pc = "write" /\ last < Len(Size)
    /\ disk' = [disk EXCEPT ![edit.file] = last + 1] /\ last' = last + 1
    /\ edit' = [edit EXCEPT !.pc = "reindex"]
    /\ rep' = [rep EXCEPT !["edit"] = [Idle EXCEPT !.pc = "load", !.file = edit.file]]
    /\ Seen(edit.file, last + 1)
    /\ UNCHANGED <<store, cache, probe, run, done, excused>>

EditEnd ==
    /\ edit.pc = "reindex" /\ rep["edit"].pc = "done"
    /\ edit' = NoEdit
    /\ rep' = [rep EXCEPT !["edit"] = Idle]
    /\ UNCHANGED <<beside, disk, last, done>>

-----------------------------------------------------------------------------
\* Everybody else: an editor, and an index run (see IndexPipeline).

Save(f) ==
    /\ May("edits", MaxEdits) /\ last < Len(Size)
    /\ \E v \in {last + 1, None} :
          /\ v # disk[f]
          /\ disk' = [disk EXCEPT ![f] = v]
          /\ last' = IF v = None THEN last ELSE v
          /\ Seen(f, v)
    /\ UNCHANGED <<store, cache, probe, run, rep, edit, excused>>

bystanders == <<disk, last, rep, edit>>
Uncalm == ask' = IF Asking THEN [ask EXCEPT !.calm = FALSE] ELSE ask

\* The fingerprint moves at once; a forced run and one that misses a file are full.
RunStart(forced) ==
    LET changed == {f \in Files : entry[f] # disk[f]}
        full == forced \/ \E f \in Files : entry[f] # None /\ disk[f] = None
    IN /\ run.pc = "idle" /\ (forced \/ changed # {}) /\ May("runs", MaxRuns)
       /\ run' = [pc |-> IF full THEN "clear" ELSE "store", snap |-> disk,
                  todo |-> IF full THEN Present(disk) ELSE changed]
       /\ fp' = disk
       /\ excused' = IF RepairActive # {} THEN Files ELSE excused
       /\ Uncalm
       /\ UNCHANGED <<bystanders, entry, counts, vec, known, cache, probe>>

\* A full run forgets all but the hash store.  (The answers it keeps are those of
\* fingerprints that cannot return: versions do not.)
RunClear ==
    /\ run.pc = "clear"
    /\ run' = [run EXCEPT !.pc = "store"]
    /\ vec' = [f \in Files |-> <<>>] /\ counts' = NoFiles /\ known' = {} /\ cache' = {}
    /\ UNCHANGED <<bystanders, entry, fp, probe, ask, done, excused>>

\* The file is read again; chunks are only ever added.  One that is gone is skipped.
RunStore(f) ==
    /\ run.pc = "store" /\ f \in run.todo
    /\ run' = [run EXCEPT !.todo = @ \ {f}]
    /\ vec' = [vec EXCEPT ![f] = Upserted(@, Chunks(disk[f]))]
    /\ counts' = [counts EXCEPT ![f] = IF disk[f] = None THEN @ ELSE Size[disk[f]]]
    /\ UNCHANGED <<bystanders, entry, known, fp, cache, probe, ask, done, excused>>

\* fault: the digests are taken again at the end
RunSaveLate ==
    /\ run.pc = "store" /\ run.todo = {}
    /\ run' = [NoRun EXCEPT !.pc = "probe"]
    /\ entry' = disk /\ known' = Present(run.snap)
    /\ UNCHANGED <<bystanders, counts, vec, fp, cache, probe, ask, done, excused>>

\* The digests of the start, and the workspace index.
RunSave ==
    /\ run.pc = "store" /\ run.todo = {}
    /\ run' = [NoRun EXCEPT !.pc = "probe"]
    /\ entry' = run.snap /\ known' = Present(run.snap)
    /\ UNCHANGED <<bystanders, counts, vec, fp, cache, probe, ask, done, excused>>

RunProbe ==
    /\ run.pc = "probe"
    /\ run' = NoRun
    /\ probe' = Probed(known)
    /\ UNCHANGED <<bystanders, store, cache, ask, done, excused>>

RunFails ==
    /\ run.pc \in {"clear", "store"}
    /\ Fault
    /\ run' = NoRun
    /\ excused' = Files
    /\ UNCHANGED <<bystanders, store, cache, probe, ask>>

-----------------------------------------------------------------------------
Questions == [intent : {"dependency", "declaration"}, order : Orders]

AskStep ==
    \/ \E question \in Questions : Ask(question)
    \/ (\E old \in BOOLEAN : Lookup(old)) \/ Validate \/ Recheck \/ Revalidate \/ Collect
EditStep ==
    \/ \E f \in Files : EditLoad(f)
    \/ EditHash \/ (\E once \in BOOLEAN : EditRead(once)) \/ EditWrite \/ EditEnd
RunStep ==
    \/ \E forced \in BOOLEAN : RunStart(forced)
    \/ RunClear \/ (\E f \in Files : RunStore(f)) \/ RunSave \/ RunProbe \/ RunFails

Next ==
    \/ AskStep \/ EditStep \/ RunStep
    \/ \E w \in Workers : Repair(w)
    \/ \E f \in Files : Save(f)

Spec == Init /\ [][Next]_vars

-----------------------------------------------------------------------------
\* Properties.

Contents == Versions \cup {None}
Found == [file : Files, at : Nat, version : Versions]
Notices == {"none", "empty", "integrity", "stale", "missing", "not indexed", "incomplete",
            "no dependency files"}
Answer == [notice : Notices, chunks : Seq(Found)]

\* Every variable has its type; an answer has at most n_results chunks, and no
\* manifest has chunks at places that no version of it has.
TypeOK ==
    /\ disk \in [Files -> Contents] /\ last \in Versions
    /\ entry \in [Files -> Contents] /\ counts \in [Files -> Nat \cup {None}]
    /\ \A f \in Files : /\ Range(vec[f]) \subseteq Versions
                        /\ \A p \in DOMAIN vec[f] : p \in DOMAIN Chunks(vec[f][p])
    /\ known \subseteq Files /\ fp \in [Files -> Contents]
    /\ \A e \in cache : /\ e.question \in Questions /\ e.fp \in [Files -> Contents]
                        /\ e.answer \in Answer /\ e.answer.chunks # <<>>
    /\ probe \in {"healthy", "warning"}
    /\ run \in [pc : {"idle", "clear", "store", "probe"}, snap : [Files -> Contents],
                todo : SUBSET Files]
    /\ \A w \in Workers : /\ rep[w].pc \in {"idle", "load", "chunk", "hash", "upsert", "delete",
                                          "save", "done"}
                          /\ rep[w].file \in Files \cup {None}
                          /\ rep[w].hashes \in [Files -> Contents]
    /\ edit.pc \in {"idle", "hash", "read", "write", "reindex"}
    /\ edit.file \in Files \cup {None} /\ edit.digest \in Contents
    /\ ask.pc \in {"idle", "lookup", "validate", "recheck", "revalidate", "collect", "answered"}
    /\ ask.answer \in Answer /\ Len(ask.answer.chunks) <= NResults
    /\ excused \subseteq Files

\* What makes a file look unchanged: the recorded digest is that of the file.
LooksUnchanged(f) == entry[f] # None /\ entry[f] = disk[f]

\* A manifest that looks unchanged, to the freshness check, to the validation and to
\* the edit engine, has all its chunks, whatever runs, saves, repairs by questions and
\* repairs by the edit engine there were.  Excused are the manifests of an index run
\* that failed or of a repair that overlapped a run or another repair, and one that
\* changed while a repair was between chunking it (indexer.py 2877) and taking its
\* digest (2909).
EntryNeverLies ==
    \A f \in Files \ excused :
        (run.pc \in {"idle", "probe"} /\ LooksUnchanged(f))
            => \A p \in DOMAIN Chunks(entry[f]) : p \in DOMAIN vec[f] /\ vec[f][p] = entry[f]

\* The answer to a question about dependencies has a chunk of a dependency file or
\* says what is missing, whichever manifest was healthy, how many chunks it filled
\* the answer with, and whether it came from the cache (indexer.py 1960-1966).
AnswersAreBacked ==
    (ask.pc = "answered" /\ Dependency)
        => (HasDependency(ask.answer.chunks) \/ ask.answer.notice # "none")

\* An answer without a notice begins with its healthy manifest as it was at some
\* moment since the question: not an older one, and not a mixture, although other
\* people save and repair between the validation and the collection.
FirstSourceIsCurrent ==
    LET h == ask.healthy
        a == ask.answer
    IN (/\ ask.pc = "answered" /\ ~ask.cached /\ ask.calm
        /\ a.notice = "none" /\ h \notin excused
        /\ Dependency => kind[h] = "dependency")
       => \E v \in ask.seen[h] :
             \A p \in 1..NResults :
                p \in DOMAIN Chunks(v) =>
                    (p \in DOMAIN a.chunks /\ a.chunks[p] = [file |-> h, at |-> p, version |-> v])

=============================================================================
