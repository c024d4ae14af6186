------------------------- MODULE CacheLayers_proof -------------------------
(* Proofs about CacheLayers, for all projects, versions, questions and       *)
(* bounds.  The invariant says how far a run has brought the collection, and *)
(* that an undisturbed question works under the fingerprint of the index.    *)
EXTENDS CacheLayers, TLAPS

RunType == [pc: {"none", "clear", "invalidate", "embed", "embedding", "patching",
                 "expire", "save", "state"},
            fp: Maybe(Fingerprints), previous: Maybe(Fingerprints),
            full: BOOLEAN, cleared: BOOLEAN]
AskType == [pc: {"none", "asked", "search", "read", "keep", "answer", "done"},
            key: Maybe(Fingerprints), searched: Maybe(Fingerprints), value: Maybe(Held)]

TypeStores == disk \in [Roots -> Versions] /\ col \in Held /\ stored \in Maybe(Roots)
TypeSaved == saved \in Maybe(Fingerprints) /\ memory \in Maybe(Fingerprints)
TypeRun == run \in RunType /\ (Running => run.fp \in Fingerprints)
TypeEntries ==
    /\ retrieval \in [Fingerprints -> Maybe(Held \ {Empty})]
    /\ semantic \in [Fingerprints -> Maybe(Held)]
TypeAsk ==
    /\ ask \in [Questions -> AskType]
    /\ \A q \in Questions : ask[q].pc \in {"keep", "answer"} => ask[q].value \in Held
TypeHistory == overlapped \subseteq Questions /\ broken \in BOOLEAN /\ suspect \subseteq Fingerprints
TypeCounters == edits \in 0..MaxEdits /\ faults \in 0..MaxFaults /\ clears \in 0..MaxFaults

\* How far a run is.  What a clear took away is not claimed.
RunHolds ==
    Running => /\ memory = run.fp
               /\ run.pc \in {"clear", "invalidate"} => run.full
               /\ run.pc = "state" /\ ~run.cleared => saved = run.fp
               /\ (run.full \/ ~broken) /\ ~run.cleared => run.pc # "patching"
               /\ ~run.full /\ ~broken /\ ~run.cleared /\ run.pc = "embed" => col = run.previous
               /\ (run.full \/ ~broken) /\ ~run.cleared /\ run.pc \in {"expire", "save", "state"}
                    => col = run.fp

\* Without a fault, there is no state without a hash store.
StateNeedsHashes == ~Running /\ ~broken /\ saved = None => stored = None

\* What a question that nothing disturbed holds is of the index.
Undisturbed(q) == q \in InFlight /\ q \notin overlapped
UndisturbedHolds ==
    \A q \in Questions : Undisturbed(q) =>
        /\ ~Running /\ saved # None
        /\ ~broken =>
            /\ ask[q].pc # "asked" => ask[q].key = saved
            /\ ask[q].pc \in {"read", "keep"} => ask[q].searched = saved
            /\ ask[q].pc = "keep" => ask[q].value = saved
            /\ ask[q].pc = "answer" => ask[q].value = saved \/ saved \in suspect

Types == TypeStores /\ TypeSaved /\ TypeRun /\ TypeEntries /\ TypeAsk /\ TypeHistory /\ TypeCounters
IInv == Types /\ RunHolds /\ StateNeedsHashes /\ FingerprintIsTrue /\ UndisturbedHolds
        /\ EntriesAreExact

LEMMA Strong == IInv => TypeOK /\ FingerprintIsTrue /\ EntriesAreExact
<1> SUFFICES ASSUME IInv PROVE TypeOK
  BY DEF IInv
<1>1. \A q \in Questions : ask[q].pc \in {"keep", "answer"} => ask[q].value # None
  BY NoneAssumption DEF IInv, Types, TypeAsk
<1>2. Running => run.fp # None
  BY NoneAssumption DEF IInv, Types, TypeRun, Held
<1>3. QED
  BY <1>1, <1>2 DEF IInv, Types, TypeStores, TypeSaved, TypeRun, TypeEntries, TypeAsk,
     TypeHistory, TypeCounters, RunType, AskType, TypeOK

LEMMA InitStrong == Init => IInv
<1> SUFFICES ASSUME Init PROVE IInv
  OBVIOUS
<1> USE DEF Init, Rest, Idle, NoEntries, Maybe, Held
<1>1. TypeStores /\ TypeSaved /\ TypeEntries
  BY FirstAssumption DEF TypeStores, TypeSaved, TypeEntries
<1>2. TypeRun
  BY DEF TypeRun, RunType, Running
<1>3. TypeAsk
  BY DEF TypeAsk, AskType
<1>4. TypeHistory
  BY DEF TypeHistory
<1>c. TypeCounters
  BY BoundsAssumption DEF TypeCounters
<1>5. RunHolds /\ StateNeedsHashes /\ FingerprintIsTrue
  BY DEF RunHolds, StateNeedsHashes, FingerprintIsTrue, Running
<1>6. UndisturbedHolds
  BY DEF UndisturbedHolds, Undisturbed, InFlight
<1>7. EntriesAreExact
  BY DEF EntriesAreExact
<1>8. QED
  BY <1>1, <1>2, <1>3, <1>4, <1>c, <1>5, <1>6, <1>7 DEF IInv, Types

\* Whatever counts every question in flight as overlapped leaves no other.
LEMMA OverlapHolds ==
    ASSUME ask' = ask, Overlap
    PROVE  UndisturbedHolds'
BY DEF Overlap, UndisturbedHolds, Undisturbed, InFlight

LEMMA OverlapType ==
    ASSUME TypeHistory, Overlap
    PROVE  overlapped' \subseteq Questions
BY DEF TypeHistory, Overlap, InFlight

\* Forgetting fingerprints leaves typed and exact entries.
LEMMA InvalidateHolds ==
    ASSUME TypeEntries, suspect \subseteq Fingerprints, EntriesAreExact, NEW fps, invalidate_repo(fps)
    PROVE  /\ TypeEntries'
           /\ suspect' \subseteq Fingerprints
           /\ EntriesAreExact'
<1> USE DEF invalidate_repo
<1>1. TypeEntries'
  BY DEF TypeEntries, Maybe
<1>2. suspect' \subseteq Fingerprints
  OBVIOUS
<1>3. EntriesAreExact'
  BY DEF EntriesAreExact
<1>4. QED
  BY <1>1, <1>2, <1>3

\* A step that leaves the index, the run and `broken` alone keeps what is said of them.
LEMMA IndexFrame ==
    ASSUME IInv, UNCHANGED <<disk, indexVars, run, broken>>
    PROVE  /\ TypeStores' /\ TypeSaved' /\ TypeRun'
           /\ RunHolds' /\ StateNeedsHashes' /\ FingerprintIsTrue'
BY DEF IInv, Types, indexVars, TypeStores, TypeSaved, TypeRun, RunHolds, StateNeedsHashes,
   FingerprintIsTrue, Running, get_repo_fingerprint

\* An edit of a directory preserves the invariant.
LEMMA EditStep ==
    ASSUME IInv, NEW r \in Roots, NEW v \in Versions, Edit(r, v)
    PROVE  IInv'
<1> USE DEF IInv, Types, Edit, indexVars, cacheVars, history
<1>1. TypeStores' /\ TypeCounters'
  BY BoundsAssumption DEF TypeStores, TypeCounters
<1>2. TypeSaved' /\ TypeRun' /\ TypeEntries' /\ TypeAsk' /\ TypeHistory'
  BY DEF TypeSaved, TypeRun, TypeEntries, TypeAsk, TypeHistory, Running
<1>3. RunHolds' /\ StateNeedsHashes' /\ FingerprintIsTrue' /\ EntriesAreExact'
  BY DEF RunHolds, StateNeedsHashes, FingerprintIsTrue, EntriesAreExact, Running,
     get_repo_fingerprint
<1>4. UndisturbedHolds'
  BY DEF UndisturbedHolds, Undisturbed, InFlight, Running
<1>5. QED
  BY <1>1, <1>2, <1>3, <1>4

\* Hashing and deciding preserves the invariant.
LEMMA StartStep ==
    ASSUME IInv, NEW r \in Roots, NEW forced \in BOOLEAN, Start(r, forced)
    PROVE  IInv'
<1> DEFINE fp == <<r, disk[r]>>
<1> USE DEF IInv, Types
<1>f. fp \in Fingerprints
  BY DEF TypeStores, Fingerprints
<1>r. /\ ~Running /\ memory' = fp /\ Overlap
      /\ UNCHANGED <<disk, col, saved, stored, cacheVars, ask, broken, suspect, counters>>
      /\ \/ run' = [pc |-> "clear", fp |-> fp, previous |-> saved, full |-> TRUE,
                    cleared |-> FALSE]
         \/ /\ run' = [pc |-> "embed", fp |-> fp, previous |-> saved, full |-> FALSE,
                       cleared |-> FALSE]
            /\ stored = r
         \/ /\ run' = [pc |-> "save", fp |-> fp, previous |-> saved, full |-> FALSE,
                       cleared |-> FALSE]
            /\ saved = fp
  BY DEF Start, Decide
<1>1. TypeStores' /\ TypeSaved' /\ TypeEntries' /\ TypeAsk' /\ TypeHistory' /\ TypeCounters'
  BY <1>f, <1>r, OverlapType DEF TypeStores, TypeSaved, TypeEntries, TypeAsk, TypeHistory,
     TypeCounters, cacheVars, counters, Maybe
<1>2. TypeRun'
  <2>1. PICK place \in {"clear", "embed", "save"}, full \in BOOLEAN :
            run' = [pc |-> place, fp |-> fp, previous |-> saved, full |-> full,
                    cleared |-> FALSE]
    BY <1>r
  <2>2. fp \in Maybe(Fingerprints) /\ saved \in Maybe(Fingerprints)
    BY <1>f DEF TypeSaved, Maybe
  <2>3. run' \in RunType /\ run'.fp = fp
    BY <2>1, <2>2 DEF RunType
  <2>4. QED
    BY <1>f, <2>3 DEF TypeRun
<1>3. RunHolds'
  <2>1. ~broken /\ stored = r => col = saved
    BY <1>r, NoneAssumption DEF StateNeedsHashes, FingerprintIsTrue
  <2>2. ~broken /\ saved = fp => col = saved
    BY <1>f, <1>r, NoneAssumption DEF FingerprintIsTrue, Held
  <2>3. QED
    BY <1>r, <2>1, <2>2 DEF RunHolds, Running
<1>4. StateNeedsHashes' /\ FingerprintIsTrue'
  BY <1>r DEF StateNeedsHashes, FingerprintIsTrue, Running
<1>5. UndisturbedHolds' /\ EntriesAreExact'
  BY <1>r, OverlapHolds DEF EntriesAreExact, cacheVars
<1>6. QED
  BY <1>1, <1>2, <1>3, <1>4, <1>5

\* Emptying the collection preserves the invariant.
LEMMA ClearVectorsStep ==
    ASSUME IInv, ClearVectors
    PROVE  IInv'
<1> USE DEF IInv, Types
<1>r. /\ Running /\ Running' /\ Overlap /\ UNCHANGED <<disk, memory, ask, broken>>
      /\ run' = [run EXCEPT !.pc = "invalidate", !.cleared = FALSE]
  BY DEF ClearVectors, Goto, Running, TypeRun, RunType
<1>1. TypeStores' /\ TypeSaved' /\ TypeAsk' /\ TypeCounters'
  BY <1>r DEF ClearVectors, TypeRun, Held, TypeStores, TypeSaved, TypeAsk, TypeCounters, counters
<1>2. TypeRun'
  BY <1>r DEF ClearVectors, TypeRun, RunType, Running
<1>3. TypeEntries' /\ TypeHistory' /\ EntriesAreExact'
  BY <1>r, OverlapType DEF ClearVectors, TypeHistory, TypeEntries, EntriesAreExact, cacheVars
<1>4. RunHolds'
  BY <1>r DEF ClearVectors, RunHolds, TypeRun, RunType, Running
<1>5. StateNeedsHashes' /\ FingerprintIsTrue' /\ UndisturbedHolds'
  BY <1>r, OverlapHolds DEF StateNeedsHashes, FingerprintIsTrue
<1>6. QED
  BY <1>1, <1>2, <1>3, <1>4, <1>5

\* Forgetting two fingerprints preserves the invariant.
LEMMA InvalidateStep ==
    ASSUME IInv, Invalidate
    PROVE  IInv'
<1> USE DEF IInv, Types
<1>r. /\ Running /\ Running' /\ Overlap /\ UNCHANGED <<disk, memory, ask, broken>>
      /\ run' = [run EXCEPT !.pc = "embed"]
  BY DEF Invalidate, Goto, Running, TypeRun, RunType, indexVars
<1>1. TypeStores' /\ TypeSaved' /\ TypeAsk' /\ TypeCounters'
  BY <1>r DEF Invalidate, TypeRun, TypeStores, TypeSaved, TypeAsk, TypeCounters, counters, indexVars
<1>2. TypeRun'
  BY <1>r DEF Invalidate, TypeRun, RunType, Running
<1>3. TypeEntries' /\ TypeHistory' /\ EntriesAreExact'
  BY <1>r, InvalidateHolds, OverlapType DEF Invalidate, TypeHistory
<1>4. RunHolds'
  BY <1>r DEF Invalidate, RunHolds, TypeRun, RunType, Running, indexVars
<1>5. StateNeedsHashes' /\ FingerprintIsTrue' /\ UndisturbedHolds'
  BY <1>r, OverlapHolds DEF StateNeedsHashes, FingerprintIsTrue
<1>6. QED
  BY <1>1, <1>2, <1>3, <1>4, <1>5

\* Storing some batches preserves the invariant.
LEMMA EmbedSomeStep ==
    ASSUME IInv, EmbedSome
    PROVE  IInv'
<1> USE DEF IInv, Types
<1>r. /\ Running /\ Running' /\ Overlap /\ UNCHANGED <<disk, memory, saved, ask, broken>>
      /\ run.pc = "embed"
      /\ run' = [run EXCEPT !.pc = "embedding"] \/ run' = [run EXCEPT !.pc = "patching"]
      /\ run.full \/ col = run.previous => run' = [run EXCEPT !.pc = "embedding"]
  BY DEF EmbedSome, Running, TypeRun, RunType
<1>1. TypeStores' /\ TypeSaved' /\ TypeAsk' /\ TypeCounters'
  BY <1>r DEF EmbedSome, Held, TypeStores, TypeSaved, TypeAsk, TypeCounters, counters
<1>2. TypeRun'
  BY <1>r DEF TypeRun, RunType, Running
<1>3. TypeEntries' /\ TypeHistory' /\ EntriesAreExact'
  BY <1>r, OverlapType DEF EmbedSome, TypeHistory, TypeEntries, EntriesAreExact, cacheVars
<1>4. RunHolds'
  BY <1>r DEF RunHolds, TypeRun, RunType, Running
<1>5. StateNeedsHashes' /\ FingerprintIsTrue' /\ UndisturbedHolds'
  BY <1>r, OverlapHolds DEF StateNeedsHashes, FingerprintIsTrue
<1>6. QED
  BY <1>1, <1>2, <1>3, <1>4, <1>5

\* Storing the last batch preserves the invariant.
LEMMA EmbedAllStep ==
    ASSUME IInv, EmbedAll
    PROVE  IInv'
<1> USE DEF IInv, Types
<1>r. /\ Running /\ Running' /\ Overlap /\ UNCHANGED <<disk, memory, saved, stored, ask, broken>>
      /\ run.pc \in {"embed", "embedding", "patching"}
      /\ run' = [run EXCEPT !.pc = "expire"]
  BY DEF EmbedAll, Goto, Running, TypeRun, RunType
<1>c. /\ col' \in {run.fp, Partial}
      /\ run.full /\ run.pc = "embed" => col' = run.fp
      /\ ~run.cleared /\ (run.pc = "embedding" \/ col = run.previous) => col' = run.fp
  BY DEF EmbedAll
<1>1. TypeStores' /\ TypeSaved' /\ TypeAsk' /\ TypeCounters'
  BY <1>r, <1>c DEF EmbedAll, Held, TypeRun, TypeStores, TypeSaved, TypeAsk, TypeCounters, counters
<1>2. TypeRun'
  BY <1>r DEF TypeRun, RunType, Running
<1>3. TypeEntries' /\ TypeHistory' /\ EntriesAreExact'
  BY <1>r, OverlapType DEF EmbedAll, TypeHistory, TypeEntries, EntriesAreExact, cacheVars
<1>4. RunHolds'
  BY <1>r, <1>c DEF RunHolds, TypeRun, RunType, Running
<1>5. StateNeedsHashes' /\ FingerprintIsTrue' /\ UndisturbedHolds'
  BY <1>r, OverlapHolds DEF StateNeedsHashes, FingerprintIsTrue
<1>6. QED
  BY <1>1, <1>2, <1>3, <1>4, <1>5

\* Forgetting the previous fingerprint preserves the invariant.
LEMMA ExpireStep ==
    ASSUME IInv, Expire
    PROVE  IInv'
<1> USE DEF IInv, Types
<1>r. /\ Running /\ Running' /\ Overlap /\ UNCHANGED <<disk, memory, ask, broken>>
      /\ run' = [run EXCEPT !.pc = "save"]
  BY DEF Expire, Goto, Running, TypeRun, RunType, indexVars
<1>1. TypeStores' /\ TypeSaved' /\ TypeAsk' /\ TypeCounters'
  BY <1>r DEF Expire, TypeRun, TypeStores, TypeSaved, TypeAsk, TypeCounters, counters, indexVars
<1>2. TypeRun'
  BY <1>r DEF Expire, TypeRun, RunType, Running
<1>3. TypeEntries' /\ TypeHistory' /\ EntriesAreExact'
  BY <1>r, InvalidateHolds, OverlapType DEF Expire, TypeHistory
<1>4. RunHolds'
  BY <1>r DEF Expire, RunHolds, TypeRun, RunType, Running, indexVars
<1>5. StateNeedsHashes' /\ FingerprintIsTrue' /\ UndisturbedHolds'
  BY <1>r, OverlapHolds DEF StateNeedsHashes, FingerprintIsTrue
<1>6. QED
  BY <1>1, <1>2, <1>3, <1>4, <1>5

\* Saving the hash store preserves the invariant.
LEMMA SaveHashesStep ==
    ASSUME IInv, SaveHashes
    PROVE  IInv'
<1> USE DEF IInv, Types
<1>r. /\ Running /\ Running' /\ Overlap /\ UNCHANGED <<disk, memory, ask, broken>>
      /\ run' = [run EXCEPT !.pc = "state"]
  BY DEF SaveHashes, Goto, Running, TypeRun, RunType
<1>1. TypeStores' /\ TypeSaved' /\ TypeAsk' /\ TypeCounters'
  BY <1>r DEF SaveHashes, TypeRun, Maybe, TypeStores, TypeSaved, TypeAsk, TypeCounters, counters
<1>2. TypeRun'
  BY <1>r DEF SaveHashes, TypeRun, RunType, Running
<1>3. TypeEntries' /\ TypeHistory' /\ EntriesAreExact'
  BY <1>r, OverlapType DEF SaveHashes, TypeHistory, TypeEntries, EntriesAreExact, cacheVars
<1>4. RunHolds'
  BY <1>r DEF SaveHashes, RunHolds, TypeRun, RunType, Running
<1>5. StateNeedsHashes' /\ FingerprintIsTrue' /\ UndisturbedHolds'
  BY <1>r, OverlapHolds DEF StateNeedsHashes, FingerprintIsTrue
<1>6. QED
  BY <1>1, <1>2, <1>3, <1>4, <1>5

\* The end of a run: the collection, the hash store and the fingerprint in
\* memory agree again, unless a clear or an earlier failure came in between.
LEMMA SaveStateStep ==
    ASSUME IInv, SaveState
    PROVE  IInv'
<1> USE DEF IInv, Types
<1>r. /\ Running /\ run.pc = "state" /\ run' = Idle /\ ~Running' /\ Overlap
      /\ stored' = run.fp[1] /\ broken' = (run.cleared \/ (broken /\ ~run.full))
      /\ UNCHANGED <<disk, col, saved, memory, ask, suspect, cacheVars, counters>>
  BY DEF SaveState, Running, Idle
<1>1. TypeStores' /\ TypeSaved' /\ TypeAsk' /\ TypeEntries' /\ TypeCounters'
  BY <1>r DEF TypeRun, Fingerprints, Maybe, TypeStores, TypeSaved, TypeAsk, TypeEntries,
     TypeCounters, counters, cacheVars
<1>2. TypeRun'
  BY <1>r DEF TypeRun, RunType, Idle, Maybe
<1>3. TypeHistory'
  BY <1>r, OverlapType DEF TypeHistory, TypeRun, RunType
<1>4. RunHolds'
  BY <1>r DEF RunHolds
<1>5. StateNeedsHashes' /\ FingerprintIsTrue'
  <2>1. ~broken' => saved = run.fp /\ col = run.fp /\ memory = run.fp
    BY <1>r DEF RunHolds, TypeRun, RunType, TypeHistory
  <2>2. run.fp # None
    BY <1>r, NoneAssumption DEF TypeRun, Held
  <2>3. QED
    BY <1>r, <2>1, <2>2 DEF StateNeedsHashes, FingerprintIsTrue, get_repo_fingerprint
<1>6. UndisturbedHolds' /\ EntriesAreExact'
  BY <1>r, OverlapHolds DEF EntriesAreExact, cacheVars
<1>7. QED
  BY <1>1, <1>2, <1>3, <1>4, <1>5, <1>6

\* A failed run preserves the invariant.
LEMMA FailStep ==
    ASSUME IInv, Fail
    PROVE  IInv'
<1> USE DEF IInv, Types
<1>r. /\ run' = Idle /\ ~Running' /\ Overlap /\ broken' = TRUE
      /\ UNCHANGED <<disk, col, saved, memory, stored, ask, suspect, cacheVars>>
  BY DEF Fail, Running, Idle, indexVars
<1>1. TypeStores' /\ TypeSaved' /\ TypeAsk' /\ TypeEntries'
  BY <1>r DEF TypeStores, TypeSaved, TypeAsk, TypeEntries, cacheVars
<1>2. TypeRun' /\ RunHolds'
  BY <1>r DEF TypeRun, RunType, Idle, Maybe, RunHolds
<1>3. TypeHistory'
  BY <1>r, OverlapType DEF TypeHistory
<1>4. TypeCounters'
  BY BoundsAssumption DEF TypeCounters, Fail
<1>5. StateNeedsHashes' /\ FingerprintIsTrue'
  BY <1>r DEF StateNeedsHashes, FingerprintIsTrue
<1>6. UndisturbedHolds' /\ EntriesAreExact'
  BY <1>r, OverlapHolds DEF EntriesAreExact, cacheVars
<1>7. QED
  BY <1>1, <1>2, <1>3, <1>4, <1>5, <1>6

\* A restart preserves the invariant.
LEMMA RestartStep ==
    ASSUME IInv, Restart
    PROVE  IInv'
<1> USE DEF IInv, Types
<1>r. /\ run' = Idle /\ ~Running' /\ broken' = (broken \/ Running)
      /\ memory' = None /\ overlapped' = {}
      /\ ask' = [q \in Questions |-> IF q \in InFlight THEN Rest("done") ELSE ask[q]]
      /\ UNCHANGED <<disk, col, saved, stored, suspect, cacheVars>>
  BY DEF Restart, Running, Idle
<1>1. TypeStores' /\ TypeSaved' /\ TypeEntries'
  BY <1>r DEF TypeStores, TypeSaved, TypeEntries, cacheVars, Maybe
<1>2. TypeRun' /\ RunHolds'
  BY <1>r DEF TypeRun, RunType, Idle, Maybe, RunHolds
<1>3. TypeAsk'
  <2>1. Rest("done") \in AskType /\ Rest("done").pc = "done"
    BY DEF Rest, AskType, Maybe
  <2>2. QED
    BY <1>r, <2>1 DEF TypeAsk
<1>4. TypeHistory'
  BY <1>r DEF TypeHistory, Running
<1>5. TypeCounters'
  BY BoundsAssumption DEF TypeCounters, Restart
<1>6. StateNeedsHashes' /\ FingerprintIsTrue'
  BY <1>r DEF StateNeedsHashes, FingerprintIsTrue, get_repo_fingerprint
<1>7. UndisturbedHolds'
  BY <1>r DEF UndisturbedHolds, Undisturbed, InFlight, Rest
<1>8. EntriesAreExact'
  BY <1>r DEF EntriesAreExact, cacheVars
<1>9. QED
  BY <1>1, <1>2, <1>3, <1>4, <1>5, <1>6, <1>7, <1>8

\* A clear preserves the invariant: with no hash store nothing is claimed.
LEMMA PostClearStep ==
    ASSUME IInv, PostClear
    PROVE  IInv'
<1> USE DEF IInv, Types
<1>r. /\ col' = Empty /\ saved' = None /\ stored' = None /\ suspect' = {}
      /\ retrieval' = NoEntries /\ semantic' = NoEntries
      /\ run' = [run EXCEPT !.cleared = Running] /\ Overlap
      /\ UNCHANGED <<disk, memory, ask, broken>>
  BY DEF PostClear
<1>1. TypeStores' /\ TypeSaved' /\ TypeEntries' /\ TypeAsk'
  BY <1>r DEF TypeStores, TypeSaved, TypeEntries, TypeAsk, NoEntries, Maybe, Held
<1>2. TypeRun'
  BY <1>r DEF TypeRun, RunType, Running
<1>3. TypeHistory'
  BY <1>r, OverlapType DEF TypeHistory
<1>4. TypeCounters'
  BY BoundsAssumption DEF TypeCounters, PostClear
<1>5. RunHolds'
  BY <1>r DEF RunHolds, TypeRun, RunType, Running
<1>6. StateNeedsHashes' /\ FingerprintIsTrue'
  BY <1>r DEF StateNeedsHashes, FingerprintIsTrue
<1>7. UndisturbedHolds'
  BY <1>r, OverlapHolds
<1>8. EntriesAreExact'
  BY <1>r DEF EntriesAreExact, NoEntries
<1>9. QED
  BY <1>1, <1>2, <1>3, <1>4, <1>5, <1>6, <1>7, <1>8

\* A question that is asked: nothing is claimed of it while it only was.
LEMMA AskedStep ==
    ASSUME IInv, NEW q \in Questions, Ask(q)
    PROVE  IInv'
<1> USE DEF IInv, Types
<1>1. /\ TypeStores' /\ TypeSaved' /\ TypeRun'
      /\ RunHolds' /\ StateNeedsHashes' /\ FingerprintIsTrue'
  BY IndexFrame DEF Ask, cacheVars, history, counters
<1>2. TypeEntries' /\ TypeCounters' /\ TypeHistory' /\ EntriesAreExact'
  BY DEF Ask, cacheVars, history, counters, TypeEntries, TypeCounters, TypeHistory,
     EntriesAreExact
<1>3. TypeAsk'
  BY DEF Ask, At, TypeAsk, AskType
<1>4. UndisturbedHolds'
  BY DEF Ask, UndisturbedHolds, Undisturbed, InFlight, TypeAsk, AskType, At, Running, indexVars
<1>5. QED
  BY <1>1, <1>2, <1>3, <1>4

\* The lookup keeps the invariant: the fingerprint it takes is the index's.
LEMMA LookupStep ==
    ASSUME IInv, NEW q \in Questions, Lookup(q)
    PROVE  IInv'
<1> USE DEF IInv, Types
<1>1. /\ TypeStores' /\ TypeSaved' /\ TypeRun'
      /\ RunHolds' /\ StateNeedsHashes' /\ FingerprintIsTrue'
  BY IndexFrame DEF Lookup, cacheVars, history, counters
<1>2. TypeEntries' /\ TypeCounters' /\ TypeHistory' /\ EntriesAreExact'
  BY DEF Lookup, cacheVars, history, counters, TypeEntries, TypeCounters, TypeHistory,
     EntriesAreExact
<1>3. TypeAsk'
  BY DEF Lookup, At, TypeAsk, AskType, Entry, get_repo_fingerprint, TypeSaved, TypeEntries, Maybe
<1>4. UndisturbedHolds'
  <2>1. ~Running /\ saved # None /\ ~broken => get_repo_fingerprint = saved
    BY DEF FingerprintIsTrue
  <2>2. saved # None /\ semantic[saved] # None => semantic[saved] = saved \/ saved \in suspect
    BY DEF EntriesAreExact, TypeSaved, Maybe
  <2>3. QED
    BY <2>1, <2>2 DEF Lookup, history, Entry, UndisturbedHolds, Undisturbed, InFlight, TypeAsk, AskType, At, Running, indexVars
<1>5. QED
  BY <1>1, <1>2, <1>3, <1>4

\* The search keeps the invariant: it uses the collection, or an entry of its fingerprint.
LEMMA SearchStep ==
    ASSUME IInv, NEW q \in Questions, Search(q)
    PROVE  IInv'
<1> USE DEF IInv, Types
<1>1. /\ TypeStores' /\ TypeSaved' /\ TypeRun'
      /\ RunHolds' /\ StateNeedsHashes' /\ FingerprintIsTrue'
  BY IndexFrame DEF Search, cacheVars, history, counters
<1>2. TypeEntries' /\ TypeCounters' /\ TypeHistory' /\ EntriesAreExact'
  BY DEF Search, cacheVars, history, counters, TypeEntries, TypeCounters, TypeHistory,
     EntriesAreExact
<1>3. TypeAsk'
  BY DEF Search, At, TypeAsk, AskType, Entry, get_repo_fingerprint, TypeSaved, TypeEntries, TypeStores, Maybe
<1>4. UndisturbedHolds'
  <2>1. ~Running /\ saved # None /\ ~broken => get_repo_fingerprint = saved /\ col = saved
    BY DEF FingerprintIsTrue
  <2>2. saved # None /\ retrieval[saved] # None => retrieval[saved] = saved \/ saved \in suspect
    BY DEF EntriesAreExact, TypeSaved, Maybe
  <2>3. QED
    BY <2>1, <2>2 DEF Search, history, Entry, UndisturbedHolds, Undisturbed, InFlight, TypeAsk, AskType, At, Running, indexVars
<1>5. QED
  BY <1>1, <1>2, <1>3, <1>4

\* Reading the collection keeps the invariant.
LEMMA ReadStep ==
    ASSUME IInv, NEW q \in Questions, Read(q)
    PROVE  IInv'
<1> USE DEF IInv, Types
<1>1. /\ TypeStores' /\ TypeSaved' /\ TypeRun'
      /\ RunHolds' /\ StateNeedsHashes' /\ FingerprintIsTrue'
  BY IndexFrame DEF Read, cacheVars, history, counters
<1>2. TypeEntries' /\ TypeCounters' /\ TypeHistory' /\ EntriesAreExact'
  BY DEF Read, cacheVars, history, counters, TypeEntries, TypeCounters, TypeHistory,
     EntriesAreExact
<1>3. TypeAsk'
  BY DEF Read, At, TypeAsk, AskType, TypeStores, Maybe
<1>4. UndisturbedHolds'
  <2>1. ~Running /\ saved # None /\ ~broken => col = saved
    BY DEF FingerprintIsTrue
  <2>2. QED
    BY <2>1 DEF Read, history, UndisturbedHolds, Undisturbed, InFlight, TypeAsk, AskType, At, Running, indexVars
<1>5. QED
  BY <1>1, <1>2, <1>3, <1>4

\* What a question holds and keeps is of its fingerprint, or that fingerprint
\* is suspect afterwards: keeping what was retrieved.
LEMMA KeepStep ==
    ASSUME IInv, NEW q \in Questions, Keep(q)
    PROVE  IInv'
<1> DEFINE fp == ask[q].searched
           value == IF ask[q].value = Empty THEN None ELSE ask[q].value
<1> USE DEF IInv, Types
<1>r. /\ ask[q].pc = "keep"
      /\ ask' = [ask EXCEPT ![q].pc = "answer", ![q].searched = None]
      /\ fp = None => UNCHANGED <<retrieval, suspect>>
      /\ fp # None => /\ retrieval' = [retrieval EXCEPT ![fp] = value]
                     /\ suspect' = IF q \in overlapped \/ broken THEN suspect \cup {fp} ELSE suspect
      /\ UNCHANGED <<disk, indexVars, run, semantic, overlapped, broken, counters>>
  BY DEF Keep, KeepAs, At, Suspect
<1>f. fp \in Maybe(Fingerprints) /\ value \in Maybe(Held \ {Empty})
  BY <1>r DEF TypeAsk, AskType, Maybe
<1>u. fp # None /\ q \notin overlapped /\ ~broken => value = fp
  <2>1. q \notin overlapped /\ ~broken => saved # None /\ fp = saved /\ ask[q].value = saved
    BY <1>r DEF UndisturbedHolds, Undisturbed, InFlight
  <2>2. saved # Empty
    BY EmptyAssumption, NoneAssumption DEF TypeSaved, Maybe, Held
  <2>3. QED
    BY <2>1, <2>2
<1>1. /\ TypeStores' /\ TypeSaved' /\ TypeRun'
      /\ RunHolds' /\ StateNeedsHashes' /\ FingerprintIsTrue'
  BY <1>r, IndexFrame
<1>2. TypeEntries' /\ TypeCounters' /\ TypeHistory'
  BY <1>r, <1>f DEF TypeEntries, TypeCounters, TypeHistory, counters, Maybe
<1>3. TypeAsk'
  BY <1>r DEF TypeAsk, AskType, Maybe
<1>4. EntriesAreExact'
  BY <1>r, <1>f, <1>u DEF EntriesAreExact, TypeEntries, Maybe
<1>5. UndisturbedHolds'
  BY <1>r DEF UndisturbedHolds, Undisturbed, InFlight, TypeAsk, AskType, Running, indexVars
<1>6. QED
  BY <1>1, <1>2, <1>3, <1>4, <1>5

\* The same for the answer.
LEMMA AnswerStep ==
    ASSUME IInv, NEW q \in Questions, Answer(q)
    PROVE  IInv'
<1> DEFINE fp == ask[q].key
           value == ask[q].value
<1> USE DEF IInv, Types
<1>r. /\ ask[q].pc = "answer"
      /\ ask' = [ask EXCEPT ![q] = Rest("done")] /\ overlapped' = overlapped \ {q}
      /\ fp = None => UNCHANGED <<semantic, suspect>>
      /\ fp # None => /\ semantic' = [semantic EXCEPT ![fp] = value]
                     /\ suspect' = IF q \in overlapped \/ broken THEN suspect \cup {fp} ELSE suspect
      /\ UNCHANGED <<disk, indexVars, run, retrieval, broken, counters>>
  BY DEF Answer, At, Suspect, Finish
<1>f. fp \in Maybe(Fingerprints) /\ value \in Held
  BY <1>r DEF TypeAsk, AskType
<1>u. fp # None /\ q \notin overlapped /\ ~broken => value = fp \/ fp \in suspect
  BY <1>r DEF UndisturbedHolds, Undisturbed, InFlight
<1>1. /\ TypeStores' /\ TypeSaved' /\ TypeRun'
      /\ RunHolds' /\ StateNeedsHashes' /\ FingerprintIsTrue'
  BY <1>r, IndexFrame
<1>2. TypeEntries' /\ TypeCounters' /\ TypeHistory'
  BY <1>r, <1>f DEF TypeEntries, TypeCounters, TypeHistory, counters, Maybe
<1>3. TypeAsk'
  BY <1>r DEF TypeAsk, AskType, Rest, Maybe
<1>4. EntriesAreExact'
  BY <1>r, <1>f, <1>u DEF EntriesAreExact, TypeEntries, Maybe
<1>5. UndisturbedHolds'
  BY <1>r DEF UndisturbedHolds, Undisturbed, InFlight, TypeAsk, AskType, Rest, Running, indexVars
<1>6. QED
  BY <1>1, <1>2, <1>3, <1>4, <1>5

\* Giving up keeps the invariant.
LEMMA AbandonStep ==
    ASSUME IInv, NEW q \in Questions, Abandon(q)
    PROVE  IInv'
<1> USE DEF IInv, Types
<1>1. /\ TypeStores' /\ TypeSaved' /\ TypeRun'
      /\ RunHolds' /\ StateNeedsHashes' /\ FingerprintIsTrue'
  BY IndexFrame DEF Abandon, counters, cacheVars
<1>2. TypeEntries' /\ TypeCounters' /\ TypeHistory' /\ EntriesAreExact'
  BY DEF Abandon, Finish, cacheVars, counters, TypeEntries, TypeCounters, TypeHistory,
     EntriesAreExact
<1>3. TypeAsk'
  BY DEF Abandon, Finish, Rest, Maybe, TypeAsk, AskType
<1>4. UndisturbedHolds'
  BY DEF Abandon, Finish, Rest, UndisturbedHolds, Undisturbed, InFlight, TypeAsk, AskType,
     Running, indexVars
<1>5. QED
  BY <1>1, <1>2, <1>3, <1>4

LEMMA NextStrong == IInv /\ [Next]_vars => IInv'
<1> SUFFICES ASSUME IInv, [Next]_vars PROVE IInv'
  OBVIOUS
<1>1. ASSUME NEW r \in Roots, NEW v \in Versions, Edit(r, v) PROVE IInv'
  BY <1>1, EditStep
<1>2. ASSUME NEW r \in Roots, NEW forced \in BOOLEAN, Start(r, forced) PROVE IInv'
  BY <1>2, StartStep
<1>3. CASE RunStep
  BY <1>3, ClearVectorsStep, InvalidateStep, EmbedSomeStep, EmbedAllStep, ExpireStep,
     SaveHashesStep, SaveStateStep DEF RunStep
<1>4. CASE Fail \/ Restart \/ PostClear
  BY <1>4, FailStep, RestartStep, PostClearStep
<1>5. ASSUME NEW q \in Questions, AskStep(q) PROVE IInv'
  BY <1>5, AskedStep, LookupStep, SearchStep, ReadStep, KeepStep, AnswerStep, AbandonStep
     DEF AskStep
<1>6. CASE UNCHANGED vars
  <2>1. /\ UNCHANGED <<disk, col, saved, memory, stored, run, retrieval, semantic, ask>>
        /\ UNCHANGED <<overlapped, broken, suspect, edits, faults, clears>>
    BY <1>6 DEF vars, indexVars, cacheVars, history, counters
  <2>2. Types'
    BY <2>1 DEF IInv, Types, TypeStores, TypeSaved, TypeRun, TypeEntries, TypeAsk,
       TypeHistory, TypeCounters, Running
  <2>3. RunHolds' /\ StateNeedsHashes' /\ FingerprintIsTrue'
    BY <2>1 DEF IInv, RunHolds, StateNeedsHashes, FingerprintIsTrue, Running,
       get_repo_fingerprint
  <2>4. UndisturbedHolds' /\ EntriesAreExact'
    BY <2>1 DEF IInv, UndisturbedHolds, Undisturbed, InFlight, EntriesAreExact, Running
  <2>5. QED
    BY <2>2, <2>3, <2>4 DEF IInv
<1>7. QED
  BY <1>1, <1>2, <1>3, <1>4, <1>5, <1>6 DEF Next

LEMMA AlwaysStrong == Spec => []IInv
  BY InitStrong, NextStrong, PTL DEF Spec

\* Every variable of the cached layers has its type, in every reachable state,
\* and an empty retrieval is never an entry.
THEOREM TypeCorrect == Spec => []TypeOK
  BY AlwaysStrong, Strong, PTL

\* Between runs, if none failed since the last full rebuild, the fingerprint in
\* memory, the hash store and the collection agree.
THEOREM FingerprintTrue == Spec => []FingerprintIsTrue
  BY AlwaysStrong, Strong, PTL

\* Only a disturbed question can keep an entry that its fingerprint's index
\* would not give.
THEOREM EntriesExact == Spec => []EntriesAreExact
  BY AlwaysStrong, Strong, PTL

=============================================================================
