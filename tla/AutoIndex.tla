----------------------------- MODULE AutoIndex -----------------------------
(* AutoIndexManager of auto_index.py: a thread that polls the directory,     *)
(* collects what changed, waits until the changes have settled and hands     *)
(* them to an index run.                                                     *)
(*                                                                           *)
(* The manager's fields are read and written under one lock, so a block that *)
(* holds it is one action; between such blocks the owner (set_enabled,       *)
(* start_for_root, stop) and the watch threads interleave.  A stop event is  *)
(* set only by the stop() that has just taken it out of _stop_event, so      *)
(* the thread that watches is told to end by that field alone.               *)
(*                                                                           *)
(* run_index_fn and snapshot_fn are given by the caller: an index run reads  *)
(* the whole directory, or is refused, or raises; a snapshot may raise.      *)
EXTENDS Naturals

CONSTANTS
    Roots,      \* directories that may be watched
    First,      \* the one watched first; they are interchangeable
    Files,      \* relative paths that are relevant in them
    Present,    \* those that are there at first
    None,       \* no root, no file there
    MaxEdits,   \* bound: edits of the directories
    MaxStarts   \* bound: watch threads ever started

ASSUME BoundsAssumption == MaxEdits \in Nat /\ MaxStarts \in Nat
ASSUME FilesAssumption == First \in Roots /\ Present \subseteq Files
ASSUME NoneAssumption == None \notin Roots /\ None \notin Roots \X Nat

Threads == 1..MaxStarts
Content == Roots \X (0..MaxEdits)
Tree == [Files -> Content \cup {None}]
Nothing == [f \in Files |-> None]

VARIABLES
    disk,      \* disk[r][f]: the content of f under r
    clock,     \* number of edits
    enabled,
    indexed_root, watching, snapshot, pending,
    settling,  \* _last_change_at is set
    rerun,     \* _rerun_requested
    thread,    \* _thread: the last thread started and not stopped, or 0
    started,   \* number of threads ever started
    watch,     \* where each thread is: its place, root, snapshot and batch
    owner,     \* where the owner is, and the root it is to watch
    told,      \* history: the directory as the last index run read it
    absent,    \* history: files that have been absent in this watch
    back,      \* history: files that were absent again
    overlap,   \* history: a stop gave up waiting for its thread
    muted      \* history: disabled while the thread was alive

fields == <<enabled, indexed_root, watching, snapshot, pending, settling, rerun, thread>>
lapses == <<overlap, muted>>
vars == <<disk, clock, fields, started, watch, owner, told, absent, back, lapses>>

Alive(t) == t # 0 /\ watch[t].pc # "dead"

AtRest == [pc |-> "idle", goal |-> None, joins |-> 0]
Dead == [pc |-> "dead", root |-> None, current |-> Nothing, batch |-> {}]

Init ==
    /\ disk = [r \in Roots |-> [f \in Files |-> IF f \in Present THEN <<r, 0>> ELSE None]]
    /\ absent = {}
    /\ clock = 0
    /\ enabled = TRUE /\ indexed_root = None /\ watching = FALSE
    /\ snapshot = Nothing /\ pending = {} /\ settling = FALSE /\ rerun = FALSE
    /\ thread = 0 /\ started = 0
    /\ watch = [t \in Threads |-> Dead]
    /\ owner = AtRest
    /\ told = Nothing
    /\ back = {} /\ overlap = FALSE /\ muted = FALSE

\* A file is written anew, or removed; only its absence can come back.  Edits
\* of a directory that is not watched nor about to be make no difference here.
Edit(r, f, content) ==
    /\ r \in {indexed_root, owner.goal} \cup {watch[t].root : t \in Threads}
    /\ clock < MaxEdits /\ content \in {None, <<r, clock + 1>>} /\ disk[r][f] # content
    /\ clock' = clock + 1
    /\ disk' = [disk EXCEPT ![r][f] = content]
    /\ IF r = indexed_root /\ content = None
       THEN absent' = absent \cup {f} /\ back' = back \cup (absent \cap {f})
       ELSE UNCHANGED <<absent, back>>
    /\ UNCHANGED <<fields, started, watch, owner, told, lapses>>

-----------------------------------------------------------------------------
\* The owner of the manager, one call at a time.

Idle == owner.pc = "idle"

\* Disabling forgets what is pending; it neither stops a thread nor, when
\* enabled again, starts one.
set_enabled(b) ==
    /\ Idle
    /\ enabled' = b
    /\ pending' = IF b THEN pending ELSE {}
    /\ settling' = (b /\ settling)
    /\ muted' = (muted \/ (~b /\ Alive(thread)))
    /\ UNCHANGED <<disk, clock, indexed_root, watching, snapshot, rerun, thread, started,
                   watch, owner, told, absent, back, overlap>>

\* The first block of start_for_root: a disabled manager takes the root only,
\* and a root that is watched already is left alone.
start_for_root(r) ==
    /\ Idle /\ started < MaxStarts /\ (started = 0 => r = First)
    /\ indexed_root' = IF enabled THEN indexed_root ELSE r
    /\ owner' = IF enabled /\ ~(Alive(thread) /\ indexed_root = r)
                THEN [owner EXCEPT !.pc = "stop", !.goal = r] ELSE owner
    /\ UNCHANGED <<disk, clock, enabled, watching, snapshot, pending, settling, rerun,
                   thread, started, watch, told, absent, back, lapses>>

stop ==
    /\ Idle
    /\ owner' = [owner EXCEPT !.pc = "stop", !.goal = None]
    /\ UNCHANGED <<disk, clock, fields, started, watch, told, absent, back, lapses>>

\* The block of stop(), and the event set after it.
Stop ==
    /\ owner.pc = "stop"
    /\ thread' = 0 /\ watching' = FALSE /\ snapshot' = Nothing /\ told' = Nothing
    /\ pending' = {} /\ settling' = FALSE /\ indexed_root' = None
    /\ absent' = {} /\ back' = {} /\ muted' = FALSE
    /\ owner' = [owner EXCEPT !.pc = "join", !.joins = thread]
    /\ UNCHANGED <<disk, clock, enabled, rerun, started, watch, overlap>>

\* fault: nobody waits for the thread
JoinNot ==
    /\ owner.pc = "join"
    /\ owner' = IF owner.goal = None THEN AtRest
                ELSE [owner EXCEPT !.pc = "start", !.joins = 0]
    /\ UNCHANGED <<disk, clock, fields, started, watch, told, absent, back, lapses>>

\* join(timeout=2) outlasts the poll interval, but not a snapshot or a run.
Join ==
    /\ owner.pc = "join"
    /\ Alive(owner.joins) => watch[owner.joins].pc \in {"snap", "run"}
    /\ overlap' = (overlap \/ Alive(owner.joins))
    /\ owner' = IF owner.goal = None THEN AtRest
                ELSE [owner EXCEPT !.pc = "start", !.joins = 0]
    /\ UNCHANGED <<disk, clock, fields, started, watch, told, absent, back, muted>>

\* The last block of start_for_root.  It takes the snapshot under the lock; if
\* that raises, the root is set and nothing watches it.  The directory has been
\* indexed before the watch starts.
Begin(raised) ==
    /\ owner.pc = "start"
    /\ indexed_root' = owner.goal
    /\ owner' = AtRest
    /\ IF raised
       THEN UNCHANGED <<watching, snapshot, pending, settling, thread, started, watch, told,
                        absent, overlap>>
       ELSE /\ thread' = started + 1 /\ started' = started + 1
            /\ watching' = TRUE /\ snapshot' = disk[owner.goal]
            /\ pending' = {} /\ settling' = FALSE
            /\ watch' = [watch EXCEPT ![started + 1].pc = "top"]
            /\ told' = disk[owner.goal]
            /\ overlap' = \E t \in Threads : Alive(t)
            /\ absent' = {f \in Files : disk[owner.goal][f] = None}
    /\ UNCHANGED <<disk, clock, enabled, rerun, back, muted>>

\* An index run that ends returns the request for another one to its caller,
\* who runs it.
notify_auto_run_end ==
    /\ rerun
    /\ rerun' = FALSE
    /\ told' = IF indexed_root = None THEN told ELSE disk[indexed_root]
    /\ UNCHANGED <<disk, clock, enabled, indexed_root, watching, snapshot, pending, settling,
                   thread, started, watch, owner, absent, back, lapses>>

-----------------------------------------------------------------------------
\* _watch_loop on thread t.

At(t, place) == watch[t].pc = place

\* fault: the root is not looked at
TopUnchecked(t) ==
    /\ At(t, "top")
    /\ watch' = [watch EXCEPT ![t].pc = "snap", ![t].root = indexed_root]
    /\ UNCHANGED <<disk, clock, fields, started, owner, told, absent, back, lapses>>

Top(t) ==
    /\ At(t, "top")
    /\ watch' = [watch EXCEPT ![t] = IF watching /\ indexed_root # None
                                     THEN [Dead EXCEPT !.pc = "snap", !.root = indexed_root]
                                     ELSE Dead]
    /\ UNCHANGED <<disk, clock, fields, started, owner, told, absent, back, lapses>>

Snapshot(t) ==
    /\ At(t, "snap")
    /\ watch' = [watch EXCEPT ![t].pc = "merge", ![t].current = disk[watch[t].root]]
    /\ UNCHANGED <<disk, clock, fields, started, owner, told, absent, back, lapses>>

SnapshotRaises(t) ==
    /\ At(t, "snap")
    /\ watch' = [watch EXCEPT ![t] = [Dead EXCEPT !.pc = "top"]]
    /\ UNCHANGED <<disk, clock, fields, started, owner, told, absent, back, lapses>>

\* fault: the changes of a poll replace those that were pending
MergeLast(t, ready) ==
    LET current == watch[t].current
        new     == {f \in Files : snapshot[f] # current[f]}
        all     == IF new = {} THEN pending ELSE new
    IN /\ At(t, "merge")
       /\ ready => settling /\ new = {} /\ all # {}
       /\ snapshot' = current
       /\ pending' = IF ready THEN {} ELSE all
       /\ settling' = (~ready /\ (settling \/ new # {}))
       /\ watch' = [watch EXCEPT ![t] = IF ready
                     THEN [Dead EXCEPT !.pc = "run", !.root = watch[t].root, !.batch = all]
                     ELSE [Dead EXCEPT !.pc = "top"]]
       /\ UNCHANGED <<disk, clock, enabled, indexed_root, watching, rerun, thread, started,
                      owner, told, absent, back, lapses>>

\* fault: the debounce time starts again at every poll that has changes pending
MergeRestless(t, ready) ==
    LET current == watch[t].current
        new     == {f \in Files : snapshot[f] # current[f]}
    IN /\ At(t, "merge") /\ ~ready
       /\ snapshot' = current
       /\ pending' = pending \cup new
       /\ settling' = (settling \/ new # {})
       /\ watch' = [watch EXCEPT ![t] = [Dead EXCEPT !.pc = "top"]]
       /\ UNCHANGED <<disk, clock, enabled, indexed_root, watching, rerun, thread, started,
                      owner, told, absent, back, lapses>>

\* Compare and collect; a batch is taken when no change has come for the
\* debounce time, which only a poll that sees none can find.
Merge(t, ready) ==
    LET current == watch[t].current
        new     == {f \in Files : snapshot[f] # current[f]}
        all     == pending \cup new
    IN /\ At(t, "merge")
       /\ ready => settling /\ new = {} /\ all # {}
       /\ snapshot' = current
       /\ pending' = IF ready THEN {} ELSE all
       /\ settling' = (~ready /\ (settling \/ new # {}))
       /\ watch' = [watch EXCEPT ![t] = IF ready
                     THEN [Dead EXCEPT !.pc = "run", !.root = watch[t].root, !.batch = all]
                     ELSE [Dead EXCEPT !.pc = "top"]]
       /\ UNCHANGED <<disk, clock, enabled, indexed_root, watching, rerun, thread, started,
                      owner, told, absent, back, lapses>>

\* fault: a refused batch is dropped
RunDropping(t, result) ==
    /\ At(t, "run")
    /\ told' = IF result = "ran" THEN disk[watch[t].root] ELSE told
    /\ watch' = [watch EXCEPT ![t] = IF result = "raised" THEN Dead
                                     ELSE [Dead EXCEPT !.pc = "top"]]
    /\ UNCHANGED <<disk, clock, fields, started, owner, absent, back, lapses>>

\* run_index_fn: a refused batch leaves only the request for a rerun, and an
\* exception ends the thread.
Run(t, result) ==
    /\ At(t, "run")
    /\ told' = IF result = "ran" THEN disk[watch[t].root] ELSE told
    /\ rerun' = (rerun \/ result = "refused")
    /\ watch' = [watch EXCEPT ![t] = IF result = "raised" THEN Dead
                                     ELSE [Dead EXCEPT !.pc = "top"]]
    /\ UNCHANGED <<disk, clock, enabled, indexed_root, watching, snapshot, pending,
                   settling, thread, started, owner, absent, back, lapses>>

Step(t) ==
    \/ Top(t) \/ Snapshot(t) \/ SnapshotRaises(t)
    \/ \E ready \in BOOLEAN : Merge(t, ready)
    \/ \E result \in {"ran", "refused", "raised"} : Run(t, result)

OwnerStep == Stop \/ Join \/ \E raised \in BOOLEAN : Begin(raised)

Next ==
    \/ \E r \in Roots, f \in Files : \E content \in {None, <<r, clock + 1>>} :
          Edit(r, f, content)
    \/ \E b \in BOOLEAN : set_enabled(b)
    \/ \E r \in Roots : start_for_root(r)
    \/ stop \/ OwnerStep \/ notify_auto_run_end
    \/ \E t \in Threads : Step(t)

Spec == Init /\ [][Next]_vars

\* Threads are scheduled, a directory can be read again and again, time passes
\* while nothing changes, and an index run that is going on ends.
FairSpec ==
    /\ Spec
    /\ \A t \in Threads : WF_vars(Step(t))
    /\ SF_vars(\E t \in Threads : Snapshot(t))
    /\ SF_vars(\E t \in Threads : Merge(t, TRUE))
    /\ WF_vars(notify_auto_run_end)

-----------------------------------------------------------------------------
\* Every field has its type, and a thread that polls has a root.
TypeOK ==
    /\ disk \in [Roots -> Tree] /\ clock \in 0..MaxEdits
    /\ enabled \in BOOLEAN /\ watching \in BOOLEAN
    /\ indexed_root \in Roots \cup {None} /\ snapshot \in Tree /\ told \in Tree
    /\ pending \subseteq Files /\ settling \in BOOLEAN /\ rerun \in BOOLEAN
    /\ thread \in 0..MaxStarts /\ started \in 0..MaxStarts
    /\ watch \in [Threads -> [pc: {"dead", "top", "snap", "merge", "run"},
                              root: Roots \cup {None}, current: Tree,
                              batch: SUBSET Files]]
    /\ \A t \in Threads : watch[t].pc \in {"snap", "merge", "run"} => watch[t].root # None
    /\ owner \in [pc: {"idle", "stop", "join", "start"}, goal: Roots \cup {None},
                  joins: 0..MaxStarts]
    /\ absent \subseteq Files /\ back \subseteq absent
    /\ overlap \in BOOLEAN /\ muted \in BOOLEAN

Watched == watching /\ Alive(thread) /\ ~overlap /\ ~muted

\* What no index run has read of the watched directory is still to be seen by a
\* poll, pending, in the batch the thread is about to run, or covered by the
\* request for a rerun.  Excepted are a file that comes and goes unseen (the
\* snapshot is as old as the poll before the run) and the lapses: a thread that
\* outlived its stop, a manager disabled under its thread, and a run that raised,
\* which ends the thread.
NoChangeIsLost ==
    Watched => \A f \in Files \ back : disk[indexed_root][f] # told[f] =>
        \/ snapshot[f] # disk[indexed_root][f]
        \/ f \in pending \/ f \in watch[thread].batch \/ rerun

\* Once start_for_root or stop has returned, no thread of an earlier watch is
\* left, and what is compared, pending and run is of the directory asked for;
\* excepted are a stop that gave up waiting and a disabled manager, which gives
\* a thread that goes on another root.
SwitchIsClean ==
    Idle /\ ~overlap /\ ~muted =>
        /\ \A t \in Threads : Alive(t) => t = thread /\ watching
        /\ Alive(thread) => \A f \in Files : snapshot[f] # None => snapshot[f][1] = indexed_root
        /\ \A t \in Threads : At(t, "run") => watch[t].root = indexed_root

\* A change of the watched directory reaches an index run.
ChangesAreIndexed ==
    []<>~(Watched /\ \E f \in Files \ back : disk[indexed_root][f] # told[f])

=============================================================================
