---------------------------- MODULE DesktopApp -----------------------------
(* app.py: the desktop wrapper.  An instance takes a lock file, shows a      *)
(* window and starts a setup thread that checks the machine, downloads the   *)
(* model, starts server.py on a free port and waits for it; another thread   *)
(* then navigates the window.  The setup page polls a status and may start   *)
(* another setup.  Instances share the lock file, the model files and the    *)
(* ports; an instance that is killed leaves its lock and its server behind.  *)
(*                                                                           *)
(* Files follow POSIX: a setup that has the partial file open goes on        *)
(* writing to it under whatever name another setup gives it.  The model is a *)
(* sequence of pieces, 0 standing for a hole.  Progress texts are left out.  *)
EXTENDS Integers, Sequences, FiniteSets

CONSTANTS
    Apps,       \* instances, each launched at most once
    Setups,     \* runs of _run_setup, by number
    Ports,      \* the ports that are tried, in order
    Taken,      \* those another program listens on
    Machines,   \* machines it may be launched on
    None,
    Pieces,     \* number of pieces of the model
    Floor,      \* a model file of more than this many pieces is accepted
    MaxFaults   \* bound: kills of instances, exits of servers, broken transfers

ASSUME SetupsAssumption == Setups = 1..Cardinality(Setups)
ASSUME PortsAssumption == Ports \subseteq Nat \ {0} /\ Taken \subseteq Ports
ASSUME SizeAssumption == Pieces \in Nat /\ Floor \in 0..(Pieces - 1) /\ MaxFaults \in Nat
ASSUME NoneAssumption == None \notin Apps \cup Setups \cup Ports /\ None \notin Seq(Int)

Whole == [i \in 1..Pieces |-> i]
Prefixes == {SubSeq(Whole, 1, n) : n \in 0..Pieces}

VARIABLES
    machine,
    lock,      \* the instance andescode.lock names
    app,       \* where each instance is
    status,    \* _status of each instance: error, done and port
    panel,     \* its setup page shows the error and the retry button
    watching,  \* its navigation thread is alive
    view,      \* what its window shows: the setup page or a port
    proc,      \* _server_proc: the setup that started it
    setup,     \* each setup: its instance, place, open file and port
    server,    \* the server each setup started
    partial, model,   \* the files
    \* history
    together,  \* two instances were between the check and the write of the lock
    raced,     \* a setup began while another was under way
    whole,     \* a server ignored the Range header
    short,     \* a connection that closed early was taken for the end
    superseded,\* servers that _server_proc no longer names
    late,      \* servers started after the cleanup
    foreign,   \* setups that took another's server for theirs
    faults

files == <<partial, model>>
history == <<together, raced, whole, short, superseded, late, foreign>>
vars == <<machine, lock, app, status, panel, watching, view, proc, setup, server, files,
          history, faults>>

Unborn == [app |-> None, pc |-> "unborn", file |-> "none", at |-> 0, rest |-> <<>>,
           port |-> None]
Quiet == [error |-> FALSE, done |-> FALSE, port |-> None]

Init ==
    /\ machine \in Machines
    /\ lock = None
    /\ app = [a \in Apps |-> "off"]
    /\ status = [a \in Apps |-> Quiet]
    /\ panel = [a \in Apps |-> FALSE] /\ watching = [a \in Apps |-> FALSE]
    /\ view = [a \in Apps |-> None]
    /\ proc = [a \in Apps |-> None]
    /\ setup = [t \in Setups |-> Unborn]
    /\ server = [t \in Setups |-> "none"]
    /\ partial = None /\ model = None
    /\ together = FALSE /\ raced = FALSE /\ whole = FALSE /\ short = FALSE
    /\ superseded = {} /\ late = {} /\ foreign = {}
    /\ faults = 0

Running(a) == app[a] \in {"up", "leaving"}
Busy(t) == setup[t].pc \notin {"unborn", "over"}
Unstarted == {t \in Setups : setup[t].pc = "unborn"}

\* A new setup thread of instance a, the next by number.
NewSetup(a) ==
    /\ \E t \in Unstarted :
          /\ \A u \in Unstarted : t <= u
          /\ setup' = [setup EXCEPT ![t].app = a, ![t].pc = "begin"]
    /\ raced' = (raced \/ \E t \in Setups : Busy(t))

\* Threads are daemons: they end with their process.
EndSetups(a) ==
    setup' = [t \in Setups |-> IF setup[t].app = a
                               THEN [setup[t] EXCEPT !.pc = "over", !.file = "none",
                                                     !.rest = <<>>, !.at = 0]
                               ELSE setup[t]]

-----------------------------------------------------------------------------
\* The instance, its window and its navigation thread.

\* fault: a lock file is taken to be stale
LaunchAnyway(a) ==
    /\ app[a] = "off"
    /\ app' = [app EXCEPT ![a] = "claim"]
    /\ together' = (together \/ \E b \in Apps : app[b] = "claim")
    /\ UNCHANGED <<machine, lock, status, panel, watching, view, proc, setup, server, files,
                   raced, whole, short, superseded, late, foreign, faults>>

\* _acquire_lock up to the write: a lock whose process is gone is stale.
Launch(a) ==
    /\ app[a] = "off"
    /\ app' = [app EXCEPT ![a] = IF lock # None /\ Running(lock) THEN "refused" ELSE "claim"]
    /\ together' = (together \/ \E b \in Apps : app[b] = "claim")
    /\ UNCHANGED <<machine, lock, status, panel, watching, view, proc, setup, server, files,
                   raced, whole, short, superseded, late, foreign, faults>>

\* The lock is written, the window shown, the setup and the watch started.
Claim(a) ==
    /\ app[a] = "claim"
    /\ lock' = a
    /\ app' = [app EXCEPT ![a] = "up"]
    /\ watching' = [watching EXCEPT ![a] = TRUE]
    /\ NewSetup(a)
    /\ UNCHANGED <<machine, status, panel, view, proc, server, files, together, whole, short,
                   superseded, late, foreign, faults>>

\* The setup page reads /status; the panel stays until a later poll.
Poll(a) ==
    /\ app[a] = "up" /\ view[a] = None
    /\ panel' = [panel EXCEPT ![a] = status[a].error]
    /\ UNCHANGED <<machine, lock, app, status, watching, view, proc, setup, server, files,
                   history, faults>>

\* /retry starts a setup whether or not one is under way.
Retry(a) ==
    /\ app[a] = "up" /\ panel[a]
    /\ panel' = [panel EXCEPT ![a] = FALSE]
    /\ NewSetup(a)
    /\ UNCHANGED <<machine, lock, app, status, watching, view, proc, server, files, together,
                   whole, short, superseded, late, foreign, faults>>

\* The thread that navigates leaves for good at the first error it sees.
Watch(a) ==
    /\ app[a] = "up" /\ watching[a] /\ (status[a].done \/ status[a].error)
    /\ watching' = [watching EXCEPT ![a] = FALSE]
    /\ view' = IF status[a].done THEN [view EXCEPT ![a] = status[a].port] ELSE view
    /\ panel' = IF status[a].done THEN [panel EXCEPT ![a] = FALSE] ELSE panel
    /\ UNCHANGED <<machine, lock, app, status, proc, setup, server, files, history, faults>>

\* fault: the server is left running
LeaveOnly(a) ==
    /\ app[a] = "up"
    /\ app' = [app EXCEPT ![a] = "leaving"]
    /\ lock' = None
    /\ UNCHANGED <<machine, status, panel, watching, view, proc, setup, server, files, history,
                   faults>>

\* _cleanup: the lock goes, whoever wrote it, and the server it knows of.
Leave(a) ==
    /\ app[a] = "up"
    /\ app' = [app EXCEPT ![a] = "leaving"]
    /\ lock' = None
    /\ server' = IF proc[a] # None THEN [server EXCEPT ![proc[a]] = "exited"] ELSE server
    /\ UNCHANGED <<machine, status, panel, watching, view, proc, setup, files, history, faults>>

Exit(a) ==
    /\ app[a] = "leaving"
    /\ app' = [app EXCEPT ![a] = "gone"]
    /\ EndSetups(a)
    /\ UNCHANGED <<machine, lock, status, panel, watching, view, proc, server, files, history,
                   faults>>

Kill(a) ==
    /\ app[a] = "up" /\ faults < MaxFaults
    /\ faults' = faults + 1
    /\ app' = [app EXCEPT ![a] = "killed"]
    /\ EndSetups(a)
    /\ UNCHANGED <<machine, lock, status, panel, watching, view, proc, server, files, history>>

-----------------------------------------------------------------------------
\* _run_setup on thread t.

At(t, place) == setup[t].pc = place
Goto(t, place) == setup' = [setup EXCEPT ![t].pc = place]

\* set_status clears the error, also that of another setup.
Progress(t) == status' = [status EXCEPT ![setup[t].app].error = FALSE]

\* An exception: the error is shown and the thread ends; its files stay.
Fail(t) ==
    /\ status' = [status EXCEPT ![setup[t].app].error = TRUE]
    /\ setup' = [setup EXCEPT ![t] = [Unborn EXCEPT !.app = setup[t].app, !.pc = "over"]]

\* Memory as seen before psutil is installed: only Linux cannot ask the system.
Ram(m) == IF m.psutil \/ m.system \in {"Darwin", "Windows"} THEN m.ram ELSE 0

CompatibleMac(m) == Ram(m) >= IF m.silicon THEN 16 ELSE 32

\* An NVIDIA card is judged by its memory alone, even beside enough main memory.
CompatibleWindows(m) == IF m.vram > 0 THEN m.vram >= 8 ELSE Ram(m) >= 32
CompatibleLinux(m) == IF m.vram > 0 THEN m.vram >= 10 ELSE Ram(m) >= 32

Compatible(m) ==
    CASE m.system = "Darwin"  -> CompatibleMac(m)
      [] m.system = "Windows" -> CompatibleWindows(m)
      [] m.system = "Linux"   -> CompatibleLinux(m)
      [] OTHER                -> TRUE

Begin(t) ==
    /\ At(t, "begin")
    /\ Progress(t) /\ Goto(t, "checks")
    /\ UNCHANGED <<machine, lock, app, panel, watching, view, proc, server, files, history,
                   faults>>

\* Python, hardware, disk and dependencies.
Checks(t, ok) ==
    /\ At(t, "checks")
    /\ IF ok /\ Compatible(machine) THEN Progress(t) /\ Goto(t, "model") ELSE Fail(t)
    /\ UNCHANGED <<machine, lock, app, panel, watching, view, proc, server, files, history,
                   faults>>

_check_model_integrity == model # None /\ Len(model) > Floor

\* fault: no port is looked for when the model is there
CheckModelOnly(t) ==
    /\ At(t, "model")
    /\ Progress(t)
    /\ setup' = [setup EXCEPT ![t].pc = IF _check_model_integrity THEN "spawn" ELSE "connect",
                              ![t].at = IF partial = None THEN 0 ELSE Len(partial)]
    /\ UNCHANGED <<machine, lock, app, panel, watching, view, proc, server, files, history,
                   faults>>

\* A model that is there is used; otherwise the size of the partial file is
\* where the download is to go on.
CheckModel(t) ==
    /\ At(t, "model")
    /\ Progress(t)
    /\ setup' = [setup EXCEPT ![t].pc = IF _check_model_integrity THEN "port" ELSE "connect",
                              ![t].at = IF partial = None THEN 0 ELSE Len(partial)]
    /\ UNCHANGED <<machine, lock, app, panel, watching, view, proc, server, files, history,
                   faults>>

\* What an answer sends after `at` pieces are there; a range that begins at the
\* end of the file cannot be satisfied.
Sent(at, answer) ==
    IF answer = "range" THEN SubSeq(Whole, at + 1, Pieces) ELSE Whole

\* fault: the file is always opened for writing from the start
ConnectAnew(t, answer) ==
    LET at == setup[t].at
    IN /\ At(t, "connect")
       /\ answer = "range" => at < Pieces
       /\ IF answer = "none"
          THEN Fail(t) /\ UNCHANGED <<partial, whole>>
          ELSE /\ Progress(t)
               /\ setup' = [setup EXCEPT ![t].pc = "receive", ![t].file = "partial",
                                         ![t].rest = Sent(at, answer), ![t].at = 1]
               /\ partial' = <<>>
               /\ whole' = (whole \/ (answer = "whole" /\ at > 0))
       /\ UNCHANGED <<machine, lock, app, panel, watching, view, proc, server, model,
                      together, raced, short, superseded, late, foreign, faults>>

\* The connection, then the file: appended to when there was a partial file,
\* whatever the server answers to the Range header, and else truncated.
Connect(t, answer) ==
    LET at == setup[t].at
    IN /\ At(t, "connect")
       /\ answer = "range" => at < Pieces
       /\ IF answer = "none"
          THEN Fail(t) /\ UNCHANGED <<partial, whole>>
          ELSE /\ Progress(t)
               /\ setup' = [setup EXCEPT ![t].pc = "receive", ![t].file = "partial",
                                         ![t].rest = Sent(at, answer),
                                         ![t].at = IF at > 0 THEN 0 ELSE 1]
               /\ partial' = IF at > 0 /\ partial # None THEN partial ELSE <<>>
               /\ whole' = (whole \/ (answer = "whole" /\ at > 0))
       /\ UNCHANGED <<machine, lock, app, panel, watching, view, proc, server, model,
                      together, raced, short, superseded, late, foreign, faults>>

\* Piece p written to a file: at its end (at = 0), or at an offset, past which
\* another may have truncated it.
Written(content, at, p) ==
    LET i == IF at = 0 THEN Len(content) + 1 ELSE at
    IN [j \in 1..(IF i > Len(content) THEN i ELSE Len(content)) |->
           IF j = i THEN p ELSE IF j <= Len(content) THEN content[j] ELSE 0]

Receive(t) ==
    LET file == setup[t].file
        at   == setup[t].at
        p    == Head(setup[t].rest)
    IN /\ At(t, "receive") /\ setup[t].rest # <<>>
       /\ Progress(t)
       /\ partial' = IF file = "partial" THEN Written(partial, at, p) ELSE partial
       /\ model' = IF file = "model" THEN Written(model, at, p) ELSE model
       /\ setup' = [setup EXCEPT ![t].rest = Tail(@), ![t].at = IF at = 0 THEN 0 ELSE at + 1]
       /\ UNCHANGED <<machine, lock, app, panel, watching, view, proc, server, history,
                      faults>>

\* An interrupted transfer: "Progress saved".
Interrupt(t) ==
    /\ At(t, "receive") /\ faults < MaxFaults
    /\ faults' = faults + 1
    /\ Fail(t)
    /\ UNCHANGED <<machine, lock, app, panel, watching, view, proc, server, files, history>>

\* What the open files are after one name changed to another.
Moved(from, to) ==
    [t \in Setups |-> IF setup[t].file = from THEN [setup[t] EXCEPT !.file = to] ELSE setup[t]]

\* No more data, because it was all or because the connection was closed, which
\* a read of a given amount does not tell apart.  The partial file is renamed;
\* another setup may have done that already.
EndOfData(t) ==
    /\ At(t, "receive")
    /\ \/ setup[t].rest = <<>> /\ UNCHANGED <<short, faults>>
       \/ setup[t].rest # <<>> /\ faults < MaxFaults /\ faults' = faults + 1 /\ short' = TRUE
    /\ IF partial = None
       THEN Fail(t) /\ UNCHANGED files
       ELSE /\ model' = partial /\ partial' = None
            /\ Progress(t)
            /\ setup' = [u \in Setups |->
                  IF u = t THEN [setup[t] EXCEPT !.pc = "verify", !.file = "none",
                                                 !.rest = <<>>, !.at = 0]
                  ELSE IF setup[u].file = "partial" THEN [setup[u] EXCEPT !.file = "model"]
                  ELSE IF setup[u].file = "model" THEN [setup[u] EXCEPT !.file = "gone"]
                  ELSE setup[u]]
    /\ UNCHANGED <<machine, lock, app, panel, watching, view, proc, server, together, raced,
                   whole, superseded, late, foreign>>

\* A model that is too small is deleted, and with it what was downloaded.
Verify(t) ==
    /\ At(t, "verify")
    /\ IF _check_model_integrity
       THEN Progress(t) /\ Goto(t, "port") /\ UNCHANGED model
       ELSE /\ model' = None
            /\ status' = [status EXCEPT ![setup[t].app].error = TRUE]
            /\ setup' = [Moved("model", "gone")
                         EXCEPT ![t] = [Unborn EXCEPT !.app = setup[t].app, !.pc = "over"]]
    /\ UNCHANGED <<machine, lock, app, panel, watching, view, proc, server, partial, history,
                   faults>>

Listening(p) == {t \in Setups : server[t] = "listening" /\ setup[t].port = p}
Free == {p \in Ports \ Taken : Listening(p) = {}}

\* fault: the first port is used without a look
FirstPort(t) ==
    /\ At(t, "port")
    /\ Progress(t)
    /\ \E p \in Ports :
          /\ \A q \in Ports : p <= q
          /\ setup' = [setup EXCEPT ![t].pc = "spawn", ![t].port = p]
    /\ UNCHANGED <<machine, lock, app, panel, watching, view, proc, server, files, history,
                   faults>>

\* _find_available_port binds and lets go.
FindPort(t) ==
    /\ At(t, "port")
    /\ \/ Free = {} /\ Fail(t)
       \/ \E p \in Free :
             /\ \A q \in Free : p <= q
             /\ Progress(t)
             /\ setup' = [setup EXCEPT ![t].pc = "spawn", ![t].port = p]
    /\ UNCHANGED <<machine, lock, app, panel, watching, view, proc, server, files, history,
                   faults>>

\* _start_server forgets the server it had.
Spawn(t) ==
    LET a == setup[t].app
    IN /\ At(t, "spawn")
       /\ Progress(t) /\ Goto(t, "wait")
       /\ server' = [server EXCEPT ![t] = "loading"]
       /\ proc' = [proc EXCEPT ![a] = t]
       /\ superseded' = IF proc[a] = None THEN superseded ELSE superseded \cup {proc[a]}
       /\ late' = IF app[a] = "leaving" THEN late \cup {t} ELSE late
       /\ UNCHANGED <<machine, lock, app, panel, watching, view, files, together, raced, whole,
                      short, foreign, faults>>

\* The process is looked at before the port, and any listener on it will do; the
\* wait may also run out.
Wait(t) ==
    LET a == setup[t].app
        p == setup[t].port
        answers == p \in Taken \/ Listening(p) # {}
    IN /\ At(t, "wait")
       /\ \/ /\ server[proc[a]] # "exited" /\ answers
             /\ Progress(t) /\ Goto(t, "ready")
             /\ foreign' = IF t \in Listening(p) THEN foreign ELSE foreign \cup {t}
          \/ /\ server[proc[a]] = "exited" \/ ~answers
             /\ status' = [status EXCEPT ![a].error = TRUE]
             /\ Goto(t, "over")
             /\ UNCHANGED foreign
       /\ UNCHANGED <<machine, lock, app, panel, watching, view, proc, server, files, together,
                      raced, whole, short, superseded, late, faults>>

Done(t) ==
    /\ At(t, "ready")
    /\ Goto(t, "over")
    /\ status' = [status EXCEPT ![setup[t].app].done = TRUE,
                                ![setup[t].app].port = setup[t].port]
    /\ UNCHANGED <<machine, lock, app, panel, watching, view, proc, server, files, history,
                   faults>>

SetupStep(t) ==
    \/ Begin(t) \/ CheckModel(t) \/ Receive(t) \/ Interrupt(t) \/ EndOfData(t) \/ Verify(t)
    \/ FindPort(t) \/ Spawn(t) \/ Wait(t) \/ Done(t)
    \/ \E ok \in BOOLEAN : Checks(t, ok)
    \/ \E answer \in {"range", "whole", "none"} : Connect(t, answer)

\* server.py: it loads the model, then binds its port.
Bind(t) ==
    /\ server[t] = "loading"
    /\ server' = [server EXCEPT ![t] = IF setup[t].port \in Taken
                                          \/ Listening(setup[t].port) # {}
                                       THEN "exited" ELSE "listening"]
    /\ UNCHANGED <<machine, lock, app, status, panel, watching, view, proc, setup, files,
                   history, faults>>

ServerExits(t) ==
    /\ server[t] \in {"loading", "listening"} /\ faults < MaxFaults
    /\ faults' = faults + 1
    /\ server' = [server EXCEPT ![t] = "exited"]
    /\ UNCHANGED <<machine, lock, app, status, panel, watching, view, proc, setup, files,
                   history>>

AppStep(a) ==
    \/ Launch(a) \/ Claim(a) \/ Poll(a) \/ Retry(a) \/ Watch(a)
    \/ Leave(a) \/ Exit(a) \/ Kill(a)

Next ==
    \/ \E a \in Apps : AppStep(a)
    \/ \E t \in Setups : SetupStep(t) \/ Bind(t) \/ ServerExits(t)

Spec == Init /\ [][Next]_vars

-----------------------------------------------------------------------------
\* Every variable has its type.
TypeOK ==
    /\ machine \in Machines /\ lock \in Apps \cup {None}
    /\ app \in [Apps -> {"off", "claim", "refused", "up", "leaving", "gone", "killed"}]
    /\ status \in [Apps -> [error: BOOLEAN, done: BOOLEAN, port: Ports \cup {None}]]
    /\ panel \in [Apps -> BOOLEAN] /\ watching \in [Apps -> BOOLEAN]
    /\ view \in [Apps -> Ports \cup {None}] /\ proc \in [Apps -> Setups \cup {None}]
    /\ setup \in [Setups -> [app: Apps \cup {None},
                             pc: {"unborn", "begin", "checks", "model", "connect", "receive",
                                  "verify", "port", "spawn", "wait", "ready", "over"},
                             file: {"none", "partial", "model", "gone"}, at: Nat,
                             rest: Seq(1..Pieces), port: Ports \cup {None}]]
    /\ \A t \in Setups :
          /\ setup[t].file = "partial" => partial # None
          /\ setup[t].file = "model" => model # None
          /\ server[t] # "none" => setup[t].port # None
    /\ server \in [Setups -> {"none", "loading", "listening", "exited"}]
    /\ partial = None \/ partial \in Seq(0..Pieces)
    /\ model = None \/ model \in Seq(0..Pieces)
    /\ superseded \subseteq Setups /\ late \subseteq Setups /\ foreign \subseteq Setups
    /\ faults \in 0..MaxFaults

\* One instance runs at a time, across quits, kills and stale locks, unless two
\* were launched at once: the lock file is checked and then written.
OneInstance ==
    \A a, b \in Apps : Running(a) /\ Running(b) /\ a # b =>
        together \/ "leaving" \in {app[a], app[b]}

\* The model a server is given is a beginning of the model larger than the
\* floor, and the whole of it unless a connection that closed early passed for
\* the end, whatever was interrupted, killed and resumed before; excepted are
\* servers that ignore the Range header and setups that overlapped.
ServedModelIsWhole ==
    \A t \in Setups : server[t] \in {"loading", "listening"} /\ ~raced /\ ~whole =>
        /\ model \in Prefixes /\ Len(model) > Floor
        /\ short \/ model = Whole

\* A setup that reports the server ready has reached the server it started,
\* unless two instances ran together or a server was forgotten, came late or
\* outlived a killed instance.
ReadyMeansOurs ==
    foreign = {} \/ together \/ superseded # {} \/ late # {}
                 \/ \E a \in Apps : app[a] = "killed"

\* An instance that quit leaves no server running but those that a retry made
\* it forget and one that was started while it was quitting.
NoServerLeft ==
    \A t \in Setups : server[t] \in {"loading", "listening"} /\ app[setup[t].app] = "gone" =>
        t \in superseded \cup late

=============================================================================
