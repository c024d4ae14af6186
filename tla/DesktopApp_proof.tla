------------------------- MODULE DesktopApp_proof --------------------------
(* Proofs about the desktop application, for any number of instances, setups *)
(* and ports, and a model of any size.                                       *)
EXTENDS DesktopApp, TLAPS, SequenceTheorems

-----------------------------------------------------------------------------
\* The conjuncts of the inductive invariant.

\* While no two claimed at once, one instance claims or is up, and an instance
\* that is up is the one the lock names.
Exclusive ==
    ~together =>
        /\ \A a, b \in Apps : {app[a], app[b]} \subseteq {"claim", "up"} => a = b
        /\ \A a \in Apps : app[a] = "up" => lock = a

\* A setup belongs to an instance; it goes on while that one runs, and has its
\* server started once it waits for it.  Only the partial file is open, and only
\* while it is received.
SetupPlace ==
    \A t \in Setups :
        /\ setup[t].pc # "unborn" => setup[t].app \in Apps
        /\ Busy(t) => Running(setup[t].app)
        /\ server[t] # "none" => setup[t].pc \in {"wait", "ready", "over"}
        /\ setup[t].pc \in {"wait", "ready"} => server[t] # "none"
        /\ setup[t].pc # "receive" => setup[t].file = "none"
        /\ setup[t].pc \in {"spawn", "wait", "ready"} => setup[t].port \in Ports \ Taken

Alive(t) == server[t] \in {"loading", "listening"}

\* A server is the one that its instance knows, or was superseded; after the
\* cleanup only superseded and late ones are alive.
ProcKnown ==
    /\ \A a \in Apps : proc[a] # None => server[proc[a]] # "none" /\ setup[proc[a]].app = a
    /\ \A t \in Setups : server[t] # "none" => proc[setup[t].app] = t \/ t \in superseded
    /\ \A t \in Setups : Alive(t) => app[setup[t].app] \in {"up", "leaving", "gone", "killed"}
    /\ \A t \in Setups : Alive(t) /\ app[setup[t].app] \in {"leaving", "gone"} =>
          t \in superseded \cup late

\* One setup at a time.
OneSetup == ~raced => \A t, u \in Setups : Busy(t) /\ Busy(u) => t = u

\* The first n pieces of the model.
First(n) == SubSeq(Whole, 1, n)

\* What is to come after them.
Rest(n) == SubSeq(Whole, n + 1, Pieces)

\* Without an overlap and with servers that honour a range, the files are
\* beginnings of the model, and a download goes on where the partial file ends.
Clean == ~raced /\ ~whole
FilesArePrefixes ==
    Clean =>
        /\ partial \in Prefixes \cup {None} /\ model \in Prefixes \cup {None}
        /\ short \/ model \in {Whole, None}
        /\ \A t \in Setups :
              /\ At(t, "connect") =>
                    setup[t].at = IF partial = None THEN 0 ELSE Len(partial)
              /\ At(t, "receive") =>
                    /\ setup[t].file = "partial"
                    /\ \E n \in 0..Pieces :
                          /\ partial = First(n)
                          /\ setup[t].rest = Rest(n)
                          /\ setup[t].at \in {0, n + 1}

\* A server is started with a model that was found large enough, and none is
\* alive while one is downloaded.
ModelStands ==
    Clean =>
        /\ \A t \in Setups : setup[t].pc \in {"port", "spawn"} => _check_model_integrity
        /\ \A t \in Setups : Alive(t) =>
              /\ _check_model_integrity
              /\ \A u \in Setups : setup[u].pc \notin {"connect", "receive", "verify"}

-----------------------------------------------------------------------------
\* What the actions do to the setups.

Places == {"unborn", "begin", "checks", "model", "connect", "receive", "verify", "port",
           "spawn", "wait", "ready", "over"}
SetupRecord == [app: Apps \cup {None}, pc: Places,
                file: {"none", "partial", "model", "gone"}, at: Nat, rest: Seq(1..Pieces),
                port: Ports \cup {None}]

\* Setup t becomes a record of these fields; the others are left alone.
Became(t, a, p, f, k, r, o) ==
    /\ setup' \in [Setups -> SetupRecord]
    /\ setup'[t].app = a /\ setup'[t].pc = p /\ setup'[t].file = f
    /\ setup'[t].at = k /\ setup'[t].rest = r /\ setup'[t].port = o
    /\ \A u \in Setups \ {t} : setup'[u] = setup[u]

\* The setups are typed as TypeOK says.
LEMMA SetupType == ASSUME TypeOK PROVE setup \in [Setups -> SetupRecord]
  BY DEF TypeOK, SetupRecord, Places

\* A setup that goes to another place.
LEMMA GotoEffect ==
  ASSUME TypeOK, NEW t \in Setups, NEW p \in Places, Goto(t, p)
  PROVE  Became(t, setup[t].app, p, setup[t].file, setup[t].at, setup[t].rest, setup[t].port)
<1>1. setup \in [Setups -> SetupRecord] /\ setup[t] \in SetupRecord
  BY SetupType
<1>2. PICK w \in SetupRecord :
         /\ w.app = setup[t].app /\ w.pc = p /\ w.file = setup[t].file
         /\ w.at = setup[t].at /\ w.rest = setup[t].rest /\ w.port = setup[t].port
         /\ setup' = [setup EXCEPT ![t] = w]
  <2>. DEFINE w == [setup[t] EXCEPT !.pc = p]
  <2>1. w \in SetupRecord
    BY <1>1 DEF SetupRecord
  <2>2. /\ w.app = setup[t].app /\ w.pc = p /\ w.file = setup[t].file
        /\ w.at = setup[t].at /\ w.rest = setup[t].rest /\ w.port = setup[t].port
    BY <1>1 DEF SetupRecord
  <2>3. setup' = [setup EXCEPT ![t] = w]
    BY <1>1 DEF Goto
  <2>. QED
    BY <2>1, <2>2, <2>3
<1>. QED
  BY <1>1, <1>2 DEF Became

\* The record of a setup that failed.
LEMMA FailedRecord ==
  ASSUME TypeOK, NEW t \in Setups
  PROVE  LET w == [Unborn EXCEPT !.app = setup[t].app, !.pc = "over"]
         IN /\ w \in SetupRecord /\ w.app = setup[t].app /\ w.pc = "over"
            /\ w.file = "none" /\ w.at = 0 /\ w.rest = <<>> /\ w.port = None
<1>1. setup[t].app \in Apps \cup {None}
  BY SetupType DEF SetupRecord
<1>2. <<>> \in Seq(1..Pieces)
  OBVIOUS
<1>. QED
  BY <1>1, <1>2 DEF SetupRecord, Unborn, Places

LEMMA FailEffect ==
  ASSUME TypeOK, NEW t \in Setups, Fail(t)
  PROVE  Became(t, setup[t].app, "over", "none", 0, <<>>, None)
  BY SetupType, FailedRecord DEF Fail, Became

LEMMA CheckModelEffect ==
  ASSUME TypeOK, NEW t \in Setups, CheckModel(t)
  PROVE  Became(t, setup[t].app, IF _check_model_integrity THEN "port" ELSE "connect",
                setup[t].file, IF partial = None THEN 0 ELSE Len(partial), setup[t].rest,
                setup[t].port)
<1>. DEFINE p == IF _check_model_integrity THEN "port" ELSE "connect"
            k == IF partial = None THEN 0 ELSE Len(partial)
<1>1. setup \in [Setups -> SetupRecord] /\ setup[t] \in SetupRecord
  BY SetupType
<1>2. k \in Nat /\ p \in Places
  BY DEF TypeOK, Places
<1>3. setup' = [setup EXCEPT ![t] = [setup[t] EXCEPT !.pc = p, !.at = k]]
  BY <1>1 DEF CheckModel
<1>. HIDE DEF p, k
<1>4. PICK w \in SetupRecord :
         /\ w.app = setup[t].app /\ w.pc = p /\ w.file = setup[t].file
         /\ w.at = k /\ w.rest = setup[t].rest /\ w.port = setup[t].port
         /\ setup' = [setup EXCEPT ![t] = w]
  <2>. DEFINE w == [setup[t] EXCEPT !.pc = p, !.at = k]
  <2>1. w \in SetupRecord
    BY <1>1, <1>2 DEF SetupRecord
  <2>2. /\ w.app = setup[t].app /\ w.pc = p /\ w.file = setup[t].file
        /\ w.at = k /\ w.rest = setup[t].rest /\ w.port = setup[t].port
    BY <1>1 DEF SetupRecord
  <2>. QED
    BY <1>3, <2>1, <2>2
<1>5. Became(t, setup[t].app, p, setup[t].file, k, setup[t].rest, setup[t].port)
  BY <1>1, <1>4 DEF Became
<1>. QED
  BY <1>5 DEF p, k

\* What an answer sends consists of pieces.
LEMMA SentType ==
  ASSUME NEW k \in Nat, NEW answer
  PROVE  Sent(k, answer) \in Seq(1..Pieces) /\ Whole \in Seq(1..Pieces) /\ Len(Whole) = Pieces
<1>1. Whole \in Seq(1..Pieces) /\ Len(Whole) = Pieces
  BY SizeAssumption DEF Whole
<1>2. \A i \in (k + 1)..Pieces : Whole[i] \in 1..Pieces
  BY SizeAssumption DEF Whole
<1>3. SubSeq(Whole, k + 1, Pieces) \in Seq(1..Pieces)
  BY <1>2, SizeAssumption, SubSeqProperties, k + 1 \in Int, Pieces \in Int
<1>. QED
  BY <1>1, <1>3 DEF Sent

LEMMA ConnectEffect ==
  ASSUME TypeOK, NEW t \in Setups, NEW answer, Connect(t, answer)
  PROVE  IF answer = "none"
         THEN Became(t, setup[t].app, "over", "none", 0, <<>>, None)
         ELSE Became(t, setup[t].app, "receive", "partial", IF setup[t].at > 0 THEN 0 ELSE 1,
                     Sent(setup[t].at, answer), setup[t].port)
<1>1. CASE answer = "none"
  BY <1>1, FailEffect DEF Connect
<1>2. CASE answer # "none"
  <2>. DEFINE k == IF setup[t].at > 0 THEN 0 ELSE 1
              r == Sent(setup[t].at, answer)
  <2>1. setup \in [Setups -> SetupRecord] /\ setup[t] \in SetupRecord /\ setup[t].at \in Nat
    BY SetupType DEF SetupRecord
  <2>2. k \in Nat /\ r \in Seq(1..Pieces)
    BY <2>1, SentType
  <2>3. setup' = [setup EXCEPT ![t] = [setup[t] EXCEPT !.pc = "receive", !.file = "partial",
                                                       !.rest = r, !.at = k]]
    BY <1>2, <2>1 DEF Connect
  <2>. HIDE DEF k, r
  <2>4. PICK w \in SetupRecord :
           /\ w.app = setup[t].app /\ w.pc = "receive" /\ w.file = "partial"
           /\ w.at = k /\ w.rest = r /\ w.port = setup[t].port
           /\ setup' = [setup EXCEPT ![t] = w]
    <3>. DEFINE w == [setup[t] EXCEPT !.pc = "receive", !.file = "partial", !.rest = r, !.at = k]
    <3>1. w \in SetupRecord
      BY <2>1, <2>2 DEF SetupRecord, Places
    <3>2. /\ w.app = setup[t].app /\ w.pc = "receive" /\ w.file = "partial"
          /\ w.at = k /\ w.rest = r /\ w.port = setup[t].port
      BY <2>1 DEF SetupRecord
    <3>. QED
      BY <2>3, <3>1, <3>2
  <2>5. Became(t, setup[t].app, "receive", "partial", k, r, setup[t].port)
    BY <2>1, <2>4 DEF Became
  <2>. QED
    BY <1>2, <2>5 DEF k, r
<1>. QED
  BY <1>1, <1>2

LEMMA ReceiveEffect ==
  ASSUME TypeOK, NEW t \in Setups, Receive(t)
  PROVE  /\ Became(t, setup[t].app, "receive", setup[t].file,
                   IF setup[t].at = 0 THEN 0 ELSE setup[t].at + 1, Tail(setup[t].rest),
                   setup[t].port)
         /\ Head(setup[t].rest) \in 1..Pieces
<1>. DEFINE k == IF setup[t].at = 0 THEN 0 ELSE setup[t].at + 1
            r == Tail(setup[t].rest)
<1>1. setup \in [Setups -> SetupRecord] /\ setup[t] \in SetupRecord /\ setup[t].pc = "receive"
  BY SetupType DEF Receive, At
<1>2. setup[t].at \in Nat /\ setup[t].rest \in Seq(1..Pieces) /\ setup[t].rest # <<>>
  BY <1>1 DEF SetupRecord, Receive
<1>3. k \in Nat /\ r \in Seq(1..Pieces) /\ Head(setup[t].rest) \in 1..Pieces
  <2>1. \A s \in Seq(1..Pieces) : s # <<>> => Head(s) \in 1..Pieces /\ Tail(s) \in Seq(1..Pieces)
    BY HeadTailProperties
  <2>2. k \in Nat
    BY <1>2
  <2>. QED
    BY <1>2, <2>1, <2>2
<1>4. setup' = [setup EXCEPT ![t] = [setup[t] EXCEPT !.rest = r, !.at = k]]
  BY <1>1 DEF Receive
<1>. HIDE DEF k, r
<1>5. PICK w \in SetupRecord :
         /\ w.app = setup[t].app /\ w.pc = "receive" /\ w.file = setup[t].file
         /\ w.at = k /\ w.rest = r /\ w.port = setup[t].port
         /\ setup' = [setup EXCEPT ![t] = w]
  <2>. DEFINE w == [setup[t] EXCEPT !.rest = r, !.at = k]
  <2>1. w \in SetupRecord
    BY <1>1, <1>3 DEF SetupRecord
  <2>2. /\ w.app = setup[t].app /\ w.pc = "receive" /\ w.file = setup[t].file
        /\ w.at = k /\ w.rest = r /\ w.port = setup[t].port
    BY <1>1 DEF SetupRecord
  <2>. QED
    BY <1>4, <2>1, <2>2
<1>6. Became(t, setup[t].app, "receive", setup[t].file, k, r, setup[t].port)
  BY <1>1, <1>5 DEF Became
<1>. QED
  BY <1>3, <1>6 DEF k, r

LEMMA FindPortEffect ==
  ASSUME TypeOK, NEW t \in Setups, FindPort(t)
  PROVE  \/ Became(t, setup[t].app, "over", "none", 0, <<>>, None)
         \/ \E p \in Free : Became(t, setup[t].app, "spawn", setup[t].file, setup[t].at,
                                   setup[t].rest, p)
<1>1. CASE Fail(t)
  BY <1>1, FailEffect
<1>2. ASSUME NEW p \in Free, setup' = [setup EXCEPT ![t].pc = "spawn", ![t].port = p]
      PROVE  Became(t, setup[t].app, "spawn", setup[t].file, setup[t].at, setup[t].rest, p)
  <2>1. setup \in [Setups -> SetupRecord] /\ setup[t] \in SetupRecord
    BY SetupType
  <2>2. setup' = [setup EXCEPT ![t] = [setup[t] EXCEPT !.pc = "spawn", !.port = p]]
    BY <1>2, <2>1
  <2>3. PICK w \in SetupRecord :
           /\ w.app = setup[t].app /\ w.pc = "spawn" /\ w.file = setup[t].file
           /\ w.at = setup[t].at /\ w.rest = setup[t].rest /\ w.port = p
           /\ setup' = [setup EXCEPT ![t] = w]
    <3>. DEFINE w == [setup[t] EXCEPT !.pc = "spawn", !.port = p]
    <3>1. w \in SetupRecord
      BY <2>1 DEF SetupRecord, Places, Free
    <3>2. /\ w.app = setup[t].app /\ w.pc = "spawn" /\ w.file = setup[t].file
          /\ w.at = setup[t].at /\ w.rest = setup[t].rest /\ w.port = p
      BY <2>1 DEF SetupRecord
    <3>. QED
      BY <2>2, <3>1, <3>2
  <2>. QED
    BY <2>1, <2>3 DEF Became
<1>. QED
  BY <1>1, <1>2 DEF FindPort

\* A new setup is one that was not there.
LEMMA NewSetupEffect ==
  ASSUME TypeOK, NEW a \in Apps, NewSetup(a)
  PROVE  /\ raced' = (raced \/ \E u \in Setups : Busy(u))
         /\ \E t \in Setups :
               /\ setup[t].pc = "unborn"
               /\ Became(t, a, "begin", setup[t].file, setup[t].at, setup[t].rest,
                         setup[t].port)
<1>1. PICK t \in Unstarted : setup' = [setup EXCEPT ![t].app = a, ![t].pc = "begin"]
  BY DEF NewSetup
<1>2. t \in Setups /\ setup[t].pc = "unborn"
  BY <1>1 DEF Unstarted
<1>3. setup \in [Setups -> SetupRecord] /\ setup[t] \in SetupRecord
  BY <1>2, SetupType
<1>4. setup' = [setup EXCEPT ![t] = [setup[t] EXCEPT !.app = a, !.pc = "begin"]]
  BY <1>1, <1>2, <1>3
<1>5. PICK w \in SetupRecord :
         /\ w.app = a /\ w.pc = "begin" /\ w.file = setup[t].file
         /\ w.at = setup[t].at /\ w.rest = setup[t].rest /\ w.port = setup[t].port
         /\ setup' = [setup EXCEPT ![t] = w]
  <2>. DEFINE w == [setup[t] EXCEPT !.app = a, !.pc = "begin"]
  <2>1. w \in SetupRecord
    BY <1>3 DEF SetupRecord, Places
  <2>2. /\ w.app = a /\ w.pc = "begin" /\ w.file = setup[t].file
        /\ w.at = setup[t].at /\ w.rest = setup[t].rest /\ w.port = setup[t].port
    BY <1>3 DEF SetupRecord
  <2>. QED
    BY <1>4, <2>1, <2>2
<1>6. Became(t, a, "begin", setup[t].file, setup[t].at, setup[t].rest, setup[t].port)
  BY <1>2, <1>3, <1>5 DEF Became
<1>. QED
  BY <1>2, <1>6 DEF NewSetup

\* The setups of an instance that ends.
Ended(a) ==
    /\ setup' \in [Setups -> SetupRecord]
    /\ \A t \in Setups : setup[t].app # a => setup'[t] = setup[t]
    /\ \A t \in Setups : setup[t].app = a =>
          /\ setup'[t].app = a /\ setup'[t].pc = "over" /\ setup'[t].file = "none"
          /\ setup'[t].port = setup[t].port

LEMMA EndEffect ==
  ASSUME TypeOK, NEW a \in Apps, EndSetups(a)
  PROVE  Ended(a)
<1>1. setup \in [Setups -> SetupRecord]
  BY SetupType
<1>2. ASSUME NEW t \in Setups
      PROVE  LET w == [setup[t] EXCEPT !.pc = "over", !.file = "none", !.rest = <<>>, !.at = 0]
             IN /\ w \in SetupRecord /\ w.app = setup[t].app /\ w.pc = "over"
                /\ w.file = "none" /\ w.port = setup[t].port
  <2>1. setup[t] \in SetupRecord /\ <<>> \in Seq(1..Pieces)
    BY <1>1
  <2>. QED
    BY <2>1 DEF SetupRecord, Places
<1>. QED
  BY <1>1, <1>2 DEF EndSetups, Ended

\* The other setups when a file changes its name: only their file may change.
Renamed(t) ==
    \A u \in Setups \ {t} :
        /\ setup'[u].app = setup[u].app /\ setup'[u].pc = setup[u].pc
        /\ setup'[u].at = setup[u].at /\ setup'[u].rest = setup[u].rest
        /\ setup'[u].port = setup[u].port

\* The end of the data: the partial file becomes the model, and whoever writes
\* to it goes on writing to the model.
LEMMA EndOfDataEffect ==
  ASSUME TypeOK, NEW t \in Setups, EndOfData(t)
  PROVE  /\ setup' \in [Setups -> SetupRecord]
         /\ setup'[t].app = setup[t].app /\ setup'[t].file = "none"
         /\ Renamed(t)
         /\ \/ /\ partial = None /\ setup'[t].pc = "over" /\ setup'[t].port = None
               /\ \A u \in Setups \ {t} : setup'[u] = setup[u]
               /\ UNCHANGED files
            \/ /\ partial # None /\ setup'[t].pc = "verify" /\ setup'[t].port = setup[t].port
               /\ model' = partial /\ partial' = None
               /\ \A u \in Setups \ {t} :
                     setup'[u].file = CASE setup[u].file = "partial" -> "model"
                                        [] setup[u].file = "model"   -> "gone"
                                        [] OTHER -> setup[u].file
<1>1. setup \in [Setups -> SetupRecord]
  BY SetupType
<1>2. CASE partial = None
  <2>1. Became(t, setup[t].app, "over", "none", 0, <<>>, None) /\ UNCHANGED files
    BY <1>2, FailEffect DEF EndOfData
  <2>. QED
    BY <1>2, <2>1 DEF Became, Renamed
<1>3. CASE partial # None
  <2>1. ASSUME NEW u \in Setups, NEW f \in {"none", "partial", "model", "gone"}
        PROVE  LET w == [setup[u] EXCEPT !.file = f]
               IN /\ w \in SetupRecord /\ w.app = setup[u].app /\ w.pc = setup[u].pc
                  /\ w.at = setup[u].at /\ w.rest = setup[u].rest
                  /\ w.file = f /\ w.port = setup[u].port
    BY <1>1 DEF SetupRecord
  <2>2. setup' = [u \in Setups |->
                    IF u = t THEN [setup[t] EXCEPT !.pc = "verify", !.file = "none",
                                                   !.rest = <<>>, !.at = 0]
                    ELSE IF setup[u].file = "partial" THEN [setup[u] EXCEPT !.file = "model"]
                    ELSE IF setup[u].file = "model" THEN [setup[u] EXCEPT !.file = "gone"]
                    ELSE setup[u]]
    BY <1>3 DEF EndOfData
  <2>. DEFINE v == [setup[t] EXCEPT !.pc = "verify", !.file = "none", !.rest = <<>>, !.at = 0]
  <2>3. /\ v \in SetupRecord /\ v.app = setup[t].app /\ v.pc = "verify"
        /\ v.file = "none" /\ v.port = setup[t].port
    <3>1. setup[t] \in SetupRecord /\ <<>> \in Seq(1..Pieces)
      BY <1>1
    <3>. QED
      BY <3>1 DEF SetupRecord, Places
  <2>4. setup' = [u \in Setups |->
                    IF u = t THEN v
                    ELSE IF setup[u].file = "partial" THEN [setup[u] EXCEPT !.file = "model"]
                    ELSE IF setup[u].file = "model" THEN [setup[u] EXCEPT !.file = "gone"]
                    ELSE setup[u]]
    BY <2>2
  <2>. HIDE DEF v
  <2>5. setup' \in [Setups -> SetupRecord]
    BY <1>1, <2>1, <2>3, <2>4
  <2>6. /\ setup'[t].app = setup[t].app /\ setup'[t].file = "none"
        /\ setup'[t].pc = "verify" /\ setup'[t].port = setup[t].port
    BY <2>3, <2>4
  <2>7. Renamed(t)
    BY <2>1, <2>2 DEF Renamed
  <2>8. \A u \in Setups \ {t} :
           setup'[u].file = CASE setup[u].file = "partial" -> "model"
                              [] setup[u].file = "model"   -> "gone"
                              [] OTHER -> setup[u].file
    BY <2>1, <2>2
  <2>9. model' = partial /\ partial' = None
    BY <1>3 DEF EndOfData
  <2>. QED
    BY <1>3, <2>5, <2>6, <2>7, <2>8, <2>9
<1>. QED
  BY <1>2, <1>3

\* A model that is large enough is kept; else it is deleted and the setup ends.
LEMMA VerifyEffect ==
  ASSUME TypeOK, NEW t \in Setups, Verify(t)
  PROVE  /\ setup' \in [Setups -> SetupRecord]
         /\ setup'[t].app = setup[t].app
         /\ Renamed(t)
         /\ \/ /\ _check_model_integrity /\ setup'[t].pc = "port" /\ UNCHANGED model
               /\ setup'[t].file = setup[t].file /\ setup'[t].port = setup[t].port
               /\ \A u \in Setups \ {t} : setup'[u] = setup[u]
            \/ /\ ~_check_model_integrity /\ setup'[t].pc = "over" /\ model' = None
               /\ setup'[t].file = "none" /\ setup'[t].port = None
               /\ \A u \in Setups \ {t} :
                     setup'[u].file = IF setup[u].file = "model" THEN "gone" ELSE setup[u].file
<1>1. setup \in [Setups -> SetupRecord]
  BY SetupType
<1>2. CASE _check_model_integrity
  <2>1. Became(t, setup[t].app, "port", setup[t].file, setup[t].at, setup[t].rest, setup[t].port)
    BY <1>2, GotoEffect DEF Verify, Places
  <2>2. UNCHANGED model
    BY <1>2 DEF Verify
  <2>. QED
    BY <1>2, <2>1, <2>2 DEF Became, Renamed
<1>3. CASE ~_check_model_integrity
  <2>. DEFINE w == [Unborn EXCEPT !.app = setup[t].app, !.pc = "over"]
  <2>1. ASSUME NEW u \in Setups
        PROVE  LET v == [setup[u] EXCEPT !.file = "gone"]
               IN /\ v \in SetupRecord /\ v.app = setup[u].app /\ v.pc = setup[u].pc
                  /\ v.at = setup[u].at /\ v.rest = setup[u].rest
                  /\ v.file = "gone" /\ v.port = setup[u].port
    BY <1>1 DEF SetupRecord
  <2>2. setup' = [Moved("model", "gone") EXCEPT ![t] = w] /\ model' = None
    BY <1>3 DEF Verify
  <2>3. /\ w \in SetupRecord /\ w.app = setup[t].app /\ w.pc = "over"
        /\ w.file = "none" /\ w.port = None
    BY FailedRecord
  <2>. HIDE DEF w
  <2>4. Moved("model", "gone") \in [Setups -> SetupRecord]
    BY <1>1, <2>1 DEF Moved
  <2>5. setup' \in [Setups -> SetupRecord] /\ setup'[t] = w
    BY <2>2, <2>3, <2>4
  <2>6. \A u \in Setups \ {t} : setup'[u] = Moved("model", "gone")[u]
    BY <2>2, <2>4
  <2>7. \A u \in Setups \ {t} :
           setup'[u] = IF setup[u].file = "model" THEN [setup[u] EXCEPT !.file = "gone"]
                                                  ELSE setup[u]
    BY <2>6 DEF Moved
  <2>8. Renamed(t) /\ \A u \in Setups \ {t} :
           setup'[u].file = IF setup[u].file = "model" THEN "gone" ELSE setup[u].file
    BY <2>1, <2>7 DEF Renamed
  <2>. QED
    BY <1>3, <2>2, <2>3, <2>5, <2>8
<1>. QED
  BY <1>2, <1>3


-----------------------------------------------------------------------------
\* Types.

\* What is written to a file is a file.
LEMMA WrittenType ==
  ASSUME NEW c \in Seq(0..Pieces), NEW k \in Nat, NEW p \in 1..Pieces
  PROVE  Written(c, k, p) \in Seq(0..Pieces)
<1>. DEFINE i == IF k = 0 THEN Len(c) + 1 ELSE k
            n == IF i > Len(c) THEN i ELSE Len(c)
<1>1. Len(c) \in Nat /\ i \in Nat /\ n \in Nat /\ \A j \in 1..Len(c) : c[j] \in 0..Pieces
  BY SizeAssumption
<1>2. 0 \in 0..Pieces /\ p \in 0..Pieces
  BY SizeAssumption
<1>. HIDE DEF i, n
<1>3. [j \in 1..n |-> IF j = i THEN p ELSE IF j <= Len(c) THEN c[j] ELSE 0] \in Seq(0..Pieces)
  BY <1>1, <1>2
<1>. QED
  BY <1>3 DEF Written, i, n

\* A file is not None.
LEMMA FileIsThere == \A c \in Seq(0..Pieces) : c # None
<1>1. ASSUME NEW c \in Seq(0..Pieces) PROVE c \in Seq(Int)
  <2>1. Len(c) \in Nat /\ \A j \in 1..Len(c) : c[j] \in 0..Pieces
    BY SizeAssumption
  <2>2. c \in [1..Len(c) -> Int]
    BY <2>1, SizeAssumption
  <2>. QED
    BY <2>1, <2>2, SeqDef
<1>. QED
  BY <1>1, NoneAssumption

\* The variables besides the setups are typed, and the setups' files are there.
Others ==
    /\ machine \in Machines /\ lock \in Apps \cup {None}
    /\ app \in [Apps -> {"off", "claim", "refused", "up", "leaving", "gone", "killed"}]
    /\ status \in [Apps -> [error: BOOLEAN, done: BOOLEAN, port: Ports \cup {None}]]
    /\ panel \in [Apps -> BOOLEAN] /\ watching \in [Apps -> BOOLEAN]
    /\ view \in [Apps -> Ports \cup {None}] /\ proc \in [Apps -> Setups \cup {None}]
    /\ server \in [Setups -> {"none", "loading", "listening", "exited"}]
    /\ superseded \subseteq Setups /\ late \subseteq Setups /\ foreign \subseteq Setups
    /\ faults \in 0..MaxFaults
Contents ==
    /\ partial = None \/ partial \in Seq(0..Pieces)
    /\ model = None \/ model \in Seq(0..Pieces)
Opened ==
    \A t \in Setups :
        /\ setup[t].file = "partial" => partial # None
        /\ setup[t].file = "model" => model # None
Ported == \A t \in Setups : server[t] # "none" => setup[t].port # None

LEMMA TypeParts ==
  TypeOK <=> Others /\ Contents /\ Opened /\ Ported /\ setup \in [Setups -> SetupRecord]
  BY DEF TypeOK, Others, Contents, Opened, Ported, SetupRecord, Places

LEMMA TypeInit == Init => TypeOK
<1>. SUFFICES ASSUME Init PROVE TypeOK
  OBVIOUS
<1>1. Unborn \in SetupRecord /\ Unborn.file = "none"
  BY DEF Unborn, SetupRecord, Places
<1>2. setup \in [Setups -> SetupRecord] /\ Opened /\ Ported
  BY <1>1 DEF Init, Opened, Ported
<1>3. 0 \in 0..MaxFaults
  BY SizeAssumption
<1>4. Others /\ Contents
  BY <1>3 DEF Init, Others, Contents, Quiet
<1>. QED
  BY <1>2, <1>4, TypeParts

-----------------------------------------------------------------------------
\* The steps of a setup before it starts a server.

Preparing == {"begin", "checks", "model", "connect", "receive", "verify", "port"}

\* Setup t prepares: it goes on, or fails, for the instance that it is of, and
\* has no file open unless it receives one.
Prepared(t) ==
    /\ setup[t].pc \in Preparing
    /\ setup' \in [Setups -> SetupRecord]
    /\ setup'[t].app = setup[t].app
    /\ setup'[t].pc \in Places \ {"unborn", "begin", "wait", "ready"}
    /\ setup'[t].pc # "receive" => setup'[t].file = "none"
    /\ setup'[t].pc = "spawn" => setup'[t].port \in Free
    /\ \A u \in Setups \ {t} :
          /\ setup'[u].app = setup[u].app /\ setup'[u].pc = setup[u].pc
          /\ setup'[u].port = setup[u].port
          /\ setup[u].file = "none" => setup'[u].file = "none"
    /\ UNCHANGED <<machine, lock, app, panel, watching, view, proc, server, together, raced,
                   superseded, late, foreign>>

Prepare(t) ==
    \/ Begin(t) \/ CheckModel(t) \/ Receive(t) \/ Interrupt(t) \/ EndOfData(t) \/ Verify(t)
    \/ FindPort(t) \/ \E ok \in BOOLEAN : Checks(t, ok)
    \/ \E answer \in {"range", "whole", "none"} : Connect(t, answer)

LEMMA PrepareStep ==
  ASSUME TypeOK, SetupPlace, NEW t \in Setups, Prepare(t)
  PROVE  Prepared(t)
<1>. USE DEF Preparing
<1>1. setup[t].pc # "receive" => setup[t].file = "none"
  BY DEF SetupPlace
<1>2. ASSUME NEW p \in Places, NEW f, NEW k, NEW r, NEW o,
             Became(t, setup[t].app, p, f, k, r, o), setup[t].pc \in Preparing,
             p \notin {"unborn", "begin", "wait", "ready"}, p # "receive" => f = "none",
             p = "spawn" => o \in Free,
             UNCHANGED <<machine, lock, app, panel, watching, view, proc, server, together,
                         raced, superseded, late, foreign>>
      PROVE  Prepared(t)
  BY <1>2 DEF Became, Prepared
<1>3. ASSUME Became(t, setup[t].app, "over", "none", 0, <<>>, None), setup[t].pc \in Preparing,
             UNCHANGED <<machine, lock, app, panel, watching, view, proc, server, together,
                         raced, superseded, late, foreign>>
      PROVE  Prepared(t)
  BY <1>2, <1>3 DEF Places
<1>4. CASE Begin(t)
  <2>1. Became(t, setup[t].app, "checks", setup[t].file, setup[t].at, setup[t].rest,
               setup[t].port)
    BY <1>4, GotoEffect DEF Begin, Places
  <2>2. setup[t].pc = "begin"
    BY <1>4 DEF Begin, At
  <2>3. UNCHANGED <<machine, lock, app, panel, watching, view, proc, server, together,
                    raced, superseded, late, foreign>>
    BY <1>4 DEF Begin, history
  <2>. QED
    BY <1>1, <1>2, <2>1, <2>2, <2>3 DEF Places
<1>5. ASSUME NEW ok \in BOOLEAN, Checks(t, ok) PROVE Prepared(t)
  <2>1. \/ Became(t, setup[t].app, "model", setup[t].file, setup[t].at, setup[t].rest,
                  setup[t].port)
        \/ Became(t, setup[t].app, "over", "none", 0, <<>>, None)
    BY <1>5, GotoEffect, FailEffect DEF Checks, Places
  <2>2. setup[t].pc = "checks"
    BY <1>5 DEF Checks, At
  <2>3. UNCHANGED <<machine, lock, app, panel, watching, view, proc, server, together,
                    raced, superseded, late, foreign>>
    BY <1>5 DEF Checks, history
  <2>. QED
    BY <1>1, <1>2, <1>3, <2>1, <2>2, <2>3 DEF Places
<1>6. CASE CheckModel(t)
  <2>. DEFINE p == IF _check_model_integrity THEN "port" ELSE "connect"
  <2>1. Became(t, setup[t].app, p, setup[t].file, IF partial = None THEN 0 ELSE Len(partial),
               setup[t].rest, setup[t].port)
    BY <1>6, CheckModelEffect
  <2>2. setup[t].pc = "model" /\ p \in {"port", "connect"}
    BY <1>6 DEF CheckModel, At
  <2>3. UNCHANGED <<machine, lock, app, panel, watching, view, proc, server, together,
                    raced, superseded, late, foreign>>
    BY <1>6 DEF CheckModel, history
  <2>. HIDE DEF p
  <2>. QED
    BY <1>1, <1>2, <2>1, <2>2, <2>3 DEF Places
<1>7. ASSUME NEW answer, Connect(t, answer) PROVE Prepared(t)
  <2>1. \/ Became(t, setup[t].app, "over", "none", 0, <<>>, None)
        \/ Became(t, setup[t].app, "receive", "partial", IF setup[t].at > 0 THEN 0 ELSE 1,
                     Sent(setup[t].at, answer), setup[t].port)
    BY <1>7, ConnectEffect
  <2>2. setup[t].pc = "connect"
    BY <1>7 DEF Connect, At
  <2>3. UNCHANGED <<machine, lock, app, panel, watching, view, proc, server, together,
                    raced, superseded, late, foreign>>
    BY <1>7 DEF Connect
  <2>. QED
    BY <1>2, <1>3, <2>1, <2>2, <2>3 DEF Places
<1>8. CASE Receive(t)
  <2>1. Became(t, setup[t].app, "receive", setup[t].file,
               IF setup[t].at = 0 THEN 0 ELSE setup[t].at + 1, Tail(setup[t].rest),
               setup[t].port)
    BY <1>8, ReceiveEffect
  <2>2. setup[t].pc = "receive"
    BY <1>8 DEF Receive, At
  <2>3. UNCHANGED <<machine, lock, app, panel, watching, view, proc, server, together,
                    raced, superseded, late, foreign>>
    BY <1>8 DEF Receive, history
  <2>. QED
    BY <1>2, <2>1, <2>2, <2>3 DEF Places
<1>9. CASE Interrupt(t)
  <2>1. Became(t, setup[t].app, "over", "none", 0, <<>>, None)
    BY <1>9, FailEffect DEF Interrupt
  <2>2. setup[t].pc = "receive"
    BY <1>9 DEF Interrupt, At
  <2>3. UNCHANGED <<machine, lock, app, panel, watching, view, proc, server, together,
                    raced, superseded, late, foreign>>
    BY <1>9 DEF Interrupt, history
  <2>. QED
    BY <1>3, <2>1, <2>2, <2>3
<1>10. CASE EndOfData(t)
  <2>1. setup[t].pc = "receive"
    BY <1>10 DEF EndOfData, At
  <2>2. UNCHANGED <<machine, lock, app, panel, watching, view, proc, server, together,
                    raced, superseded, late, foreign>>
    BY <1>10 DEF EndOfData
  <2>3. \A u \in Setups \ {t} : setup[u].file = "none" => setup'[u].file = "none"
    BY <1>10, EndOfDataEffect
  <2>. QED
    BY <1>10, <2>1, <2>2, <2>3, EndOfDataEffect DEF Prepared, Renamed, Places
<1>11. CASE Verify(t)
  <2>1. setup[t].pc = "verify"
    BY <1>11 DEF Verify, At
  <2>2. UNCHANGED <<machine, lock, app, panel, watching, view, proc, server, together,
                    raced, superseded, late, foreign>>
    BY <1>11 DEF Verify, history
  <2>3. \A u \in Setups \ {t} : setup[u].file = "none" => setup'[u].file = "none"
    BY <1>11, VerifyEffect
  <2>. QED
    BY <1>1, <1>11, <2>1, <2>2, <2>3, VerifyEffect DEF Prepared, Renamed, Places
<1>12. CASE FindPort(t)
  <2>1. setup[t].pc = "port"
    BY <1>12 DEF FindPort, At
  <2>2. UNCHANGED <<machine, lock, app, panel, watching, view, proc, server, together,
                    raced, superseded, late, foreign>>
    BY <1>12 DEF FindPort, history
  <2>3. CASE Became(t, setup[t].app, "over", "none", 0, <<>>, None)
    BY <1>3, <2>1, <2>2, <2>3
  <2>4. ASSUME NEW p \in Free, Became(t, setup[t].app, "spawn", setup[t].file, setup[t].at,
                                      setup[t].rest, p)
        PROVE  Prepared(t)
    BY <1>1, <1>2, <2>1, <2>2, <2>4 DEF Places
  <2>. QED
    BY <1>12, <2>3, <2>4, FindPortEffect
<1>. QED
  BY <1>4, <1>5, <1>6, <1>7, <1>8, <1>9, <1>10, <1>11, <1>12 DEF Prepare

-----------------------------------------------------------------------------
\* Every step keeps the types.

LEMMA PreparedPorted ==
  ASSUME TypeOK, SetupPlace, NEW t \in Setups, Prepared(t)
  PROVE  Ported' /\ setup' \in [Setups -> SetupRecord]
<1>1. setup[t].pc \notin {"wait", "ready", "over"}
  BY DEF Prepared, Preparing
<1>2. server[t] = "none"
  BY <1>1 DEF SetupPlace
<1>3. Ported
  BY TypeParts
<1>. QED
  BY <1>2, <1>3 DEF Prepared, Ported

Statuses == [Apps -> [error: BOOLEAN, done: BOOLEAN, port: Ports \cup {None}]]

LEMMA StatusType ==
  ASSUME status \in Statuses, NEW a, NEW b \in BOOLEAN
  PROVE  [status EXCEPT ![a].error = b] \in Statuses
<1>1. CASE a \in Apps
  <2>1. [status[a] EXCEPT !.error = b] \in [error: BOOLEAN, done: BOOLEAN, port: Ports \cup {None}]
    BY <1>1 DEF Statuses
  <2>. QED
    BY <1>1, <2>1 DEF Statuses
<1>2. CASE a \notin Apps
  BY <1>2 DEF Statuses
<1>. QED
  BY <1>1, <1>2

\* A preparing setup sets the error or clears it.
LEMMA PrepareOthers ==
  ASSUME TypeOK, SetupPlace, NEW t \in Setups, Prepare(t)
  PROVE  Others'
<1>1. status \in Statuses /\ faults \in 0..MaxFaults
  BY DEF TypeOK, Statuses
<1>2. PICK b \in BOOLEAN : status' = [status EXCEPT ![setup[t].app].error = b]
  BY Zenon DEF Prepare, Begin, CheckModel, Receive, Interrupt, EndOfData, Verify, FindPort, Checks,
         Connect, Progress, Fail
<1>3. status' \in Statuses
  BY <1>1, <1>2, StatusType
<1>4. faults' = faults \/ (faults < MaxFaults /\ faults' = faults + 1)
  BY DEF Prepare, Begin, CheckModel, Receive, Interrupt, EndOfData, Verify, FindPort, Checks,
         Connect
<1>5. faults' \in 0..MaxFaults
  BY <1>1, <1>4, SizeAssumption
<1>6. Others
  BY TypeParts
<1>. QED
  BY <1>3, <1>5, <1>6, PrepareStep DEF Prepared, Others, Statuses

\* What a preparing setup does to the files it keeps a type, and to the open
\* ones the other setups see.
LEMMA PrepareFiles ==
  ASSUME TypeOK, SetupPlace, NEW t \in Setups, Prepare(t)
  PROVE  Contents' /\ Opened'
<1>1. Contents /\ Opened
  BY TypeParts
<1>2. ASSUME UNCHANGED files, setup'[t].file \in {"none", setup[t].file},
             \A u \in Setups \ {t} : setup'[u] = setup[u]
      PROVE  Contents' /\ Opened'
  BY <1>1, <1>2 DEF Contents, Opened, files
<1>3. CASE Begin(t)
  BY <1>2, <1>3, GotoEffect DEF Begin, Became, Places
<1>4. ASSUME NEW ok \in BOOLEAN, Checks(t, ok) PROVE Contents' /\ Opened'
  BY <1>2, <1>4, GotoEffect, FailEffect DEF Checks, Became, Places
<1>5. CASE CheckModel(t)
  <2>1. setup'[t].file = setup[t].file /\ \A u \in Setups \ {t} : setup'[u] = setup[u]
    BY <1>5, CheckModelEffect DEF Became
  <2>. QED
    BY <1>2, <1>5, <2>1 DEF CheckModel
<1>6. ASSUME NEW answer, Connect(t, answer) PROVE Contents' /\ Opened'
  <2>1. CASE answer = "none"
    BY <1>2, <1>6, <2>1, FailEffect DEF Connect, Became, files
  <2>2. CASE answer # "none"
    <3>1. setup'[t].file = "partial" /\ \A u \in Setups \ {t} : setup'[u] = setup[u]
      BY <1>6, <2>2, ConnectEffect DEF Became
    <3>2. <<>> \in Seq(0..Pieces) /\ <<>> # None
      <4>1. <<>> \in Seq(0..Pieces)
        OBVIOUS
      <4>. QED
        BY <4>1, FileIsThere
    <3>3. UNCHANGED model /\ (partial' = <<>> \/ (partial # None /\ partial' = partial))
      BY <1>6, <2>2 DEF Connect
    <3>4. Contents' /\ partial' # None
      BY <1>1, <3>2, <3>3 DEF Contents
    <3>. QED
      BY <1>1, <3>1, <3>3, <3>4 DEF Opened
  <2>. QED
    BY <2>1, <2>2
<1>7. CASE Receive(t)
  <2>1. setup'[t].file = setup[t].file /\ \A u \in Setups \ {t} : setup'[u] = setup[u]
    BY <1>7, ReceiveEffect DEF Became
  <2>2. Head(setup[t].rest) \in 1..Pieces /\ setup[t].at \in Nat
    BY <1>7, ReceiveEffect, SetupType DEF SetupRecord
  <2>3. \A c \in Seq(0..Pieces) :
           /\ Written(c, setup[t].at, Head(setup[t].rest)) \in Seq(0..Pieces)
           /\ Written(c, setup[t].at, Head(setup[t].rest)) # None
    BY <2>2, WrittenType, FileIsThere
  <2>4. /\ partial' = IF setup[t].file = "partial"
                      THEN Written(partial, setup[t].at, Head(setup[t].rest)) ELSE partial
        /\ model' = IF setup[t].file = "model"
                    THEN Written(model, setup[t].at, Head(setup[t].rest)) ELSE model
    BY <1>7 DEF Receive
  <2>5. /\ setup[t].file = "partial" => partial \in Seq(0..Pieces)
        /\ setup[t].file = "model" => model \in Seq(0..Pieces)
    BY <1>1 DEF Contents, Opened
  <2>6. Contents'
    BY <1>1, <2>3, <2>4, <2>5 DEF Contents
  <2>7. Opened'
    BY <1>1, <2>1, <2>3, <2>4, <2>5 DEF Opened
  <2>. QED
    BY <2>6, <2>7
<1>8. CASE Interrupt(t)
  BY <1>2, <1>8, FailEffect DEF Interrupt, Became
<1>9. CASE EndOfData(t)
  <2>1. CASE partial = None
    <3>1. UNCHANGED files /\ setup'[t].file = "none"
          /\ \A u \in Setups \ {t} : setup'[u] = setup[u]
      BY <1>9, <2>1, EndOfDataEffect
    <3>. QED
      BY <1>2, <3>1
  <2>2. CASE partial # None
    <3>1. model' = partial /\ partial' = None /\ setup'[t].file = "none"
      BY <1>9, <2>2, EndOfDataEffect
    <3>2. \A u \in Setups \ {t} :
             setup'[u].file = CASE setup[u].file = "partial" -> "model"
                                [] setup[u].file = "model"   -> "gone"
                                [] OTHER -> setup[u].file
      BY <1>9, <2>2, EndOfDataEffect
    <3>3. \A u \in Setups : setup'[u].file # "partial"
      BY <3>1, <3>2
    <3>. QED
      BY <1>1, <2>2, <3>1, <3>3 DEF Contents, Opened
  <2>. QED
    BY <2>1, <2>2
<1>10. CASE Verify(t)
  <2>1. CASE _check_model_integrity
    <3>1. setup'[t].file = setup[t].file /\ UNCHANGED model
          /\ \A u \in Setups \ {t} : setup'[u] = setup[u]
      BY <1>10, <2>1, VerifyEffect
    <3>. QED
      BY <1>2, <1>10, <3>1 DEF Verify, files
  <2>2. CASE ~_check_model_integrity
    <3>1. model' = None /\ setup'[t].file = "none" /\ UNCHANGED partial
          /\ \A u \in Setups \ {t} :
                setup'[u].file = IF setup[u].file = "model" THEN "gone" ELSE setup[u].file
      BY <1>10, <2>2, VerifyEffect DEF Verify
    <3>. QED
      BY <1>1, <3>1 DEF Contents, Opened
  <2>. QED
    BY <2>1, <2>2
<1>11. CASE FindPort(t)
  <2>1. UNCHANGED files
    BY <1>11 DEF FindPort
  <2>2. setup'[t].file \in {"none", setup[t].file} /\ \A u \in Setups \ {t} : setup'[u] = setup[u]
    BY <1>11, FindPortEffect DEF Became
  <2>. QED
    BY <1>2, <2>1, <2>2
<1>. QED
  BY <1>3, <1>4, <1>5, <1>6, <1>7, <1>8, <1>9, <1>10, <1>11 DEF Prepare

LEMMA TypeAgain ==
  ASSUME Others', Contents', Opened', Ported', setup' \in [Setups -> SetupRecord]
  PROVE  TypeOK'
  BY DEF TypeOK, Others, Contents, Opened, Ported, SetupRecord, Places

\* Setups that keep their files and, once a server is started, their port.
LEMMA SameFiles ==
  ASSUME TypeOK, setup' \in [Setups -> SetupRecord], UNCHANGED files, Others',
         \A t \in Setups : setup'[t].file \in {"none", setup[t].file},
         \A t \in Setups : server'[t] # "none" =>
            setup'[t].port # None \/ (server[t] # "none" /\ setup'[t].port = setup[t].port)
  PROVE  TypeOK'
<1>1. Contents /\ Opened /\ Ported
  BY TypeParts
<1>2. Contents' /\ Opened' /\ Ported'
  BY <1>1 DEF Contents, Opened, Ported, files
<1>. QED
  BY <1>2, TypeAgain

LEMMA SameSetups ==
  ASSUME TypeOK, UNCHANGED <<setup, files>>, Others',
         \A t \in Setups : server'[t] # "none" => server[t] # "none"
  PROVE  TypeOK'
<1>1. setup' \in [Setups -> SetupRecord]
  BY SetupType
<1>2. Ported /\ setup' = setup
  BY TypeParts
<1>. QED
  BY <1>1, <1>2, SameFiles DEF Ported

LEMMA TypeStep ==
  ASSUME TypeOK, SetupPlace, ProcKnown, [Next]_vars
  PROVE  TypeOK'
<1>1. Others /\ status \in Statuses
  BY TypeParts DEF Others, Statuses
<1>2. ASSUME NEW a \in Apps, Launch(a) PROVE TypeOK'
  <2>1. Others'
    BY <1>1, <1>2 DEF Launch, Others
  <2>. QED
    BY <1>2, <2>1, SameSetups DEF Launch
<1>3. ASSUME NEW a \in Apps, NewSetup(a), Others', UNCHANGED <<files, server>> PROVE TypeOK'
  <2>1. PICK t \in Setups :
           /\ setup[t].pc = "unborn"
           /\ Became(t, a, "begin", setup[t].file, setup[t].at, setup[t].rest, setup[t].port)
    BY <1>3, NewSetupEffect
  <2>2. /\ setup' \in [Setups -> SetupRecord]
        /\ \A u \in Setups : setup'[u].file = setup[u].file /\ setup'[u].port = setup[u].port
    BY <2>1 DEF Became
  <2>. QED
    BY <1>3, <2>2, SameFiles
<1>4. ASSUME NEW a \in Apps, Claim(a) PROVE TypeOK'
  <2>1. Others'
    BY <1>1, <1>4 DEF Claim, Others
  <2>. QED
    BY <1>3, <1>4, <2>1 DEF Claim
<1>5. ASSUME NEW a \in Apps, Poll(a) PROVE TypeOK'
  <2>1. Others'
    BY <1>1, <1>5 DEF Poll, Others, history
  <2>. QED
    BY <1>5, <2>1, SameSetups DEF Poll
<1>6. ASSUME NEW a \in Apps, Retry(a) PROVE TypeOK'
  <2>1. Others'
    BY <1>1, <1>6 DEF Retry, Others
  <2>. QED
    BY <1>3, <1>6, <2>1 DEF Retry
<1>7. ASSUME NEW a \in Apps, Watch(a) PROVE TypeOK'
  <2>1. Others'
    BY <1>1, <1>7 DEF Watch, Others, history
  <2>. QED
    BY <1>7, <2>1, SameSetups DEF Watch
<1>8. ASSUME NEW a \in Apps, Leave(a) PROVE TypeOK'
  <2>1. Others'
    BY <1>1, <1>8 DEF Leave, Others, history
  <2>2. \A t \in Setups : server'[t] # "none" => server[t] # "none"
    BY <1>8 DEF Leave, ProcKnown
  <2>. QED
    BY <1>8, <2>1, <2>2, SameSetups DEF Leave
<1>9. ASSUME NEW a \in Apps, EndSetups(a), Others', UNCHANGED <<files, server>> PROVE TypeOK'
  <2>1. Ended(a) /\ Ported
    BY <1>9, EndEffect, TypeParts
  <2>. QED
    BY <1>9, <2>1, SameFiles DEF Ended, Ported
<1>10. ASSUME NEW a \in Apps, Exit(a) PROVE TypeOK'
  <2>1. Others'
    BY <1>1, <1>10 DEF Exit, Others, history
  <2>. QED
    BY <1>9, <1>10, <2>1 DEF Exit
<1>11. ASSUME NEW a \in Apps, Kill(a) PROVE TypeOK'
  <2>1. Others'
    BY <1>1, <1>11, SizeAssumption DEF Kill, Others, history
  <2>. QED
    BY <1>9, <1>11, <2>1 DEF Kill
<1>12. ASSUME NEW t \in Setups, Prepare(t) PROVE TypeOK'
  BY <1>12, PrepareStep, PreparedPorted, PrepareOthers, PrepareFiles, TypeAgain
<1>13. ASSUME NEW t \in Setups, NEW p \in Places, Goto(t, p), Others', UNCHANGED files,
              \A u \in Setups : server'[u] # "none" =>
                 server[u] # "none" \/ (u = t /\ setup[t].port # None)
       PROVE  TypeOK'
  <2>1. Became(t, setup[t].app, p, setup[t].file, setup[t].at, setup[t].rest, setup[t].port)
    BY <1>13, GotoEffect
  <2>2. Ported
    BY TypeParts
  <2>. QED
    BY <1>13, <2>1, <2>2, SameFiles DEF Became, Ported
<1>14. ASSUME NEW t \in Setups, Spawn(t) PROVE TypeOK'
  <2>1. status' \in Statuses
    BY <1>1, <1>14, StatusType DEF Spawn, Progress
  <2>2. setup[t].port # None
    BY <1>14, NoneAssumption DEF Spawn, At, SetupPlace
  <2>3. Others'
    <3>1. proc' \in [Apps -> Setups \cup {None}] /\ superseded' \subseteq Setups
      BY <1>1, <1>14 DEF Spawn, Others, At, SetupPlace
    <3>2. server' \in [Setups -> {"none", "loading", "listening", "exited"}]
      BY <1>1, <1>14 DEF Spawn, Others
    <3>3. late' \subseteq Setups
      BY <1>1, <1>14 DEF Spawn, Others
    <3>. QED
      BY <1>1, <1>14, <2>1, <3>1, <3>2, <3>3 DEF Spawn, Others, Statuses
  <2>4. \A u \in Setups : server'[u] # "none" => server[u] # "none" \/ u = t
    BY <1>14 DEF Spawn
  <2>. QED
    BY <1>13, <1>14, <2>2, <2>3, <2>4 DEF Spawn, Places
<1>15. ASSUME NEW t \in Setups, Wait(t) PROVE TypeOK'
  <2>1. status' \in Statuses
    BY <1>1, <1>15, StatusType DEF Wait, Progress
  <2>2. Others'
    BY <1>1, <1>15, <2>1 DEF Wait, Others, Statuses
  <2>3. Goto(t, "ready") \/ Goto(t, "over")
    BY <1>15 DEF Wait
  <2>. QED
    BY <1>13, <1>15, <2>2, <2>3 DEF Wait, Places
<1>16. ASSUME NEW t \in Setups, Done(t) PROVE TypeOK'
  <2>1. setup[t].port \in Ports \cup {None} /\ setup[t].app \in Apps
    BY <1>16, SetupType DEF Done, At, SetupPlace, SetupRecord
  <2>2. status' \in Statuses
    BY <1>1, <1>16, <2>1 DEF Done, Statuses
  <2>3. Others'
    BY <1>1, <1>16, <2>2 DEF Done, Others, Statuses, history
  <2>. QED
    BY <1>13, <1>16, <2>3 DEF Done, Places
<1>17. ASSUME NEW t \in Setups, Bind(t) \/ ServerExits(t) PROVE TypeOK'
  <2>1. Others'
    <3>1. \E v \in {"exited", "listening"} : server' = [server EXCEPT ![t] = v]
      BY <1>17 DEF Bind, ServerExits
    <3>2. server' \in [Setups -> {"none", "loading", "listening", "exited"}]
      BY <1>1, <3>1 DEF Others
    <3>3. faults' \in 0..MaxFaults
      BY <1>1, <1>17, SizeAssumption DEF Bind, ServerExits, Others
    <3>. QED
      BY <1>1, <1>17, <3>2, <3>3 DEF Bind, ServerExits, Others, history
  <2>2. \A u \in Setups : server'[u] # "none" => server[u] # "none"
    BY <1>1, <1>17 DEF Bind, ServerExits, Others
  <2>3. UNCHANGED <<setup, files>>
    BY <1>17 DEF Bind, ServerExits
  <2>. QED
    BY <1>17, <2>1, <2>2, <2>3, SameSetups
<1>18. CASE UNCHANGED vars
  <2>1. Others'
    BY <1>1, <1>18 DEF vars, Others, history
  <2>. QED
    BY <1>18, <2>1, SameSetups DEF vars, files
<1>. QED
  BY <1>2, <1>4, <1>5, <1>6, <1>7, <1>8, <1>10, <1>11, <1>12, <1>14, <1>15, <1>16, <1>17,
     <1>18 DEF Next, AppStep, SetupStep, Prepare

-----------------------------------------------------------------------------
\* The kinds of step, as far as instances, setups and servers are concerned.

Idle ==
    UNCHANGED <<lock, app, proc, setup, server, model, together, raced, whole, superseded, late>>

Launched(a) ==
    /\ app[a] = "off"
    /\ app' = [app EXCEPT ![a] = IF lock # None /\ Running(lock) THEN "refused" ELSE "claim"]
    /\ together' = (together \/ \E b \in Apps : app[b] = "claim")
    /\ UNCHANGED <<lock, proc, setup, server, model, raced, whole, superseded, late>>

\* Instance a, up after this, begins setup t.
Started(a, t) ==
    /\ app[a] \in {"claim", "up"} /\ app' = [app EXCEPT ![a] = "up"]
    /\ lock' = IF app[a] = "claim" THEN a ELSE lock
    /\ setup[t].pc = "unborn"
    /\ Became(t, a, "begin", setup[t].file, setup[t].at, setup[t].rest, setup[t].port)
    /\ raced' = (raced \/ \E u \in Setups : Busy(u))
    /\ UNCHANGED <<proc, server, model, together, whole, superseded, late>>

Left(a) ==
    /\ app[a] = "up" /\ app' = [app EXCEPT ![a] = "leaving"] /\ lock' = None
    /\ server' = IF proc[a] # None THEN [server EXCEPT ![proc[a]] = "exited"] ELSE server
    /\ UNCHANGED <<proc, setup, model, together, raced, whole, superseded, late>>

Stopped(a) ==
    /\ \/ app[a] = "leaving" /\ app' = [app EXCEPT ![a] = "gone"]
       \/ app[a] = "up" /\ app' = [app EXCEPT ![a] = "killed"]
    /\ Ended(a)
    /\ UNCHANGED <<lock, proc, server, model, together, raced, whole, superseded, late>>

Spawned(t) ==
    LET a == setup[t].app
    IN /\ setup[t].pc = "spawn"
       /\ Became(t, a, "wait", setup[t].file, setup[t].at, setup[t].rest, setup[t].port)
       /\ server' = [server EXCEPT ![t] = "loading"]
       /\ proc' = [proc EXCEPT ![a] = t]
       /\ superseded' = IF proc[a] = None THEN superseded ELSE superseded \cup {proc[a]}
       /\ late' = IF app[a] = "leaving" THEN late \cup {t} ELSE late
       /\ UNCHANGED <<lock, app, model, together, raced, whole>>

\* Setup t has its server and waits, reports or ends.
Passed(t) ==
    /\ setup[t].pc \in {"wait", "ready"}
    /\ \E p \in {"ready", "over"} : Became(t, setup[t].app, p, setup[t].file, setup[t].at,
                                           setup[t].rest, setup[t].port)
    /\ UNCHANGED <<lock, app, proc, server, model, together, raced, whole, superseded, late>>

\* The server of setup t binds its port or exits.
Served(t) ==
    /\ server[t] \in {"loading", "listening"}
    /\ \E v \in {"listening", "exited"} : server' = [server EXCEPT ![t] = v]
    /\ UNCHANGED <<lock, app, proc, setup, model, together, raced, whole, superseded, late>>

LEMMA Kinds ==
  ASSUME TypeOK, SetupPlace, [Next]_vars
  PROVE  \/ Idle
         \/ \E a \in Apps : Launched(a) \/ Left(a) \/ Stopped(a) \/ \E t \in Setups : Started(a, t)
         \/ \E t \in Setups : (Prepare(t) /\ Prepared(t)) \/ Spawned(t) \/ Passed(t) \/ Served(t)
<1>. USE DEF history, files
<1>1. ASSUME NEW a \in Apps, Launch(a) PROVE Launched(a)
  BY <1>1 DEF Launch, Launched
<1>2. ASSUME NEW a \in Apps, Claim(a) PROVE \E t \in Setups : Started(a, t)
  BY <1>2, NewSetupEffect DEF Claim, Started
<1>3. ASSUME NEW a \in Apps, Retry(a) PROVE \E t \in Setups : Started(a, t)
  <2>1. app' = [app EXCEPT ![a] = "up"]
    BY <1>3 DEF Retry, TypeOK
  <2>2. app[a] = "up" /\ lock' = lock /\ NewSetup(a)
        /\ UNCHANGED <<proc, server, model, together, whole, superseded, late>>
    BY <1>3 DEF Retry
  <2>. QED
    BY <2>1, <2>2, NewSetupEffect DEF Started
<1>4. ASSUME NEW a \in Apps, Poll(a) \/ Watch(a) PROVE Idle
  BY <1>4 DEF Poll, Watch, Idle
<1>5. ASSUME NEW a \in Apps, Leave(a) PROVE Left(a)
  BY <1>5 DEF Leave, Left
<1>6. ASSUME NEW a \in Apps, Exit(a) PROVE Stopped(a)
  BY <1>6, EndEffect DEF Exit, Stopped
<1>7. ASSUME NEW a \in Apps, Kill(a) PROVE Stopped(a)
  BY <1>7, EndEffect DEF Kill, Stopped
<1>8. ASSUME NEW t \in Setups, Prepare(t) PROVE Prepared(t)
  BY <1>8, PrepareStep
<1>9. ASSUME NEW t \in Setups, Spawn(t) PROVE Spawned(t)
  BY <1>9, GotoEffect DEF Spawn, Spawned, At, Places
<1>10. ASSUME NEW t \in Setups, Wait(t) PROVE Passed(t)
  <2>1. Goto(t, "ready") \/ Goto(t, "over")
    BY <1>10 DEF Wait
  <2>. QED
    BY <1>10, <2>1, GotoEffect DEF Wait, Passed, At, Places
<1>11. ASSUME NEW t \in Setups, Done(t) PROVE Passed(t)
  BY <1>11, GotoEffect DEF Done, Passed, At, Places
<1>12. ASSUME NEW t \in Setups, Bind(t) \/ ServerExits(t) PROVE Served(t)
  BY <1>12 DEF Bind, ServerExits, Served
<1>13. CASE UNCHANGED vars
  BY <1>13 DEF vars, Idle
<1>. QED
  BY <1>1, <1>2, <1>3, <1>4, <1>5, <1>6, <1>7, <1>8, <1>9, <1>10, <1>11, <1>12, <1>13
     DEF Next, AppStep, SetupStep, Prepare

-----------------------------------------------------------------------------
\* One instance at a time.

LEMMA ExclusiveStep ==
  ASSUME TypeOK, SetupPlace, Exclusive, [Next]_vars
  PROVE  Exclusive'
<1>1. app \in [Apps -> {"off", "claim", "refused", "up", "leaving", "gone", "killed"}]
      /\ None \notin Apps
  BY NoneAssumption DEF TypeOK
<1>2. CASE UNCHANGED <<app, lock, together>>
  BY <1>2 DEF Exclusive
<1>3. ASSUME NEW a \in Apps, Launched(a) PROVE Exclusive'
  <2>1. SUFFICES ASSUME ~together' PROVE Exclusive'
    BY DEF Exclusive
  <2>2. ~together /\ \A b \in Apps : app[b] # "claim"
    BY <1>3, <2>1 DEF Launched
  <2>3. \A b \in Apps : app[b] = "up" => lock = b
    BY <2>2 DEF Exclusive
  <2>4. CASE \E b \in Apps : app[b] = "up"
    <3>1. lock # None /\ Running(lock)
      BY <1>1, <2>3, <2>4 DEF Running
    <3>2. app' = [app EXCEPT ![a] = "refused"] /\ lock' = lock
      BY <1>3, <3>1 DEF Launched
    <3>. QED
      BY <1>1, <2>2, <3>2 DEF Exclusive
  <2>5. CASE \A b \in Apps : app[b] # "up"
    <3>1. \A b \in Apps \ {a} : app'[b] = app[b]
      BY <1>1, <1>3 DEF Launched
    <3>2. app'[a] \in {"refused", "claim"}
      BY <1>1, <1>3 DEF Launched
    <3>. QED
      BY <2>2, <2>5, <3>1, <3>2 DEF Exclusive
  <2>. QED
    BY <2>4, <2>5
<1>4. ASSUME NEW a \in Apps, NEW t \in Setups, Started(a, t) PROVE Exclusive'
  BY <1>1, <1>4 DEF Exclusive, Started
<1>5. ASSUME NEW a \in Apps, Left(a) PROVE Exclusive'
  BY <1>1, <1>5 DEF Exclusive, Left
<1>6. ASSUME NEW a \in Apps, Stopped(a) PROVE Exclusive'
  BY <1>1, <1>6 DEF Exclusive, Stopped
<1>. QED
  BY Kinds, <1>2, <1>3, <1>4, <1>5, <1>6 DEF Idle, Prepared, Spawned, Passed, Served

-----------------------------------------------------------------------------
\* Where the setups are.

LEMMA SetupPlaceStep ==
  ASSUME TypeOK, TypeOK', SetupPlace, ProcKnown, [Next]_vars
  PROVE  SetupPlace'
<1>1. app \in [Apps -> {"off", "claim", "refused", "up", "leaving", "gone", "killed"}]
      /\ server \in [Setups -> {"none", "loading", "listening", "exited"}]
  BY DEF TypeOK
<1>. USE DEF SetupPlace, Busy, Running
<1>2. CASE Idle
  BY <1>2 DEF Idle
<1>3. ASSUME NEW a \in Apps, Launched(a) PROVE SetupPlace'
  BY <1>1, <1>3 DEF Launched
<1>4. ASSUME NEW a \in Apps, NEW t \in Setups, Started(a, t) PROVE SetupPlace'
  <2>1. /\ setup[t].pc = "unborn" /\ setup'[t].app = a /\ setup'[t].pc = "begin"
        /\ setup'[t].file = setup[t].file
        /\ \A u \in Setups \ {t} : setup'[u] = setup[u]
        /\ UNCHANGED server
    BY <1>4 DEF Started, Became
  <2>2. app'[a] = "up" /\ \A b \in Apps \ {a} : app'[b] = app[b]
    BY <1>1, <1>4 DEF Started
  <2>3. \A b \in Apps : Running(b) => Running(b)'
    BY <2>2
  <2>. QED
    BY <2>1, <2>2, <2>3
<1>5. ASSUME NEW a \in Apps, Left(a) PROVE SetupPlace'
  <2>1. \A u \in Setups : server'[u] = "none" <=> server[u] = "none"
    BY <1>1, <1>5 DEF Left, ProcKnown
  <2>2. \A b \in Apps : Running(b) => Running(b)'
    BY <1>1, <1>5 DEF Left
  <2>3. UNCHANGED setup
    BY <1>5 DEF Left
  <2>. QED
    BY <2>1, <2>2, <2>3
<1>6. ASSUME NEW a \in Apps, Stopped(a) PROVE SetupPlace'
  <2>1. Ended(a) /\ UNCHANGED server
    BY <1>6 DEF Stopped
  <2>2. \A b \in Apps \ {a} : Running(b) => Running(b)'
    BY <1>1, <1>6 DEF Stopped
  <2>. QED
    BY <2>1, <2>2 DEF Ended
<1>7. ASSUME NEW t \in Setups, Prepared(t) PROVE SetupPlace'
  <2>1. setup[t].pc \in Preparing /\ setup[t].app \in Apps /\ Running(setup[t].app)
        /\ server[t] = "none"
    BY <1>7 DEF Prepared, Preparing
  <2>. QED
    BY <1>7, <2>1 DEF Prepared, Free, Places
<1>8. ASSUME NEW t \in Setups, Spawned(t) PROVE SetupPlace'
  <2>1. /\ server'[t] = "loading" /\ \A u \in Setups \ {t} : server'[u] = server[u]
        /\ UNCHANGED app
    BY <1>1, <1>8 DEF Spawned
  <2>. QED
    BY <1>8, <2>1 DEF Spawned, Became
<1>9. ASSUME NEW t \in Setups, Passed(t) PROVE SetupPlace'
  BY <1>9 DEF Passed, Became
<1>10. ASSUME NEW t \in Setups, Served(t) PROVE SetupPlace'
  <2>1. \A u \in Setups : server'[u] = "none" <=> server[u] = "none"
    BY <1>1, <1>10 DEF Served
  <2>. QED
    BY <1>10, <2>1 DEF Served
<1>. QED
  BY Kinds, <1>2, <1>3, <1>4, <1>5, <1>6, <1>7, <1>8, <1>9, <1>10

-----------------------------------------------------------------------------
\* Which servers are alive, and who knows of them.

LEMMA ProcKnownStep ==
  ASSUME TypeOK, SetupPlace, ProcKnown, [Next]_vars
  PROVE  ProcKnown'
<1>1. /\ app \in [Apps -> {"off", "claim", "refused", "up", "leaving", "gone", "killed"}]
      /\ server \in [Setups -> {"none", "loading", "listening", "exited"}]
      /\ proc \in [Apps -> Setups \cup {None}] /\ None \notin Setups
  BY NoneAssumption DEF TypeOK
<1>2. \A t \in Setups : server[t] # "none" => setup[t].app \in Apps
  BY DEF SetupPlace
<1>. USE DEF ProcKnown, Alive
<1>3. CASE Idle
  BY <1>3 DEF Idle
<1>4. ASSUME NEW a \in Apps, Launched(a) PROVE ProcKnown'
  <2>1. \A t \in Setups : Alive(t) => setup[t].app # a
    BY <1>4 DEF Launched
  <2>2. UNCHANGED <<proc, setup, server, superseded, late>>
        /\ \A b \in Apps \ {a} : app'[b] = app[b]
    BY <1>1, <1>4 DEF Launched
  <2>. QED
    BY <1>2, <2>1, <2>2
<1>5. ASSUME NEW a \in Apps, NEW t \in Setups, Started(a, t) PROVE ProcKnown'
  <2>1. server[t] = "none"
    BY <1>5 DEF Started, SetupPlace
  <2>2. app'[a] = "up" /\ \A b \in Apps \ {a} : app'[b] = app[b]
    BY <1>1, <1>5 DEF Started
  <2>3. /\ UNCHANGED <<proc, server, superseded, late>>
        /\ \A u \in Setups \ {t} : setup'[u] = setup[u]
    BY <1>5 DEF Started, Became
  <2>. QED
    BY <1>1, <1>2, <2>1, <2>2, <2>3
<1>6. ASSUME NEW a \in Apps, Left(a) PROVE ProcKnown'
  <2>1. UNCHANGED <<proc, setup, superseded, late>>
        /\ app'[a] = "leaving" /\ \A b \in Apps \ {a} : app'[b] = app[b]
    BY <1>1, <1>6 DEF Left
  <2>2. /\ \A t \in Setups : server'[t] = "none" <=> server[t] = "none"
        /\ \A t \in Setups : Alive(t)' => Alive(t) /\ t # proc[a]
    BY <1>1, <1>6 DEF Left
  <2>. QED
    BY <1>1, <1>2, <2>1, <2>2
<1>7. ASSUME NEW a \in Apps, Stopped(a) PROVE ProcKnown'
  <2>1. UNCHANGED <<proc, server, superseded, late>>
        /\ \A t \in Setups : setup'[t].app = setup[t].app
    BY <1>7 DEF Stopped, Ended
  <2>2. /\ \A b \in Apps \ {a} : app'[b] = app[b]
        /\ \/ app[a] = "leaving" /\ app'[a] = "gone"
           \/ app'[a] = "killed"
    BY <1>1, <1>7 DEF Stopped
  <2>. QED
    BY <1>1, <1>2, <2>1, <2>2
<1>8. ASSUME NEW t \in Setups, Prepared(t) PROVE ProcKnown'
  <2>1. UNCHANGED <<app, proc, server, superseded, late>>
        /\ \A u \in Setups : setup'[u].app = setup[u].app
    BY <1>8 DEF Prepared
  <2>. QED
    BY <1>1, <2>1
<1>9. ASSUME NEW t \in Setups, Spawned(t) PROVE ProcKnown'
  <2>. DEFINE a == setup[t].app
  <2>1. a \in Apps /\ Running(a) /\ UNCHANGED app
    BY <1>9 DEF Spawned, SetupPlace, Busy
  <2>2. \A u \in Setups : setup'[u].app = setup[u].app
    BY <1>9 DEF Spawned, Became
  <2>3. server'[t] = "loading" /\ \A u \in Setups \ {t} : server'[u] = server[u]
    BY <1>1, <1>9 DEF Spawned
  <2>4. proc'[a] = t /\ \A b \in Apps \ {a} : proc'[b] = proc[b]
    BY <1>1, <1>9, <2>1 DEF Spawned
  <2>5. /\ superseded \subseteq superseded' /\ (proc[a] # None => proc[a] \in superseded')
        /\ late \subseteq late' /\ (app[a] = "leaving" => t \in late')
    BY <1>9 DEF Spawned
  <2>. HIDE DEF a
  <2>6. \A b \in Apps : proc'[b] # None => server'[proc'[b]] # "none" /\ setup'[proc'[b]].app = b
    BY <1>1, <2>1, <2>2, <2>3, <2>4 DEF a
  <2>7. \A u \in Setups : server'[u] # "none" => proc'[setup'[u].app] = u \/ u \in superseded'
    BY <1>1, <1>2, <2>1, <2>2, <2>3, <2>4, <2>5 DEF a
  <2>8. \A u \in Setups : Alive(u)' => app'[setup'[u].app] \in {"up", "leaving", "gone", "killed"}
    BY <1>2, <2>1, <2>2, <2>3 DEF Running, a
  <2>9. \A u \in Setups : Alive(u)' /\ app'[setup'[u].app] \in {"leaving", "gone"} =>
           u \in superseded' \cup late'
    BY <1>2, <2>1, <2>2, <2>3, <2>5 DEF Running, a
  <2>. QED
    BY <2>6, <2>7, <2>8, <2>9
<1>10. ASSUME NEW t \in Setups, Passed(t) PROVE ProcKnown'
  <2>1. UNCHANGED <<app, proc, server, superseded, late>>
        /\ \A u \in Setups : setup'[u].app = setup[u].app
    BY <1>10 DEF Passed, Became
  <2>. QED
    BY <1>1, <2>1
<1>11. ASSUME NEW t \in Setups, Served(t) PROVE ProcKnown'
  <2>1. UNCHANGED <<app, proc, setup, superseded, late>>
    BY <1>11 DEF Served
  <2>2. /\ \A u \in Setups : server'[u] = "none" <=> server[u] = "none"
        /\ \A u \in Setups : Alive(u)' => Alive(u)
    BY <1>1, <1>11 DEF Served
  <2>. QED
    BY <1>1, <2>1, <2>2
<1>. QED
  BY Kinds, <1>3, <1>4, <1>5, <1>6, <1>7, <1>8, <1>9, <1>10, <1>11

-----------------------------------------------------------------------------
\* One setup at a time.

LEMMA OneSetupStep ==
  ASSUME TypeOK, SetupPlace, OneSetup, [Next]_vars
  PROVE  OneSetup'
<1>. USE DEF OneSetup, Busy
<1>1. ASSUME UNCHANGED raced, \A u \in Setups : Busy(u)' => Busy(u) PROVE OneSetup'
  BY <1>1
<1>2. ASSUME NEW a \in Apps, NEW t \in Setups, Started(a, t) PROVE OneSetup'
  <2>1. /\ \A u \in Setups \ {t} : setup'[u] = setup[u]
        /\ raced' = (raced \/ \E u \in Setups : Busy(u))
    BY <1>2 DEF Started, Became
  <2>. QED
    BY <2>1
<1>3. ASSUME NEW a \in Apps, Stopped(a) PROVE OneSetup'
  BY <1>1, <1>3 DEF Stopped, Ended
<1>4. ASSUME NEW t \in Setups, Prepared(t) PROVE OneSetup'
  <2>1. Busy(t) /\ UNCHANGED raced /\ \A u \in Setups \ {t} : setup'[u].pc = setup[u].pc
    BY <1>4 DEF Prepared, Preparing
  <2>. QED
    BY <1>1, <2>1
<1>5. ASSUME NEW t \in Setups, Spawned(t) PROVE OneSetup'
  BY <1>1, <1>5 DEF Spawned, Became
<1>6. ASSUME NEW t \in Setups, Passed(t) PROVE OneSetup'
  BY <1>1, <1>6 DEF Passed, Became
<1>. QED
  BY Kinds, <1>1, <1>2, <1>3, <1>4, <1>5, <1>6 DEF Idle, Launched, Left, Served

-----------------------------------------------------------------------------
\* Which server a setup reaches.

\* A server that answers in place of a setup's own belongs to an instance that
\* runs beside it, was killed, or forgot it.
LEMMA WaitFindsOurs ==
  ASSUME TypeOK, SetupPlace, Exclusive, ProcKnown, NEW t \in Setups, Wait(t),
         ~together, superseded = {}, late = {}, \A a \in Apps : app[a] # "killed"
  PROVE  foreign' = foreign
<1>. DEFINE p == setup[t].port
            a == setup[t].app
<1>1. setup[t].pc = "wait" /\ server[t] # "none" /\ a \in Apps /\ p \notin Taken
  BY DEF Wait, At, SetupPlace
<1>2. \A u \in Setups : server[u] # "none" => setup[u].app \in Apps /\ proc[setup[u].app] = u
  BY DEF ProcKnown, SetupPlace
<1>3. \A u \in Setups : Alive(u) => app[setup[u].app] = "up"
  BY <1>2 DEF ProcKnown, Alive
<1>4. \A u, v \in Setups : Alive(u) /\ Alive(v) => u = v
  <2>1. SUFFICES ASSUME NEW u \in Setups, NEW v \in Setups, Alive(u), Alive(v) PROVE u = v
    OBVIOUS
  <2>2. setup[u].app \in Apps /\ setup[v].app \in Apps
        /\ app[setup[u].app] = "up" /\ app[setup[v].app] = "up"
        /\ proc[setup[u].app] = u /\ proc[setup[v].app] = v
    BY <1>2, <1>3, <2>1 DEF Alive
  <2>3. setup[u].app = setup[v].app
    BY <2>2 DEF Exclusive
  <2>. QED
    BY <2>2, <2>3
<1>5. ASSUME server[t] # "exited", p \in Taken \/ Listening(p) # {} PROVE t \in Listening(p)
  <2>1. PICK u \in Setups : server[u] = "listening" /\ setup[u].port = p
    BY <1>1, <1>5 DEF Listening
  <2>2. Alive(u) /\ Alive(t)
    BY <1>1, <1>5, <2>1 DEF Alive, TypeOK
  <2>3. u = t
    BY <1>4, <2>2
  <2>. QED
    BY <2>1, <2>3 DEF Listening
<1>6. proc[a] = t
  BY <1>1, <1>2
<1>. QED
  BY <1>5, <1>6 DEF Wait

LEMMA ReadyStep ==
  ASSUME TypeOK, SetupPlace, Exclusive, ProcKnown, ReadyMeansOurs, [Next]_vars
  PROVE  ReadyMeansOurs'
<1>1. app \in [Apps -> {"off", "claim", "refused", "up", "leaving", "gone", "killed"}]
  BY DEF TypeOK
<1>2. /\ together => together'
      /\ superseded \subseteq superseded' /\ late \subseteq late'
      /\ \A a \in Apps : app[a] = "killed" => app'[a] = "killed"
  <2>1. ASSUME NEW a \in Apps, Launched(a) \/ Left(a) \/ Stopped(a) \/ \E t \in Setups : Started(a, t)
        PROVE  /\ app[a] # "killed" /\ \A b \in Apps \ {a} : app'[b] = app[b]
               /\ together => together'
               /\ UNCHANGED <<superseded, late>>
    <3>1. CASE Launched(a)
      BY <1>1, <3>1 DEF Launched
    <3>2. CASE Left(a) \/ Stopped(a)
      BY <1>1, <3>2 DEF Left, Stopped
    <3>3. CASE \E t \in Setups : Started(a, t)
      BY <1>1, <3>3 DEF Started
    <3>. QED
      BY <2>1, <3>1, <3>2, <3>3
  <2>2. ASSUME NEW t \in Setups, Prepared(t) \/ Spawned(t) \/ Passed(t) \/ Served(t)
        PROVE  /\ UNCHANGED <<app, together>>
               /\ superseded \subseteq superseded' /\ late \subseteq late'
    BY <2>2 DEF Prepared, Spawned, Passed, Served
  <2>. QED
    BY Kinds, <2>1, <2>2 DEF Idle
<1>3. foreign' = foreign \/ \E t \in Setups : Wait(t)
  <2>1. ASSUME NEW t \in Setups, Prepare(t) PROVE foreign' = foreign
    BY <2>1, PrepareStep DEF Prepared
  <2>. QED
    BY <2>1 DEF Next, AppStep, SetupStep, Prepare, Launch, Claim, Poll, Retry, Watch, Leave,
                Exit, Kill, Spawn, Done, Bind, ServerExits, vars, history
<1>4. CASE foreign' = foreign
  BY <1>2, <1>4 DEF ReadyMeansOurs
<1>5. ASSUME NEW t \in Setups, Wait(t) PROVE ReadyMeansOurs'
  BY <1>2, <1>5, WaitFindsOurs DEF ReadyMeansOurs
<1>. QED
  BY <1>3, <1>4, <1>5

-----------------------------------------------------------------------------
\* Beginnings of the model.

LEMMA FirstFacts ==
  ASSUME NEW n \in 0..Pieces
  PROVE  /\ First(n) \in Seq(1..Pieces) /\ Len(First(n)) = n
         /\ \A i \in 1..n : First(n)[i] = i
         /\ First(n) \in Prefixes
<1>1. Whole \in Seq(1..Pieces) /\ Len(Whole) = Pieces /\ \A i \in 1..Pieces : Whole[i] = i
  BY SizeAssumption DEF Whole
<1>2. /\ SubSeq(Whole, 1, n) \in Seq(1..Pieces) /\ Len(SubSeq(Whole, 1, n)) = n
      /\ \A i \in 1..n : SubSeq(Whole, 1, n)[i] = i
  <2>1. \A i \in 1..n : Whole[i] \in 1..Pieces
    BY <1>1, SizeAssumption
  <2>. QED
    BY <1>1, <2>1, SizeAssumption, SubSeqProperties
<1>3. SubSeq(Whole, 1, n) \in Prefixes
  BY DEF Prefixes
<1>. QED
  BY <1>2, <1>3 DEF First

LEMMA FirstOnly ==
  ASSUME NEW s \in Prefixes
  PROVE  \E n \in 0..Pieces : s = First(n)
  BY DEF Prefixes, First

LEMMA FirstAll == First(Pieces) = Whole
<1>1. Whole \in Seq(1..Pieces) /\ Len(Whole) = Pieces
  BY SizeAssumption DEF Whole
<1>. QED
  BY <1>1, SubSeqFull DEF First

LEMMA FirstNone == First(0) = <<>>
<1>1. First(0) \in Seq(1..Pieces) /\ Len(First(0)) = 0
  BY FirstFacts, SizeAssumption
<1>. QED
  BY <1>1, EmptySeq

LEMMA RestFacts ==
  ASSUME NEW n \in 0..Pieces
  PROVE  /\ Rest(n) = <<>> <=> n = Pieces
         /\ n < Pieces => Head(Rest(n)) = n + 1 /\ Tail(Rest(n)) = Rest(n + 1)
<1>1. Whole \in Seq(1..Pieces) /\ Len(Whole) = Pieces /\ \A i \in 1..Pieces : Whole[i] = i
  BY SizeAssumption DEF Whole
<1>2. Rest(n) \in Seq(1..Pieces) /\ Len(Rest(n)) = Pieces - n
  <2>1. \A i \in (n + 1)..Pieces : Whole[i] \in 1..Pieces
    BY <1>1, SizeAssumption
  <2>. QED
    BY <1>1, <2>1, SizeAssumption, SubSeqProperties DEF Rest
<1>3. Rest(n) = <<>> <=> n = Pieces
  BY <1>2, EmptySeq, SizeAssumption
<1>4. ASSUME n < Pieces PROVE Head(Rest(n)) = n + 1 /\ Tail(Rest(n)) = Rest(n + 1)
  <2>1. n + 1 \in 1..Len(Whole) /\ Pieces \in (n + 1)..Len(Whole)
    BY <1>1, <1>4, SizeAssumption
  <2>2. Head(SubSeq(Whole, n + 1, Pieces)) = Whole[n + 1]
        /\ Tail(SubSeq(Whole, n + 1, Pieces)) = SubSeq(Whole, (n + 1) + 1, Pieces)
    BY <1>1, <2>1, HeadTailOfSubSeq
  <2>. QED
    BY <1>1, <2>1, <2>2 DEF Rest
<1>. QED
  BY <1>3, <1>4

\* A piece written at the end of a beginning makes the next one.
LEMMA WrittenNext ==
  ASSUME NEW n \in 0..Pieces, n < Pieces, NEW k \in {0, n + 1}
  PROVE  Written(First(n), k, n + 1) = First(n + 1)
<1>1. /\ n \in Nat /\ n + 1 \in 0..Pieces /\ Len(First(n)) = n
      /\ \A i \in 1..n : First(n)[i] = i
  BY FirstFacts, SizeAssumption
<1>2. Written(First(n), k, n + 1) = [j \in 1..(n + 1) |-> IF j = n + 1 THEN n + 1
                                                     ELSE IF j <= n THEN First(n)[j] ELSE 0]
  BY <1>1 DEF Written
<1>3. Written(First(n), k, n + 1) = [j \in 1..(n + 1) |-> j]
  BY <1>1, <1>2
<1>4. /\ First(n + 1) \in Seq(1..Pieces) /\ Len(First(n + 1)) = n + 1
      /\ \A i \in 1..(n + 1) : First(n + 1)[i] = i
  BY <1>1, FirstFacts
<1>5. [j \in 1..(n + 1) |-> j] \in Seq(1..Pieces) /\ Len([j \in 1..(n + 1) |-> j]) = n + 1
  BY <1>1, SizeAssumption
<1>. QED
  BY <1>3, <1>4, <1>5, SeqEqual

-----------------------------------------------------------------------------
\* The files, while setups do not overlap and servers honour a range.

\* Setup t continues to the place that a download has reached.
ConnectsAt(t) == setup[t].at = IF partial = None THEN 0 ELSE Len(partial)
ReceivesAt(t) ==
    /\ setup[t].file = "partial"
    /\ \E n \in 0..Pieces :
          /\ partial = First(n) /\ setup[t].rest = Rest(n) /\ setup[t].at \in {0, n + 1}

\* No other setup connects or receives.
LEMMA OthersQuiet ==
  ASSUME OneSetup, ~raced, NEW t \in Setups, Busy(t), NEW u \in Setups \ {t}
  PROVE  setup[u].pc \in {"unborn", "over"}
  BY DEF OneSetup, Busy

\* A step that leaves the files alone and starts no connection.
LEMMA FilesStand ==
  ASSUME FilesArePrefixes, UNCHANGED <<partial, model, short, whole>>, raced => raced',
         \A u \in Setups : setup'[u].pc \in {"connect", "receive"} => setup'[u] = setup[u]
  PROVE  FilesArePrefixes'
  BY DEF FilesArePrefixes, Clean, At, _check_model_integrity

LEMMA FilesStep ==
  ASSUME TypeOK, SetupPlace, OneSetup, FilesArePrefixes, [Next]_vars
  PROVE  FilesArePrefixes'
<1>1. ASSUME NEW t \in Setups, Prepare(t), Clean
      PROVE  \A u \in Setups \ {t} : setup'[u].pc \notin {"connect", "receive"}
  <2>1. Prepared(t) /\ Busy(t)
    BY <1>1, PrepareStep DEF Prepared, Preparing, Busy
  <2>2. \A u \in Setups \ {t} : setup'[u].pc = setup[u].pc
    BY <2>1 DEF Prepared
  <2>. QED
    BY <1>1, <2>1, <2>2, OthersQuiet DEF Clean
<1>2. ASSUME NEW a \in Apps, NewSetup(a), UNCHANGED <<partial, model, short, whole>>
      PROVE  FilesArePrefixes'
  BY <1>2, NewSetupEffect, FilesStand DEF Became
<1>3. ASSUME NEW a \in Apps, EndSetups(a), UNCHANGED <<partial, model, short, whole, raced>>
      PROVE  FilesArePrefixes'
  BY <1>3, EndEffect, FilesStand DEF Ended
<1>4. ASSUME NEW a \in Apps, AppStep(a) PROVE FilesArePrefixes'
  <2>1. CASE Claim(a) \/ Retry(a)
    BY <1>2, <2>1 DEF Claim, Retry, files
  <2>2. CASE Exit(a) \/ Kill(a)
    BY <1>3, <2>2 DEF Exit, Kill, files, history
  <2>3. CASE Launch(a) \/ Poll(a) \/ Watch(a) \/ Leave(a)
    BY <2>3, FilesStand DEF Launch, Poll, Watch, Leave, files, history
  <2>. QED
    BY <1>4, <2>1, <2>2, <2>3 DEF AppStep
<1>5. ASSUME NEW t \in Setups, setup'[t].pc \notin {"connect", "receive"},
             \A u \in Setups \ {t} : setup'[u] = setup[u],
             UNCHANGED <<partial, model, short, whole, raced>>
      PROVE  FilesArePrefixes'
  BY <1>5, FilesStand
<1>6. ASSUME NEW t \in Setups, Begin(t) PROVE FilesArePrefixes'
  <2>1. Became(t, setup[t].app, "checks", setup[t].file, setup[t].at, setup[t].rest,
               setup[t].port)
    BY <1>6, GotoEffect DEF Begin, Places
  <2>. QED
    BY <1>5, <1>6, <2>1 DEF Became, Begin, files, history
<1>7. ASSUME NEW t \in Setups, NEW ok \in BOOLEAN, Checks(t, ok) PROVE FilesArePrefixes'
  <2>1. \/ Became(t, setup[t].app, "model", setup[t].file, setup[t].at, setup[t].rest,
                  setup[t].port)
        \/ Became(t, setup[t].app, "over", "none", 0, <<>>, None)
    BY <1>7, GotoEffect, FailEffect DEF Checks, Places
  <2>2. UNCHANGED <<partial, model, short, whole, raced>>
    BY <1>7 DEF Checks, files, history
  <2>. QED
    BY <1>5, <2>1, <2>2 DEF Became
<1>8. ASSUME NEW t \in Setups, CheckModel(t) PROVE FilesArePrefixes'
  <2>1. UNCHANGED <<partial, model, short, whole, raced>>
    BY <1>8 DEF CheckModel, files, history
  <2>2. setup'[t].pc \in {"port", "connect"} /\ ConnectsAt(t)'
    BY <1>8, <2>1, CheckModelEffect DEF Became, ConnectsAt
  <2>. QED
    BY <1>1, <1>8, <2>1, <2>2 DEF FilesArePrefixes, Clean, At, ConnectsAt, Prepare
<1>9. ASSUME NEW t \in Setups, NEW answer \in {"range", "whole", "none"}, Connect(t, answer)
      PROVE  FilesArePrefixes'
  <2>1. UNCHANGED <<model, short, raced>> /\ At(t, "connect")
    BY <1>9 DEF Connect
  <2>2. CASE answer = "none"
    BY <1>5, <1>9, <2>1, <2>2, FailEffect DEF Connect, Became
  <2>3. CASE answer # "none"
    <3>. DEFINE k == setup[t].at
    <3>1. SUFFICES ASSUME Clean' PROVE FilesArePrefixes'
      BY DEF FilesArePrefixes
    <3>2. /\ whole' = (whole \/ (answer = "whole" /\ k > 0))
          /\ partial' = IF k > 0 /\ partial # None THEN partial ELSE <<>>
          /\ answer = "range" => k < Pieces
      BY <1>9, <2>3 DEF Connect
    <3>3. Clean /\ (answer = "whole" => ~(k > 0))
      BY <2>1, <3>1, <3>2 DEF Clean
    <3>4. /\ setup'[t].pc = "receive" /\ setup'[t].file = "partial"
          /\ setup'[t].at = IF k > 0 THEN 0 ELSE 1
          /\ setup'[t].rest = Sent(k, answer)
      BY <1>9, <2>3, ConnectEffect DEF Became
    <3>5. k \in Nat /\ k = IF partial = None THEN 0 ELSE Len(partial)
      BY <2>1, <3>3, SetupType DEF FilesArePrefixes, SetupRecord
    <3>6. Sent(k, answer) = Rest(k)
      <4>1. CASE answer = "range"
        BY <4>1 DEF Sent, Rest
      <4>2. CASE answer = "whole"
        <5>1. k = 0
          BY <3>3, <3>5, <4>2
        <5>. QED
          BY <4>2, <5>1, FirstAll DEF Sent, Rest, First
      <4>. QED
        BY <2>3, <4>1, <4>2
    <3>7. k \in 0..Pieces /\ partial' = First(k)
      <4>1. CASE k = 0
        BY <3>2, <4>1, FirstNone, SizeAssumption
      <4>2. CASE k > 0
        <5>1. partial # None /\ partial' = partial /\ k = Len(partial) /\ partial \in Prefixes
          BY <3>2, <3>3, <3>5, <4>2 DEF FilesArePrefixes
        <5>2. PICK n \in 0..Pieces : partial = First(n)
          BY <5>1, FirstOnly
        <5>3. Len(partial) = n
          BY <5>2, FirstFacts
        <5>. QED
          BY <5>1, <5>2, <5>3
      <4>. QED
        BY <3>5, <4>1, <4>2
    <3>8. partial' \in Prefixes
      BY <3>7, FirstFacts
    <3>9. ReceivesAt(t)'
      BY <3>4, <3>5, <3>6, <3>7 DEF ReceivesAt
    <3>. QED
      BY <1>1, <1>9, <2>1, <3>3, <3>4, <3>8, <3>9 DEF FilesArePrefixes, At, ReceivesAt, Prepare
  <2>. QED
    BY <2>2, <2>3
<1>10. ASSUME NEW t \in Setups, Receive(t) PROVE FilesArePrefixes'
  <2>1. SUFFICES ASSUME Clean' PROVE FilesArePrefixes'
    BY DEF FilesArePrefixes
  <2>2. At(t, "receive") /\ setup[t].rest # <<>> /\ UNCHANGED <<raced, whole, short>>
    BY <1>10 DEF Receive, history
  <2>3. Clean /\ ReceivesAt(t)
    BY <2>1, <2>2 DEF Clean, FilesArePrefixes, ReceivesAt
  <2>4. PICK n \in 0..Pieces :
           partial = First(n) /\ setup[t].rest = Rest(n) /\ setup[t].at \in {0, n + 1}
    BY <2>3 DEF ReceivesAt
  <2>5. n < Pieces /\ n + 1 \in 0..Pieces /\ Head(Rest(n)) = n + 1 /\ Tail(Rest(n)) = Rest(n + 1)
    BY <2>2, <2>4, RestFacts, SizeAssumption
  <2>6. partial' = First(n + 1) /\ UNCHANGED model
    <3>1. setup[t].file = "partial"
      BY <2>3 DEF ReceivesAt
    <3>. QED
      BY <1>10, <2>4, <2>5, <3>1, WrittenNext DEF Receive
  <2>7. /\ setup'[t].pc = "receive" /\ setup'[t].file = "partial"
        /\ setup'[t].at = IF setup[t].at = 0 THEN 0 ELSE setup[t].at + 1
        /\ setup'[t].rest = Rest(n + 1)
    BY <1>10, <2>3, <2>4, <2>5, ReceiveEffect DEF Became, ReceivesAt
  <2>8. setup'[t].at \in {0, (n + 1) + 1}
    BY <2>4, <2>7, SizeAssumption
  <2>9. ReceivesAt(t)' /\ partial' \in Prefixes
    BY <2>5, <2>6, <2>7, <2>8, FirstFacts DEF ReceivesAt
  <2>. QED
    BY <1>1, <1>10, <2>2, <2>3, <2>6, <2>7, <2>9 DEF FilesArePrefixes, At, ReceivesAt, Prepare
<1>11. ASSUME NEW t \in Setups, Interrupt(t) PROVE FilesArePrefixes'
  BY <1>5, <1>11, FailEffect DEF Interrupt, Became, files, history
<1>12. ASSUME NEW t \in Setups, EndOfData(t) PROVE FilesArePrefixes'
  <2>1. At(t, "receive") /\ UNCHANGED <<raced, whole>>
        /\ (setup[t].rest # <<>> => short') /\ (short => short')
    BY <1>12 DEF EndOfData
  <2>2. SUFFICES ASSUME Clean' PROVE FilesArePrefixes'
    BY DEF FilesArePrefixes
  <2>3. Clean /\ ReceivesAt(t)
    BY <2>1, <2>2 DEF Clean, FilesArePrefixes, ReceivesAt
  <2>4. PICK n \in 0..Pieces : partial = First(n) /\ setup[t].rest = Rest(n)
    BY <2>3 DEF ReceivesAt
  <2>5. partial # None /\ partial \in Prefixes
    <3>1. setup[t].file = "partial"
      BY <2>3 DEF ReceivesAt
    <3>. QED
      BY <2>4, <3>1, FirstFacts DEF TypeOK
  <2>6. model' = partial /\ partial' = None /\ setup'[t].pc = "verify"
    BY <1>12, <2>5, EndOfDataEffect
  <2>7. short' \/ model' = Whole
    BY <2>1, <2>4, <2>6, RestFacts, FirstAll
  <2>. QED
    BY <1>1, <1>12, <2>3, <2>5, <2>6, <2>7 DEF FilesArePrefixes, At, Prepare
<1>13. ASSUME NEW t \in Setups, Verify(t) PROVE FilesArePrefixes'
  <2>1. UNCHANGED <<partial, short, whole, raced>>
    BY <1>13 DEF Verify, history
  <2>2. setup'[t].pc \in {"port", "over"} /\ model' \in {model, None}
    BY <1>13, VerifyEffect
  <2>. QED
    BY <1>1, <1>13, <2>1, <2>2 DEF FilesArePrefixes, Clean, At, Prepare
<1>14. ASSUME NEW t \in Setups, FindPort(t) PROVE FilesArePrefixes'
  <2>1. UNCHANGED <<partial, model, short, whole, raced>>
    BY <1>14 DEF FindPort, files, history
  <2>2. \/ Became(t, setup[t].app, "over", "none", 0, <<>>, None)
        \/ \E p \in Free : Became(t, setup[t].app, "spawn", setup[t].file, setup[t].at,
                                  setup[t].rest, p)
    BY <1>14, FindPortEffect
  <2>. QED
    BY <1>5, <2>1, <2>2 DEF Became
<1>15. ASSUME NEW t \in Setups, NEW p \in {"wait", "ready", "over"}, Goto(t, p),
              UNCHANGED <<partial, model, short, whole, raced>>
       PROVE  FilesArePrefixes'
  BY <1>5, <1>15, GotoEffect DEF Places, Became
<1>16. ASSUME NEW t \in Setups, Spawn(t) \/ Wait(t) \/ Done(t) PROVE FilesArePrefixes'
  <2>1. UNCHANGED <<partial, model, short, whole, raced>>
    BY <1>16 DEF Spawn, Wait, Done, files, history
  <2>2. Goto(t, "wait") \/ Goto(t, "ready") \/ Goto(t, "over")
    BY <1>16 DEF Spawn, Wait, Done
  <2>. QED
    BY <1>15, <2>1, <2>2
<1>17. ASSUME NEW t \in Setups, Bind(t) \/ ServerExits(t) PROVE FilesArePrefixes'
  BY <1>17, FilesStand DEF Bind, ServerExits, files, history
<1>18. CASE UNCHANGED vars
  BY <1>18, FilesStand DEF vars, files, history
<1>. QED
  BY <1>4, <1>6, <1>7, <1>8, <1>9, <1>10, <1>11, <1>12, <1>13, <1>14, <1>16, <1>17, <1>18
     DEF Next, SetupStep

-----------------------------------------------------------------------------
\* The model under a server.

\* A step that leaves the model alone, starts no server and no download.
LEMMA ModelIsLeft ==
  ASSUME ModelStands, UNCHANGED model, raced => raced', whole => whole',
         \A u \in Setups : Alive(u)' => Alive(u),
         \A u \in Setups : setup'[u].pc \in {"port", "spawn"} => setup[u].pc \in {"port", "spawn"},
         \A u \in Setups : setup'[u].pc \in {"connect", "receive", "verify"} =>
            setup[u].pc \in {"connect", "receive", "verify"}
  PROVE  ModelStands'
  BY DEF ModelStands, Clean, _check_model_integrity

LEMMA ModelStep ==
  ASSUME TypeOK, SetupPlace, OneSetup, FilesArePrefixes, ModelStands, [Next]_vars
  PROVE  ModelStands'
<1>1. server \in [Setups -> {"none", "loading", "listening", "exited"}]
  BY DEF TypeOK
<1>2. CASE Idle
  BY <1>2, ModelIsLeft DEF Idle, Alive
<1>3. ASSUME NEW a \in Apps, Launched(a) PROVE ModelStands'
  BY <1>3, ModelIsLeft DEF Launched, Alive
<1>4. ASSUME NEW a \in Apps, NEW t \in Setups, Started(a, t) PROVE ModelStands'
  BY <1>4, ModelIsLeft DEF Started, Became, Alive
<1>5. ASSUME NEW a \in Apps, Left(a) PROVE ModelStands'
  <2>1. \A u \in Setups : Alive(u)' => Alive(u)
    BY <1>1, <1>5 DEF Left, Alive
  <2>. QED
    BY <1>5, <2>1, ModelIsLeft DEF Left
<1>6. ASSUME NEW a \in Apps, Stopped(a) PROVE ModelStands'
  BY <1>6, ModelIsLeft DEF Stopped, Ended, Alive
<1>7. ASSUME NEW t \in Setups, Spawned(t) PROVE ModelStands'
  <2>1. SUFFICES ASSUME Clean' PROVE ModelStands'
    BY DEF ModelStands
  <2>2. Clean /\ UNCHANGED model /\ Busy(t)
    BY <1>7, <2>1 DEF Clean, Spawned, Busy
  <2>3. _check_model_integrity /\ _check_model_integrity'
    BY <1>7, <2>2 DEF ModelStands, Spawned, _check_model_integrity
  <2>4. setup'[t].pc = "wait" /\ \A u \in Setups \ {t} : setup'[u] = setup[u]
    BY <1>7 DEF Spawned, Became
  <2>5. \A u \in Setups : setup'[u].pc \notin {"connect", "receive", "verify"}
    BY <2>2, <2>4, OthersQuiet DEF Clean
  <2>. QED
    BY <2>3, <2>5 DEF ModelStands
<1>8. ASSUME NEW t \in Setups, Passed(t) PROVE ModelStands'
  BY <1>8, ModelIsLeft DEF Passed, Became, Alive
<1>9. ASSUME NEW t \in Setups, Served(t) PROVE ModelStands'
  <2>1. \A u \in Setups : Alive(u)' => Alive(u)
    BY <1>1, <1>9 DEF Served, Alive
  <2>. QED
    BY <1>9, <2>1, ModelIsLeft DEF Served
<1>10. ASSUME NEW t \in Setups, Prepare(t), Prepared(t) PROVE ModelStands'
  <2>1. SUFFICES ASSUME Clean' PROVE ModelStands'
    BY DEF ModelStands
  <2>2. Clean /\ Busy(t)
    <3>1. UNCHANGED raced /\ Busy(t)
      BY <1>10 DEF Prepared, Preparing, Busy
    <3>2. whole => whole'
      BY <1>10 DEF Prepare, Begin, CheckModel, Receive, Interrupt, EndOfData, Verify, FindPort,
                   Checks, Connect, history
    <3>. QED
      BY <2>1, <3>1, <3>2 DEF Clean
  <2>3. /\ \A u \in Setups : Alive(u)' <=> Alive(u)
        /\ \A u \in Setups \ {t} : setup'[u].pc = setup[u].pc
        /\ \A u \in Setups \ {t} : setup[u].pc \in {"unborn", "over"}
    BY <1>10, <2>2, OthersQuiet DEF Prepared, Alive, Clean
  <2>4. ASSUME UNCHANGED model, setup'[t].pc \in {"port", "spawn"} => _check_model_integrity,
               setup'[t].pc \in {"connect", "receive", "verify"} => \A u \in Setups : ~Alive(u)
        PROVE  ModelStands'
    BY <2>2, <2>3, <2>4 DEF ModelStands, Clean, _check_model_integrity
  <2>5. setup[t].pc \in {"connect", "receive", "verify"} => \A u \in Setups : ~Alive(u)
    BY <2>2 DEF ModelStands
  <2>6. setup[t].pc = "port" => _check_model_integrity
    BY <2>2 DEF ModelStands
  <2>7. CASE Begin(t) \/ \E ok \in BOOLEAN : Checks(t, ok)
    <3>1. setup'[t].pc \in {"checks", "model", "over"}
      BY <2>7, GotoEffect, FailEffect DEF Begin, Checks, Became, Places
    <3>. QED
      BY <2>4, <2>7, <3>1 DEF Begin, Checks, files
  <2>8. CASE CheckModel(t)
    <3>1. setup'[t].pc = IF _check_model_integrity THEN "port" ELSE "connect"
      BY <2>8, CheckModelEffect DEF Became
    <3>2. ~_check_model_integrity => \A u \in Setups : ~Alive(u)
      BY <2>2 DEF ModelStands
    <3>. QED
      BY <2>4, <2>8, <3>1, <3>2 DEF CheckModel, files
  <2>9. CASE \E answer \in {"range", "whole", "none"} : Connect(t, answer)
    <3>1. setup'[t].pc \in {"receive", "over"} /\ setup[t].pc = "connect" /\ UNCHANGED model
      BY <2>9, ConnectEffect DEF Became, Connect, At
    <3>. QED
      BY <2>4, <2>5, <3>1
  <2>10. CASE Receive(t) \/ Interrupt(t)
    <3>1. setup[t].pc = "receive" /\ setup'[t].pc \in {"receive", "over"}
      BY <2>10, ReceiveEffect, FailEffect DEF Receive, Interrupt, At, Became
    <3>2. UNCHANGED model
      BY <2>2, <2>10, <3>1 DEF FilesArePrefixes, At, Receive, Interrupt, files
    <3>. QED
      BY <2>4, <2>5, <3>1, <3>2
  <2>11. CASE EndOfData(t)
    <3>1. setup[t].pc = "receive" /\ setup'[t].pc \in {"verify", "over"}
      BY <2>11, EndOfDataEffect DEF EndOfData, At
    <3>. QED
      BY <2>3, <2>5, <3>1 DEF ModelStands
  <2>12. CASE Verify(t)
    <3>1. setup[t].pc = "verify"
      BY <2>12 DEF Verify, At
    <3>2. \/ _check_model_integrity /\ setup'[t].pc = "port" /\ UNCHANGED model
          \/ setup'[t].pc = "over"
      BY <2>12, VerifyEffect
    <3>. QED
      BY <2>3, <2>4, <2>5, <3>1, <3>2 DEF ModelStands
  <2>13. CASE FindPort(t)
    <3>1. setup[t].pc = "port" /\ setup'[t].pc \in {"spawn", "over"} /\ UNCHANGED model
      BY <2>13, FindPortEffect DEF FindPort, At, Became, files
    <3>. QED
      BY <2>4, <2>6, <3>1
  <2>. QED
    BY <1>10, <2>7, <2>8, <2>9, <2>10, <2>11, <2>12, <2>13 DEF Prepare
<1>. QED
  BY Kinds, <1>2, <1>3, <1>4, <1>5, <1>6, <1>7, <1>8, <1>9, <1>10

-----------------------------------------------------------------------------
\* The inductive invariant.

DAInv ==
    /\ TypeOK /\ Exclusive /\ SetupPlace /\ ProcKnown /\ OneSetup /\ FilesArePrefixes
    /\ ModelStands /\ ReadyMeansOurs

LEMMA DAInit == Init => DAInv
<1>. SUFFICES ASSUME Init PROVE DAInv
  OBVIOUS
<1>1. TypeOK
  BY TypeInit
<1>2. \A t \in Setups : setup[t] = Unborn /\ server[t] = "none"
  BY DEF Init
<1>3. Unborn.pc = "unborn" /\ Unborn.file = "none" /\ Unborn.app = None /\ Unborn.port = None
  BY DEF Unborn
<1>4. Exclusive
  BY DEF Init, Exclusive
<1>5. SetupPlace
  BY <1>2, <1>3 DEF SetupPlace, Busy
<1>6. ProcKnown
  BY <1>2 DEF Init, ProcKnown, Alive
<1>7. OneSetup /\ ModelStands
  BY <1>2, <1>3 DEF OneSetup, Busy, ModelStands, Alive
<1>8. FilesArePrefixes
  BY <1>2, <1>3 DEF Init, FilesArePrefixes, At
<1>9. ReadyMeansOurs
  BY DEF Init, ReadyMeansOurs
<1>. QED
  BY <1>1, <1>4, <1>5, <1>6, <1>7, <1>8, <1>9 DEF DAInv

LEMMA DAStep == DAInv /\ [Next]_vars => DAInv'
<1>. SUFFICES ASSUME DAInv, [Next]_vars PROVE DAInv'
  OBVIOUS
<1>. USE DEF DAInv
<1>1. TypeOK'
  BY TypeStep
<1>2. Exclusive'
  BY ExclusiveStep
<1>3. SetupPlace'
  BY <1>1, SetupPlaceStep
<1>4. ProcKnown'
  BY ProcKnownStep
<1>5. OneSetup'
  BY OneSetupStep
<1>6. FilesArePrefixes'
  BY FilesStep
<1>7. ModelStands'
  BY ModelStep
<1>8. ReadyMeansOurs'
  BY ReadyStep
<1>. QED
  BY <1>1, <1>2, <1>3, <1>4, <1>5, <1>6, <1>7, <1>8

LEMMA DAInvariant == Spec => []DAInv
  BY DAInit, DAStep, PTL DEF Spec

\* Every variable has its type.
THEOREM TypeCorrect == Spec => []TypeOK
<1>1. DAInv => TypeOK
  BY DEF DAInv
<1>. QED
  BY <1>1, DAInvariant, PTL

\* Two instances run together only if they were launched at once, whatever lock
\* files kills and quits left behind (_acquire_lock, _cleanup).
THEOREM OneRuns == Spec => []OneInstance
<1>1. DAInv => OneInstance
  BY DEF DAInv, OneInstance, Exclusive, Running, TypeOK
<1>. QED
  BY <1>1, DAInvariant, PTL

\* A server runs on a beginning of the model that is larger than the floor, and
\* on the whole of it if no early end of a connection passed for the end of the
\* data (_download_model, _check_model_integrity, _start_server).
THEOREM ServesWholeModel == Spec => []ServedModelIsWhole
<1>1. DAInv => ServedModelIsWhole
  <2>1. SUFFICES ASSUME DAInv, NEW t \in Setups, server[t] \in {"loading", "listening"},
                        ~raced, ~whole
                 PROVE  /\ model \in Prefixes /\ Len(model) > Floor
                        /\ short \/ model = Whole
    BY DEF ServedModelIsWhole
  <2>2. model # None /\ Len(model) > Floor
    BY <2>1 DEF DAInv, ModelStands, Clean, Alive, _check_model_integrity
  <2>. QED
    BY <2>1, <2>2 DEF DAInv, FilesArePrefixes, Clean
<1>. QED
  BY <1>1, DAInvariant, PTL

\* The server that a setup reports is the one it started, unless another
\* instance or a superseded or late server was about (_wait_for_server).
THEOREM ReportsOurs == Spec => []ReadyMeansOurs
<1>1. DAInv => ReadyMeansOurs
  BY DEF DAInv
<1>. QED
  BY <1>1, DAInvariant, PTL

\* An instance that quit has stopped every server but those it had forgotten
\* and those its setup threads started meanwhile (_cleanup, _start_server).
THEOREM QuitsClean == Spec => []NoServerLeft
<1>1. DAInv => NoServerLeft
  BY DEF DAInv, NoServerLeft, ProcKnown, Alive
<1>. QED
  BY <1>1, DAInvariant, PTL
=============================================================================
