----------------------------- MODULE ChatStream -----------------------------
(* One streamed chat request, from /v1/chat/completions in server.py to the  *)
(* page (streamResponse in static/index.html).  In local mode the answer is  *)
(* generated here (_stream); in remote mode the retrieved context is sent to *)
(* another server's /v1/ask, and its event stream is passed on               *)
(* (_remote_proxy_stream_with_freshness).                                    *)
(*                                                                           *)
(* An event of a stream is two units, <<kind, 1>> and <<kind, 2>>, the       *)
(* second of which ends it; a read takes units in amounts that do not        *)
(* respect events.  A remote token is a unit of the text, whose chunks are   *)
(* counted.  The page takes what it is sent in the same step.                *)
EXTENDS ThinkFilter, RemotePayload, SequencesExt

CONSTANTS
    LocalTexts,    \* what the model may say here
    RemoteTexts,   \* and there, where tags are not filtered
    Retrieved,     \* what a search for the question may return
    MaxToken,      \* units of a local token
    Part           \* units of a read

\* A read, and what is kept of the last one, hold the marker (4096 bytes and 14).
ASSUME PartAssumption == Part \in Nat /\ Part >= 2 /\ MaxToken \in Nat \ {0}
ASSUME TextsAssumption ==
    LocalTexts \cup RemoteTexts \subseteq Seq({"a", "s", "o1", "o2", "c1", "c2"})
ASSUME RetrievedAssumption == \A chunks \in Retrieved : chunks \in Seq(Chunk)

VARIABLES
    request,   \* its mode, whether it asks for an edit, and max_tokens
    text,      \* what the model will say
    pc,        \* where the generator of the response is
    filter,    \* buffer, in_think and final_text of _stream
    stream,    \* what the response has said: positions of the text, and how it ended
    remote,    \* the remote server's generator, and how many tokens it has sent
    found,     \* what was retrieved for the remote server
    wire,      \* units sent there and not read here
    link,      \* up, or how it failed
    scan, buffer, saw_done, answered,   \* of the proxy; what it has collected
    page,      \* what the page has made of it
    failed     \* history: something went wrong

proxy == <<scan, buffer, saw_done, answered>>
vars == <<request, text, pc, filter, stream, remote, found, wire, link, proxy, page,
          failed>>

Event(kind) == <<<<kind, 1>>, <<kind, 2>>>>
\* Events one after the other.
Events(kinds) == [i \in 1..(2 * Len(kinds)) |-> <<kinds[(i + 1) \div 2], 2 - (i % 2)>>]
Local == request.mode = "local"

Init ==
    /\ request \in [mode: {"local", "remote"}, edit: BOOLEAN, tokens: {0, 1024}]
    /\ request.mode = "local" => request.tokens = 1024
    /\ text \in IF request.mode = "local" THEN LocalTexts ELSE RemoteTexts
    /\ pc = "freshness"
    /\ filter = Fresh
    /\ stream = [seen |-> {}, stage |-> "open"]
    /\ remote = [pc |-> "none", sent |-> 0]
    /\ found = <<>>
    /\ wire = <<>> /\ link = "up"
    /\ scan = <<>> /\ buffer = <<>> /\ saw_done = FALSE /\ answered = FALSE
    /\ page = [block |-> <<>>, content |-> FALSE, told |-> FALSE, error |-> FALSE,
               view |-> "waiting"]
    /\ failed = FALSE

-----------------------------------------------------------------------------
\* The page.

\* processSseEvent: an error replaces what is shown, and later content replaces
\* the error; status lines go elsewhere.
Processed(p, kind) ==
    CASE kind \in {"text", "answer", "footer"} -> [p EXCEPT !.content = TRUE]
      [] kind = "sorry" -> [p EXCEPT !.content = TRUE, !.told = TRUE]
      [] kind = "error" -> [p EXCEPT !.error = TRUE]
      [] OTHER          -> p

\* A block that ends is parsed; one that holds more than an event is malformed.
Take(p, unit) ==
    IF unit[2] = 1 THEN [p EXCEPT !.block = Append(@, unit)]
    ELSE LET rest == [p EXCEPT !.block = <<>>]
         IN IF Append(p.block, unit) = Event(unit[1]) THEN Processed(rest, unit[1]) ELSE rest

Shows(p, units) == FoldLeft(Take, p, units)

\* The end of the response: content is rendered whether or not an error came
\* before or [DONE] at all; a stream that breaks off is an exception.
Closed(p, cut) ==
    [p EXCEPT !.block = <<>>,
              !.view = IF cut THEN "connection error"
                       ELSE IF p.content THEN "answer"
                       ELSE IF p.error THEN "error" ELSE "no response"]

-----------------------------------------------------------------------------
\* What the response says.

Say(kinds) == page' = Shows(page, Events(kinds))
SayLast(kinds) ==
    /\ page' = Closed(Shows(page, Events(Append(kinds, "done"))), FALSE)
    /\ pc' = "over"

\* The stream after a failure and the marker, or after the marker alone.
Failed == [stream EXCEPT !.stage = "ended"]
Finished(seen) == [seen |-> seen, stage |-> "finished"]
Seen(seen) == stream' = [stream EXCEPT !.seen = seen]

\* An exception that nothing catches: the response ends without a marker.
BreakOff ==
    /\ page' = Closed(page, TRUE)
    /\ pc' = "over"
    /\ stream' = [stream EXCEPT !.stage = "cut"]
    /\ failed' = TRUE

\* _index_freshness_payload and the refresh; a remote answer needs an index,
\* unless a root is still known from an earlier one.
CheckFreshness(outcome) ==
    /\ pc = "freshness"
    /\ CASE outcome \in {"fresh", "refreshed"} ->
              /\ pc' = IF Local THEN "analyze" ELSE "collect"
              /\ Say(IF outcome = "refreshed" THEN <<"status">> ELSE <<>>)
              /\ UNCHANGED <<stream, failed>>
         [] outcome = "no index" /\ Local ->
              /\ pc' = "analyze"
              /\ UNCHANGED <<page, stream, failed>>
         [] outcome = "raised" -> BreakOff
         [] OTHER ->
              /\ SayLast((IF outcome = "not refreshed" THEN <<"status">> ELSE <<>>)
                         \o (IF Local THEN <<"error", "sorry">> ELSE <<"error">>))
              /\ stream' = Failed /\ failed' = TRUE
    /\ UNCHANGED <<request, text, filter, remote, found, wire, link, proxy>>

-----------------------------------------------------------------------------
\* _stream.

localVars == <<request, text, remote, found, wire, link, proxy>>

\* A descriptive answer may be in the cache; it was a whole answer once.
Analyze(hit) ==
    /\ pc = "analyze"
    /\ hit => ~request.edit
    /\ pc' = IF hit THEN "finish" ELSE "context"
    /\ Say(IF hit THEN <<"status", "answer">> ELSE <<"status">>)
    /\ filter' = IF hit THEN [filter EXCEPT !.base = Len(text), !.read = Len(text),
                                            !.shown = Outside(text, 0, Len(text))]
                 ELSE filter
    /\ Seen(filter'.shown)
    /\ UNCHANGED <<localVars, failed>>

BuildContext ==
    /\ pc = "context"
    /\ pc' = "generate"
    /\ Say(<<"status", "status">>)
    /\ UNCHANGED <<localVars, filter, stream, failed>>

\* An edit answer is kept back until it is whole.
Generate(n) ==
    /\ pc = "generate"
    /\ filter.read + n <= Len(text)
    /\ filter' = Feed(text, filter, n)
    /\ IF request.edit \/ filter'.shown = filter.shown
       THEN UNCHANGED <<page, stream>>
       ELSE Say(<<"text">>) /\ Seen(filter'.shown)
    /\ UNCHANGED <<localVars, pc, failed>>

\* What the buffer holds, then an edit answer in one piece, then the timing.
EndGeneration ==
    /\ pc = "generate" /\ filter.read = Len(text)
    /\ pc' = "finish"
    /\ filter' = Flush(text, filter)
    /\ Say(<<IF request.edit THEN "answer" ELSE IF filter'.shown # filter.shown THEN "text"
             ELSE "status", "footer">>)
    /\ Seen(filter'.shown)
    /\ UNCHANGED <<localVars, failed>>

Finish ==
    /\ pc = "finish"
    /\ SayLast(<<>>)
    /\ stream' = Finished(stream.seen)
    /\ UNCHANGED <<localVars, filter, failed>>

\* An exception anywhere in _stream.
Raise ==
    /\ pc \in {"analyze", "context", "generate", "finish"}
    /\ failed' = TRUE
    /\ SayLast(<<"error", "sorry">>)
    /\ stream' = Failed
    /\ UNCHANGED <<localVars, filter>>

LocalStep ==
    \/ \E hit \in BOOLEAN : Analyze(hit)
    \/ BuildContext \/ EndGeneration \/ Finish \/ Raise
    \/ \E n \in 1..MaxToken : Generate(n)

-----------------------------------------------------------------------------
\* _remote_proxy_stream_with_freshness, before the remote server answers.

sentVars == <<request, text, filter, link, proxy>>

\* Retrieval and packing of the payload, which stands outside the try block.
Collect(chunks) ==
    /\ pc = "collect"
    /\ found' = chunks
    /\ IF chunks # <<>>
       THEN pc' = "connect" /\ UNCHANGED <<page, stream, failed>>
       ELSE SayLast(<<"error">>) /\ stream' = Failed /\ failed' = TRUE
    /\ UNCHANGED <<sentVars, remote, wire>>

CollectRaises == pc = "collect" /\ BreakOff /\ UNCHANGED <<sentVars, remote, found, wire>>

\* URLError and HTTPError alike.
Connect(ok) ==
    /\ pc = "connect"
    /\ IF ok
       THEN /\ pc' = "proxy" /\ remote' = [remote EXCEPT !.pc = "asked"]
            /\ UNCHANGED <<page, stream, failed>>
       ELSE SayLast(<<"error">>) /\ stream' = Failed /\ failed' = TRUE /\ UNCHANGED remote
    /\ UNCHANGED <<sentVars, found, wire>>

-----------------------------------------------------------------------------
\* The remote server: /v1/ask.

remoteVars == <<request, found, text, pc, filter, stream, link, proxy, page>>
Sends(kinds) == wire' = wire \o Events(kinds)

\* A payload that the schema refuses is answered with plain JSON, no event.
Ask ==
    LET valid == Accepts(Payload(found, request.tokens))
    IN /\ remote.pc = "asked" /\ link = "up"
       /\ remote' = [remote EXCEPT !.pc = IF valid THEN "generating" ELSE "closed"]
       /\ wire' = IF valid THEN wire ELSE <<<<"json", 1>>>>
       /\ failed' = (failed \/ request.tokens < 1)
       /\ UNCHANGED remoteVars

RemoteGenerate ==
    /\ remote.pc = "generating" /\ link = "up" /\ remote.sent < Len(text)
    /\ remote' = [remote EXCEPT !.sent = @ + 1]
    /\ Sends(IF request.edit THEN <<>> ELSE <<"text">>)
    /\ UNCHANGED <<remoteVars, failed>>

RemoteEnd ==
    /\ remote.pc = "generating" /\ link = "up" /\ remote.sent = Len(text)
    /\ remote' = [remote EXCEPT !.pc = "closed"]
    /\ Sends(IF request.edit THEN <<"answer", "done">> ELSE <<"done">>)
    /\ UNCHANGED <<remoteVars, failed>>

RemoteRaise ==
    /\ remote.pc = "generating" /\ link = "up"
    /\ remote' = [remote EXCEPT !.pc = "closed"]
    /\ Sends(<<"error", "done">>)
    /\ failed' = TRUE
    /\ UNCHANGED remoteVars

RemoteStep ==
    \/ Ask \/ RemoteGenerate \/ RemoteEnd \/ RemoteRaise

\* The connection ends like the end of the stream, or is reset, or goes silent;
\* n units of what is under way still arrive.
Break(how, n) ==
    /\ pc = "proxy" /\ link = "up"
    /\ link' = how
    /\ wire' = SubSeq(wire, 1, n)
    /\ failed' = (failed \/ n < Len(wire) \/ remote.pc # "closed")
    /\ UNCHANGED <<request, found, text, pc, filter, stream, remote, proxy, page>>

-----------------------------------------------------------------------------
\* The proxy's loop.

Ended == link = "silent" \/ (link = "up" /\ remote.pc = "closed")
Next4096 == SubSeq(wire, 1, IF Len(wire) < Part THEN Len(wire) ELSE Part)

\* _remote_sse_has_done_event
HasDone(units) ==
    \E i \in 1..(Len(units) - 1) : SubSeq(units, i, i + 1) = Event("done")

\* What a part that is passed on makes of the stream.
Passed(s, unit) ==
    CASE unit = <<"text", 2>>  -> [s EXCEPT !.seen = @ \cup {Cardinality(s.seen) + 1}]
      [] unit = <<"error", 2>> -> [s EXCEPT !.stage = "failed"]
      [] unit = <<"done", 2>>  -> [s EXCEPT !.stage = IF @ = "failed" THEN "ended"
                                                      ELSE "finished"]
      [] OTHER                 -> s

\* A plain answer is passed on as it comes.
PassOn(part) ==
    /\ page' = Shows(page, part)
    /\ stream' = FoldLeft(Passed, stream, part)
    /\ UNCHANGED <<pc, buffer, answered>>

\* An edit answer is collected; an error among the events ends the loop.
CollectEvents(part) ==
    LET all   == buffer \o part
        ends  == {i \in DOMAIN all : all[i][2] = 2}
        kinds == {all[i][1] : i \in ends}
    IN /\ buffer' = IF ends = {} THEN all ELSE SubSeq(all, Max(ends) + 1, Len(all))
       /\ answered' = (answered \/ "answer" \in kinds)
       /\ IF "error" \in kinds THEN SayLast(<<"error">>) /\ stream' = Failed
          ELSE UNCHANGED <<pc, page, stream>>

\* fault: each part is searched for the marker by itself
ReadPartAlone ==
    LET part == Next4096
    IN /\ pc = "proxy" /\ wire # <<>>
       /\ Len(wire) >= Part \/ Ended
       /\ wire' = SubSeq(wire, Len(part) + 1, Len(wire))
       /\ scan' = part
       /\ saw_done' = (saw_done \/ HasDone(scan'))
       /\ IF request.edit THEN CollectEvents(part) ELSE PassOn(part)
       /\ UNCHANGED <<request, found, text, filter, remote, link, failed>>

\* A read returns the amount asked for, or what is there at the end.
ReadPart ==
    LET part == Next4096
        seen == scan \o part
    IN /\ pc = "proxy" /\ wire # <<>>
       /\ Len(wire) >= Part \/ Ended
       /\ wire' = SubSeq(wire, Len(part) + 1, Len(wire))
       /\ scan' = IF Len(seen) <= Part THEN seen
                  ELSE SubSeq(seen, Len(seen) - Part + 1, Len(seen))
       /\ saw_done' = (saw_done \/ HasDone(scan'))
       /\ IF request.edit THEN CollectEvents(part) ELSE PassOn(part)
       /\ UNCHANGED <<request, found, text, filter, remote, link, failed>>

\* fault: the collected answer is given whether or not the marker came
ReadEndAnyway ==
    /\ pc = "proxy" /\ wire = <<>> /\ Ended
    /\ SayLast(<<"answer">>)
    /\ stream' = Finished(IF answered \/ ~request.edit THEN 1..Len(text) ELSE stream.seen)
    /\ UNCHANGED <<sentVars, remote, found, wire, failed>>

\* The end of the stream: a stream without a marker is an interrupted one.
ReadEnd ==
    /\ pc = "proxy" /\ wire = <<>> /\ Ended
    /\ IF ~saw_done
       THEN SayLast(<<"error">>) /\ stream' = Failed
       ELSE IF request.edit
       THEN /\ SayLast(<<"answer">>)
            /\ stream' = Finished(IF answered THEN 1..Len(text) ELSE {})
       ELSE /\ pc' = "over" /\ page' = Closed(page, FALSE)
            /\ UNCHANGED stream
    /\ UNCHANGED <<sentVars, remote, found, wire, failed>>

\* A reset, or 180 seconds of silence.  What came of the part is lost; the
\* error and the marker follow also when a marker has been passed on already.
ReadRaises ==
    /\ pc = "proxy" /\ link \in {"reset", "stalled"} /\ Len(wire) < Part
    /\ SayLast(<<"error">>)
    /\ stream' = IF stream.stage = "finished" THEN stream ELSE Failed
    /\ UNCHANGED <<sentVars, remote, found, wire, failed>>

ProxyStep ==
    \/ \E chunks \in Retrieved : Collect(chunks)
    \/ CollectRaises
    \/ \E ok \in BOOLEAN : Connect(ok)
    \/ ReadPart \/ ReadEnd \/ ReadRaises

Outcomes == {"fresh", "refreshed", "not refreshed", "unknown", "no index", "raised"}

ServerStep == (\E outcome \in Outcomes : CheckFreshness(outcome)) \/ LocalStep \/ ProxyStep

Done == pc = "over" /\ UNCHANGED vars

Next ==
    \/ ServerStep \/ RemoteStep \/ Done
    \/ \E how \in {"silent", "reset", "stalled"}, n \in 0..Len(wire) : Break(how, n)

Spec == Init /\ [][Next]_vars

\* The event loop drives a response to its end, and so does the remote server's;
\* a read does not wait for ever.
FairSpec == Spec /\ WF_vars(ServerStep) /\ WF_vars(RemoteStep)

-----------------------------------------------------------------------------
Kinds == {"status", "text", "answer", "footer", "sorry", "error", "done", "json"}

\* Every variable has its type, and units that wait are never a marker's end.
TypeOK ==
    /\ request \in [mode: {"local", "remote"}, edit: BOOLEAN, tokens: {0, 1024}]
    /\ found \in Retrieved \cup {<<>>}
    /\ pc \in {"freshness", "analyze", "context", "generate", "finish", "collect", "connect",
               "proxy", "over"}
    /\ filter.base \in 0..filter.read /\ filter.read \in 0..Len(text)
    /\ filter.thinking \in BOOLEAN /\ filter.shown \subseteq 1..filter.base
    /\ stream.seen \subseteq 1..Len(text)
    /\ stream.stage \in {"open", "failed", "finished", "ended", "cut"}
    /\ remote.pc \in {"none", "asked", "generating", "closed"}
    /\ remote.sent \in 0..Len(text)
    /\ \A s \in {wire, scan, buffer, page.block} : s \in Seq(Kinds \X {1, 2})
    /\ Len(scan) <= Part /\ Len(buffer) <= 1
    /\ link \in {"up", "silent", "reset", "stalled"}
    /\ {saw_done, answered, failed, page.content, page.told, page.error} \subseteq BOOLEAN
    /\ page.view \in {"waiting", "answer", "error", "no response", "connection error"}

\* What may be shown, and what a finished answer has: everything outside the
\* thinking.  A region that is never closed may show when it is the last thing in
\* the buffer; blank text before a tag is dropped, and so is what is still in the
\* buffer at the end behind a tag that was found: a token takes one tag only, and
\* what follows a region that it leaves there is lost with it.
Allowed ==
    IF Local THEN Outside(text, 0, Len(text)) \cup Unclosed(text, 0, Len(text))
    ELSE 1..Len(text)
Due ==
    IF Local
    THEN {i \in Outside(text, 0, Len(text)) : text[i] # "s"}
         \ (IF filter.thinking THEN (filter.base + 1)..filter.read ELSE {})
    ELSE 1..Len(text)

Promise == INSTANCE AnswerStream WITH
    allowed <- Allowed, due <- Due, seen <- stream.seen, stage <- stream.stage

\* README.md: streams always terminate with [DONE].  Pieces of the answer come in
\* order, and the marker after all of them or after an error; but for an exception
\* outside the handlers, which breaks the response off.
KeepsPromise == Promise!Spec

\* What the client sends the remote server accepts, whatever was retrieved, and the
\* lines a chunk is said to have include those it holds.  A request for no tokens
\* is refused.
PayloadIsAccepted ==
    remote.pc # "none" /\ request.tokens >= 1 =>
        /\ Accepts(Payload(found, request.tokens))
        /\ \A i \in DOMAIN found : CoversItsLines(found[i])

\* A request that nothing goes wrong with ends with its answer and no error,
\* however the remote stream was cut into parts; only when the remote model says
\* nothing there is no response to show.
HealthyStreamFinishes ==
    pc = "over" /\ ~failed /\ link = "up" =>
        /\ stream.stage = "finished" /\ ~page.error
        /\ page.view = IF Local \/ request.edit \/ text # <<>> THEN "answer" ELSE "no response"

ErrorIsVisible == page.told \/ page.view \in {"error", "no response", "connection error"}

\* The page shows a failure, if the answer was generated here or had not begun.
EarlyFailureIsShown ==
    pc = "over" /\ failed /\ (Local \/ stream.seen = {}) => ErrorIsVisible

\* README.md: the frontend surfaces backend stream failures as visible assistant
\* errors.
FailureIsShown == pc = "over" /\ failed => ErrorIsVisible

=============================================================================
