---------------------------- MODULE RemotePayload ---------------------------
(* What a client in remote mode sends with a question, and what the server   *)
(* that answers accepts: normalize_local_retrieval in local_retrieval.py,    *)
(* _collect_local_remote_payload in server.py and the from_dict checks of    *)
(* remote_inference_schema.py.                                               *)
(*                                                                           *)
(* A retrieved chunk has the line its text begins at, counted from 0 as the  *)
(* index does, or NoLine (a whole file, a notice), and a text of `body`      *)
(* lines under the header the index gives it.  No chunk that is retrieved    *)
(* has an end line.                                                          *)
EXTENDS Integers, Sequences, FiniteSets

NoLine == -1
Header == 2   \* "# File: ..." and an empty line

\* What a search returns.
Chunk == [file: STRING, source: STRING, line: Nat \cup {NoLine}, body: Nat]

\* fault: a line from 0 is taken as it is
LineRangeFromZero(c) ==
    LET start == IF c.line = NoLine THEN 1 ELSE c.line
    IN [start |-> start, end |-> start + (Header + c.body) - 1]

\* The line is taken as if counted from 1, and the header for lines of the file.
LineRange(c) ==
    LET start == IF c.line < 1 THEN 1 ELSE c.line
    IN [start |-> start, end |-> start + (Header + c.body) - 1]

Authority(source) ==
    CASE source = "manifest" -> "declared"
      [] source = "inferred" -> "inferred"
      [] OTHER               -> "referenced"

Normalize(c) ==
    [path |-> c.file, authority |-> Authority(c.source), lines |-> LineRange(c),
     content |-> Header + c.body]

\* The question is not empty, and what git or the state file do not tell has a
\* default that is not empty either.
Payload(found, tokens) ==
    LET chunks == [i \in DOMAIN found |-> Normalize(found[i])]
    IN [chunks |-> chunks, tokens |-> tokens, retrieved_chunk_count |-> Len(chunks),
        total_candidate_files |-> Cardinality({chunks[i].path : i \in DOMAIN chunks})]

Accepts(payload) ==
    /\ payload.chunks # <<>>
    /\ payload.tokens >= 1
    /\ \A i \in DOMAIN payload.chunks :
          LET c == payload.chunks[i]
          IN c.lines.start >= 1 /\ c.lines.end >= c.lines.start /\ c.content > 0

\* The lines of the file that a chunk holds are in the range it is sent with.
CoversItsLines(c) ==
    c.line # NoLine =>
        c.line + 1 >= LineRange(c).start /\ c.line + c.body <= LineRange(c).end

=============================================================================
