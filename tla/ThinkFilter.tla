----------------------------- MODULE ThinkFilter ----------------------------
(* The filter of _stream in server.py that keeps the model's thinking, which *)
(* stands between an opening and a closing tag, out of the answer while      *)
(* tokens of any length arrive.                                              *)
(*                                                                           *)
(* A text is a sequence of units: "a" answer or thinking, "s" white space,   *)
(* "o1", "o2" the halves of an opening tag and "c1", "c2" of a closing tag;  *)
(* tokens cut it anywhere.  The buffer is the part of the text after `base`  *)
(* up to `read`, and what is shown a set of positions.                       *)
EXTENDS Integers, Sequences, FiniteSetsExt

TagLen == 2   \* len(think_open)
Slack == 1    \* the 4 characters above it that make the loop emit

IsOpen(text, i, to) == i < to /\ text[i] = "o1" /\ text[i + 1] = "o2"
IsClose(text, i, to) == i < to /\ text[i] = "c1" /\ text[i + 1] = "c2"
Opens(text, from, to) == {i \in (from + 1)..to : IsOpen(text, i, to)}
Closes(text, from, to) == {i \in (from + 1)..to : IsClose(text, i, to)}

\* What each unit after `from` is to a reader from left to right: outside, or a
\* part of a region that begins with a tag; the first closing tag ends it.
Places(text, from, to) ==
    LET place[i \in from..to] ==
            IF i = from THEN "out"
            ELSE LET before == place[i - 1]
                 IN CASE before = "open"  -> "in"
                      [] before = "close" -> "shut"
                      [] before = "in"    -> IF IsClose(text, i, to) THEN "close" ELSE "in"
                      [] OTHER            -> IF IsOpen(text, i, to) THEN "open" ELSE "out"
    IN place

\* The units of a region that is never closed.
Unclosed(text, from, to) ==
    LET place == Places(text, from, to)
    IN IF place[to] # "in" THEN {}
       ELSE Max({i \in (from + 1)..to : place[i] = "open"})..to

Outside(text, from, to) ==
    LET place == Places(text, from, to)
    IN {i \in (from + 1)..to : place[i] = "out"}

\* _strip_thinking removes whole regions only.
Stripped(text, from, to) == Outside(text, from, to) \cup Unclosed(text, from, to)

Fresh == [base |-> 0, read |-> 0, thinking |-> FALSE, shown |-> {}]

\* fault: less than a tag is kept back
FeedTooMuch(text, s, n) ==
    LET to == s.read + n
        opens == Opens(text, s.base, to)
        closes == Closes(text, s.base, to)
        next == [s EXCEPT !.read = to]
    IN IF ~s.thinking /\ opens # {}
       THEN [next EXCEPT !.base = Min(opens) - 1, !.thinking = TRUE,
                         !.shown = @ \cup (s.base + 1)..(Min(opens) - 1)]
       ELSE IF s.thinking /\ closes # {}
       THEN [next EXCEPT !.base = Min(closes) + 1, !.thinking = FALSE]
       ELSE IF ~s.thinking /\ to - s.base > TagLen + Slack
       THEN [next EXCEPT !.base = to, !.shown = @ \cup Stripped(text, s.base, to)]
       ELSE next

\* fault: what is kept back is shown as well, and again later
FeedTwice(text, s, n) ==
    LET to == s.read + n
        next == [s EXCEPT !.read = to]
    IN IF ~s.thinking /\ Opens(text, s.base, to) = {} /\ to - s.base > TagLen + Slack
       THEN [next EXCEPT !.base = to - TagLen, !.shown = @ \cup Stripped(text, s.base, to)]
       ELSE next

\* One token of n units.  A tag that is found ends the step, whatever follows
\* it; blank text before a tag is dropped; otherwise all but the length of a
\* tag is shown once the buffer is longer than that and the slack.
Feed(text, s, n) ==
    LET to == s.read + n
        opens == Opens(text, s.base, to)
        closes == Closes(text, s.base, to)
        before == (s.base + 1)..(Min(opens) - 1)
        next == [s EXCEPT !.read = to]
    IN IF ~s.thinking /\ opens # {}
       THEN [next EXCEPT !.base = Min(opens) - 1, !.thinking = TRUE,
                         !.shown = IF \E i \in before : text[i] # "s" THEN @ \cup before ELSE @]
       ELSE IF s.thinking /\ closes # {}
       THEN [next EXCEPT !.base = Min(closes) + 1, !.thinking = FALSE]
       ELSE IF ~s.thinking /\ to - s.base > TagLen + Slack
       THEN [next EXCEPT !.base = to - TagLen,
                         !.shown = @ \cup Stripped(text, s.base, to - TagLen)]
       ELSE next

\* The end of the tokens: what is still in the buffer, unless it is thinking.
Flush(text, s) ==
    IF s.thinking THEN s
    ELSE [s EXCEPT !.base = s.read, !.shown = @ \cup Stripped(text, s.base, s.read)]

=============================================================================
