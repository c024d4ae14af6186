---------------------------- MODULE AnswerStream ----------------------------
(* What a chat stream promises its reader: pieces of the answer in order,    *)
(* and [DONE] after the whole answer or after a failure; nothing of the      *)
(* answer comes after either.                                                *)
EXTENDS Integers

VARIABLES
    allowed,   \* positions of the model's text that may be shown
    due,       \* those that a finished answer has
    seen,      \* those the reader has
    stage      \* open, failed, finished (whole), ended (failed), or cut

vars == <<seen, stage>>

Init == seen = {} /\ stage = "open"

\* What is new comes after what was there.
InOrder == \A i \in seen, j \in seen' \ seen : i < j

Deliver ==
    /\ stage = "open"
    /\ seen \subseteq seen' /\ seen' \subseteq allowed' /\ InOrder
    /\ stage' = "finished" => due' \subseteq seen'

\* The marker after a failure; a stream that breaks off has none.
End == stage = "failed" /\ stage' = "ended" /\ seen' = seen

Next == Deliver \/ End

Ends == <>(stage \in {"finished", "ended", "cut"})

\* What a stream may never do, and with what it must do.
Safety == Init /\ [][Next]_vars
Spec == Safety /\ Ends

=============================================================================
