--------------------------- MODULE ContextBudget ---------------------------
(* How the retrieved chunks of a question get into its prompt: server.py     *)
(* gives each chunk a tier, forces an excerpt of a declaration file to the   *)
(* front when the question is about declarations, and                        *)
(* andes_cache/context_budget.py packs the candidates in order of priority   *)
(* into what the fixed prompt leaves of the model's context window.          *)
(*                                                                           *)
(* A chunk is its file and the number of characters of its content; a chunk  *)
(* is named by its rank in the retrieval.                                    *)
EXTENDS Integers, Sequences, FiniteSetsExt

CONSTANTS
    Files,             \* paths a chunk may be of
    Base,              \* Base[f]: the last component of path f
    Anchors,           \* files the question names
    Planned,           \* files the planner chose
    Neighbors,         \* files the neighbourhood expansion added
    Declaring,         \* files of an authoritative source type
    Mapped,            \* the project map's declaration files
    Preference,        \* Preference[f]: _authoritative_preference_key
    Lengths,           \* lengths of a chunk's content
    MaxChunks,         \* bound: chunks retrieved for a question
    Fixed,             \* tokens of system prompt, project map and conversation
    Window,            \* MODEL_CONTEXT_WINDOW
    Reserved,          \* CONTEXT_RESERVED_RESPONSE_TOKENS
    Margin,            \* CONTEXT_SAFETY_MARGIN_TOKENS
    Wrap,              \* characters of the fences and notes around a content
    Warning,           \* characters of the line that announces an excerpt
    Minimal,           \* characters of the section that only names a file
    Cuts               \* lengths of excerpts, in the order they are tried

ASSUME FilesAssumption == Anchors \cup Planned \cup Neighbors \cup Mapped \subseteq Files
ASSUME PreferenceAssumption == Preference \in [Files -> Nat]
ASSUME SizesAssumption ==
    /\ Lengths \subseteq Nat /\ Fixed \subseteq Nat /\ MaxChunks \in Nat
    /\ Window \in Nat /\ Reserved \in Nat /\ Margin \in Nat
    /\ Wrap \in Nat /\ Warning \in Nat /\ Minimal \in Nat
    /\ Cuts \in Seq(Nat) /\ Cuts # <<>>

VARIABLES
    chunks,       \* the retrieval, in its order
    declaration,  \* is_declaration_query
    fixed,        \* tokens of the fixed prompt
    pc,
    cands,        \* the candidate made of each chunk
    forced,       \* rank of the candidate forced to the front, or 0
    packed, dropped, used

input == <<chunks, declaration, fixed>>
vars == <<input, pc, cands, forced, packed, dropped, used>>

Retrievals == UNION {[1..n -> [file: Files, len: Lengths]] : n \in 0..MaxChunks}
Ranks == DOMAIN chunks

Smaller(a, b) == IF a < b THEN a ELSE b

\* Three characters a token, rounded up.
estimate_tokens(chars) == (chars + 2) \div 3

BudgetUnclamped == Window - Reserved - Margin - fixed  \* fault: no max(..., 0)
Budget ==
    LET rest == Window - Reserved - Margin - fixed
    IN IF rest < 0 THEN 0 ELSE rest

Init ==
    /\ chunks \in Retrievals /\ declaration \in BOOLEAN /\ fixed \in Fixed
    /\ pc = "prioritize"
    /\ cands = <<>>
    /\ forced = 0
    /\ packed = {} /\ dropped = {} /\ used = 0

-----------------------------------------------------------------------------
\* A path is also found by its last component.
Matches(f, files) == \E g \in files : Base[g] = Base[f]

Tier(f) ==
    CASE Matches(f, Anchors) -> 0
      [] ~Matches(f, Anchors) /\ Matches(f, Planned) -> 1
      [] ~Matches(f, Anchors) /\ ~Matches(f, Planned) /\ Matches(f, Neighbors) -> 2
      [] OTHER -> 3

Prioritize ==
    /\ pc = "prioritize"
    /\ cands' = [i \in Ranks |->
          LET f == chunks[i].file
              text == chunks[i].len + Wrap
          IN [tier |-> Tier(f),
              authority |-> IF declaration /\ f \in Declaring THEN 0 ELSE 1,
              text |-> text,
              est |-> estimate_tokens(text)]]
    /\ pc' = IF declaration THEN "enforce" ELSE "pack"
    /\ UNCHANGED <<input, forced, packed, dropped, used>>

\* Order of packing: tier, authority, rank.
Before(i, j) ==
    \/ cands[i].tier < cands[j].tier
    \/ cands[i].tier = cands[j].tier /\ cands[i].authority < cands[j].authority
    \/ cands[i].tier = cands[j].tier /\ cands[i].authority = cands[j].authority /\ i < j

AuthoritativeCandidates ==
    {i \in Ranks : /\ chunks[i].file \in Declaring
                   /\ Mapped = {} \/ Matches(chunks[i].file, Mapped)}

\* Whether i is the candidate that stands first in the stable sort.
IsSelected(i) ==
    /\ i \in AuthoritativeCandidates
    /\ \A j \in AuthoritativeCandidates \ {i} :
          LET p == Preference[chunks[i].file]
              q == Preference[chunks[j].file]
          IN p < q \/ (p = q /\ Before(i, j))

\* The section of a candidate cut to an excerpt; short contents stay as they are.
Excerpt(i, cut) ==
    IF chunks[i].len > cut THEN cut + Wrap + Warning ELSE cands[i].text

FitsAt(i, k) == estimate_tokens(Excerpt(i, Cuts[k])) <= Budget

\* The excerpt that is kept: the first that fits; with no budget, the first.
Kept(i) ==
    {k \in DOMAIN Cuts : IF Budget = 0 THEN k = 1
                         ELSE FitsAt(i, k) /\ \A l \in 1..(k - 1) : ~FitsAt(i, l)}

\* The section that is forced: that excerpt, or the one that only names the file.
Sections(i) == IF Kept(i) = {} THEN {Minimal} ELSE {Excerpt(i, Cuts[k]) : k \in Kept(i)}

\* fault: the minimal section is taken to fit
ForcedEstUnclamped(text) == estimate_tokens(text)
\* The estimate of a forced section is lowered to the budget.
ForcedEst(text) ==
    IF Budget = 0 THEN estimate_tokens(text) ELSE Smaller(estimate_tokens(text), Budget)

Enforce ==
    /\ pc = "enforce"
    /\ \/ /\ AuthoritativeCandidates = {}
          /\ UNCHANGED <<cands, forced>>
       \/ \E i \in AuthoritativeCandidates : \E text \in Sections(i) :
             /\ IsSelected(i)
             /\ cands' = [cands EXCEPT ![i] = [tier |-> -1, authority |-> -1,
                                               text |-> text, est |-> ForcedEst(text)]]
             /\ forced' = i
    /\ pc' = "pack"
    /\ UNCHANGED <<input, packed, dropped, used>>

-----------------------------------------------------------------------------
\* pack_chunks_to_budget, one candidate at a time.

Pending == Ranks \ (packed \cup dropped)
IsNext(i) == i \in Pending /\ \A j \in Pending \ {i} : Before(i, j)

Contributed(t) == \E i \in packed : cands[i].tier = t
Overflowed(t) == \E i \in dropped : cands[i].tier = t

CutIfFull(t) == Overflowed(t)  \* fault: no fall-back below a tier that gave nothing
CutNever(t) == FALSE           \* fault: lower tiers fill what is left
\* A tier that gave something and lost something keeps the lower tiers out.
Cut(t) == Overflowed(t) /\ Contributed(t)

Blocked(i) == \E t \in -1..(cands[i].tier - 1) : Cut(t)

\* fault: the chunk itself is not counted
PackWhileRoom(i) ==
    /\ pc = "pack" /\ IsNext(i) /\ ~Blocked(i)
    /\ used < Budget
    /\ packed' = packed \cup {i}
    /\ used' = used + cands[i].est
    /\ UNCHANGED <<input, pc, cands, forced, dropped>>

Pack(i) ==
    /\ pc = "pack" /\ IsNext(i) /\ ~Blocked(i)
    /\ used + cands[i].est <= Budget
    /\ packed' = packed \cup {i}
    /\ used' = used + cands[i].est
    /\ UNCHANGED <<input, pc, cands, forced, dropped>>

Drop(i) ==
    /\ pc = "pack" /\ IsNext(i) /\ ~Blocked(i)
    /\ used + cands[i].est > Budget
    /\ dropped' = dropped \cup {i}
    /\ UNCHANGED <<input, pc, cands, forced, packed, used>>

\* All lower tiers are dropped at once.
BlockLower(i) ==
    /\ pc = "pack" /\ IsNext(i) /\ Blocked(i)
    /\ dropped' = dropped \cup Pending
    /\ UNCHANGED <<input, pc, cands, forced, packed, used>>

Finish ==
    /\ pc = "pack" /\ Pending = {}
    /\ pc' = "done"
    /\ UNCHANGED <<input, cands, forced, packed, dropped, used>>

Next ==
    \/ Prioritize \/ Enforce \/ Finish
    \/ \E i \in Ranks : Pack(i) \/ Drop(i) \/ BlockLower(i)

Spec == Init /\ [][Next]_vars

-----------------------------------------------------------------------------
Candidate == [tier: -1..3, authority: -1..1, text: Nat, est: Nat]

\* Every variable has its type (the locals of _pack_context_section and of
\* pack_chunks_to_budget), and the budget is never negative.
TypeOK ==
    /\ chunks \in Retrievals /\ declaration \in BOOLEAN /\ fixed \in Fixed
    /\ pc \in {"prioritize", "enforce", "pack", "done"}
    /\ (pc # "prioritize" => cands \in [Ranks -> Candidate])
    /\ forced \in Ranks \cup {0}
    /\ packed \subseteq Ranks /\ dropped \subseteq Ranks /\ packed \cap dropped = {}
    /\ used \in Nat /\ Budget \in Nat

RealTokens(S) == MapThenSumSet(LAMBDA i : estimate_tokens(cands[i].text), S)

\* The prompt stays within the window, unless its fixed part alone does not, or
\* the forced section was counted for less than it is (README.md: truncation
\* instead of overflow failures).
WindowKept ==
    pc = "done" /\ fixed + Reserved + Margin <= Window
        /\ (forced = 0 \/ estimate_tokens(cands[forced].text) <= Budget)
    => fixed + Reserved + Margin + RealTokens(packed) <= Window

\* README.md's order of priority: nothing of a lower tier is packed when a
\* higher tier was cut short, that is, gave some of its chunks and lost others.
PriorityKept ==
    \A i \in packed, j \in dropped :
        cands[j].tier < cands[i].tier => ~Contributed(cands[j].tier)

\* A chunk is dropped only if it does not fit beside what was packed, or if a
\* higher tier was cut short: room is never left to no purpose.
NoNeedlessDrop ==
    \A j \in dropped :
        \/ used + cands[j].est > Budget
        \/ \E t \in -1..(cands[j].tier - 1) : Overflowed(t) /\ Contributed(t)

\* A question about declarations keeps a section of a declaration file in its
\* prompt whenever one was retrieved and there is any budget.
DeclarationKept ==
    pc = "done" /\ declaration /\ Budget > 0 /\ AuthoritativeCandidates # {} =>
        forced \in packed

=============================================================================
