-------------------------- MODULE ChatStream_proof -------------------------
(* Proofs about one streamed request, for any texts, any chunks a search     *)
(* returns, tokens of any length and parts of any size that holds a marker:  *)
(* the remote server accepts every payload, variables have their types, the  *)
(* page shows an early failure, and a healthy stream ends with its answer.   *)
(*                                                                           *)
(* The invariant tells the page, the stream and the proxy's variables from   *)
(* the events the remote server has sent and the number of units that were   *)
(* read (Track).  Folds over units are reasoned about through the states     *)
(* they go through, by induction on a set of numbers.                        *)
EXTENDS ChatStream, FiniteSetTheorems, WellFoundedInduction, TLAPS

\* A line range begins at 1 or later, and does not end before it begins.
LEMMA RangeIsSound ==
  ASSUME NEW c \in Chunk
  PROVE  /\ LineRange(c).start \in Nat /\ LineRange(c).end \in Nat
         /\ LineRange(c).start >= 1
         /\ LineRange(c).end > LineRange(c).start
         /\ CoversItsLines(c)
<1>1. c.line \in Nat \cup {-1} /\ c.body \in Nat
  BY DEF Chunk, NoLine
<1>2. /\ LineRange(c).start = IF c.line < 1 THEN 1 ELSE c.line
      /\ LineRange(c).end = LineRange(c).start + (2 + c.body) - 1
  BY DEF LineRange, Header
<1>. QED
  BY <1>1, <1>2 DEF CoversItsLines, NoLine

\* Whatever was retrieved, if anything was, makes a payload that is accepted.
LEMMA PayloadIsSound ==
  ASSUME NEW found_ \in Seq(Chunk), found_ # <<>>, NEW tokens \in Nat \ {0}
  PROVE  Accepts(Payload(found_, tokens))
<1>. DEFINE chunks == [i \in DOMAIN found_ |-> Normalize(found_[i])]
            payload == Payload(found_, tokens)
<1>1. payload.chunks = chunks /\ payload.tokens = tokens
  BY DEF Payload
<1>2. DOMAIN found_ = 1..Len(found_) /\ Len(found_) \in Nat \ {0}
  OBVIOUS
<1>3. chunks # <<>>
  <2>1. DOMAIN chunks = 1..Len(found_) /\ 1 \in 1..Len(found_)
    BY <1>2
  <2>. QED
    BY <2>1
<1>4. ASSUME NEW i \in DOMAIN chunks
      PROVE  /\ chunks[i].lines.start >= 1
             /\ chunks[i].lines.end >= chunks[i].lines.start
             /\ chunks[i].content > 0
  <2>1. found_[i] \in Chunk
    BY <1>2, <1>4
  <2>2. /\ chunks[i].lines = LineRange(found_[i])
        /\ chunks[i].content = 2 + found_[i].body
    BY <1>4 DEF Normalize, Header
  <2>3. found_[i].body \in Nat
    BY <2>1 DEF Chunk
  <2>. QED
    BY <2>1, <2>2, <2>3, RangeIsSound
<1>. QED
  BY <1>1, <1>3, <1>4 DEF Accepts

-----------------------------------------------------------------------------
\* Before the remote server is asked.
Before == {"freshness", "collect", "connect"}

\* What is sent is what was found, it is not empty, and nothing is found anew
\* once the remote server was asked.
Collected ==
    /\ request.tokens \in Nat
    /\ found \in Retrieved \cup {<<>>}
    /\ remote = [pc |-> remote.pc, sent |-> remote.sent]
    /\ pc \in Before => remote.pc = "none"
    /\ pc = "connect" \/ remote.pc # "none" => found \in Retrieved \ {<<>>}

\* Nothing is collected at the start.
LEMMA CollectedInit == Init => Collected
  BY DEF Init, Collected, Before

\* The steps of the local answer and of the end of a stream: what was found and
\* the remote server are left alone.
LEMMA CollectedKept ==
  ASSUME Collected, UNCHANGED <<request, remote, found>>,
         pc' \in Before => pc \in Before /\ (pc' = "connect" => pc = "connect")
  PROVE  Collected'
  BY DEF Collected, Before

\* Every step keeps what is collected as it should be.
LEMMA CollectedStep == Collected /\ [Next]_vars => Collected'
<1>. SUFFICES ASSUME Collected, [Next]_vars PROVE Collected'
  OBVIOUS
<1>1. ASSUME NEW outcome \in Outcomes, CheckFreshness(outcome) PROVE Collected'
  BY <1>1, CollectedKept DEF Before, CheckFreshness, BreakOff, SayLast
<1>2. CASE LocalStep
  <2>1. ASSUME NEW hit \in BOOLEAN, Analyze(hit) PROVE Collected'
    BY <2>1, CollectedKept DEF Before, Analyze, localVars
  <2>2. CASE BuildContext \/ EndGeneration \/ Finish \/ Raise
    BY <2>2, CollectedKept DEF Before, BuildContext, EndGeneration, Finish, Raise, localVars, SayLast
  <2>3. ASSUME NEW n \in 1..MaxToken, Generate(n) PROVE Collected'
    BY <2>3, CollectedKept DEF Before, Generate, localVars
  <2>. QED
    BY <1>2, <2>1, <2>2, <2>3 DEF LocalStep
<1>3. ASSUME NEW chunks \in Retrieved, Collect(chunks) PROVE Collected'
  <2>1. /\ found' = chunks /\ UNCHANGED <<request, remote>>
        /\ chunks = <<>> => pc' = "over"
        /\ pc = "collect"
    BY <1>3 DEF Collect, sentVars, SayLast
  <2>. QED
    BY <2>1 DEF Collected, Before
<1>4. CASE CollectRaises
  BY <1>4, CollectedKept DEF Before, CollectRaises, BreakOff, sentVars
<1>5. ASSUME NEW ok \in BOOLEAN, Connect(ok) PROVE Collected'
  <2>1. /\ pc = "connect" /\ pc' \notin Before /\ UNCHANGED <<request, found>>
        /\ remote' = [remote EXCEPT !.pc = "asked"] \/ remote' = remote
    BY <1>5 DEF Connect, sentVars, SayLast, Before
  <2>. QED
    BY <2>1 DEF Collected, Before
<1>6. CASE ReadPart
  BY <1>6, CollectedKept DEF Before, ReadPart, CollectEvents, PassOn, SayLast
<1>7. CASE ReadEnd \/ ReadRaises
  BY <1>7, CollectedKept DEF Before, ReadEnd, ReadRaises, sentVars, SayLast
<1>8. CASE RemoteStep
  <2>1. /\ UNCHANGED <<request, found, pc>> /\ remote.pc # "none"
        /\ remote' = [remote EXCEPT !.pc = remote'.pc, !.sent = remote'.sent]
    <3>1. Collected
      OBVIOUS
    <3>2. UNCHANGED <<request, found, pc>> /\ remote.pc \in {"asked", "generating"}
      BY <1>8 DEF RemoteStep, Ask, RemoteGenerate, RemoteEnd, RemoteRaise, remoteVars
    <3>3. \/ \E p : remote' = [remote EXCEPT !.pc = p]
          \/ \E n : remote' = [remote EXCEPT !.sent = n]
      BY <1>8 DEF RemoteStep, Ask, RemoteGenerate, RemoteEnd, RemoteRaise
    <3>. QED
      BY <3>1, <3>2, <3>3 DEF Collected
  <2>. QED
    BY <2>1 DEF Collected, Before
<1>9. ASSUME NEW how \in {"silent", "reset", "stalled"}, NEW n \in 0..Len(wire), Break(how, n)
      PROVE Collected'
  BY <1>9, CollectedKept DEF Before, Break
<1>10. CASE UNCHANGED vars \/ Done
  BY <1>10, CollectedKept DEF Before, vars, Done
<1>. QED
  BY <1>1, <1>2, <1>3, <1>4, <1>5, <1>6, <1>7, <1>8, <1>9, <1>10
  DEF Next, ServerStep, ProxyStep

\* What the client sends the remote server accepts, and its line ranges cover
\* what the chunks hold, for whatever a search returns and on every path from
\* the retrieval to the request (normalize_local_retrieval, from_dict).
THEOREM PayloadsAreAccepted == Spec => []PayloadIsAccepted
<1>1. Collected => PayloadIsAccepted
  <2>. SUFFICES ASSUME Collected, remote.pc # "none", request.tokens >= 1
                PROVE  /\ Accepts(Payload(found, request.tokens))
                       /\ \A i \in DOMAIN found : CoversItsLines(found[i])
    BY DEF PayloadIsAccepted
  <2>1. found \in Seq(Chunk) /\ found # <<>> /\ request.tokens \in Nat \ {0}
    BY RetrievedAssumption DEF Collected
  <2>2. \A i \in DOMAIN found : found[i] \in Chunk
    BY <2>1
  <2>. QED
    BY <2>1, <2>2, PayloadIsSound, RangeIsSound
<1>. QED
  BY <1>1, CollectedInit, CollectedStep, PTL DEF Spec

-----------------------------------------------------------------------------
\* Induction on the naturals, with a set for the predicate: the library's theorem
\* takes an operator, and this follows from the well-foundedness it rests on.
LEMMA SetInduction ==
  ASSUME NEW X, 0 \in X, \A n \in Nat : n \in X => n + 1 \in X
  PROVE  Nat \subseteq X
  <1> DEFINE R == OpToRel(<, Nat)
  <1>1. SUFFICES ASSUME Nat \ X # {} PROVE FALSE
    OBVIOUS
  <1>2. IsWellFoundedOn(R, Nat)
    BY NatLessThanWellFounded
  <1>3. \A x, y \in Nat : x < y => <<x, y>> \in R
    BY DEF OpToRel
  <1> HIDE DEF R
  <1>4. PICK m \in Nat \ X : \A y \in Nat \ X : ~(<<y, m>> \in R)
    BY <1>1, <1>2, WFMin
  <1>5. m # 0 /\ m - 1 \in Nat /\ m - 1 < m /\ m - 1 + 1 = m
    BY <1>4
  <1>6. m - 1 \in X
    BY <1>3, <1>4, <1>5
  <1> QED
    BY <1>4, <1>5, <1>6

\* A finite set is one smaller without one of its elements.
LEMMA TakeOut ==
  ASSUME NEW T, IsFiniteSet(T), NEW x \in T
  PROVE  /\ IsFiniteSet(T \ {x}) /\ Cardinality(T) \in Nat
         /\ Cardinality(T \ {x}) = Cardinality(T) - 1
  <1>1. Cardinality(T) \in Nat
    BY FS_CardinalityType
  <1>2. /\ IsFiniteSet(T \ {x})
        /\ Cardinality(T \ {x}) = IF x \in T THEN Cardinality(T) - 1 ELSE Cardinality(T)
    BY FS_RemoveElement, Zenon
  <1> QED
    BY <1>1, <1>2

\* A subset is in X when it is with any of its elements taken out.
Grows(U, X) == \A T \in SUBSET U : (\A x \in T : T \ {x} \in X) => T \in X

\* Induction on the subsets of a finite set, an element at a time.
LEMMA SubsetInduction ==
  ASSUME NEW U, NEW X, IsFiniteSet(U), Grows(U, X)
  PROVE  SUBSET U \subseteq X
  <1> DEFINE Y == {n \in Nat : \A T \in SUBSET U : Cardinality(T) = n => T \in X}
  <1>1. 0 \in Y
    <2>1. \A T \in SUBSET U : Cardinality(T) = 0 => T = {}
      BY FS_Subset, FS_EmptySet
    <2> QED
      BY <2>1 DEF Grows
  <1>2. ASSUME NEW n \in Nat, n \in Y PROVE n + 1 \in Y
    <2>1. ASSUME NEW T \in SUBSET U, Cardinality(T) = n + 1, NEW x \in T
          PROVE  T \ {x} \in X
      <3>1. Cardinality(T \ {x}) = n
        <4>1. IsFiniteSet(T)
          BY FS_Subset, Zenon
        <4> QED
          BY <2>1, <4>1, TakeOut
      <3> QED
        BY <1>2, <3>1
    <2> QED
      BY <2>1 DEF Grows
  <1> HIDE DEF Y
  <1>3. Nat \subseteq Y
    BY <1>1, <1>2, SetInduction
  <1> QED
    BY <1>3, FS_Subset, FS_CardinalityType DEF Y

\* A finite set of integers that has an element has a greatest one.
LEMMA Greatest ==
  ASSUME NEW S, IsFiniteSet(S), S \subseteq Int, S # {}
  PROVE  \E x \in S : \A y \in S : y <= x
  <1> DEFINE Good(T) == \E x \in T : \A y \in T : y <= x
             X == {T \in SUBSET S : T = {} \/ Good(T)}
  <1>1. ASSUME NEW T \in SUBSET S, \A x \in T : T \ {x} \in X PROVE T \in X
    <2>1. CASE T # {}
      <3>1. PICK x \in T : TRUE
        BY <2>1
      <3>2. T \ {x} \in X
        BY <1>1
      <3> QED
        BY <3>1, <3>2
    <2> QED
      BY <2>1
  <1> HIDE DEF X
  <1>2. Grows(S, X)
    BY <1>1 DEF Grows
  <1>3. SUBSET S \subseteq X
    BY <1>2, SubsetInduction
  <1> QED
    BY <1>3 DEF X

\* The last of some places of a sequence is one of them.
LEMMA MaxIsIn ==
  ASSUME NEW n \in Nat, NEW S \in SUBSET (1..n), S # {}
  PROVE  Max(S) \in S /\ \A y \in S : y <= Max(S)
  <1>1. IsFiniteSet(S) /\ S \subseteq Int
    <2>1. IsFiniteSet(1..n)
      BY FS_Interval
    <2>2. IsFiniteSet(S)
      BY <2>1, FS_Subset
    <2>3. S \subseteq Int
      OBVIOUS
    <2> QED
      BY <2>2, <2>3
  <1>2. \E x \in S : \A y \in S : y <= x
    BY <1>1, Greatest
  <1>3. \E x \in S : \A y \in S : x >= y
    BY <1>2
  <1>4. Max(S) \in S /\ \A y \in S : Max(S) >= y
    BY <1>3 DEF Max
  <1> QED
    BY <1>4

\* g folds a sequence with a step: what FoldLeft's recursion says.
Folded(step, base, seq, g, s) ==
    IF s = {} THEN base ELSE step[<<g[s \ {Max(s)}], seq[Max(s)]>>]
\* What a fold of the library computes, as the least solution of its recursion.
Folds(step, base, seq, g) ==
    \A s \in SUBSET (1..Len(seq)) : g[s] = Folded(step, base, seq, g, s)
Fold(A, E, step, base, seq) ==
    step \in [A \X E -> A] /\ base \in A /\ seq \in Seq(E)

\* The recursion has a solution: it is built for sets of growing size.
LEMMA FoldExists ==
  ASSUME NEW A, NEW E, NEW step, NEW base, NEW seq, Fold(A, E, step, base, seq)
  PROVE  \E g : g \in [SUBSET (1..Len(seq)) -> A] /\ Folds(step, base, seq, g)
  <1> DEFINE U == 1..Len(seq)
             Upto(n, g) == /\ g \in [SUBSET U -> A]
                           /\ \A s \in SUBSET U : Cardinality(s) <= n =>
                                 g[s] = Folded(step, base, seq, g, s)
             Y == {n \in Nat : \E g : Upto(n, g)}
  <1>1. /\ Len(seq) \in Nat /\ IsFiniteSet(U) /\ base \in A
        /\ \A a \in A, i \in U : step[<<a, seq[i]>>] \in A
    <2>1. Len(seq) \in Nat /\ base \in A /\ \A i \in U : seq[i] \in E
      BY DEF Fold
    <2>2. IsFiniteSet(U)
      BY <2>1, FS_Interval
    <2>3. \A a \in A, e \in E : step[<<a, e>>] \in A
      BY DEF Fold
    <2> QED
      BY <2>1, <2>2, <2>3
  <1>2. \A s \in SUBSET U : /\ IsFiniteSet(s) /\ Cardinality(s) \in Nat
                            /\ Cardinality(s) <= Cardinality(U)
    BY <1>1, FS_Subset, FS_CardinalityType
  <1>3. \A s \in SUBSET U : s # {} => Max(s) \in s
    BY <1>1, MaxIsIn
  <1> HIDE DEF U
  <1>4. 0 \in Y
    <2>1. \A s \in SUBSET U : Cardinality(s) <= 0 => s = {}
      BY <1>2, FS_EmptySet
    <2>2. Upto(0, [s \in SUBSET U |-> base])
      BY <1>1, <2>1 DEF Folded
    <2> HIDE DEF Upto
    <2> QED
      BY <2>2
  <1>5. ASSUME NEW n \in Nat, n \in Y PROVE n + 1 \in Y
    <2>1. PICK g : Upto(n, g)
      BY <1>5
    <2> DEFINE h == [s \in SUBSET U |-> Folded(step, base, seq, g, s)]
    <2>2. h \in [SUBSET U -> A]
      <3>1. ASSUME NEW s \in SUBSET U PROVE Folded(step, base, seq, g, s) \in A
        <4>1. CASE s # {}
          <5>1. s \ {Max(s)} \in SUBSET U /\ Max(s) \in U
            BY <1>3, <4>1
          <5>2. g[s \ {Max(s)}] \in A
            BY <2>1, <5>1
          <5> QED
            BY <1>1, <4>1, <5>1, <5>2 DEF Folded
        <4> QED
          BY <1>1, <4>1 DEF Folded
      <3> QED
        BY <3>1
    <2>3. ASSUME NEW s \in SUBSET U, Cardinality(s) <= n + 1
          PROVE  h[s] = Folded(step, base, seq, h, s)
      <3>1. CASE s = {}
        BY <3>1 DEF Folded
      <3>2. CASE s # {}
        <4> DEFINE x == Max(s)
        <4>1. x \in s
          BY <1>3, <3>2
        <4> HIDE DEF x
        <4>2. Cardinality(s \ {x}) <= n
          <5>1. Cardinality(s) \in Nat /\ Cardinality(s \ {x}) = Cardinality(s) - 1
            BY <1>2, <4>1, TakeOut, Zenon
          <5> QED
            BY <2>3, <5>1
        <4>3. h[s \ {x}] = g[s \ {x}]
          BY <2>1, <4>2
        <4> QED
          BY <3>2, <4>3 DEF Folded, x
      <3> QED
        BY <3>1, <3>2
    <2> HIDE DEF h
    <2>4. Upto(n + 1, h)
      BY <2>2, <2>3
    <2> QED
      BY <2>4
  <1> HIDE DEF Y
  <1>6. Cardinality(U) \in Y
    BY <1>1, <1>2, <1>4, <1>5, SetInduction
  <1> QED
    BY <1>1, <1>2, <1>6 DEF Y, Folds, U

\* A solution taken element by element.
Stepwise(step, base, seq, g) ==
    /\ g[1..0] = base
    /\ \A i \in 1..Len(seq) : g[1..i] = step[<<g[1..(i - 1)], seq[i]>>]

\* A fold over a sequence is the last of the states its steps go through.
LEMMA FoldSteps ==
  ASSUME NEW seq, NEW step, NEW base, NEW g, Len(seq) \in Nat, Folds(step, base, seq, g)
  PROVE  Stepwise(step, base, seq, g)
  <1>1. g[1..0] = base
    <2>1. 1..0 = {} /\ {} \in SUBSET (1..Len(seq))
      OBVIOUS
    <2> QED
      BY <2>1 DEF Folds, Folded
  <1>2. ASSUME NEW i \in 1..Len(seq) PROVE g[1..i] = step[<<g[1..(i - 1)], seq[i]>>]
    <2>1. (1..i) \in SUBSET (1..Len(seq)) /\ 1..i # {} /\ i \in 1..i
      OBVIOUS
    <2>2. Max(1..i) = i
      <3>1. Max(1..i) \in 1..i /\ i <= Max(1..i)
        BY <2>1, MaxIsIn
      <3> QED
        BY <3>1
    <2>3. (1..i) \ {i} = 1..(i - 1)
      OBVIOUS
    <2> QED
      BY <2>1, <2>2, <2>3 DEF Folds, Folded
  <1> QED
    BY <1>1, <1>2 DEF Stepwise

-----------------------------------------------------------------------------
\* The first of some places of a sequence is one of them.
LEMMA MinIsIn ==
  ASSUME NEW S \in SUBSET Nat, S # {}
  PROVE  Min(S) \in S /\ \A y \in S : Min(S) <= y
  <1> DEFINE R == OpToRel(<, Nat)
  <1>1. IsWellFoundedOn(R, Nat)
    BY NatLessThanWellFounded
  <1>2. \A x, y \in Nat : x < y => <<x, y>> \in R
    BY DEF OpToRel
  <1> HIDE DEF R
  <1>3. PICK m \in S : \A y \in S : ~(<<y, m>> \in R)
    BY <1>1, WFMin
  <1>4. ASSUME NEW y \in S PROVE m <= y
    <2>1. y \in Nat /\ m \in Nat /\ ~(y < m)
      BY <1>2, <1>3
    <2> QED
      BY <2>1
  <1> QED
    BY <1>3, <1>4 DEF Min

\* A table filled from lo to hi exists, one entry after the other.
Chained(A, first, next, lo, n, g) ==
    g \in [lo..n -> A] /\ \A i \in lo..n : g[i] = IF i = lo THEN first ELSE next[<<g[i - 1], i>>]

\* A function that each step extends by one place exists.
LEMMA ChainExists ==
  ASSUME NEW A, NEW first, NEW next, NEW lo \in Nat, NEW hi \in Nat, lo <= hi,
         first \in A, next \in [A \X Nat -> A]
  PROVE  \E g : Chained(A, first, next, lo, hi, g)
  <1> DEFINE Y == {n \in Nat : \E g : Chained(A, first, next, lo, lo + n, g)}
  <1>1. 0 \in Y
    <2>1. Chained(A, first, next, lo, lo + 0, [i \in lo..(lo + 0) |-> first])
      BY DEF Chained
    <2> QED
      BY <2>1
  <1>2. ASSUME NEW n \in Nat, n \in Y PROVE n + 1 \in Y
    <2>1. PICK g : Chained(A, first, next, lo, lo + n, g)
      BY <1>2
    <2> DEFINE new == next[<<g[lo + n], lo + n + 1>>]
               h == [i \in lo..(lo + (n + 1)) |-> IF i = lo + n + 1 THEN new ELSE g[i]]
    <2>2. new \in A /\ \A i \in lo..(lo + n) : g[i] \in A
      BY <2>1 DEF Chained
    <2> HIDE DEF new
    <2>3. h \in [lo..(lo + (n + 1)) -> A]
      BY <2>2
    <2>4. ASSUME NEW i \in lo..(lo + (n + 1))
          PROVE  h[i] = IF i = lo THEN first ELSE next[<<h[i - 1], i>>]
      <3>1. CASE i = lo + n + 1
        <4>1. i # lo /\ i - 1 = lo + n /\ i - 1 \in lo..(lo + (n + 1)) /\ i - 1 # lo + n + 1
          BY <3>1
        <4>2. h[i] = new /\ h[i - 1] = g[i - 1]
          BY <3>1, <4>1
        <4>3. h[i] = next[<<h[i - 1], i>>]
          BY <3>1, <4>1, <4>2 DEF new
        <4> QED
          BY <4>1, <4>3
      <3>2. CASE i # lo + n + 1
        <4>1. i \in lo..(lo + n) /\ h[i] = g[i]
          BY <3>2
        <4>2. g[i] = IF i = lo THEN first ELSE next[<<g[i - 1], i>>]
          BY <2>1, <4>1 DEF Chained
        <4>3. CASE i # lo
          <5>1. i - 1 \in lo..(lo + (n + 1)) /\ i - 1 # lo + n + 1
            BY <4>1, <4>3
          <5>2. h[i - 1] = g[i - 1]
            BY <5>1
          <5> QED
            BY <4>1, <4>2, <4>3, <5>2
        <4> QED
          BY <4>1, <4>2, <4>3
      <3> QED
        BY <3>1, <3>2
    <2> HIDE DEF h
    <2>5. Chained(A, first, next, lo, lo + (n + 1), h)
      BY <2>3, <2>4 DEF Chained
    <2> QED
      BY <2>5
  <1> HIDE DEF Y
  <1>3. hi - lo \in Y
    BY <1>1, <1>2, SetInduction
  <1>4. lo + (hi - lo) = hi
    OBVIOUS
  <1> QED
    BY <1>3, <1>4 DEF Y

\* What Places says of a unit, from what it says of the one before.
NextPlace(txt, to, before, i) ==
    CASE before = "open"  -> "in"
      [] before = "close" -> "shut"
      [] before = "in"    -> IF IsClose(txt, i, to) THEN "close" ELSE "in"
      [] OTHER            -> IF IsOpen(txt, i, to) THEN "open" ELSE "out"

\* The places of a text obey their recursion.
LEMMA PlacesSteps ==
  ASSUME NEW txt, NEW from \in Nat, NEW to \in Nat, from <= to
  PROVE  \A i \in from..to : Places(txt, from, to)[i] =
             IF i = from THEN "out" ELSE NextPlace(txt, to, Places(txt, from, to)[i - 1], i)
  <1> DEFINE A == {"out", "open", "in", "close", "shut"}
             next == [ai \in A \X Nat |-> NextPlace(txt, to, ai[1], ai[2])]
             Real(g) == [i \in from..to |->
                           IF i = from THEN "out"
                           ELSE LET before == g[i - 1]
                                IN CASE before = "open"  -> "in"
                                     [] before = "close" -> "shut"
                                     [] before = "in"    -> IF IsClose(txt, i, to) THEN "close" ELSE "in"
                                     [] OTHER            -> IF IsOpen(txt, i, to) THEN "open" ELSE "out"]
             F == CHOOSE f : f = Real(f)
  <1>1. Places(txt, from, to) = F
    BY DEF Places
  <1>2. /\ next \in [A \X Nat -> A]
        /\ \A a \in A, i \in Nat : next[<<a, i>>] = NextPlace(txt, to, a, i)
    <2>1. \A a \in A, i \in Nat : NextPlace(txt, to, a, i) \in A
      BY DEF NextPlace
    <2> QED
      BY <2>1
  <1> HIDE DEF next
  <1>3. PICK g : Chained(A, "out", next, from, to, g)
    BY <1>2, ChainExists
  <1>4. g = Real(g)
    <2>1. g \in [from..to -> A] /\ \A i \in from..to : g[i] = IF i = from THEN "out" ELSE next[<<g[i - 1], i>>]
      BY <1>3 DEF Chained
    <2>2. ASSUME NEW i \in from..to, i # from PROVE g[i] = NextPlace(txt, to, g[i - 1], i)
      <3>1. i - 1 \in from..to /\ i \in Nat
        BY <2>2
      <3> QED
        BY <1>2, <2>1, <2>2, <3>1
    <2>3. \A i \in from..to : g[i] = IF i = from THEN "out" ELSE NextPlace(txt, to, g[i - 1], i)
      BY <2>1, <2>2
    <2> QED
      BY <2>1, <2>3 DEF NextPlace
  <1>5. F = Real(F)
    <2> HIDE DEF Real
    <2> QED
      BY <1>4
  <1>6. \A i \in from..to : F[i] = Real(F)[i]
    <2> HIDE DEF F
    <2> QED
      BY <1>5
  <1> HIDE DEF F
  <1> QED
    BY <1>1, <1>6 DEF NextPlace

\* A region that is in progress at the end has begun.
LEMMA UnclosedPlaces ==
  ASSUME NEW txt, NEW from \in Nat, NEW to \in Nat, from <= to
  PROVE  Unclosed(txt, from, to) \subseteq (from + 1)..to
  <1> DEFINE place == Places(txt, from, to)
             starts == {i \in (from + 1)..to : place[i] = "open"}
             Begun(i) == place[i] \in {"open", "in"} => \E j \in (from + 1)..i : place[j] = "open"
             Y == {n \in Nat : from + n <= to => Begun(from + n)}
  <1>1. \A i \in from..to : place[i] = IF i = from THEN "out" ELSE NextPlace(txt, to, place[i - 1], i)
    BY PlacesSteps
  <1>2. Unclosed(txt, from, to) = IF place[to] # "in" THEN {} ELSE Max(starts)..to
    BY DEF Unclosed
  <1> HIDE DEF place
  <1>3. 0 \in Y
    BY <1>1
  <1>4. ASSUME NEW n \in Nat, n \in Y PROVE n + 1 \in Y
    <2>1. SUFFICES ASSUME from + (n + 1) <= to, place[from + (n + 1)] \in {"open", "in"}
                   PROVE  \E j \in (from + 1)..(from + (n + 1)) : place[j] = "open"
      OBVIOUS
    <2> DEFINE i == from + (n + 1)
    <2>2. i \in from..to /\ i # from /\ i - 1 = from + n /\ i \in (from + 1)..i
      BY <2>1
    <2>3. place[i] = NextPlace(txt, to, place[from + n], i)
      BY <1>1, <2>2
    <2>4. CASE place[i] = "open"
      BY <2>2, <2>4
    <2>5. CASE place[i] = "in"
      <3>1. place[from + n] \in {"open", "in"}
        BY <2>3, <2>5 DEF NextPlace
      <3>2. PICK j \in (from + 1)..(from + n) : place[j] = "open"
        BY <1>4, <2>1, <3>1
      <3> QED
        BY <3>2
    <2> QED
      BY <2>1, <2>4, <2>5
  <1> HIDE DEF Y
  <1>5. to - from \in Y
    BY <1>3, <1>4, SetInduction
  <1>6. CASE place[to] = "in"
    <2>1. Begun(to)
      <3>1. from + (to - from) = to
        OBVIOUS
      <3> QED
        BY <1>5, <3>1 DEF Y
    <2>2. starts # {} /\ starts \in SUBSET (1..to)
      BY <1>6, <2>1
    <2>3. Max(starts) \in starts
      BY <2>2, MaxIsIn
    <2> QED
      BY <1>2, <1>6, <2>3
  <1> QED
    BY <1>2, <1>6

\* What is left of a part of the text lies within it.
LEMMA StrippedPlaces ==
  ASSUME NEW txt, NEW from \in Nat, NEW to \in Nat, from <= to
  PROVE  Stripped(txt, from, to) \subseteq (from + 1)..to
  BY UnclosedPlaces DEF Stripped, Outside

-----------------------------------------------------------------------------
\* The filter has read a prefix of the text, and shows nothing that is still in
\* its buffer.
FilterR == [base : Nat, read : Nat, thinking : BOOLEAN, shown : SUBSET Nat]
FilterT(txt, s) ==
    /\ s \in FilterR
    /\ s.base <= s.read /\ s.read <= Len(txt)
    /\ s.shown \subseteq 1..s.base

\* What is shown next lies after what was shown before.
LEMMA ShownOn ==
  ASSUME NEW b \in Nat, NEW c \in Nat, b <= c, NEW A \in SUBSET (1..b),
         NEW B \in SUBSET ((b + 1)..c)
  PROVE  A \cup B \subseteq 1..c /\ A \cup B \in SUBSET Nat
  OBVIOUS

\* A token leaves the filter well formed and only adds to what was shown.
LEMMA FeedType ==
  ASSUME NEW txt, NEW s, NEW n \in Nat, Len(txt) \in Nat, FilterT(txt, s), s.read + n <= Len(txt)
  PROVE  FilterT(txt, Feed(txt, s, n)) /\ s.shown \subseteq Feed(txt, s, n).shown
  <1> DEFINE to == s.read + n
             opens == Opens(txt, s.base, to)
             closes == Closes(txt, s.base, to)
             before == (s.base + 1)..(Min(opens) - 1)
             next == [s EXCEPT !.read = to]
  <1>1. /\ s.base \in Nat /\ s.read \in Nat /\ to \in Nat /\ s.shown \in SUBSET (1..s.base)
        /\ s.base <= s.read /\ s.read <= to /\ to <= Len(txt) /\ s.thinking \in BOOLEAN
    BY DEF FilterT, FilterR
  <1>2. /\ next \in FilterR /\ next.base = s.base /\ next.read = to
        /\ next.thinking = s.thinking /\ next.shown = s.shown
    BY <1>1 DEF FilterT, FilterR
  <1>3. /\ \A i \in opens : i \in Nat /\ i > s.base /\ i + 1 <= to
        /\ \A i \in closes : i \in Nat /\ i > s.base /\ i + 1 <= to
        /\ opens \in SUBSET Nat /\ closes \in SUBSET Nat
    BY <1>1 DEF Opens, Closes, IsOpen, IsClose
  <1>4. Feed(txt, s, n) =
          IF ~s.thinking /\ opens # {}
          THEN [next EXCEPT !.base = Min(opens) - 1, !.thinking = TRUE,
                            !.shown = IF \E i \in before : txt[i] # "s" THEN @ \cup before ELSE @]
          ELSE IF s.thinking /\ closes # {}
          THEN [next EXCEPT !.base = Min(closes) + 1, !.thinking = FALSE]
          ELSE IF ~s.thinking /\ to - s.base > TagLen + Slack
          THEN [next EXCEPT !.base = to - TagLen,
                            !.shown = @ \cup Stripped(txt, s.base, to - TagLen)]
          ELSE next
    BY DEF Feed
  <1> HIDE DEF next, opens, closes, to
  <1>5. CASE ~s.thinking /\ opens # {}
    <2>1. Min(opens) \in opens
      BY <1>3, <1>5, MinIsIn
    <2> DEFINE b == Min(opens) - 1
               shown == IF \E i \in before : txt[i] # "s" THEN s.shown \cup before ELSE s.shown
    <2>2. b \in Nat /\ s.base <= b /\ b <= to
      <3>1. Min(opens) \in Nat /\ Min(opens) > s.base /\ Min(opens) + 1 <= to
        BY <1>3, <2>1
      <3> QED
        BY <1>1, <3>1
    <2> HIDE DEF b
    <2>3. before \in SUBSET ((s.base + 1)..b)
      BY DEF b
    <2> HIDE DEF before
    <2>4. shown \subseteq 1..b /\ shown \in SUBSET Nat /\ s.shown \subseteq shown
      <3>1. s.shown \cup before \subseteq 1..b /\ s.shown \cup before \in SUBSET Nat
        <4>1. \A x \in s.shown : x \in 1..b
          BY <1>1, <2>2
        <4>2. \A x \in before : x \in 1..b
          BY <1>1, <2>2, <2>3
        <4> QED
          BY <4>1, <4>2
      <3> QED
        BY <3>1
    <2>5. Feed(txt, s, n) = [next EXCEPT !.base = b, !.thinking = TRUE, !.shown = shown]
      BY <1>2, <1>4, <1>5 DEF b, before
    <2> HIDE DEF shown
    <2> DEFINE r == [next EXCEPT !.base = b, !.thinking = TRUE, !.shown = shown]
    <2>6. /\ r \in FilterR /\ r.base = b /\ r.read = to
          /\ r.shown = shown
      BY <1>2, <2>2, <2>4 DEF FilterR
    <2> HIDE DEF r
    <2>7. FilterT(txt, r) /\ s.shown \subseteq r.shown
      BY <1>1, <2>2, <2>4, <2>6 DEF FilterT
    <2> QED
      BY <2>5, <2>7 DEF r
  <1>6. CASE s.thinking /\ closes # {}
    <2>1. Min(closes) \in closes
      BY <1>3, <1>6, MinIsIn
    <2> DEFINE b == Min(closes) + 1
    <2>2. b \in Nat /\ s.base <= b /\ b <= to
      <3>1. Min(closes) \in Nat /\ Min(closes) > s.base /\ Min(closes) + 1 <= to
        BY <1>3, <2>1
      <3> QED
        BY <1>1, <3>1
    <2> HIDE DEF b
    <2>3. Feed(txt, s, n) = [next EXCEPT !.base = b, !.thinking = FALSE]
      BY <1>4, <1>6 DEF b
    <2> DEFINE r == [next EXCEPT !.base = b, !.thinking = FALSE]
    <2>4. /\ r \in FilterR /\ r.base = b /\ r.read = to
          /\ r.shown = s.shown
      BY <1>2, <2>2 DEF FilterR
    <2>5. s.shown \subseteq 1..b
      BY <1>1, <2>2
    <2> HIDE DEF r
    <2>6. FilterT(txt, r) /\ s.shown \subseteq r.shown
      BY <1>1, <2>2, <2>4, <2>5 DEF FilterT
    <2> QED
      BY <2>3, <2>6 DEF r
  <1>7. CASE ~s.thinking /\ opens = {} /\ to - s.base > TagLen + Slack
    <2> DEFINE b == to - TagLen
               shown == s.shown \cup Stripped(txt, s.base, b)
    <2>1. b \in Nat /\ s.base <= b /\ b <= to
      BY <1>1, <1>7 DEF TagLen, Slack
    <2>2. Feed(txt, s, n) = [next EXCEPT !.base = b, !.shown = shown]
      BY <1>1, <1>2, <1>4, <1>7
    <2> HIDE DEF b
    <2>3. shown \subseteq 1..b /\ shown \in SUBSET Nat
      BY <1>1, <2>1, StrippedPlaces, ShownOn
    <2>4. s.shown \subseteq shown
      OBVIOUS
    <2> HIDE DEF shown
    <2> DEFINE r == [next EXCEPT !.base = b, !.shown = shown]
    <2>5. /\ r \in FilterR /\ r.base = b /\ r.read = to
          /\ r.shown = shown
      BY <1>2, <2>1, <2>3 DEF FilterR
    <2> HIDE DEF r
    <2>6. FilterT(txt, r) /\ s.shown \subseteq r.shown
      BY <1>1, <2>1, <2>3, <2>4, <2>5 DEF FilterT
    <2> QED
      BY <2>2, <2>6 DEF r
  <1>8. CASE Feed(txt, s, n) = next
    <2>1. s.shown \subseteq 1..s.base /\ s.shown \in SUBSET Nat
      BY <1>1
    <2> QED
      BY <1>1, <1>2, <1>8, <2>1 DEF FilterT
  <1> QED
    BY <1>1, <1>4, <1>5, <1>6, <1>7, <1>8

\* So does the end of the tokens.
LEMMA FlushType ==
  ASSUME NEW txt, NEW s, Len(txt) \in Nat, FilterT(txt, s)
  PROVE  FilterT(txt, Flush(txt, s)) /\ s.shown \subseteq Flush(txt, s).shown
  <1> DEFINE shown == s.shown \cup Stripped(txt, s.base, s.read)
  <1>1. /\ s.base \in Nat /\ s.read \in Nat /\ s.shown \in SUBSET (1..s.base)
        /\ s.base <= s.read /\ s.read <= Len(txt) /\ s.thinking \in BOOLEAN
    BY DEF FilterT, FilterR
  <1>2. CASE s.thinking
    BY <1>2 DEF Flush
  <1>3. CASE ~s.thinking
    <2>1. Flush(txt, s) = [s EXCEPT !.base = s.read, !.shown = shown]
      BY <1>3 DEF Flush, FilterT, FilterR
    <2>2. shown \subseteq 1..s.read /\ shown \in SUBSET Nat
      BY <1>1, StrippedPlaces, ShownOn
    <2>3. s.shown \subseteq shown
      OBVIOUS
    <2> HIDE DEF shown
    <2> DEFINE r == [s EXCEPT !.base = s.read, !.shown = shown]
    <2>4. /\ r \in FilterR /\ r.base = s.read /\ r.read = s.read
          /\ r.shown = shown
      BY <1>1, <2>2 DEF FilterT, FilterR
    <2> HIDE DEF r
    <2>5. FilterT(txt, r) /\ s.shown \subseteq r.shown
      BY <1>1, <2>2, <2>3, <2>4 DEF FilterT
    <2> QED
      BY <2>1, <2>5 DEF r
  <1> QED
    BY <1>1, <1>2, <1>3

\* A cached answer is all that is outside the thinking.
LEMMA HitType ==
  ASSUME NEW txt, NEW s, NEW shown, Len(txt) \in Nat, FilterT(txt, s),
         shown = Outside(txt, 0, Len(txt))
  PROVE  FilterT(txt, [s EXCEPT !.base = Len(txt), !.read = Len(txt), !.shown = shown])
  <1>1. shown \subseteq 1..Len(txt) /\ shown \in SUBSET Nat
    BY DEF Outside
  <1> DEFINE r == [s EXCEPT !.base = Len(txt), !.read = Len(txt), !.shown = shown]
  <1>2. /\ r \in FilterR /\ r.base = Len(txt) /\ r.read = Len(txt)
        /\ r.shown = shown
    BY <1>1 DEF FilterT, FilterR
  <1> HIDE DEF r
  <1>3. FilterT(txt, r)
    BY <1>1, <1>2 DEF FilterT
  <1> QED
    BY <1>3 DEF r

-----------------------------------------------------------------------------
\* Events on their way to the page.
Units == Kinds \X {1, 2}
Views == {"waiting", "answer", "error", "no response", "connection error"}
PageT == [block : Seq(Units), content : BOOLEAN, told : BOOLEAN, error : BOOLEAN, view : Views]
Content == {"text", "answer", "footer", "sorry"}

\* The events of some kinds that are whole within the first c units.
Came(kinds, c, K) == \E j \in 1..Len(kinds) : 2 * j <= c /\ kinds[j] \in K

\* A count of units is even or odd.
LEMMA Halves ==
  ASSUME NEW c \in Nat
  PROVE  \E a \in Nat : \/ c = 2 * a /\ c % 2 = 0
                        \/ c = 2 * a + 1 /\ c % 2 = 1
  <1>1. c = 2 * (c \div 2) + (c % 2) /\ c % 2 \in {0, 1} /\ c \div 2 \in Nat
    OBVIOUS
  <1> QED
    BY <1>1

\* Event j is the units 2j - 1 and 2j.
LEMMA EventsAre ==
  ASSUME NEW kinds \in Seq(Kinds)
  PROVE  /\ Events(kinds) \in Seq(Units) /\ Len(Events(kinds)) = 2 * Len(kinds)
         /\ \A a \in Nat : 2 * a + 1 \in 1..(2 * Len(kinds)) =>
               Events(kinds)[2 * a + 1] = <<kinds[a + 1], 1>>
         /\ \A a \in Nat : 2 * a + 2 \in 1..(2 * Len(kinds)) =>
               Events(kinds)[2 * a + 2] = <<kinds[a + 1], 2>>
  <1>1. Len(kinds) \in Nat
    OBVIOUS
  <1>2. ASSUME NEW i \in 1..(2 * Len(kinds))
        PROVE  <<kinds[(i + 1) \div 2], 2 - (i % 2)>> \in Units
    <2>1. (i + 1) \div 2 \in 1..Len(kinds) /\ 2 - (i % 2) \in {1, 2}
      BY <1>1
    <2> QED
      BY <2>1 DEF Units
  <1>3. Events(kinds) \in Seq(Units) /\ Len(Events(kinds)) = 2 * Len(kinds)
    BY <1>1, <1>2 DEF Events
  <1>4. \A i \in 1..(2 * Len(kinds)) :
           Events(kinds)[i] = <<kinds[(i + 1) \div 2], 2 - (i % 2)>>
    BY DEF Events
  <1>5. ASSUME NEW a \in Nat
        PROVE  /\ (2 * a + 1 + 1) \div 2 = a + 1 /\ (2 * a + 1) % 2 = 1
               /\ (2 * a + 2 + 1) \div 2 = a + 1 /\ (2 * a + 2) % 2 = 0
    OBVIOUS
  <1>6. ASSUME NEW a \in Nat, 2 * a + 1 \in 1..(2 * Len(kinds))
        PROVE  Events(kinds)[2 * a + 1] = <<kinds[a + 1], 1>>
    BY <1>4, <1>5, <1>6
  <1>7. ASSUME NEW a \in Nat, 2 * a + 2 \in 1..(2 * Len(kinds))
        PROVE  Events(kinds)[2 * a + 2] = <<kinds[a + 1], 2>>
    BY <1>4, <1>5, <1>7
  <1> QED
    BY <1>3, <1>6, <1>7

\* The second unit of an event completes it, the first changes nothing.
LEMMA CameStep ==
  ASSUME NEW kinds \in Seq(Kinds), NEW a \in Nat, NEW K
  PROVE  /\ Came(kinds, 2 * a + 1, K) <=> Came(kinds, 2 * a, K)
         /\ 2 * a + 2 <= 2 * Len(kinds) =>
               (Came(kinds, 2 * a + 2, K) <=> Came(kinds, 2 * a + 1, K) \/ kinds[a + 1] \in K)
         /\ ~Came(kinds, 0, K)
  <1>1. Len(kinds) \in Nat
    OBVIOUS
  <1>2. \A j \in 1..Len(kinds) : 2 * j <= 2 * a + 1 <=> 2 * j <= 2 * a
    BY <1>1
  <1>3. \A j \in 1..Len(kinds) : 2 * j <= 2 * a + 2 <=> 2 * j <= 2 * a + 1 \/ j = a + 1
    BY <1>1
  <1>4. 2 * a + 2 <= 2 * Len(kinds) => a + 1 \in 1..Len(kinds)
    BY <1>1
  <1>5. \A j \in 1..Len(kinds) : ~(2 * j <= 0)
    BY <1>1
  <1> QED
    BY <1>2, <1>3, <1>4, <1>5, Zenon DEF Came

\* What an event makes of the page.
LEMMA ProcessedType ==
  ASSUME NEW p \in PageT, NEW kind
  PROVE  /\ Processed(p, kind) \in PageT
         /\ Processed(p, kind).block = p.block /\ Processed(p, kind).view = p.view
         /\ Processed(p, kind).content <=> p.content \/ kind \in Content
         /\ Processed(p, kind).told <=> p.told \/ kind = "sorry"
         /\ Processed(p, kind).error <=> p.error \/ kind = "error"
  <1>1. CASE kind \in {"text", "answer", "footer"}
    <2>1. Processed(p, kind) = [p EXCEPT !.content = TRUE]
      BY <1>1 DEF Processed
    <2> QED
      BY <1>1, <2>1 DEF PageT, Content
  <1>2. CASE kind = "sorry"
    <2>1. Processed(p, kind) = [p EXCEPT !.content = TRUE, !.told = TRUE]
      BY <1>2 DEF Processed
    <2> QED
      BY <1>2, <2>1 DEF PageT, Content
  <1>3. CASE kind = "error"
    <2>1. Processed(p, kind) = [p EXCEPT !.error = TRUE]
      BY <1>3 DEF Processed
    <2> QED
      BY <1>3, <2>1 DEF PageT, Content
  <1>4. CASE kind \notin {"text", "answer", "footer", "sorry", "error"}
    <2>1. Processed(p, kind) = p
      BY <1>4 DEF Processed
    <2> QED
      BY <1>4, <2>1 DEF PageT, Content
  <1> QED
    BY <1>1, <1>2, <1>3, <1>4

\* The block of a unit and the next one.
LEMMA AppendOne ==
  ASSUME NEW x, NEW y
  PROVE  Append(<<x>>, y) = <<x, y>>
  <1>1. x \in {x, y} /\ y \in {x, y}
    OBVIOUS
  <1>2. <<x>> \in Seq({x, y}) /\ <<x, y>> \in Seq({x, y})
    BY <1>1
  <1>3. Len(Append(<<x>>, y)) = 2 /\ Append(<<x>>, y)[1] = x /\ Append(<<x>>, y)[2] = y
    BY <1>2
  <1> DEFINE s == Append(<<x>>, y)
             r == <<x, y>>
  <1>4. s \in Seq({x, y}) /\ r \in Seq({x, y}) /\ Len(s) = 2 /\ Len(r) = 2
    BY <1>2, <1>3
  <1>5. \A i \in 1..2 : s[i] = r[i]
    BY <1>3
  <1> HIDE DEF s, r
  <1>6. s = r
    BY <1>4, <1>5
  <1> QED
    BY <1>6 DEF s, r

\* What one unit does: it waits, or it ends an event, or it ends a malformed block.
LEMMA TakeCases ==
  ASSUME NEW p \in PageT, NEW u \in Units
  PROVE  /\ Take(p, u) \in PageT /\ Take(p, u).view = p.view
         /\ u[2] = 1 => /\ Take(p, u).block = Append(p.block, u)
                        /\ Take(p, u).content = p.content /\ Take(p, u).told = p.told
                        /\ Take(p, u).error = p.error
         /\ u[2] # 1 => Take(p, u).block = <<>>
         /\ u[2] # 1 /\ p.block = <<<<u[1], 1>>>> =>
               /\ Take(p, u).content <=> p.content \/ u[1] \in Content
               /\ Take(p, u).told <=> p.told \/ u[1] = "sorry"
               /\ Take(p, u).error <=> p.error \/ u[1] = "error"
         /\ u[1] \notin Content => Take(p, u).content = p.content /\ Take(p, u).told = p.told
  <1>1. u = <<u[1], u[2]>> /\ u[1] \in Kinds /\ u[2] \in {1, 2}
    BY DEF Units
  <1>2. p.block \in Seq(Units) /\ Append(p.block, u) \in Seq(Units)
    BY DEF PageT
  <1>3. CASE u[2] = 1
    <2>1. Take(p, u) = [p EXCEPT !.block = Append(p.block, u)]
      BY <1>3 DEF Take, PageT
    <2> QED
      BY <1>2, <1>3, <2>1 DEF PageT
  <1>4. CASE u[2] # 1
    <2> DEFINE rest == [p EXCEPT !.block = <<>>]
    <2>1. /\ rest \in PageT /\ rest.block = <<>> /\ rest.view = p.view
          /\ rest.content = p.content /\ rest.told = p.told /\ rest.error = p.error
      <3>1. <<>> \in Seq(Units)
        OBVIOUS
      <3>2. /\ rest \in PageT /\ rest.block = <<>>
        BY <3>1 DEF PageT
      <3> QED
        BY <3>2 DEF PageT
    <2>2. Take(p, u) = IF Append(p.block, u) = Event(u[1]) THEN Processed(rest, u[1]) ELSE rest
      BY <1>4 DEF Take
    <2>3. u[1] \in Content <=> u[1] \in {"text", "answer", "footer", "sorry"}
      BY DEF Content
    <2>4. p.block = <<<<u[1], 1>>>> => Append(p.block, u) = Event(u[1])
      <3>1. u = <<u[1], 2>>
        BY <1>1, <1>4
      <3>2. Append(<<<<u[1], 1>>>>, <<u[1], 2>>) = <<<<u[1], 1>>, <<u[1], 2>>>>
        BY <1>1, AppendOne DEF Units
      <3> QED
        BY <3>1, <3>2 DEF Event
    <2> HIDE DEF rest
    <2>5. /\ Processed(rest, u[1]) \in PageT
          /\ Processed(rest, u[1]).block = <<>> /\ Processed(rest, u[1]).view = p.view
          /\ Processed(rest, u[1]).content <=> p.content \/ u[1] \in Content
          /\ Processed(rest, u[1]).told <=> p.told \/ u[1] = "sorry"
          /\ Processed(rest, u[1]).error <=> p.error \/ u[1] = "error"
      BY <2>1, ProcessedType
    <2>6. /\ u[1] \notin Content => Processed(rest, u[1]).content = p.content
          /\ u[1] \notin Content => Processed(rest, u[1]).told = p.told
      <3>1. {Processed(rest, u[1]).content, Processed(rest, u[1]).told, p.content, p.told}
              \subseteq BOOLEAN
        BY <2>5 DEF PageT
      <3>2. u[1] \notin Content => u[1] # "sorry"
        BY <2>3
      <3> QED
        BY <2>5, <3>1, <3>2
    <2>7. CASE Append(p.block, u) = Event(u[1])
      BY <1>4, <2>2, <2>5, <2>6, <2>7
    <2>8. CASE Append(p.block, u) # Event(u[1])
      BY <1>4, <2>1, <2>2, <2>4, <2>8
    <2> QED
      BY <2>7, <2>8
  <1> QED
    BY <1>3, <1>4

\* Shows, a unit at a time.
Showing(p, units, t) ==
    /\ t \in [0..Len(units) -> PageT] /\ t[0] = p
    /\ \A i \in 1..Len(units) : t[i] = Take(t[i - 1], units[i])

\* The states the page goes through exist, and Shows is the last of them.
LEMMA ShowsSteps ==
  ASSUME NEW p \in PageT, NEW units \in Seq(Units)
  PROVE  \E t : Showing(p, units, t) /\ Shows(p, units) = t[Len(units)]
  <1> DEFINE U == 1..Len(units)
             step == [ae \in PageT \X Units |-> Take(ae[1], ae[2])]
             Real(g, s) == IF s = {} THEN p ELSE Take(g[s \ {Max(s)}], units[Max(s)])
             F == CHOOSE f : f = [s \in SUBSET U |-> Real(f, s)]
  <1>1. Shows(p, units) = F[U]
    <2>1. DOMAIN units = U
      OBVIOUS
    <2> QED
      BY <2>1 DEF Shows, FoldLeft, MapThenFoldSet
  <1>2. /\ \A a \in PageT, u \in Units : step[<<a, u>>] = Take(a, u)
        /\ step \in [PageT \X Units -> PageT]
    BY TakeCases
  <1>3. Fold(PageT, Units, step, p, units) /\ Len(units) \in Nat
    BY <1>2 DEF Fold
  <1>4. PICK g : g \in [SUBSET U -> PageT] /\ Folds(step, p, units, g)
    BY <1>3, FoldExists
  <1> HIDE DEF step
  <1>5. \A s \in SUBSET U : s # {} => Max(s) \in s
    BY <1>3, MaxIsIn
  <1>6. \A s \in SUBSET U : g[s] = Real(g, s)
    <2>1. ASSUME NEW s \in SUBSET U, s # {} PROVE g[s] = Real(g, s)
      <3>1. g[s \ {Max(s)}] \in PageT /\ units[Max(s)] \in Units
        <4>1. Max(s) \in U /\ s \ {Max(s)} \in SUBSET U
          BY <1>5, <2>1
        <4> QED
          BY <1>3, <1>4, <4>1 DEF Fold
      <3> QED
        BY <1>2, <1>4, <2>1, <3>1 DEF Folds, Folded
    <2> QED
      BY <1>4, <2>1 DEF Folds, Folded
  <1>7. F = [s \in SUBSET U |-> Real(F, s)]
    <2> HIDE DEF Real
    <2>1. g = [s \in SUBSET U |-> Real(g, s)]
      BY <1>4, <1>6
    <2> QED
      BY <2>1
  <1>8. F[U] = g[U]
    <2> HIDE DEF F
    <2> DEFINE T == {s \in SUBSET U : F[s] = g[s]}
    <2>1. ASSUME NEW s \in SUBSET U, \A x \in s : s \ {x} \in T PROVE s \in T
      BY <1>5, <1>6, <1>7, <2>1
    <2>2. IsFiniteSet(U)
      BY <1>3, FS_Interval
    <2>3. Grows(U, T)
      BY <2>1 DEF Grows
    <2> HIDE DEF T, U
    <2>4. SUBSET U \subseteq T
      BY <2>2, <2>3, SubsetInduction
    <2>5. U \in SUBSET U
      OBVIOUS
    <2> QED
      BY <2>4, <2>5 DEF T
  <1> DEFINE t == [i \in 0..Len(units) |-> g[1..i]]
  <1>9. g[1..0] = p /\ \A i \in U : g[1..i] = step[<<g[1..(i - 1)], units[i]>>]
    BY <1>3, <1>4, FoldSteps DEF Stepwise
  <1>10. t \in [0..Len(units) -> PageT]
    BY <1>3, <1>4
  <1>11. t[0] = p /\ t[Len(units)] = g[U]
    BY <1>3, <1>9
  <1>12. ASSUME NEW i \in U PROVE t[i] = Take(t[i - 1], units[i])
    <2>1. i - 1 \in 0..Len(units) /\ i \in 0..Len(units) /\ units[i] \in Units
      BY <1>3
    <2>2. t[i - 1] \in PageT /\ t[i - 1] = g[1..(i - 1)] /\ t[i] = g[1..i]
      BY <1>10, <2>1
    <2> HIDE DEF t
    <2> QED
      BY <1>2, <1>9, <2>1, <2>2
  <1> HIDE DEF t
  <1>13. Showing(p, units, t)
    BY <1>10, <1>11, <1>12 DEF Showing
  <1> HIDE DEF F
  <1> QED
    BY <1>1, <1>8, <1>11, <1>13

\* The event that has begun, and not ended, within the first c units.
Begun(kinds, c) == IF c % 2 = 1 THEN <<Events(kinds)[c]>> ELSE <<>>

\* What the page has made of the first c units of some events, since it was p0.
PageAt(p0, p, kinds, c) ==
    /\ p \in PageT /\ p.view = p0.view
    /\ p.block = Begun(kinds, c)
    /\ p.content <=> p0.content \/ Came(kinds, c, Content)
    /\ p.told <=> p0.told \/ Came(kinds, c, {"sorry"})
    /\ p.error <=> p0.error \/ Came(kinds, c, {"error"})

\* The units that follow the first c.
Upcoming(kinds, c, units) ==
    /\ c + Len(units) <= 2 * Len(kinds)
    /\ \A i \in 1..Len(units) : units[i] = Events(kinds)[c + i]

\* The next unit.
LEMMA PageStep ==
  ASSUME NEW p0, NEW p, NEW kinds \in Seq(Kinds), NEW c \in Nat,
         PageAt(p0, p, kinds, c), c + 1 <= 2 * Len(kinds)
  PROVE  PageAt(p0, Take(p, Events(kinds)[c + 1]), kinds, c + 1)
  <1> DEFINE u == Events(kinds)[c + 1]
             q == Take(p, u)
  <1>1. /\ Len(kinds) \in Nat /\ u \in Units
    <2>1. Events(kinds) \in Seq(Units) /\ Len(Events(kinds)) = 2 * Len(kinds) /\ Len(kinds) \in Nat
      BY EventsAre
    <2> QED
      BY <2>1
  <1>2. p \in PageT /\ p.view = p0.view
    BY DEF PageAt, Begun
  <1>3. PICK a \in Nat : \/ c = 2 * a /\ c % 2 = 0
                         \/ c = 2 * a + 1 /\ c % 2 = 1
    BY Halves
  <1>4. /\ q \in PageT /\ q.view = p.view
        /\ u[2] = 1 => /\ q.block = Append(p.block, u)
                       /\ q.content = p.content /\ q.told = p.told
                       /\ q.error = p.error
        /\ u[2] # 1 => q.block = <<>>
        /\ u[2] # 1 /\ p.block = <<<<u[1], 1>>>> =>
              /\ q.content <=> p.content \/ u[1] \in Content
              /\ q.told <=> p.told \/ u[1] = "sorry"
              /\ q.error <=> p.error \/ u[1] = "error"
    BY <1>1, <1>2, TakeCases
  <1>5. CASE c = 2 * a /\ c % 2 = 0
    <2>1. u = <<kinds[a + 1], 1>> /\ (c + 1) % 2 = 1
      <3>1. 2 * a + 1 \in 1..(2 * Len(kinds)) /\ (2 * a + 1) % 2 = 1
        BY <1>1, <1>5
      <3> QED
        BY <1>5, <3>1, EventsAre
    <2>2. p.block = <<>>
      BY <1>5 DEF PageAt, Begun
    <2>3. q.block = <<u>>
      BY <1>4, <2>1, <2>2
    <2>4. \A K : Came(kinds, c + 1, K) <=> Came(kinds, c, K)
      BY <1>5, CameStep
    <2>5. /\ q.content <=> p0.content \/ Came(kinds, c + 1, Content)
          /\ q.told <=> p0.told \/ Came(kinds, c + 1, {"sorry"})
          /\ q.error <=> p0.error \/ Came(kinds, c + 1, {"error"})
      <3>1. q.content = p.content /\ q.told = p.told /\ q.error = p.error
        BY <1>4, <2>1
      <3> HIDE DEF q
      <3> QED
        BY <2>4, <3>1 DEF PageAt, Begun
    <2> HIDE DEF q, u
    <2> QED
      BY <1>2, <1>4, <2>1, <2>3, <2>5 DEF PageAt, Begun, u, q
  <1>6. CASE c = 2 * a + 1 /\ c % 2 = 1
    <2>1. u = <<kinds[a + 1], 2>> /\ (c + 1) % 2 = 0 /\ Events(kinds)[c] = <<kinds[a + 1], 1>>
      <3>1. 2 * a + 2 \in 1..(2 * Len(kinds)) /\ (2 * a + 2) % 2 = 0 /\ c + 1 = 2 * a + 2
            /\ 2 * a + 1 \in 1..(2 * Len(kinds))
        BY <1>1, <1>6
      <3> QED
        BY <1>6, <3>1, EventsAre
    <2>2. p.block = <<<<u[1], 1>>>>
      BY <1>6, <2>1 DEF PageAt, Begun
    <2>3. q.block = <<>>
      BY <1>4, <2>1
    <2>4. \A K : Came(kinds, c + 1, K) <=> Came(kinds, c, K) \/ u[1] \in K
      <3>1. c + 1 = 2 * a + 2 /\ 2 * a + 2 <= 2 * Len(kinds) /\ u[1] = kinds[a + 1]
        BY <1>6, <2>1
      <3> HIDE DEF u
      <3> QED
        BY <1>6, <3>1, CameStep
    <2>5. /\ q.content <=> p.content \/ u[1] \in Content
          /\ q.told <=> p.told \/ u[1] \in {"sorry"}
          /\ q.error <=> p.error \/ u[1] \in {"error"}
      BY <1>4, <2>1, <2>2
    <2> HIDE DEF q, u
    <2>6. /\ q.content <=> p0.content \/ Came(kinds, c + 1, Content)
          /\ q.told <=> p0.told \/ Came(kinds, c + 1, {"sorry"})
          /\ q.error <=> p0.error \/ Came(kinds, c + 1, {"error"})
      BY <2>4, <2>5 DEF PageAt, Begun
    <2> QED
      BY <1>2, <1>4, <2>1, <2>3, <2>6 DEF PageAt, Begun, u, q
  <1> QED
    BY <1>3, <1>5, <1>6

\* Any number of units that follow.
LEMMA PageRun ==
  ASSUME NEW p0, NEW p, NEW kinds \in Seq(Kinds), NEW c \in Nat, NEW units \in Seq(Units),
         PageAt(p0, p, kinds, c), Upcoming(kinds, c, units)
  PROVE  PageAt(p0, Shows(p, units), kinds, c + Len(units))
  <1>1. Len(units) \in Nat /\ Len(kinds) \in Nat /\ p \in PageT
    BY DEF PageAt, Begun
  <1>2. PICK t : Showing(p, units, t) /\ Shows(p, units) = t[Len(units)]
    BY <1>1, ShowsSteps
  <1> DEFINE Y == {n \in Nat : n <= Len(units) => PageAt(p0, t[n], kinds, c + n)}
  <1>3. 0 \in Y
    <2>1. t[0] = p /\ c + 0 = c
      BY <1>2 DEF Showing
    <2> QED
      BY <2>1
  <1>4. ASSUME NEW n \in Nat, n \in Y PROVE n + 1 \in Y
    <2>1. SUFFICES ASSUME n + 1 <= Len(units) PROVE PageAt(p0, t[n + 1], kinds, c + (n + 1))
      OBVIOUS
    <2>2. PageAt(p0, t[n], kinds, c + n)
      BY <1>1, <1>4, <2>1
    <2>3. /\ n + 1 \in 1..Len(units) /\ n + 1 - 1 = n /\ c + (n + 1) = c + n + 1 /\ c + n \in Nat
          /\ c + n + 1 <= 2 * Len(kinds)
      BY <1>1, <2>1 DEF Upcoming
    <2>4. units[n + 1] = Events(kinds)[c + n + 1]
      BY <2>3 DEF Upcoming
    <2>5. t[n + 1] = Take(t[n], Events(kinds)[c + n + 1])
      BY <1>2, <2>3, <2>4 DEF Showing
    <2>6. PageAt(p0, Take(t[n], Events(kinds)[c + n + 1]), kinds, c + n + 1)
      BY <2>2, <2>3, PageStep
    <2> QED
      BY <2>3, <2>5, <2>6
  <1> HIDE DEF Y
  <1>5. Len(units) \in Y
    BY <1>1, <1>3, <1>4, SetInduction
  <1> QED
    BY <1>1, <1>2, <1>5 DEF Y

\* What whole events make of a page that waits for none.
LEMMA ShowsEvents ==
  ASSUME NEW p \in PageT, NEW kinds \in Seq(Kinds), p.block = <<>>
  PROVE  /\ Shows(p, Events(kinds)) \in PageT
         /\ Shows(p, Events(kinds)).block = <<>> /\ Shows(p, Events(kinds)).view = p.view
         /\ Shows(p, Events(kinds)).content <=>
               p.content \/ \E j \in 1..Len(kinds) : kinds[j] \in Content
         /\ Shows(p, Events(kinds)).told <=>
               p.told \/ \E j \in 1..Len(kinds) : kinds[j] = "sorry"
         /\ Shows(p, Events(kinds)).error <=>
               p.error \/ \E j \in 1..Len(kinds) : kinds[j] = "error"
  <1> DEFINE q == Shows(p, Events(kinds))
             m == 2 * Len(kinds)
  <1>1. /\ Events(kinds) \in Seq(Units) /\ Len(Events(kinds)) = m /\ Len(kinds) \in Nat
    BY EventsAre
  <1>2. PageAt(p, p, kinds, 0)
    <2>1. \A K : ~Came(kinds, 0, K)
      BY CameStep
    <2>2. 0 % 2 # 1
      OBVIOUS
    <2> QED
      BY <2>1, <2>2 DEF PageAt, Begun
  <1>3. Upcoming(kinds, 0, Events(kinds)) /\ 0 + m = m /\ m % 2 # 1
    BY <1>1 DEF Upcoming
  <1>4. PageAt(p, q, kinds, 0 + Len(Events(kinds)))
    BY <1>1, <1>2, <1>3, PageRun
  <1>5. PageAt(p, q, kinds, m)
    BY <1>1, <1>3, <1>4
  <1>6. \A K : Came(kinds, m, K) <=> \E j \in 1..Len(kinds) : kinds[j] \in K
    BY <1>1 DEF Came
  <1> HIDE DEF q, m
  <1>7. /\ q \in PageT /\ q.view = p.view /\ q.block = <<>>
        /\ q.content <=> p.content \/ Came(kinds, m, Content)
        /\ q.told <=> p.told \/ Came(kinds, m, {"sorry"})
        /\ q.error <=> p.error \/ Came(kinds, m, {"error"})
    BY <1>3, <1>5 DEF PageAt, Begun
  <1>8. /\ q.content <=> p.content \/ \E j \in 1..Len(kinds) : kinds[j] \in Content
        /\ q.told <=> p.told \/ \E j \in 1..Len(kinds) : kinds[j] \in {"sorry"}
        /\ q.error <=> p.error \/ \E j \in 1..Len(kinds) : kinds[j] \in {"error"}
    BY <1>6, <1>7, Zenon
  <1>9. /\ q.content <=> p.content \/ \E j \in 1..Len(kinds) : kinds[j] \in Content
        /\ q.told <=> p.told \/ \E j \in 1..Len(kinds) : kinds[j] = "sorry"
        /\ q.error <=> p.error \/ \E j \in 1..Len(kinds) : kinds[j] = "error"
    BY <1>8
  <1> QED
    BY <1>7, <1>9 DEF q

\* Units that are no content leave what the page has, whatever block they meet.
LEMMA ShowsKeeps ==
  ASSUME NEW p \in PageT, NEW units \in Seq(Units), \A i \in 1..Len(units) : units[i][1] \notin Content
  PROVE  /\ Shows(p, units) \in PageT /\ Shows(p, units).view = p.view
         /\ Shows(p, units).content = p.content /\ Shows(p, units).told = p.told
  <1>1. Len(units) \in Nat
    OBVIOUS
  <1>2. PICK t : Showing(p, units, t) /\ Shows(p, units) = t[Len(units)]
    BY ShowsSteps
  <1> DEFINE Good(q) == q \in PageT /\ q.view = p.view /\ q.content = p.content /\ q.told = p.told
             Y == {n \in Nat : n <= Len(units) => Good(t[n])}
  <1>3. 0 \in Y
    BY <1>2 DEF Showing
  <1>4. ASSUME NEW n \in Nat, n \in Y PROVE n + 1 \in Y
    <2>1. SUFFICES ASSUME n + 1 <= Len(units) PROVE Good(t[n + 1])
      OBVIOUS
    <2>2. Good(t[n])
      BY <1>1, <1>4, <2>1
    <2>3. n + 1 \in 1..Len(units) /\ n + 1 - 1 = n
      BY <1>1, <2>1
    <2>4. t[n + 1] = Take(t[n], units[n + 1])
      BY <1>2, <2>3 DEF Showing
    <2>5. units[n + 1] \in Units /\ units[n + 1][1] \notin Content
      BY <2>3
    <2> DEFINE q == t[n]
               u == units[n + 1]
    <2>6. q \in PageT /\ u \in Units /\ u[1] \notin Content
      BY <2>2, <2>5
    <2> HIDE DEF q, u
    <2>7. /\ Take(q, u) \in PageT /\ Take(q, u).view = q.view
          /\ Take(q, u).content = q.content /\ Take(q, u).told = q.told
      BY <2>6, TakeCases
    <2> QED
      BY <2>2, <2>4, <2>7 DEF q, u
  <1> HIDE DEF Y
  <1>5. Len(units) \in Y
    BY <1>1, <1>3, <1>4, SetInduction
  <1> QED
    BY <1>1, <1>2, <1>5 DEF Y

\* The end of a response.
LEMMA ClosedIs ==
  ASSUME NEW p \in PageT, NEW cut \in BOOLEAN
  PROVE  /\ Closed(p, cut) \in PageT /\ Closed(p, cut).block = <<>>
         /\ Closed(p, cut).content = p.content /\ Closed(p, cut).told = p.told
         /\ Closed(p, cut).error = p.error
         /\ Closed(p, cut).view = IF cut THEN "connection error"
                                  ELSE IF p.content THEN "answer"
                                  ELSE IF p.error THEN "error" ELSE "no response"
  <1> DEFINE v == IF cut THEN "connection error"
                  ELSE IF p.content THEN "answer"
                  ELSE IF p.error THEN "error" ELSE "no response"
  <1>1. v \in Views /\ <<>> \in Seq(Units)
    BY DEF Views
  <1>2. Closed(p, cut) = [p EXCEPT !.block = <<>>, !.view = v]
    BY DEF Closed
  <1> HIDE DEF v
  <1> DEFINE r == [p EXCEPT !.block = <<>>, !.view = v]
  <1>3. /\ r \in PageT /\ r.block = <<>> /\ r.view = v
        /\ r.content = p.content /\ r.told = p.told /\ r.error = p.error
    BY <1>1 DEF PageT
  <1> HIDE DEF r
  <1> QED
    BY <1>2, <1>3 DEF r, v

-----------------------------------------------------------------------------
\* Events that are passed on: the pieces of an answer, then how it ended.
Stages == {"open", "failed", "finished", "ended", "cut"}
StreamT == [seen : {1..k : k \in Nat}, stage : Stages]

\* The next piece is numbered by the pieces that came.
LEMMA CountUpTo ==
  ASSUME NEW k \in Nat
  PROVE  Cardinality(1..k) = k /\ 1..k \cup {k + 1} = 1..(k + 1)
  <1>1. Cardinality(1..k) = IF 1 <= k THEN k - 1 + 1 ELSE 0
    BY FS_Interval
  <1>2. Cardinality(1..k) = k
    BY <1>1
  <1>3. 1..k \cup {k + 1} = 1..(k + 1)
    OBVIOUS
  <1> QED
    BY <1>2, <1>3

\* What a unit that is passed on makes of the stream.
LEMMA PassedIs ==
  ASSUME NEW s \in StreamT, NEW u
  PROVE  /\ Passed(s, u) \in StreamT
         /\ u = <<"text", 2>> => /\ Passed(s, u).stage = s.stage
                                 /\ \A k \in Nat : s.seen = 1..k => Passed(s, u).seen = 1..(k + 1)
         /\ u # <<"text", 2>> => Passed(s, u).seen = s.seen
         /\ u = <<"error", 2>> => Passed(s, u).stage = "failed"
         /\ u = <<"done", 2>> => Passed(s, u).stage = IF s.stage = "failed" THEN "ended" ELSE "finished"
         /\ u \notin {<<"text", 2>>, <<"error", 2>>, <<"done", 2>>} => Passed(s, u) = s
  <1>1. <<"text", 2>> # <<"error", 2>> /\ <<"text", 2>> # <<"done", 2>> /\ <<"error", 2>> # <<"done", 2>>
    OBVIOUS
  <1>2. CASE u = <<"text", 2>>
    <2>1. PICK k \in Nat : s.seen = 1..k
      BY DEF StreamT
    <2> DEFINE seen == s.seen \cup {Cardinality(s.seen) + 1}
               r == [s EXCEPT !.seen = seen]
    <2>2. Passed(s, u) = r
      BY <1>2 DEF Passed
    <2>3. seen = 1..(k + 1) /\ Cardinality(s.seen) = k
      BY <2>1, CountUpTo
    <2>4. \A l \in Nat : s.seen = 1..l => seen = 1..(l + 1)
      <3>1. ASSUME NEW l \in Nat, s.seen = 1..l PROVE seen = 1..(l + 1)
        BY <3>1, CountUpTo
      <3> QED
        BY <3>1
    <2>5. seen \in {1..l : l \in Nat}
      <3>1. k + 1 \in Nat
        OBVIOUS
      <3> HIDE DEF seen
      <3> QED
        BY <2>3, <3>1
    <2> HIDE DEF seen
    <2>6. r \in StreamT /\ r.seen = seen /\ r.stage = s.stage
      BY <2>5 DEF StreamT
    <2> HIDE DEF r
    <2> QED
      BY <1>1, <1>2, <2>2, <2>4, <2>6
  <1>3. CASE u = <<"error", 2>>
    <2> DEFINE r == [s EXCEPT !.stage = "failed"]
    <2>1. Passed(s, u) = r
      BY <1>1, <1>3 DEF Passed
    <2>2. r \in StreamT /\ r.seen = s.seen /\ r.stage = "failed"
      BY DEF StreamT, Stages
    <2> HIDE DEF r
    <2> QED
      BY <1>1, <1>3, <2>1, <2>2
  <1>4. CASE u = <<"done", 2>>
    <2> DEFINE stage == IF s.stage = "failed" THEN "ended" ELSE "finished"
               r == [s EXCEPT !.stage = stage]
    <2>1. Passed(s, u) = r
      BY <1>1, <1>4 DEF Passed, StreamT
    <2>2. stage \in Stages
      BY DEF Stages
    <2> HIDE DEF stage
    <2>3. r \in StreamT /\ r.seen = s.seen /\ r.stage = stage
      BY <2>2 DEF StreamT
    <2> HIDE DEF r
    <2> QED
      BY <1>1, <1>4, <2>1, <2>3 DEF stage
  <1>5. CASE u \notin {<<"text", 2>>, <<"error", 2>>, <<"done", 2>>}
    <2>1. Passed(s, u) = s
      BY <1>5 DEF Passed
    <2> QED
      BY <1>5, <2>1
  <1> QED
    BY <1>2, <1>3, <1>4, <1>5

\* The stream, a unit at a time.
Passing(s, units, t) ==
    /\ t \in [0..Len(units) -> StreamT] /\ t[0] = s
    /\ \A i \in 1..Len(units) : t[i] = Passed(t[i - 1], units[i])

\* The states the stream goes through.
LEMMA PassedSteps ==
  ASSUME NEW s0 \in StreamT, NEW units \in Seq(Units)
  PROVE  \E t : Passing(s0, units, t) /\ FoldLeft(Passed, s0, units) = t[Len(units)]
  <1> DEFINE U == 1..Len(units)
             step == [ae \in StreamT \X Units |-> Passed(ae[1], ae[2])]
             Real(g, s) == IF s = {} THEN s0 ELSE Passed(g[s \ {Max(s)}], units[Max(s)])
             F == CHOOSE f : f = [s \in SUBSET U |-> Real(f, s)]
  <1>1. FoldLeft(Passed, s0, units) = F[U]
    <2>1. DOMAIN units = U
      OBVIOUS
    <2> QED
      BY <2>1 DEF FoldLeft, MapThenFoldSet
  <1>2. /\ \A a \in StreamT, u \in Units : step[<<a, u>>] = Passed(a, u)
        /\ step \in [StreamT \X Units -> StreamT]
    BY PassedIs
  <1>3. Fold(StreamT, Units, step, s0, units) /\ Len(units) \in Nat
    BY <1>2 DEF Fold
  <1>4. PICK g : g \in [SUBSET U -> StreamT] /\ Folds(step, s0, units, g)
    BY <1>3, FoldExists
  <1> HIDE DEF step
  <1>5. \A s \in SUBSET U : s # {} => Max(s) \in s
    BY <1>3, MaxIsIn
  <1>6. \A s \in SUBSET U : g[s] = Real(g, s)
    <2>1. ASSUME NEW s \in SUBSET U, s # {} PROVE g[s] = Real(g, s)
      <3>1. g[s \ {Max(s)}] \in StreamT /\ units[Max(s)] \in Units
        <4>1. Max(s) \in U /\ s \ {Max(s)} \in SUBSET U
          BY <1>5, <2>1
        <4> QED
          BY <1>3, <1>4, <4>1 DEF Fold
      <3> QED
        BY <1>2, <1>4, <2>1, <3>1 DEF Folds, Folded
    <2> QED
      BY <1>4, <2>1 DEF Folds, Folded
  <1>7. F = [s \in SUBSET U |-> Real(F, s)]
    <2> HIDE DEF Real
    <2>1. g = [s \in SUBSET U |-> Real(g, s)]
      BY <1>4, <1>6
    <2> QED
      BY <2>1
  <1>8. F[U] = g[U]
    <2> HIDE DEF F
    <2> DEFINE T == {s \in SUBSET U : F[s] = g[s]}
    <2>1. ASSUME NEW s \in SUBSET U, \A x \in s : s \ {x} \in T PROVE s \in T
      BY <1>5, <1>6, <1>7, <2>1
    <2>2. IsFiniteSet(U)
      BY <1>3, FS_Interval
    <2>3. Grows(U, T)
      BY <2>1 DEF Grows
    <2> HIDE DEF T, U
    <2>4. SUBSET U \subseteq T
      BY <2>2, <2>3, SubsetInduction
    <2>5. U \in SUBSET U
      OBVIOUS
    <2> QED
      BY <2>4, <2>5 DEF T
  <1> DEFINE t == [i \in 0..Len(units) |-> g[1..i]]
  <1>9. g[1..0] = s0 /\ \A i \in U : g[1..i] = step[<<g[1..(i - 1)], units[i]>>]
    BY <1>3, <1>4, FoldSteps DEF Stepwise
  <1>10. t \in [0..Len(units) -> StreamT]
    BY <1>3, <1>4
  <1>11. t[0] = s0 /\ t[Len(units)] = g[U]
    BY <1>3, <1>9
  <1>12. ASSUME NEW i \in U PROVE t[i] = Passed(t[i - 1], units[i])
    <2>1. i - 1 \in 0..Len(units) /\ i \in 0..Len(units) /\ units[i] \in Units
      BY <1>3
    <2>2. t[i - 1] \in StreamT /\ t[i - 1] = g[1..(i - 1)] /\ t[i] = g[1..i]
      BY <1>10, <2>1
    <2> HIDE DEF t
    <2> QED
      BY <1>2, <1>9, <2>1, <2>2
  <1> HIDE DEF t
  <1>13. Passing(s0, units, t)
    BY <1>10, <1>11, <1>12 DEF Passing
  <1> HIDE DEF F
  <1> QED
    BY <1>1, <1>8, <1>11, <1>13

\* Some events that a remote server sends: n pieces, and nothing after the marker.
Told(kinds, n) ==
    /\ n \in Nat /\ n <= Len(kinds)
    /\ \A j \in 1..Len(kinds) : kinds[j] = "text" <=> j <= n
    /\ \A j \in 1..Len(kinds) : kinds[j] = "done" => j = Len(kinds)

\* What the stream is once the first c units were passed on.
StreamAt(s, kinds, n, c) ==
    /\ s \in StreamT
    /\ \E k \in Nat : s.seen = 1..k /\ k <= n /\ 2 * k <= c /\ (k = n \/ c <= 2 * k + 1)
    /\ s.stage = IF Came(kinds, c, {"error"})
                 THEN IF Came(kinds, c, {"done"}) THEN "ended" ELSE "failed"
                 ELSE IF Came(kinds, c, {"done"}) THEN "finished" ELSE "open"

\* The next unit that is passed on.
LEMMA StreamStep ==
  ASSUME NEW s, NEW kinds \in Seq(Kinds), NEW n, NEW c \in Nat,
         Told(kinds, n), StreamAt(s, kinds, n, c), c + 1 <= 2 * Len(kinds)
  PROVE  StreamAt(Passed(s, Events(kinds)[c + 1]), kinds, n, c + 1)
  <1> DEFINE u == Events(kinds)[c + 1]
             q == Passed(s, u)
  <1>1. Len(kinds) \in Nat /\ n \in Nat /\ s \in StreamT
    BY DEF Told, StreamAt
  <1>2. PICK a \in Nat : \/ c = 2 * a /\ c % 2 = 0
                         \/ c = 2 * a + 1 /\ c % 2 = 1
    BY Halves
  <1>3. PICK k \in Nat : s.seen = 1..k /\ k <= n /\ 2 * k <= c /\ (k = n \/ c <= 2 * k + 1)
    BY DEF StreamAt
  <1>4. /\ q \in StreamT
        /\ u = <<"text", 2>> => /\ q.stage = s.stage
                                /\ \A l \in Nat : s.seen = 1..l => q.seen = 1..(l + 1)
        /\ u # <<"text", 2>> => q.seen = s.seen
        /\ u = <<"error", 2>> => q.stage = "failed"
        /\ u = <<"done", 2>> => q.stage = IF s.stage = "failed" THEN "ended" ELSE "finished"
        /\ u \notin {<<"text", 2>>, <<"error", 2>>, <<"done", 2>>} => q = s
    BY <1>1, PassedIs
  <1>5. CASE c = 2 * a /\ c % 2 = 0
    <2>1. u = <<kinds[a + 1], 1>>
      <3>1. 2 * a + 1 \in 1..(2 * Len(kinds))
        BY <1>1, <1>5
      <3> QED
        BY <1>5, <3>1, EventsAre
    <2>2. u \notin {<<"text", 2>>, <<"error", 2>>, <<"done", 2>>}
      BY <2>1
    <2>3. \A K : Came(kinds, c + 1, K) <=> Came(kinds, c, K)
      BY <1>5, CameStep
    <2>4. 2 * k <= c + 1 /\ (k = n \/ c + 1 <= 2 * k + 1)
      BY <1>1, <1>3, <1>5
    <2>5. q = s
      BY <1>4, <2>2
    <2> HIDE DEF q, u
    <2>6. StreamAt(s, kinds, n, c + 1)
      <3>1. s.stage = IF Came(kinds, c + 1, {"error"})
                      THEN IF Came(kinds, c + 1, {"done"}) THEN "ended" ELSE "failed"
                      ELSE IF Came(kinds, c + 1, {"done"}) THEN "finished" ELSE "open"
        BY <2>3 DEF StreamAt
      <3> QED
        BY <1>1, <1>3, <2>4, <3>1 DEF StreamAt
    <2> QED
      BY <2>5, <2>6 DEF q, u
  <1>6. CASE c = 2 * a + 1 /\ c % 2 = 1
    <2>1. u = <<kinds[a + 1], 2>> /\ a + 1 \in 1..Len(kinds) /\ c + 1 = 2 * a + 2
          /\ 2 * a + 2 <= 2 * Len(kinds)
      <3>1. 2 * a + 2 \in 1..(2 * Len(kinds)) /\ c + 1 = 2 * a + 2
            /\ a + 1 \in 1..Len(kinds)
        BY <1>1, <1>6
      <3> QED
        BY <1>1, <1>6, <3>1, EventsAre
    <2>2. \A K : Came(kinds, c + 1, K) <=> Came(kinds, c, K) \/ kinds[a + 1] \in K
      BY <1>6, <2>1, CameStep
    <2>3. /\ kinds[a + 1] = "text" <=> a + 1 <= n
          /\ kinds[a + 1] = "done" => a + 1 = Len(kinds)
      BY <2>1 DEF Told
    <2>4. ~Came(kinds, c, {"done"})
      <3>1. \A j \in 1..Len(kinds) : 2 * j <= c => j # Len(kinds)
        BY <1>1, <1>6, <2>1
      <3> QED
        BY <3>1 DEF Came, Told
    <2>5. \E l \in Nat : q.seen = 1..l /\ l <= n /\ 2 * l <= c + 1 /\ (l = n \/ c + 1 <= 2 * l + 1)
      <3>1. CASE a + 1 <= n
        <4>1. k = a /\ k + 1 \in Nat /\ k + 1 <= n /\ 2 * (k + 1) <= c + 1
              /\ c + 1 <= 2 * (k + 1) + 1
          BY <1>1, <1>3, <1>6, <3>1
        <4>2. u = <<"text", 2>>
          BY <2>1, <2>3, <3>1
        <4>3. q.seen = 1..(k + 1)
          BY <1>3, <1>4, <4>2
        <4> HIDE DEF q, u
        <4> QED
          BY <4>1, <4>3
      <3>2. CASE ~(a + 1 <= n)
        <4>1. k = n /\ 2 * k <= c + 1
          BY <1>1, <1>3, <1>6, <3>2
        <4>2. u # <<"text", 2>>
          BY <2>1, <2>3, <3>2
        <4>3. q.seen = 1..k
          BY <1>3, <1>4, <4>2
        <4> HIDE DEF q, u
        <4> QED
          BY <1>3, <4>1, <4>3
      <3> QED
        BY <3>1, <3>2
    <2>6. q.stage = IF Came(kinds, c + 1, {"error"})
                    THEN IF Came(kinds, c + 1, {"done"}) THEN "ended" ELSE "failed"
                    ELSE IF Came(kinds, c + 1, {"done"}) THEN "finished" ELSE "open"
      <3>1. s.stage = IF Came(kinds, c, {"error"}) THEN "failed" ELSE "open"
        BY <2>4 DEF StreamAt
      <3>2. /\ Came(kinds, c + 1, {"error"}) <=> Came(kinds, c, {"error"}) \/ kinds[a + 1] = "error"
            /\ Came(kinds, c + 1, {"done"}) <=> kinds[a + 1] = "done"
        BY <2>2, <2>4
      <3>3. CASE kinds[a + 1] = "error"
        BY <1>4, <2>1, <3>2, <3>3
      <3>4. CASE kinds[a + 1] = "done"
        BY <1>4, <2>1, <3>1, <3>2, <3>4
      <3>5. CASE kinds[a + 1] = "text"
        BY <1>4, <2>1, <3>1, <3>2, <3>5
      <3>6. CASE kinds[a + 1] \notin {"error", "done", "text"}
        <4>1. u \notin {<<"text", 2>>, <<"error", 2>>, <<"done", 2>>}
          BY <2>1, <3>6
        <4> QED
          BY <1>4, <3>1, <3>2, <3>6, <4>1
      <3> QED
        BY <3>3, <3>4, <3>5, <3>6
    <2>7. q \in StreamT
      BY <1>4
    <2> HIDE DEF q, u
    <2>8. StreamAt(q, kinds, n, c + 1)
      BY <2>5, <2>6, <2>7 DEF StreamAt
    <2> QED
      BY <2>8 DEF q, u
  <1> QED
    BY <1>2, <1>5, <1>6

\* Any number of them.
LEMMA StreamRun ==
  ASSUME NEW s, NEW kinds \in Seq(Kinds), NEW n, NEW c \in Nat, NEW units \in Seq(Units),
         Told(kinds, n), StreamAt(s, kinds, n, c), Upcoming(kinds, c, units)
  PROVE  StreamAt(FoldLeft(Passed, s, units), kinds, n, c + Len(units))
  <1>1. Len(units) \in Nat /\ Len(kinds) \in Nat /\ s \in StreamT
    BY DEF StreamAt
  <1>2. PICK t : Passing(s, units, t) /\ FoldLeft(Passed, s, units) = t[Len(units)]
    BY <1>1, PassedSteps
  <1> DEFINE Y == {m \in Nat : m <= Len(units) => StreamAt(t[m], kinds, n, c + m)}
  <1>3. 0 \in Y
    <2>1. t[0] = s /\ c + 0 = c
      BY <1>2 DEF Passing
    <2> QED
      BY <2>1
  <1>4. ASSUME NEW m \in Nat, m \in Y PROVE m + 1 \in Y
    <2>1. SUFFICES ASSUME m + 1 <= Len(units) PROVE StreamAt(t[m + 1], kinds, n, c + (m + 1))
      OBVIOUS
    <2>2. StreamAt(t[m], kinds, n, c + m)
      BY <1>1, <1>4, <2>1
    <2>3. /\ m + 1 \in 1..Len(units) /\ m + 1 - 1 = m /\ c + (m + 1) = c + m + 1 /\ c + m \in Nat
          /\ c + m + 1 <= 2 * Len(kinds)
      BY <1>1, <2>1 DEF Upcoming
    <2>4. units[m + 1] = Events(kinds)[c + m + 1]
      BY <2>3 DEF Upcoming
    <2>5. t[m + 1] = Passed(t[m], Events(kinds)[c + m + 1])
      BY <1>2, <2>3, <2>4 DEF Passing
    <2>6. StreamAt(Passed(t[m], Events(kinds)[c + m + 1]), kinds, n, c + m + 1)
      BY <2>2, <2>3, StreamStep
    <2> QED
      BY <2>3, <2>5, <2>6
  <1> HIDE DEF Y
  <1>5. Len(units) \in Y
    BY <1>1, <1>3, <1>4, SetInduction
  <1> QED
    BY <1>1, <1>2, <1>5 DEF Y

-----------------------------------------------------------------------------
\* What the proxy keeps of the units it has read.
Latest(kinds, c, units) ==
    /\ units \in Seq(Units) /\ Len(units) = IF c <= Part THEN c ELSE Part
    /\ \A i \in 1..Len(units) : units[i] = Events(kinds)[c - Len(units) + i]

\* Two units in a row.
LEMMA SubSeqTwo ==
  ASSUME NEW s \in Seq(Units), NEW i \in 1..(Len(s) - 1)
  PROVE  SubSeq(s, i, i + 1) = <<s[i], s[i + 1]>>
  <1> DEFINE a == SubSeq(s, i, i + 1)
             b == <<s[i], s[i + 1]>>
  <1>1. /\ s[i] \in Units /\ s[i + 1] \in Units /\ i \in Nat /\ i + 1 <= Len(s)
        /\ Len(s) \in Nat /\ 1 <= i
    OBVIOUS
  <1>2. a \in Seq(Units) /\ Len(a) = 2 /\ a[1] = s[i] /\ a[2] = s[i + 1]
    <2>1. a \in Seq(Units) /\ Len(a) = 2
      BY <1>1
    <2>2. \A m \in 1..2 : a[m] = s[i + m - 1]
      BY <1>1
    <2>3. i + 1 - 1 = i /\ i + 2 - 1 = i + 1
      BY <1>1
    <2> HIDE DEF a
    <2> QED
      BY <2>1, <2>2, <2>3
  <1>3. b \in Seq(Units) /\ Len(b) = 2 /\ b[1] = s[i] /\ b[2] = s[i + 1]
    BY <1>1
  <1> HIDE DEF a, b
  <1>4. a = b
    BY <1>2, <1>3
  <1> QED
    BY <1>4 DEF a, b

\* A part behind what is kept, and the end of both.
LEMMA LatestStep ==
  ASSUME NEW kinds \in Seq(Kinds), NEW c \in Nat, NEW units, NEW part \in Seq(Units),
         Latest(kinds, c, units), Upcoming(kinds, c, part)
  PROVE  Latest(kinds, c + Len(part),
                IF Len(units \o part) <= Part THEN units \o part
                ELSE SubSeq(units \o part, Len(units \o part) - Part + 1, Len(units \o part)))
  <1> DEFINE all == units \o part
             d == c + Len(part)
             m == Len(all)
  <1>1. /\ units \in Seq(Units) /\ Len(units) \in Nat /\ Len(part) \in Nat /\ Part \in Nat
        /\ Part >= 2 /\ d \in Nat
    BY PartAssumption DEF Latest
  <1>2. Len(units) = IF c <= Part THEN c ELSE Part
    BY DEF Latest
  <1>3. all \in Seq(Units) /\ m = Len(units) + Len(part) /\ m \in Nat
    BY <1>1
  <1>4. ASSUME NEW i \in 1..m PROVE all[i] = Events(kinds)[d - m + i]
    <2>1. CASE i <= Len(units)
      <3>1. all[i] = units[i] /\ i \in 1..Len(units)
        BY <1>1, <1>3, <2>1
      <3>2. c - Len(units) + i = d - m + i
        BY <1>1, <1>3
      <3> QED
        BY <3>1, <3>2 DEF Latest
    <2>2. CASE i > Len(units)
      <3>1. all[i] = part[i - Len(units)] /\ i - Len(units) \in 1..Len(part)
        BY <1>1, <1>3, <2>2
      <3>2. c + (i - Len(units)) = d - m + i
        BY <1>1, <1>3
      <3> QED
        BY <3>1, <3>2 DEF Upcoming
    <2> QED
      BY <1>1, <2>1, <2>2
  <1>5. CASE m <= Part
    <2>1. m = IF d <= Part THEN d ELSE Part
      BY <1>1, <1>2, <1>3, <1>5
    <2> HIDE DEF all, d
    <2>2. Latest(kinds, d, all)
      BY <1>3, <1>4, <2>1 DEF Latest
    <2> QED
      BY <1>5, <2>2 DEF all, d
  <1>6. CASE ~(m <= Part)
    <2> DEFINE r == SubSeq(all, m - Part + 1, m)
    <2>1. r \in Seq(Units) /\ Len(r) = Part /\ \A i \in 1..Part : r[i] = all[m - Part + i]
      <3>1. m - Part + 1 \in 1..m /\ m - (m - Part + 1) + 1 = Part
        BY <1>1, <1>3, <1>6
      <3>2. \A i \in 1..Part : m - Part + 1 + i - 1 = m - Part + i
        BY <1>1, <1>3
      <3> HIDE DEF all, m
      <3>3. r \in Seq(Units) /\ Len(r) = Part /\ \A i \in 1..Part : r[i] = all[m - Part + 1 + i - 1]
        BY <1>1, <1>3, <3>1 DEF m
      <3> QED
        BY <3>2, <3>3
    <2>2. Part = IF d <= Part THEN d ELSE Part
      BY <1>1, <1>2, <1>3, <1>6
    <2>3. ASSUME NEW i \in 1..Part PROVE r[i] = Events(kinds)[d - Part + i]
      <3>1. m - Part + i \in 1..m /\ d - m + (m - Part + i) = d - Part + i
        BY <1>1, <1>3, <1>6
      <3>2. r[i] = all[m - Part + i]
        BY <2>1
      <3> HIDE DEF all, d, m, r
      <3> QED
        BY <1>4, <3>1, <3>2
    <2> HIDE DEF r, all, d, m
    <2>4. Latest(kinds, d, r)
      BY <2>1, <2>2, <2>3 DEF Latest
    <2> QED
      BY <1>6, <2>4 DEF all, d, m, r
  <1> QED
    BY <1>5, <1>6

\* The marker is found as soon as the part that ends it is read.
LEMMA MarkerIsFound ==
  ASSUME NEW kinds \in Seq(Kinds), NEW n, NEW c \in Nat, NEW units,
         Told(kinds, n), Latest(kinds, c, units), c <= 2 * Len(kinds)
  PROVE  HasDone(units) => Came(kinds, c, {"done"})
  <1>1. SUFFICES ASSUME NEW i \in 1..(Len(units) - 1), SubSeq(units, i, i + 1) = Event("done")
                 PROVE  Came(kinds, c, {"done"})
    BY DEF HasDone
  <1>2. units \in Seq(Units) /\ Len(units) \in Nat /\ Len(units) <= c /\ Len(kinds) \in Nat
    BY PartAssumption DEF Latest
  <1>3. units[i + 1] = <<"done", 2>>
    <2>1. SubSeq(units, i, i + 1) = <<units[i], units[i + 1]>>
      BY <1>2, SubSeqTwo
    <2> QED
      BY <1>1, <2>1 DEF Event
  <1> DEFINE m == c - Len(units) + (i + 1)
  <1>4. m \in Nat /\ m <= c /\ m >= 2 /\ i + 1 \in 1..Len(units)
    BY <1>2
  <1>5. Events(kinds)[m] = <<"done", 2>>
    BY <1>3, <1>4 DEF Latest
  <1> HIDE DEF m
  <1>6. PICK a \in Nat : m = 2 * a \/ m = 2 * a + 1
    BY <1>4, Halves
  <1>7. CASE m = 2 * a + 1
    <2>1. 2 * a + 1 \in 1..(2 * Len(kinds))
      BY <1>2, <1>4, <1>7
    <2> QED
      BY <1>5, <1>7, <2>1, EventsAre
  <1>8. CASE m = 2 * a
    <2>1. a - 1 \in Nat /\ 2 * (a - 1) + 2 \in 1..(2 * Len(kinds)) /\ 2 * (a - 1) + 2 = m
          /\ a - 1 + 1 = a /\ a \in 1..Len(kinds) /\ 2 * a <= c
      BY <1>2, <1>4, <1>8
    <2>2. Events(kinds)[m] = <<kinds[a], 2>>
      BY <2>1, EventsAre
    <2>3. kinds[a] = "done"
      BY <1>5, <2>2
    <2> QED
      BY <2>1, <2>3 DEF Came
  <1> QED
    BY <1>6, <1>7, <1>8

\* It is found as soon as it has come, wherever the reads cut it.
LEMMA MarkerIsSeen ==
  ASSUME NEW kinds \in Seq(Kinds), NEW n, NEW c \in Nat, NEW units,
         Told(kinds, n), Latest(kinds, c, units), c <= 2 * Len(kinds)
  PROVE  Came(kinds, c, {"done"}) => HasDone(units)
  <1>1. SUFFICES ASSUME NEW j \in 1..Len(kinds), 2 * j <= c, kinds[j] = "done"
                 PROVE  HasDone(units)
    BY DEF Came
  <1>2. units \in Seq(Units) /\ Len(units) \in Nat /\ Len(kinds) \in Nat /\ j = Len(kinds)
    BY <1>1 DEF Latest, Told
  <1>3. c = 2 * j /\ Len(units) >= 2 /\ j - 1 \in Nat /\ j - 1 + 1 = j
    <2>1. c = 2 * j /\ j >= 1 /\ j - 1 \in Nat /\ j - 1 + 1 = j /\ c >= 2
      BY <1>1, <1>2
    <2>2. Len(units) = IF c <= Part THEN c ELSE Part
      BY DEF Latest
    <2> QED
      BY <2>1, <2>2, PartAssumption
  <1> DEFINE i == Len(units) - 1
  <1>4. /\ i \in 1..(Len(units) - 1) /\ i \in 1..Len(units) /\ i + 1 \in 1..Len(units)
        /\ c - Len(units) + i = 2 * (j - 1) + 1 /\ c - Len(units) + (i + 1) = 2 * (j - 1) + 2
        /\ 2 * (j - 1) + 1 \in 1..(2 * Len(kinds)) /\ 2 * (j - 1) + 2 \in 1..(2 * Len(kinds))
    BY <1>2, <1>3
  <1> HIDE DEF i
  <1>5. units[i] = <<"done", 1>> /\ units[i + 1] = <<"done", 2>>
    <2>1. /\ Events(kinds)[2 * (j - 1) + 1] = <<kinds[j], 1>>
          /\ Events(kinds)[2 * (j - 1) + 2] = <<kinds[j], 2>>
      BY <1>3, <1>4, EventsAre
    <2>2. /\ units[i] = Events(kinds)[2 * (j - 1) + 1]
          /\ units[i + 1] = Events(kinds)[2 * (j - 1) + 2]
      BY <1>4 DEF Latest
    <2> QED
      BY <1>1, <2>1, <2>2
  <1>6. SubSeq(units, i, i + 1) = <<units[i], units[i + 1]>>
    BY <1>2, <1>4, SubSeqTwo
  <1> QED
    BY <1>4, <1>5, <1>6 DEF HasDone, Event

\* What is collected of an edit answer: the events that ended, and the begun one.
Ends(all) == {i \in DOMAIN all : all[i][2] = 2}
Rest(all) == IF Ends(all) = {} THEN all ELSE SubSeq(all, Max(Ends(all)) + 1, Len(all))

\* The units kept for the next part are those of the event that has begun.
LEMMA Collecting ==
  ASSUME NEW kinds \in Seq(Kinds), NEW c \in Nat, NEW part \in Seq(Units), Upcoming(kinds, c, part)
  PROVE  /\ Rest(Begun(kinds, c) \o part) = Begun(kinds, c + Len(part))
         /\ \A K : Came(kinds, c + Len(part), K) <=>
               \/ Came(kinds, c, K)
               \/ \E i \in Ends(Begun(kinds, c) \o part) : (Begun(kinds, c) \o part)[i][1] \in K
  <1> DEFINE b == Begun(kinds, c)
             all == b \o part
             d == c + Len(part)
             m == Len(all)
  <1>1. /\ Len(part) \in Nat /\ d \in Nat /\ d <= 2 * Len(kinds) /\ Len(kinds) \in Nat
        /\ Events(kinds) \in Seq(Units) /\ Len(Events(kinds)) = 2 * Len(kinds)
    BY EventsAre DEF Upcoming
  <1>2. PICK a \in Nat : \/ c = 2 * a /\ c % 2 = 0
                         \/ c = 2 * a + 1 /\ c % 2 = 1
    BY Halves
  <1>3. PICK e \in Nat : \/ d = 2 * e /\ d % 2 = 0
                         \/ d = 2 * e + 1 /\ d % 2 = 1
    BY <1>1, Halves
  <1>4. /\ all \in Seq(Units) /\ m \in Nat /\ d = 2 * a + m /\ DOMAIN all = 1..m
        /\ \A i \in 1..m : all[i] = Events(kinds)[2 * a + i]
    <2>1. CASE c = 2 * a /\ c % 2 = 0
      <3>1. b = <<>>
        BY <2>1 DEF Begun
      <3>2. all = part
        BY <3>1
      <3>3. \A i \in 1..Len(part) : part[i] = Events(kinds)[2 * a + i]
        BY <2>1 DEF Upcoming
      <3>4. d = 2 * a + Len(part) /\ DOMAIN part = 1..Len(part)
        BY <2>1
      <3> HIDE DEF d, all
      <3> QED
        BY <1>1, <3>2, <3>3, <3>4 DEF m
    <2>2. CASE c = 2 * a + 1 /\ c % 2 = 1
      <3> DEFINE u == Events(kinds)[c]
      <3>1. b = <<u>>
        BY <2>2 DEF Begun
      <3>2. u \in Units
        BY <1>1, <2>2
      <3> HIDE DEF u, b
      <3>3. /\ all \in Seq(Units) /\ m = 1 + Len(part) /\ all[1] = u
            /\ \A i \in 2..m : all[i] = part[i - 1]
        BY <1>1, <3>1, <3>2
      <3>4. ASSUME NEW i \in 1..m PROVE all[i] = Events(kinds)[2 * a + i]
        <4>1. CASE i = 1
          BY <2>2, <3>3, <4>1 DEF u
        <4>2. CASE i # 1
          <5>1. i \in 2..m /\ i - 1 \in 1..Len(part) /\ c + (i - 1) = 2 * a + i
            BY <1>1, <2>2, <3>3, <4>2
          <5> QED
            BY <3>3, <5>1 DEF Upcoming
        <4> QED
          BY <4>1, <4>2
      <3>5. m \in Nat /\ d = 2 * a + m /\ DOMAIN all = 1..m
        BY <1>1, <2>2, <3>3
      <3> QED
        BY <3>3, <3>4, <3>5
    <2> QED
      BY <1>2, <2>1, <2>2
  <1> HIDE DEF b, all, d, m
  <1>5. \A h \in Nat : 2 * h + 1 \in 1..m => all[2 * h + 1] = <<kinds[a + h + 1], 1>>
    <2>1. ASSUME NEW h \in Nat, 2 * h + 1 \in 1..m PROVE all[2 * h + 1] = <<kinds[a + h + 1], 1>>
      <3>1. /\ 2 * a + (2 * h + 1) = 2 * (a + h) + 1 /\ 2 * (a + h) + 1 \in 1..(2 * Len(kinds))
            /\ a + h \in Nat
        BY <1>1, <1>4, <2>1
      <3>2. Events(kinds)[2 * (a + h) + 1] = <<kinds[a + h + 1], 1>>
        BY <3>1, EventsAre
      <3>3. all[2 * h + 1] = Events(kinds)[2 * a + (2 * h + 1)]
        BY <1>4, <2>1
      <3> QED
        BY <3>1, <3>2, <3>3
    <2> QED
      BY <2>1
  <1>6. \A h \in Nat : 2 * h + 2 \in 1..m => all[2 * h + 2] = <<kinds[a + h + 1], 2>>
    <2>1. ASSUME NEW h \in Nat, 2 * h + 2 \in 1..m PROVE all[2 * h + 2] = <<kinds[a + h + 1], 2>>
      <3>1. /\ 2 * a + (2 * h + 2) = 2 * (a + h) + 2 /\ 2 * (a + h) + 2 \in 1..(2 * Len(kinds))
            /\ a + h \in Nat
        BY <1>1, <1>4, <2>1
      <3>2. Events(kinds)[2 * (a + h) + 2] = <<kinds[a + h + 1], 2>>
        BY <3>1, EventsAre
      <3>3. all[2 * h + 2] = Events(kinds)[2 * a + (2 * h + 2)]
        BY <1>4, <2>1
      <3> QED
        BY <3>1, <3>2, <3>3
    <2> QED
      BY <2>1
  <1>7. ASSUME NEW i \in 1..m
        PROVE  \E h \in Nat : \/ i = 2 * h + 1 /\ all[i][2] = 1
                              \/ i = 2 * h + 2 /\ all[i][2] = 2 /\ all[i][1] = kinds[a + h + 1]
    <2>1. i \in Nat /\ i >= 1
      OBVIOUS
    <2>2. PICK h \in Nat : i = 2 * h \/ i = 2 * h + 1
      BY <2>1, Halves
    <2>3. CASE i = 2 * h + 1
      BY <1>5, <2>3
    <2>4. CASE i = 2 * h
      <3>1. h - 1 \in Nat /\ i = 2 * (h - 1) + 2
        BY <2>1, <2>4
      <3>2. all[i] = <<kinds[a + (h - 1) + 1], 2>>
        BY <1>6, <3>1
      <3> QED
        BY <3>1, <3>2
    <2> QED
      BY <2>2, <2>3, <2>4
  <1>8. \A i \in 1..m : i \in Ends(all) <=> \E h \in Nat : i = 2 * h + 2
    <2>1. \A i \in 1..m : i \in Ends(all) <=> all[i][2] = 2
      BY <1>4 DEF Ends
    <2>2. ASSUME NEW i \in 1..m, NEW h \in Nat, i = 2 * h + 2 PROVE all[i][2] = 2
      BY <1>6, <2>2
    <2>3. ASSUME NEW i \in 1..m, all[i][2] = 2 PROVE \E h \in Nat : i = 2 * h + 2
      BY <1>7, <2>3
    <2> QED
      BY <2>1, <2>2, <2>3
  <1>9. Ends(all) \in SUBSET (1..m)
    BY <1>4 DEF Ends
  <1>10. Rest(all) = Begun(kinds, d)
    <2>1. CASE m = 0
      <3>1. Ends(all) = {} /\ all = <<>> /\ d % 2 # 1
        BY <1>3, <1>4, <1>9, <2>1
      <3> QED
        BY <3>1 DEF Rest, Begun
    <2>2. CASE m = 1
      <3>1. Ends(all) = {}
        BY <1>8, <1>9, <2>2
      <3>2. d % 2 = 1 /\ all[1] = Events(kinds)[d]
        BY <1>3, <1>4, <2>2
      <3>3. all = <<all[1]>>
        BY <1>4, <2>2
      <3> QED
        BY <3>1, <3>2, <3>3 DEF Rest, Begun
    <2>3. CASE m > 1
      <3>1. 2 \in Ends(all)
        <4>1. 2 \in 1..m /\ 2 = 2 * 0 + 2 /\ 0 \in Nat
          BY <1>4, <2>3
        <4> QED
          BY <1>8, <4>1
      <3> DEFINE x == Max(Ends(all))
      <3>2. x \in Ends(all) /\ \A y \in Ends(all) : y <= x
        BY <1>4, <1>9, <3>1, MaxIsIn
      <3> HIDE DEF x
      <3>3. PICK h \in Nat : x = 2 * h + 2
        BY <1>8, <1>9, <3>2
      <3>4. Rest(all) = SubSeq(all, x + 1, m)
        BY <3>1 DEF Rest, x, m
      <3>5. CASE d = 2 * e /\ d % 2 = 0
        <4>1. m = x
          <5>1. e - a - 1 \in Nat /\ m = 2 * (e - a - 1) + 2 /\ m \in 1..m
            BY <1>4, <2>3, <3>5
          <5>2. m \in Ends(all)
            BY <1>8, <5>1
          <5> QED
            BY <1>4, <1>9, <3>2, <5>2
        <4>2. SubSeq(all, x + 1, m) = <<>>
          BY <1>4, <4>1
        <4>3. Begun(kinds, d) = <<>>
          <5>1. d % 2 # 1
            BY <3>5
          <5> QED
            BY <5>1 DEF Begun
        <4> QED
          BY <3>4, <4>2, <4>3
      <3>6. CASE d = 2 * e + 1 /\ d % 2 = 1
        <4>1. m = x + 1
          <5>1. e - a - 1 \in Nat /\ m - 1 = 2 * (e - a - 1) + 2 /\ m - 1 \in 1..m
            BY <1>4, <2>3, <3>6
          <5>2. m - 1 \in Ends(all)
            BY <1>8, <5>1
          <5>3. m # x
            <6>1. m = 2 * (e - a) + 1
              BY <1>4, <3>6
            <6> QED
              BY <3>3, <6>1
          <5> QED
            BY <1>4, <1>9, <3>2, <5>2, <5>3
        <4>2. SubSeq(all, x + 1, m) = <<all[m]>>
          <5> DEFINE r == SubSeq(all, m, m)
                     q == <<all[m]>>
          <5>1. r \in Seq(Units) /\ Len(r) = 1 /\ r[1] = all[m]
            BY <1>4, <2>3
          <5>2. q \in Seq(Units) /\ Len(q) = 1 /\ q[1] = all[m]
            BY <1>4, <2>3
          <5> HIDE DEF r, q
          <5>3. r = q
            BY <5>1, <5>2
          <5> QED
            BY <4>1, <5>3 DEF r, q
        <4>3. all[m] = Events(kinds)[d]
          BY <1>4, <2>3
        <4> QED
          BY <3>4, <3>6, <4>2, <4>3 DEF Begun
      <3> QED
        BY <1>3, <3>5, <3>6
    <2> QED
      BY <1>4, <2>1, <2>2, <2>3
  <1>11. ASSUME NEW K
         PROVE  Came(kinds, d, K) <=> Came(kinds, c, K) \/ \E i \in Ends(all) : all[i][1] \in K
    <2>1. ASSUME NEW j \in 1..Len(kinds), 2 * j <= d, kinds[j] \in K
          PROVE  Came(kinds, c, K) \/ \E i \in Ends(all) : all[i][1] \in K
      <3>1. CASE 2 * j <= c
        BY <2>1, <3>1 DEF Came
      <3>2. CASE ~(2 * j <= c)
        <4>1. /\ j - a - 1 \in Nat /\ 2 * (j - a - 1) + 2 \in 1..m
              /\ a + (j - a - 1) + 1 = j
          BY <1>1, <1>2, <1>4, <2>1, <3>2
        <4>2. all[2 * (j - a - 1) + 2] = <<kinds[a + (j - a - 1) + 1], 2>>
          BY <1>6, <4>1
        <4>3. 2 * (j - a - 1) + 2 \in Ends(all)
          BY <1>8, <4>1
        <4>4. all[2 * (j - a - 1) + 2][1] = kinds[j]
          BY <4>1, <4>2
        <4> QED
          BY <2>1, <4>3, <4>4
      <3> QED
        BY <3>1, <3>2
    <2>2. ASSUME NEW i \in Ends(all), all[i][1] \in K PROVE Came(kinds, d, K)
      <3>1. i \in 1..m /\ all[i][2] = 2
        BY <1>4, <2>2 DEF Ends
      <3>2. PICK h \in Nat : i = 2 * h + 2 /\ all[i][1] = kinds[a + h + 1]
        <4>1. \E h \in Nat : \/ i = 2 * h + 1 /\ all[i][2] = 1
                             \/ i = 2 * h + 2 /\ all[i][2] = 2 /\ all[i][1] = kinds[a + h + 1]
          BY <1>7, <3>1
        <4> QED
          BY <3>1, <4>1
      <3>3. a + h + 1 \in 1..Len(kinds) /\ 2 * (a + h + 1) <= d
        BY <1>1, <1>4, <3>1, <3>2
      <3> QED
        BY <2>2, <3>2, <3>3 DEF Came
    <2>3. Came(kinds, c, K) => Came(kinds, d, K)
      <3>1. c <= d
        BY <1>1 DEF d
      <3>2. \A j \in 1..Len(kinds) : 2 * j <= c => 2 * j <= d
        BY <1>1, <3>1
      <3> QED
        BY <3>2 DEF Came
    <2>4. Came(kinds, d, K) <=> \E j \in 1..Len(kinds) : 2 * j <= d /\ kinds[j] \in K
      BY DEF Came
    <2> QED
      BY <2>1, <2>2, <2>3, <2>4
  <1> QED
    BY <1>10, <1>11 DEF all, b, d

-----------------------------------------------------------------------------
\* The inductive invariant.
Marks == {"a", "s", "o1", "o2", "c1", "c2"}
Pcs == {"freshness", "analyze", "context", "generate", "finish", "collect", "connect", "proxy", "over"}
LocalPcs == {"analyze", "context", "generate", "finish"}
RemotePcs == {"none", "asked", "generating", "closed"}
Links == {"up", "silent", "reset", "stalled"}

\* The parts of the invariant: what the request is, and the type of the rest.
Request ==
    /\ request \in [mode : {"local", "remote"}, edit : BOOLEAN, tokens : {0, 1024}]
    /\ text \in Seq(Marks)

StreamsT == [seen : SUBSET (1..Len(text)), stage : Stages]

Shape ==
    /\ pc \in Pcs
    /\ FilterT(text, filter)
    /\ stream \in StreamsT
    /\ remote \in [pc : RemotePcs, sent : 0..Len(text)]
    /\ wire \in Seq(Units) /\ scan \in Seq(Units) /\ buffer \in Seq(Units)
    /\ Len(scan) <= Part /\ Len(buffer) <= 1
    /\ link \in Links /\ page \in PageT
    /\ saw_done \in BOOLEAN /\ answered \in BOOLEAN /\ failed \in BOOLEAN

\* Where nothing was asked of a remote server.
Unasked ==
    /\ remote = [pc |-> "none", sent |-> 0]
    /\ wire = <<>> /\ link = "up"
    /\ scan = <<>> /\ buffer = <<>> /\ saw_done = FALSE /\ answered = FALSE

Modes ==
    /\ pc \in LocalPcs => Local
    /\ pc \in {"collect", "connect", "proxy"} => ~Local
    /\ Local \/ pc \in Before => Unasked

\* Nothing is wrong before the response ends, but for what the proxy reads.
Waiting(p) == p.block = <<>> /\ ~p.error /\ ~p.told /\ p.view = "waiting"
Quiet ==
    pc \notin {"proxy", "over"} =>
        /\ ~failed /\ stream.stage = "open" /\ Waiting(page)
        /\ pc \in Before => ~page.content /\ stream.seen = {}
        /\ pc = "finish" => page.content

\* The events the remote server has sent so far, whether they arrived or not.
PiecesSent == IF request.edit THEN 0 ELSE remote.sent
Rejected(kinds) == kinds = <<"json">> /\ failed
Broken(kinds) ==
    /\ Len(kinds) = PiecesSent + 2
    /\ kinds[PiecesSent + 1] = "error" /\ kinds[PiecesSent + 2] = "done" /\ failed
Complete(kinds) ==
    /\ remote.sent = Len(text)
    /\ IF request.edit THEN Len(kinds) = 2 /\ kinds[1] = "answer" /\ kinds[2] = "done"
       ELSE Len(kinds) = PiecesSent + 1 /\ kinds[PiecesSent + 1] = "done"
Says(kinds) ==
    /\ kinds \in Seq(Kinds) /\ Told(kinds, PiecesSent)
    /\ \/ remote.pc = "asked" /\ Len(kinds) = PiecesSent /\ remote.sent = 0
       \/ remote.pc = "generating" /\ Len(kinds) = PiecesSent
       \/ remote.pc = "closed" /\ (Rejected(kinds) \/ Broken(kinds) \/ Complete(kinds))

\* What went wrong so far can be told from what has arrived.
Explained(kinds, c) ==
    failed => \/ kinds = <<"json">>
              \/ Broken(kinds)
              \/ link # "up" /\ (c + Len(wire) < 2 * Len(kinds) \/ remote.pc # "closed")

Blank == [block |-> <<>>, content |-> FALSE, told |-> FALSE, error |-> FALSE, view |-> "waiting"]

\* The first c units were read, the wire holds some that follow, and the page, the
\* stream and the proxy's variables are what those c units make of them.
Track(kinds, c) ==
    /\ Says(kinds) /\ c \in Nat
    /\ Upcoming(kinds, c, wire) /\ Latest(kinds, c, scan)
    /\ saw_done <=> Came(kinds, c, {"done"})
    /\ link = "up" => c + Len(wire) = IF kinds = <<"json">> THEN 1 ELSE 2 * Len(kinds)
    /\ Explained(kinds, c)
    /\ IF request.edit
       THEN /\ Waiting(page) /\ ~page.content /\ stream.seen = {} /\ stream.stage = "open"
            /\ buffer = Begun(kinds, c) /\ ~Came(kinds, c, {"error"})
            /\ answered <=> Came(kinds, c, {"answer"})
       ELSE PageAt(Blank, page, kinds, c) /\ StreamAt(stream, kinds, PiecesSent, c)

Proxied == pc = "proxy" => \E kinds, c : Track(kinds, c)

Over ==
    /\ EarlyFailureIsShown /\ HealthyStreamFinishes
    /\ pc = "over" /\ link = "up" => remote.pc \in {"none", "closed"}

Inv == Request /\ Shape /\ Modes /\ Quiet /\ Proxied /\ Over

\* What the variables of the request and of the remote server are taken for.
LEMMA ReadRequest ==
  ASSUME Request
  PROVE  /\ request.edit \in BOOLEAN /\ request.tokens \in Nat /\ Len(text) \in Nat
         /\ text # <<>> <=> Len(text) > 0
  BY DEF Request

\* Short sequences of kinds.
LEMMA Literals ==
  /\ <<>> \in Seq(Kinds) /\ Len(<<>>) = 0
  /\ \A a \in Kinds : <<a>> \in Seq(Kinds) /\ Len(<<a>>) = 1 /\ <<a>>[1] = a
  /\ \A a, b \in Kinds : /\ <<a, b>> \in Seq(Kinds) /\ Len(<<a, b>>) = 2
                        /\ <<a, b>>[1] = a /\ <<a, b>>[2] = b
  OBVIOUS

\* What a response says while the page waits for no event.
LEMMA SayIs ==
  ASSUME NEW kinds \in Seq(Kinds), page \in PageT, page.block = <<>>, Say(kinds)
  PROVE  /\ page' \in PageT /\ page'.block = <<>> /\ page'.view = page.view
         /\ page'.content <=> page.content \/ \E j \in 1..Len(kinds) : kinds[j] \in Content
         /\ page'.told <=> page.told \/ \E j \in 1..Len(kinds) : kinds[j] = "sorry"
         /\ page'.error <=> page.error \/ \E j \in 1..Len(kinds) : kinds[j] = "error"
  BY ShowsEvents DEF Say

\* What a response says last, with the marker.
LEMMA SayLastIs ==
  ASSUME NEW kinds \in Seq(Kinds), page \in PageT, page.block = <<>>, SayLast(kinds)
  PROVE  /\ pc' = "over" /\ page' \in PageT
         /\ page'.content <=> page.content \/ \E j \in 1..Len(kinds) : kinds[j] \in Content
         /\ page'.told <=> page.told \/ \E j \in 1..Len(kinds) : kinds[j] = "sorry"
         /\ page'.error <=> page.error \/ \E j \in 1..Len(kinds) : kinds[j] = "error"
         /\ page'.view = IF page'.content THEN "answer"
                         ELSE IF page'.error THEN "error" ELSE "no response"
  <1> DEFINE all == Append(kinds, "done")
             q == Shows(page, Events(all))
  <1>1. /\ all \in Seq(Kinds) /\ Len(all) = Len(kinds) + 1 /\ Len(kinds) \in Nat
        /\ \A j \in 1..Len(kinds) : all[j] = kinds[j]
        /\ all[Len(all)] = "done"
    BY DEF Kinds
  <1>2. \A K : "done" \notin K =>
           ((\E j \in 1..Len(all) : all[j] \in K) <=> \E j \in 1..Len(kinds) : kinds[j] \in K)
    <2> HIDE DEF all
    <2>1. \A j \in 1..Len(all) : j \in 1..Len(kinds) \/ j = Len(all)
      BY <1>1
    <2>2. \A j \in 1..Len(kinds) : j \in 1..Len(all)
      BY <1>1
    <2> QED
      BY <1>1, <2>1, <2>2
  <1> HIDE DEF all
  <1>3. /\ q \in PageT
        /\ q.content <=> page.content \/ \E j \in 1..Len(all) : all[j] \in Content
        /\ q.told <=> page.told \/ \E j \in 1..Len(all) : all[j] = "sorry"
        /\ q.error <=> page.error \/ \E j \in 1..Len(all) : all[j] = "error"
    BY <1>1, ShowsEvents
  <1>4. pc' = "over" /\ page' = Closed(q, FALSE)
    BY DEF SayLast, all
  <1> HIDE DEF q
  <1>5. /\ page' \in PageT /\ page'.content = q.content /\ page'.told = q.told /\ page'.error = q.error
        /\ page'.view = IF q.content THEN "answer" ELSE IF q.error THEN "error" ELSE "no response"
    BY <1>3, <1>4, ClosedIs
  <1>6. /\ q.content <=> page.content \/ \E j \in 1..Len(kinds) : kinds[j] \in Content
        /\ q.told <=> page.told \/ \E j \in 1..Len(kinds) : kinds[j] \in {"sorry"}
        /\ q.error <=> page.error \/ \E j \in 1..Len(kinds) : kinds[j] \in {"error"}
    <2>1. "done" \notin Content /\ "done" \notin {"sorry"} /\ "done" \notin {"error"}
      BY DEF Content
    <2>2. /\ (\E j \in 1..Len(all) : all[j] = "sorry") <=> \E j \in 1..Len(all) : all[j] \in {"sorry"}
          /\ (\E j \in 1..Len(all) : all[j] = "error") <=> \E j \in 1..Len(all) : all[j] \in {"error"}
      OBVIOUS
    <2> QED
      BY <1>2, <1>3, <2>1, <2>2, Zenon
  <1>7. /\ (\E j \in 1..Len(kinds) : kinds[j] = "sorry") <=> \E j \in 1..Len(kinds) : kinds[j] \in {"sorry"}
        /\ (\E j \in 1..Len(kinds) : kinds[j] = "error") <=> \E j \in 1..Len(kinds) : kinds[j] \in {"error"}
    OBVIOUS
  <1>8. /\ page'.content <=> page.content \/ \E j \in 1..Len(kinds) : kinds[j] \in Content
        /\ page'.told <=> page.told \/ \E j \in 1..Len(kinds) : kinds[j] = "sorry"
        /\ page'.error <=> page.error \/ \E j \in 1..Len(kinds) : kinds[j] = "error"
    BY <1>5, <1>6, <1>7, Zenon
  <1> QED
    BY <1>4, <1>5, <1>8

\* The same, when the page may wait for the rest of an event: an error is no content.
LEMMA ErrorLast ==
  ASSUME page \in PageT, SayLast(<<"error">>)
  PROVE  /\ pc' = "over" /\ page' \in PageT /\ page'.content = page.content
         /\ page'.view = IF page.content THEN "answer"
                         ELSE IF page'.error THEN "error" ELSE "no response"
  <1> DEFINE all == <<"error", "done">>
             q == Shows(page, Events(all))
  <1>1. all \in Seq(Kinds) /\ Len(all) = 2 /\ all = Append(<<"error">>, "done")
    BY AppendOne DEF Kinds
  <1>2. ASSUME NEW i \in 1..Len(Events(all)) PROVE Events(all)[i][1] \notin Content
    <2>1. Events(all)[1] = <<"error", 1>> /\ Events(all)[2] = <<"error", 2>>
          /\ Events(all)[3] = <<"done", 1>> /\ Events(all)[4] = <<"done", 2>>
      <3>1. /\ 2 * 0 + 1 \in 1..(2 * Len(all)) /\ 2 * 0 + 2 \in 1..(2 * Len(all))
            /\ 2 * 1 + 1 \in 1..(2 * Len(all)) /\ 2 * 1 + 2 \in 1..(2 * Len(all))
        BY <1>1
      <3>2. /\ Events(all)[2 * 0 + 1] = <<all[0 + 1], 1>> /\ Events(all)[2 * 0 + 2] = <<all[0 + 1], 2>>
            /\ Events(all)[2 * 1 + 1] = <<all[1 + 1], 1>> /\ Events(all)[2 * 1 + 2] = <<all[1 + 1], 2>>
        BY <1>1, <3>1, EventsAre
      <3> QED
        BY <3>2
    <2>2. i \in {1, 2, 3, 4}
      <3> HIDE DEF all
      <3> DEFINE n == Len(Events(all))
      <3>1. n = 2 * Len(all)
        BY <1>1, EventsAre
      <3>2. n = 4
        BY <1>1, <3>1
      <3>3. i \in 1..n
        OBVIOUS
      <3> HIDE DEF n
      <3> QED
        BY <3>2, <3>3
    <2> HIDE DEF all
    <2> QED
      BY <2>1, <2>2 DEF Content
  <1>3. Events(all) \in Seq(Units)
    BY <1>1, EventsAre
  <1>4. q \in PageT /\ q.content = page.content
    BY <1>2, <1>3, ShowsKeeps
  <1>5. pc' = "over" /\ page' = Closed(q, FALSE)
    BY <1>1 DEF SayLast
  <1> HIDE DEF q
  <1> QED
    BY <1>4, <1>5, ClosedIs

\* A request begins in the invariant.
LEMMA InvInit == Init => Inv
  <1> SUFFICES ASSUME Init PROVE Inv
    OBVIOUS
  <1>1. /\ pc = "freshness" /\ filter = Fresh /\ stream = [seen |-> {}, stage |-> "open"]
        /\ remote = [pc |-> "none", sent |-> 0] /\ wire = <<>> /\ link = "up"
        /\ scan = <<>> /\ buffer = <<>> /\ saw_done = FALSE /\ answered = FALSE
        /\ page = Blank /\ failed = FALSE
    BY DEF Init, Blank
  <1>2. Request
    <2>1. text \in LocalTexts \cup RemoteTexts
      BY DEF Init
    <2> QED
      BY <2>1, TextsAssumption DEF Init, Request, Marks
  <1>3. Len(text) \in Nat
    BY <1>2, ReadRequest
  <1>4. <<>> \in Seq(Units) /\ Len(<<>>) = 0
    OBVIOUS
  <1>5. Shape
    <2>1. FilterT(text, filter)
      <3>1. Fresh \in FilterR /\ Fresh.base = 0 /\ Fresh.read = 0 /\ Fresh.shown = {}
        BY DEF Fresh, FilterR
      <3> QED
        BY <1>1, <1>3, <3>1 DEF FilterT
    <2>2. page \in PageT
      BY <1>1, <1>4 DEF PageT, Blank, Views
    <2>3. stream \in StreamsT /\ remote \in [pc : RemotePcs, sent : 0..Len(text)]
      BY <1>1, <1>3 DEF StreamsT, Stages, RemotePcs
    <2>4. pc \in Pcs /\ link \in Links
      BY <1>1 DEF Pcs, Links
    <2>5. Len(scan) <= Part /\ Len(buffer) <= 1
      BY <1>1, <1>4, PartAssumption
    <2> QED
      BY <1>1, <1>4, <2>1, <2>2, <2>3, <2>4, <2>5 DEF Shape
  <1>6. Modes
    BY <1>1 DEF Modes, Unasked, LocalPcs
  <1>7. Quiet
    BY <1>1 DEF Quiet, Waiting, Blank
  <1>8. Proxied /\ Over
    BY <1>1 DEF Proxied, Over, EarlyFailureIsShown, HealthyStreamFinishes
  <1> QED
    BY <1>2, <1>5, <1>6, <1>7, <1>8 DEF Inv

\* A step of the generator keeps the types.
LEMMA ShapeKept ==
  ASSUME Shape, UNCHANGED <<request, text, remote, wire, scan, buffer, link, saw_done, answered>>,
         pc' \in Pcs, FilterT(text, filter'), stream' \in StreamsT, page' \in PageT,
         failed' \in BOOLEAN
  PROVE  Shape'
  BY DEF Shape, StreamsT

\* A step that stays before the end and the proxy's loop.
LEMMA GoesOn ==
  ASSUME Inv, pc \notin {"proxy", "over"}, pc' \in Pcs \ {"proxy", "over"},
         UNCHANGED <<request, text, remote, wire, scan, buffer, link, saw_done, answered, failed>>,
         FilterT(text, filter'), stream' \in StreamsT, stream'.stage = "open",
         page' \in PageT, Waiting(page'),
         pc' \in LocalPcs => Local, pc' \in {"collect", "connect"} => ~Local,
         pc' \in Before => pc \in Before /\ ~page'.content /\ stream'.seen = {},
         pc' = "finish" => page'.content
  PROVE  Inv'
  <1>1. Shape'
    BY ShapeKept DEF Inv, Shape
  <1>2. Request'
    BY DEF Inv, Request
  <1>3. Unasked' <=> Unasked
    BY DEF Unasked
  <1>4. Local' <=> Local
    BY DEF Local
  <1>5. Modes'
    <2>1. pc' \in LocalPcs => Local'
      BY <1>4
    <2>2. pc' \in {"collect", "connect", "proxy"} => ~Local'
      BY <1>4
    <2>3. Local' \/ pc' \in Before => Unasked'
      BY <1>3, <1>4 DEF Inv, Modes
    <2> QED
      BY <2>1, <2>2, <2>3 DEF Modes
  <1>6. Quiet'
    <2>1. ~failed'
      BY DEF Inv, Quiet
    <2>2. Waiting(page')
      OBVIOUS
    <2> QED
      BY <2>1, <2>2 DEF Quiet
  <1>7. Proxied' /\ Over'
    BY DEF Proxied, Over, EarlyFailureIsShown, HealthyStreamFinishes
  <1> QED
    BY <1>1, <1>2, <1>5, <1>6, <1>7 DEF Inv

\* A step that ends the response.
LEMMA EndsInv ==
  ASSUME Inv, pc' = "over", UNCHANGED <<request, text>>, Shape', Local => Unasked', Over'
  PROVE  Inv'
  <1>1. Request'
    BY DEF Inv, Request
  <1>2. Modes'
    <2>1. Local' <=> Local
      BY DEF Local
    <2> QED
      BY <2>1 DEF Modes, LocalPcs, Before
  <1>3. Quiet' /\ Proxied'
    BY DEF Quiet, Proxied
  <1> QED
    BY <1>1, <1>2, <1>3 DEF Inv

\* Before the end and the loop of the proxy nothing was asked or went wrong.
LEMMA EarlyUnasked ==
  ASSUME Inv, pc \notin {"proxy", "over"}
  PROVE  Unasked /\ ~failed /\ stream.stage = "open" /\ Waiting(page) /\ page \in PageT
         /\ FilterT(text, filter) /\ stream \in StreamsT /\ Len(text) \in Nat
  <1>1. pc \in LocalPcs \/ pc \in Before
    BY DEF Inv, Shape, Pcs, LocalPcs, Before
  <1>2. Unasked
    BY <1>1 DEF Inv, Modes
  <1> QED
    BY <1>2, ReadRequest DEF Inv, Quiet, Shape

\* An end that shows what went wrong.
LEMMA FailsInv ==
  ASSUME Inv, pc \notin {"proxy", "over"}, pc' = "over",
         UNCHANGED <<request, text, filter, remote, wire, scan, buffer, link, saw_done, answered>>,
         stream' \in StreamsT, page' \in PageT, failed' = TRUE,
         page'.told \/ page'.view \in {"error", "no response", "connection error"}
  PROVE  Inv'
  <1>1. Unasked /\ FilterT(text, filter)
    BY EarlyUnasked
  <1>2. Shape'
    BY <1>1, ShapeKept DEF Inv, Pcs
  <1>3. Unasked'
    BY <1>1 DEF Unasked
  <1>4. Over'
    <2>1. EarlyFailureIsShown'
      BY DEF EarlyFailureIsShown, ErrorIsVisible
    <2>2. HealthyStreamFinishes'
      BY DEF HealthyStreamFinishes
    <2>3. remote'.pc = "none"
      <3>1. remote.pc = "none"
        BY <1>1 DEF Unasked
      <3>2. remote' = remote
        OBVIOUS
      <3> QED
        BY <3>1, <3>2, Zenon
    <2> QED
      BY <2>1, <2>2, <2>3 DEF Over
  <1> QED
    BY <1>2, <1>3, <1>4, EndsInv

\* An end of the stream is one of its stages.
LEMMA StreamEnds ==
  ASSUME stream \in StreamsT, NEW stage \in Stages
  PROVE  [stream EXCEPT !.stage = stage] \in StreamsT
  BY DEF StreamsT

\* An exception that nothing catches.
LEMMA BreakOffInv ==
  ASSUME Inv, pc \notin {"proxy", "over"}, BreakOff,
         UNCHANGED <<request, text, filter, remote, wire, scan, buffer, link, saw_done, answered>>
  PROVE  Inv'
  <1>1. page \in PageT /\ stream \in StreamsT
    BY DEF Inv, Shape
  <1>2. /\ page' = Closed(page, TRUE) /\ pc' = "over" /\ failed' = TRUE
        /\ stream' = [stream EXCEPT !.stage = "cut"]
    BY DEF BreakOff
  <1>3. page' \in PageT /\ page'.view = "connection error"
    BY <1>1, <1>2, ClosedIs
  <1>4. stream' \in StreamsT
    BY <1>1, <1>2, StreamEnds DEF Stages
  <1> QED
    BY <1>2, <1>3, <1>4, FailsInv

\* The kinds that are said at the end of a response.
LEMMA FailLastInv ==
  ASSUME NEW kinds \in Seq(Kinds), NEW i \in 1..Len(kinds), Inv, pc \notin {"proxy", "over"},
         SayLast(kinds), stream' = Failed, failed' = TRUE,
         kinds[i] = "sorry" \/ (kinds[i] = "error" /\ ~page.content /\ \A j \in 1..Len(kinds) : kinds[j] \notin Content),
         UNCHANGED <<request, text, filter, remote, wire, scan, buffer, link, saw_done, answered>>
  PROVE  Inv'
  <1>1. page \in PageT /\ stream \in StreamsT /\ page.block = <<>>
    BY EarlyUnasked DEF Waiting
  <1>2. stream' \in StreamsT
    BY <1>1, StreamEnds DEF Failed, Stages
  <1>3. /\ pc' = "over" /\ page' \in PageT
        /\ page'.content <=> page.content \/ \E j \in 1..Len(kinds) : kinds[j] \in Content
        /\ page'.told <=> page.told \/ \E j \in 1..Len(kinds) : kinds[j] = "sorry"
        /\ page'.error <=> page.error \/ \E j \in 1..Len(kinds) : kinds[j] = "error"
        /\ page'.view = IF page'.content THEN "answer"
                        ELSE IF page'.error THEN "error" ELSE "no response"
    BY <1>1, SayLastIs
  <1>4. CASE kinds[i] = "sorry"
    BY <1>2, <1>3, <1>4, FailsInv
  <1>5. CASE kinds[i] = "error" /\ ~page.content /\ \A j \in 1..Len(kinds) : kinds[j] \notin Content
    <2>1. page'.view = "error"
      BY <1>3, <1>5
    <2> QED
      BY <1>2, <1>3, <2>1, FailsInv
  <1> QED
    BY <1>4, <1>5

\* The freshness check, in each of its outcomes.
LEMMA CheckFreshnessInv ==
  ASSUME NEW outcome \in Outcomes, Inv, CheckFreshness(outcome)
  PROVE  Inv'
  <1>1. /\ pc = "freshness"
        /\ UNCHANGED <<request, text, filter, remote, wire, scan, buffer, link, saw_done, answered>>
    BY DEF CheckFreshness, proxy
  <1>2. /\ Unasked /\ ~failed /\ stream.stage = "open" /\ Waiting(page) /\ page \in PageT
        /\ FilterT(text, filter) /\ stream \in StreamsT
        /\ ~page.content /\ stream.seen = {} /\ page.block = <<>>
    BY <1>1, EarlyUnasked DEF Inv, Quiet, Waiting, Before
  <1>3. CASE outcome \in {"fresh", "refreshed"}
    <2> DEFINE kinds == IF outcome = "refreshed" THEN <<"status">> ELSE <<>>
    <2>1. /\ pc' = IF Local THEN "analyze" ELSE "collect"
          /\ Say(kinds) /\ UNCHANGED <<stream, failed>>
      BY <1>3 DEF CheckFreshness
    <2>2. kinds \in Seq(Kinds) /\ \A j \in 1..Len(kinds) : kinds[j] = "status"
      <3>1. "status" \in Kinds
        BY DEF Kinds
      <3>2. CASE outcome = "refreshed"
        <4>1. kinds = <<"status">>
          BY <3>2
        <4> HIDE DEF kinds
        <4> QED
          BY <3>1, <4>1, Literals
      <3>3. CASE outcome # "refreshed"
        <4>1. kinds = <<>>
          BY <3>3
        <4> HIDE DEF kinds
        <4> QED
          BY <4>1, Literals
      <3> QED
        BY <3>2, <3>3
    <2> HIDE DEF kinds
    <2>3. page' \in PageT /\ Waiting(page') /\ ~page'.content
      BY <1>2, <2>1, <2>2, SayIs DEF Waiting, Content
    <2>4. pc' \in {"analyze", "collect"} /\ (pc' \in LocalPcs => Local) /\ (pc' = "collect" => ~Local)
      BY <2>1 DEF LocalPcs
    <2> QED
      BY <1>1, <1>2, <2>1, <2>3, <2>4, GoesOn DEF Pcs, LocalPcs, Before
  <1>4. CASE outcome = "no index" /\ Local
    <2>1. pc' = "analyze" /\ UNCHANGED <<page, stream, failed>>
      BY <1>4 DEF CheckFreshness
    <2> QED
      BY <1>1, <1>2, <1>4, <2>1, GoesOn DEF Pcs, LocalPcs, Before
  <1>5. CASE outcome = "raised"
    <2>1. BreakOff
      BY <1>5 DEF CheckFreshness
    <2> QED
      BY <1>1, <2>1, BreakOffInv
  <1>6. CASE outcome \notin {"fresh", "refreshed", "raised"} /\ ~(outcome = "no index" /\ Local)
    <2> DEFINE kinds == (IF outcome = "not refreshed" THEN <<"status">> ELSE <<>>)
                         \o (IF Local THEN <<"error", "sorry">> ELSE <<"error">>)
    <2>1. SayLast(kinds) /\ stream' = Failed /\ failed' = TRUE
      BY <1>6 DEF CheckFreshness
    <2>2. /\ kinds \in Seq(Kinds)
          /\ Local => \E i \in 1..Len(kinds) : kinds[i] = "sorry"
          /\ ~Local => /\ \E i \in 1..Len(kinds) : kinds[i] = "error"
                       /\ \A j \in 1..Len(kinds) : kinds[j] \notin Content
      <3> DEFINE a == IF outcome = "not refreshed" THEN <<"status">> ELSE <<>>
                 b == IF Local THEN <<"error", "sorry">> ELSE <<"error">>
      <3>1. /\ a \in Seq(Kinds) /\ b \in Seq(Kinds) /\ Len(a) \in Nat /\ Len(b) \in Nat
            /\ \A j \in 1..Len(a) : a[j] = "status"
            /\ 1 \in 1..Len(b) /\ b[1] = "error"
            /\ Local => 2 \in 1..Len(b) /\ b[2] = "sorry"
            /\ ~Local => Len(b) = 1
        <4>1. {"status", "error", "sorry"} \subseteq Kinds
          BY DEF Kinds
        <4>2. a \in Seq(Kinds) /\ Len(a) \in Nat /\ \A j \in 1..Len(a) : a[j] = "status"
          <5>1. CASE outcome = "not refreshed"
            <6>1. a = <<"status">>
              BY <5>1
            <6> HIDE DEF a
            <6> QED
              BY <4>1, <6>1, Literals
          <5>2. CASE outcome # "not refreshed"
            <6>1. a = <<>>
              BY <5>2
            <6> HIDE DEF a
            <6> QED
              BY <6>1, Literals
          <5> QED
            BY <5>1, <5>2
        <4>3. CASE Local
          <5>1. b = <<"error", "sorry">>
            BY <4>3
          <5> HIDE DEF a, b
          <5> QED
            BY <4>1, <4>2, <4>3, <5>1, Literals
        <4>4. CASE ~Local
          <5>1. b = <<"error">>
            BY <4>4
          <5> HIDE DEF a, b
          <5> QED
            BY <4>1, <4>2, <4>4, <5>1, Literals
        <4> QED
          BY <4>3, <4>4
      <3> HIDE DEF a, b
      <3>2. /\ a \o b \in Seq(Kinds) /\ Len(a \o b) = Len(a) + Len(b)
            /\ \A j \in 1..Len(a) : (a \o b)[j] = a[j]
            /\ \A j \in 1..Len(b) : Len(a) + j \in 1..Len(a \o b) /\ (a \o b)[Len(a) + j] = b[j]
            /\ \A j \in 1..Len(a \o b) : j \in 1..Len(a) \/ j - Len(a) \in 1..Len(b)
        BY <3>1
      <3>3. ~Local => \A j \in 1..Len(a \o b) : (a \o b)[j] \in {"status", "error"}
        <4>1. ASSUME ~Local, NEW j \in 1..Len(a \o b) PROVE (a \o b)[j] \in {"status", "error"}
          <5>1. CASE j \in 1..Len(a)
            BY <3>1, <3>2, <5>1
          <5>2. CASE j - Len(a) \in 1..Len(b)
            <6>1. (a \o b)[Len(a) + (j - Len(a))] = b[j - Len(a)] /\ Len(a) + (j - Len(a)) = j
              BY <3>1, <3>2, <5>2
            <6>2. j - Len(a) \in 1..1
              <7>1. Len(b) = 1
                BY <3>1, <4>1
              <7> QED
                BY <5>2, <7>1
            <6> QED
              BY <3>1, <6>1, <6>2
          <5> QED
            BY <3>2, <5>1, <5>2
        <4> QED
          BY <4>1
      <3>4. "status" \notin Content /\ "error" \notin Content
        BY DEF Content
      <3>5. /\ Local => \E i \in 1..Len(a \o b) : (a \o b)[i] = "sorry"
            /\ ~Local => \E i \in 1..Len(a \o b) : (a \o b)[i] = "error"
        BY <3>1, <3>2
      <3>6. kinds = a \o b
        BY DEF a, b
      <3> HIDE DEF kinds
      <3> QED
        BY <3>2, <3>3, <3>4, <3>5, <3>6
    <2> HIDE DEF kinds
    <2>3. PICK i \in 1..Len(kinds) :
            \/ kinds[i] = "sorry"
            \/ kinds[i] = "error" /\ ~page.content /\ \A j \in 1..Len(kinds) : kinds[j] \notin Content
      BY <1>2, <2>2
    <2> QED
      BY <1>1, <2>1, <2>2, <2>3, FailLastInv
  <1> QED
    BY <1>3, <1>4, <1>5, <1>6 DEF Outcomes

\* What is shown stays within the text.
LEMMA SeenType ==
  ASSUME stream \in StreamsT, NEW seen, seen \subseteq 1..Len(text)
  PROVE  /\ [stream EXCEPT !.seen = seen] \in StreamsT
         /\ [stream EXCEPT !.seen = seen].stage = stream.stage
  BY DEF StreamsT

\* What the filter has shown is what the response may have said.
LEMMA ShownType ==
  ASSUME NEW s, Len(text) \in Nat, FilterT(text, s)
  PROVE  s.shown \subseteq 1..Len(text)
  <1>1. /\ s.base \in Nat /\ s.read \in Nat /\ s.base <= s.read /\ s.read <= Len(text)
        /\ s.shown \subseteq 1..s.base
    BY DEF FilterT, FilterR
  <1> QED
    BY <1>1

\* What is said on the way leaves the page waiting.
LEMMA SaidSome ==
  ASSUME NEW kinds \in Seq(Kinds), Inv, pc \notin {"proxy", "over"}, Say(kinds),
         \A j \in 1..Len(kinds) : kinds[j] # "sorry" /\ kinds[j] # "error"
  PROVE  /\ page' \in PageT /\ Waiting(page')
         /\ page'.content <=> page.content \/ \E j \in 1..Len(kinds) : kinds[j] \in Content
  <1>1. page \in PageT /\ page.block = <<>> /\ ~page.error /\ ~page.told /\ page.view = "waiting"
    BY EarlyUnasked DEF Waiting
  <1> QED
    BY <1>1, SayIs DEF Waiting

\* With one event.
LEMMA SaidOne ==
  ASSUME NEW a \in Kinds \ {"sorry", "error"}, Inv, pc \notin {"proxy", "over"}, Say(<<a>>)
  PROVE  page' \in PageT /\ Waiting(page')
  <1> DEFINE kinds == <<a>>
  <1>1. kinds \in Seq(Kinds) /\ Len(kinds) = 1 /\ kinds[1] = a /\ Say(kinds)
    BY Literals
  <1> HIDE DEF kinds
  <1>2. \A j \in 1..Len(kinds) : kinds[j] # "sorry" /\ kinds[j] # "error"
    BY <1>1
  <1> QED
    BY <1>1, <1>2, SaidSome

\* With two.
LEMMA SaidTwo ==
  ASSUME NEW a \in Kinds \ {"sorry", "error"}, NEW b \in Kinds \ {"sorry", "error"},
         Inv, pc \notin {"proxy", "over"}, Say(<<a, b>>)
  PROVE  page' \in PageT /\ Waiting(page') /\ (b \in Content => page'.content)
  <1> DEFINE kinds == <<a, b>>
  <1>1. kinds \in Seq(Kinds) /\ Len(kinds) = 2 /\ kinds[1] = a /\ kinds[2] = b /\ Say(kinds)
    BY Literals
  <1> HIDE DEF kinds
  <1>2. \A j \in 1..Len(kinds) : kinds[j] # "sorry" /\ kinds[j] # "error"
    BY <1>1
  <1>3. 2 \in 1..Len(kinds)
    BY <1>1
  <1> QED
    BY <1>1, <1>2, <1>3, SaidSome

-----------------------------------------------------------------------------
\* The steps of a local answer.
LEMMA AnalyzeInv ==
  ASSUME NEW hit \in BOOLEAN, Inv, Analyze(hit)
  PROVE  Inv'
  <1>1. /\ pc = "analyze" /\ pc' = IF hit THEN "finish" ELSE "context"
        /\ Say(IF hit THEN <<"status", "answer">> ELSE <<"status">>)
        /\ filter' = IF hit THEN [filter EXCEPT !.base = Len(text), !.read = Len(text),
                                                !.shown = Outside(text, 0, Len(text))]
                     ELSE filter
        /\ stream' = [stream EXCEPT !.seen = filter'.shown]
        /\ UNCHANGED <<request, text, remote, wire, scan, buffer, link, saw_done, answered, failed>>
    BY DEF Analyze, Seen, localVars, proxy
  <1>2. /\ stream.stage = "open" /\ FilterT(text, filter) /\ stream \in StreamsT /\ Len(text) \in Nat
        /\ Local
    BY <1>1, EarlyUnasked DEF Inv, Modes, LocalPcs
  <1>3. FilterT(text, filter')
    BY <1>1, <1>2, HitType
  <1>4. stream' \in StreamsT /\ stream'.stage = "open"
    BY <1>1, <1>2, <1>3, ShownType, SeenType
  <1>5. /\ "status" \in Kinds \ {"sorry", "error"} /\ "answer" \in Kinds \ {"sorry", "error"}
        /\ "answer" \in Content
    BY DEF Kinds, Content
  <1>6. page' \in PageT /\ Waiting(page') /\ (hit => page'.content)
    <2>1. CASE hit
      BY <1>1, <1>5, <2>1, SaidTwo
    <2>2. CASE ~hit
      BY <1>1, <1>5, <2>2, SaidOne
    <2> QED
      BY <2>1, <2>2
  <1>7. /\ pc' \in Pcs \ {"proxy", "over"} /\ pc' \notin {"freshness", "collect", "connect"}
        /\ pc' = "finish" => hit
    BY <1>1 DEF Pcs
  <1> QED
    BY <1>1, <1>2, <1>3, <1>4, <1>6, <1>7, GoesOn DEF Before

\* The context is built.
LEMMA BuildContextInv ==
  ASSUME Inv, BuildContext
  PROVE  Inv'
  <1>1. /\ pc = "context" /\ pc' = "generate" /\ Say(<<"status", "status">>)
        /\ UNCHANGED <<request, text, filter, stream, remote, wire, scan, buffer, link, saw_done,
                       answered, failed>>
    BY DEF BuildContext, localVars, proxy
  <1>2. stream.stage = "open" /\ FilterT(text, filter) /\ stream \in StreamsT /\ Local
    BY <1>1, EarlyUnasked DEF Inv, Modes, LocalPcs
  <1>3. page' \in PageT /\ Waiting(page')
    BY <1>1, SaidTwo DEF Kinds
  <1> QED
    BY <1>1, <1>2, <1>3, GoesOn DEF Pcs, Before

\* A token is filtered.
LEMMA GenerateInv ==
  ASSUME NEW n \in 1..MaxToken, Inv, Generate(n)
  PROVE  Inv'
  <1>1. /\ pc = "generate" /\ pc' = pc /\ filter.read + n <= Len(text)
        /\ filter' = Feed(text, filter, n)
        /\ \/ UNCHANGED <<page, stream>>
           \/ Say(<<"text">>) /\ stream' = [stream EXCEPT !.seen = filter'.shown]
        /\ UNCHANGED <<request, text, remote, wire, scan, buffer, link, saw_done, answered, failed>>
    BY DEF Generate, Seen, localVars, proxy
  <1>2. /\ stream.stage = "open" /\ FilterT(text, filter) /\ stream \in StreamsT /\ Len(text) \in Nat
        /\ Waiting(page) /\ page \in PageT /\ Local
    BY <1>1, EarlyUnasked DEF Inv, Modes, LocalPcs
  <1>3. n \in Nat
    BY PartAssumption
  <1>4. FilterT(text, filter')
    BY <1>1, <1>2, <1>3, FeedType
  <1>5. stream' \in StreamsT /\ stream'.stage = "open"
    BY <1>1, <1>2, <1>4, ShownType, SeenType
  <1>6. page' \in PageT /\ Waiting(page')
    <2>1. CASE page' = page
      BY <1>2, <2>1 DEF Waiting
    <2>2. CASE Say(<<"text">>)
      BY <1>1, <2>2, SaidOne DEF Kinds
    <2> QED
      BY <1>1, <2>1, <2>2
  <1> QED
    BY <1>1, <1>2, <1>4, <1>5, <1>6, GoesOn DEF Pcs, Before

\* The tokens end.
LEMMA EndGenerationInv ==
  ASSUME Inv, EndGeneration
  PROVE  Inv'
  <1> DEFINE a == IF request.edit THEN "answer" ELSE IF filter'.shown # filter.shown THEN "text"
                  ELSE "status"
  <1>1. /\ pc = "generate" /\ pc' = "finish" /\ filter' = Flush(text, filter)
        /\ Say(<<a, "footer">>) /\ stream' = [stream EXCEPT !.seen = filter'.shown]
        /\ UNCHANGED <<request, text, remote, wire, scan, buffer, link, saw_done, answered, failed>>
    BY DEF EndGeneration, Seen, localVars, proxy
  <1>2. /\ stream.stage = "open" /\ FilterT(text, filter) /\ stream \in StreamsT /\ Len(text) \in Nat
        /\ Local
    BY <1>1, EarlyUnasked DEF Inv, Modes, LocalPcs
  <1>3. FilterT(text, filter')
    BY <1>1, <1>2, FlushType
  <1>4. stream' \in StreamsT /\ stream'.stage = "open"
    BY <1>1, <1>2, <1>3, ShownType, SeenType
  <1>5. /\ a \in Kinds \ {"sorry", "error"} /\ "footer" \in Kinds \ {"sorry", "error"}
        /\ "footer" \in Content
    BY DEF Kinds, Content
  <1> HIDE DEF a
  <1>6. page' \in PageT /\ Waiting(page') /\ page'.content
    BY <1>1, <1>5, SaidTwo
  <1> QED
    BY <1>1, <1>2, <1>3, <1>4, <1>6, GoesOn DEF Pcs, Before

\* The marker after a whole answer.
LEMMA FinishInv ==
  ASSUME Inv, Finish
  PROVE  Inv'
  <1>1. /\ pc = "finish" /\ SayLast(<<>>) /\ stream' = [seen |-> stream.seen, stage |-> "finished"]
        /\ UNCHANGED <<request, text, filter, remote, wire, scan, buffer, link, saw_done, answered, failed>>
    BY DEF Finish, Finished, localVars, proxy
  <1>2. /\ ~failed /\ FilterT(text, filter) /\ stream \in StreamsT /\ page \in PageT /\ Unasked
        /\ page.block = <<>> /\ ~page.error /\ page.content /\ Local
    BY <1>1, EarlyUnasked DEF Inv, Modes, LocalPcs, Quiet, Waiting
  <1>3. stream' \in StreamsT /\ stream'.stage = "finished"
    BY <1>1, <1>2 DEF StreamsT, Stages
  <1>4. pc' = "over" /\ page' \in PageT /\ page'.content /\ ~page'.error /\ page'.view = "answer"
    <2> DEFINE kinds == <<>>
    <2>1. kinds \in Seq(Kinds) /\ \A j \in 1..Len(kinds) : FALSE
      OBVIOUS
    <2>2. SayLast(kinds)
      BY <1>1
    <2> HIDE DEF kinds
    <2> QED
      BY <1>2, <2>1, <2>2, SayLastIs
  <1>5. Shape'
    BY <1>1, <1>2, <1>3, <1>4, ShapeKept DEF Inv, Pcs, Shape
  <1>6. Unasked'
    BY <1>1, <1>2 DEF Unasked
  <1>7. Over'
    <2>1. ~failed' /\ Local'
      BY <1>1, <1>2 DEF Local
    <2>2. EarlyFailureIsShown'
      BY <2>1 DEF EarlyFailureIsShown
    <2>3. HealthyStreamFinishes'
      BY <1>3, <1>4, <2>1 DEF HealthyStreamFinishes
    <2>4. remote'.pc = "none"
      <3>1. remote.pc = "none"
        BY <1>2 DEF Unasked
      <3>2. remote' = remote
        BY <1>1
      <3> QED
        BY <3>1, <3>2, Zenon
    <2> QED
      BY <2>2, <2>3, <2>4 DEF Over
  <1> QED
    BY <1>1, <1>4, <1>5, <1>6, <1>7, EndsInv

\* The handler of an exception.
LEMMA RaiseInv ==
  ASSUME Inv, Raise
  PROVE  Inv'
  <1> DEFINE kinds == <<"error", "sorry">>
  <1>1. /\ pc \notin {"proxy", "over"} /\ SayLast(kinds) /\ stream' = Failed /\ failed' = TRUE
        /\ UNCHANGED <<request, text, filter, remote, wire, scan, buffer, link, saw_done, answered>>
    BY DEF Raise, localVars, proxy
  <1>2. kinds \in Seq(Kinds) /\ 2 \in 1..Len(kinds) /\ kinds[2] = "sorry"
    BY DEF Kinds
  <1> HIDE DEF kinds
  <1> QED
    BY <1>1, <1>2, FailLastInv

-----------------------------------------------------------------------------
\* The steps of a remote answer before the remote server is asked.
LEMMA ErrorEnds ==
  ASSUME Inv, pc \in Before, SayLast(<<"error">>), stream' = Failed, failed' = TRUE,
         UNCHANGED <<request, text, filter, remote, wire, scan, buffer, link, saw_done, answered>>
  PROVE  Inv'
  <1> DEFINE kinds == <<"error">>
  <1>1. /\ kinds \in Seq(Kinds) /\ 1 \in 1..Len(kinds) /\ kinds[1] = "error"
        /\ \A j \in 1..Len(kinds) : kinds[j] \notin Content
    BY DEF Kinds, Content
  <1>2. SayLast(kinds)
    OBVIOUS
  <1>3. pc \notin {"proxy", "over"} /\ ~page.content
    BY DEF Inv, Quiet, Before
  <1> HIDE DEF kinds
  <1> QED
    BY <1>1, <1>2, <1>3, FailLastInv

\* The retrieval for the remote server.
LEMMA CollectInv ==
  ASSUME NEW chunks \in Retrieved, Inv, Collect(chunks)
  PROVE  Inv'
  <1>1. /\ pc = "collect"
        /\ UNCHANGED <<request, text, filter, remote, wire, scan, buffer, link, saw_done, answered>>
    BY DEF Collect, sentVars, proxy
  <1>2. CASE chunks # <<>>
    <2>1. pc' = "connect" /\ UNCHANGED <<page, stream, failed>>
      BY <1>2 DEF Collect
    <2>2. /\ stream.stage = "open" /\ Waiting(page) /\ page \in PageT /\ FilterT(text, filter)
          /\ stream \in StreamsT /\ ~page.content /\ stream.seen = {} /\ ~Local
      BY <1>1, EarlyUnasked DEF Inv, Quiet, Before, Modes
    <2> QED
      BY <1>1, <2>1, <2>2, GoesOn DEF Pcs, Before, LocalPcs
  <1>3. CASE chunks = <<>>
    BY <1>1, <1>3, ErrorEnds DEF Collect, Before
  <1> QED
    BY <1>2, <1>3

\* An exception in it.
LEMMA CollectRaisesInv ==
  ASSUME Inv, CollectRaises
  PROVE  Inv'
  BY BreakOffInv DEF CollectRaises, sentVars, proxy

-----------------------------------------------------------------------------
\* What a concatenation consists of.
Joins(u, s, t) ==
    /\ u \in Seq(Units) /\ Len(u) = Len(s) + Len(t)
    /\ Len(s) \in Nat /\ Len(t) \in Nat
    /\ \A i \in 1..Len(s) : u[i] = s[i]
    /\ \A i \in 1..Len(t) : u[Len(s) + i] = t[i]

\* The parts of two joined sequences are where they were.
LEMMA Joined ==
  ASSUME NEW s \in Seq(Units), NEW t \in Seq(Units)
  PROVE  Joins(s \o t, s, t)
  <1>1. /\ s \o t \in Seq(Units) /\ Len(s \o t) = Len(s) + Len(t)
        /\ Len(s) \in Nat /\ Len(t) \in Nat
        /\ \A i \in 1..Len(s) : (s \o t)[i] = s[i]
        /\ \A i \in 1..Len(t) : (s \o t)[Len(s) + i] = t[i]
    OBVIOUS
  <1> QED
    BY <1>1 DEF Joins

\* More events: what was made of the first c units stays.
LEMMA More ==
  ASSUME NEW kinds \in Seq(Kinds), NEW new \in Seq(Kinds)
  PROVE  /\ kinds \o new \in Seq(Kinds) /\ Len(kinds \o new) = Len(kinds) + Len(new)
         /\ Len(kinds) \in Nat /\ Len(new) \in Nat
         /\ \A j \in 1..Len(kinds) : (kinds \o new)[j] = kinds[j]
         /\ \A j \in 1..Len(new) : (kinds \o new)[Len(kinds) + j] = new[j]
  OBVIOUS

\* Their units follow those of the events before.
LEMMA MoreEvents ==
  ASSUME NEW kinds \in Seq(Kinds), NEW new \in Seq(Kinds)
  PROVE  /\ \A i \in 1..(2 * Len(kinds)) : Events(kinds \o new)[i] = Events(kinds)[i]
         /\ \A i \in 1..(2 * Len(new)) :
               Events(kinds \o new)[2 * Len(kinds) + i] = Events(new)[i]
  <1> DEFINE more == kinds \o new
             m == Len(kinds)
  <1>1. /\ more \in Seq(Kinds) /\ Len(more) = m + Len(new) /\ m \in Nat /\ Len(new) \in Nat
        /\ \A j \in 1..m : more[j] = kinds[j]
        /\ \A j \in 1..Len(new) : more[m + j] = new[j]
    BY More
  <1> HIDE DEF more
  <1>2. ASSUME NEW i \in 1..(2 * m) PROVE Events(more)[i] = Events(kinds)[i]
    <2>1. i \in 1..(2 * Len(more)) /\ (i + 1) \div 2 \in 1..m
      BY <1>1
    <2> HIDE DEF m
    <2>2. more[(i + 1) \div 2] = kinds[(i + 1) \div 2]
      BY <1>1, <2>1
    <2>3. Events(more)[i] = <<more[(i + 1) \div 2], 2 - (i % 2)>>
      BY <2>1 DEF Events
    <2>4. Events(kinds)[i] = <<kinds[(i + 1) \div 2], 2 - (i % 2)>>
      BY DEF Events, m
    <2> QED
      BY <2>2, <2>3, <2>4
  <1>3. ASSUME NEW i \in 1..(2 * Len(new)) PROVE Events(more)[2 * m + i] = Events(new)[i]
    <2> HIDE DEF m
    <2>1. /\ 2 * m + i \in 1..(2 * Len(more)) /\ (i + 1) \div 2 \in 1..Len(new)
          /\ (2 * m + i + 1) \div 2 = m + ((i + 1) \div 2) /\ (2 * m + i) % 2 = i % 2
      BY <1>1
    <2>2. more[m + ((i + 1) \div 2)] = new[(i + 1) \div 2]
      BY <1>1, <2>1
    <2>3. Events(more)[2 * m + i] = <<more[(2 * m + i + 1) \div 2], 2 - ((2 * m + i) % 2)>>
      BY <2>1 DEF Events
    <2>4. Events(new)[i] = <<new[(i + 1) \div 2], 2 - (i % 2)>>
      BY DEF Events
    <2> QED
      BY <2>1, <2>2, <2>3, <2>4
  <1> QED
    BY <1>2, <1>3 DEF more

\* What had come has come.
LEMMA MoreCame ==
  ASSUME NEW kinds \in Seq(Kinds), NEW new \in Seq(Kinds), NEW c \in Nat, NEW K, c <= 2 * Len(kinds)
  PROVE  Came(kinds \o new, c, K) <=> Came(kinds, c, K)
  <1> DEFINE more == kinds \o new
  <1>1. /\ Len(more) = Len(kinds) + Len(new) /\ Len(kinds) \in Nat /\ Len(new) \in Nat
        /\ \A j \in 1..Len(kinds) : more[j] = kinds[j]
    BY More
  <1> HIDE DEF more
  <1>2. \A j \in 1..Len(more) : 2 * j <= c => j \in 1..Len(kinds)
    BY <1>1
  <1>3. \A j \in 1..Len(kinds) : j \in 1..Len(more)
    BY <1>1
  <1>4. Came(more, c, K) <=> Came(kinds, c, K)
    BY <1>1, <1>2, <1>3 DEF Came
  <1> QED
    BY <1>4 DEF more

\* What the reader has made of the first c units is told by the longer list too.
LEMMA MoreKept ==
  ASSUME NEW kinds \in Seq(Kinds), NEW new \in Seq(Kinds), NEW c \in Nat, c <= 2 * Len(kinds)
  PROVE  /\ Begun(kinds \o new, c) = Begun(kinds, c)
         /\ \A units : Latest(kinds, c, units) => Latest(kinds \o new, c, units)
         /\ \A p0, p : PageAt(p0, p, kinds, c) => PageAt(p0, p, kinds \o new, c)
         /\ \A s, n, n2 : /\ StreamAt(s, kinds, n, c) /\ n \in Nat /\ n2 \in Nat
                          /\ n2 = n \/ (n = Len(kinds) /\ n <= n2)
                          => StreamAt(s, kinds \o new, n2, c)
  <1> DEFINE more == kinds \o new
             m == 2 * Len(kinds)
  <1>1. \A i \in 1..m : Events(more)[i] = Events(kinds)[i]
    BY MoreEvents
  <1>2. \A K : Came(more, c, K) <=> Came(kinds, c, K)
    BY MoreCame
  <1>3. m \in Nat /\ c <= m /\ m = 2 * Len(kinds) /\ Len(kinds) \in Nat
    OBVIOUS
  <1> HIDE DEF more, m
  <1>4. Begun(more, c) = Begun(kinds, c)
    <2>1. CASE c % 2 = 1
      <3>1. c \in 1..m
        BY <1>3, <2>1
      <3> QED
        BY <1>1, <2>1, <3>1 DEF Begun
    <2>2. CASE c % 2 # 1
      BY <2>2 DEF Begun
    <2> QED
      BY <2>1, <2>2
  <1>5. ASSUME NEW units, Latest(kinds, c, units) PROVE Latest(more, c, units)
    <2>1. /\ units \in Seq(Units) /\ Len(units) = IF c <= Part THEN c ELSE Part
          /\ Len(units) \in Nat /\ Part \in Nat
      BY <1>5, PartAssumption DEF Latest
    <2>2. ASSUME NEW i \in 1..Len(units) PROVE units[i] = Events(more)[c - Len(units) + i]
      <3>1. c - Len(units) + i \in 1..m
        BY <1>3, <2>1
      <3>2. units[i] = Events(kinds)[c - Len(units) + i]
        BY <1>5 DEF Latest
      <3> QED
        BY <1>1, <3>1, <3>2
    <2> QED
      BY <2>1, <2>2 DEF Latest
  <1>6. \A p0, p : PageAt(p0, p, kinds, c) => PageAt(p0, p, more, c)
    BY <1>2, <1>4 DEF PageAt
  <1>7. ASSUME NEW s, NEW n \in Nat, NEW n2 \in Nat, StreamAt(s, kinds, n, c),
               n2 = n \/ (n = Len(kinds) /\ n <= n2)
        PROVE  StreamAt(s, more, n2, c)
    <2>1. PICK k \in Nat : s.seen = 1..k /\ k <= n /\ 2 * k <= c /\ (k = n \/ c <= 2 * k + 1)
      BY <1>7 DEF StreamAt
    <2>2. k <= n2 /\ (k = n2 \/ c <= 2 * k + 1)
      BY <1>3, <1>7, <2>1
    <2> QED
      BY <1>2, <1>7, <2>1, <2>2 DEF StreamAt
  <1>8. \A s, n, n2 : /\ StreamAt(s, kinds, n, c) /\ n \in Nat /\ n2 \in Nat
                      /\ n2 = n \/ (n = Len(kinds) /\ n <= n2)
                      => StreamAt(s, more, n2, c)
    BY <1>7
  <1>9. \A units : Latest(kinds, c, units) => Latest(more, c, units)
    BY <1>5
  <1> QED
    BY <1>4, <1>6, <1>8, <1>9 DEF more

\* What is sent is under way after what was.
LEMMA MoreUpcoming ==
  ASSUME NEW kinds \in Seq(Kinds), NEW new \in Seq(Kinds), NEW c \in Nat, NEW units \in Seq(Units),
         Upcoming(kinds, c, units), c + Len(units) = 2 * Len(kinds)
  PROVE  /\ units \o Events(new) \in Seq(Units)
         /\ Upcoming(kinds \o new, c, units \o Events(new))
         /\ c + Len(units \o Events(new)) = 2 * Len(kinds \o new)
  <1> DEFINE more == kinds \o new
             ev == Events(new)
             all == units \o ev
  <1>1. /\ Len(more) = Len(kinds) + Len(new) /\ Len(kinds) \in Nat /\ Len(new) \in Nat
        /\ \A i \in 1..(2 * Len(kinds)) : Events(more)[i] = Events(kinds)[i]
        /\ \A i \in 1..(2 * Len(new)) : Events(more)[2 * Len(kinds) + i] = ev[i]
    BY More, MoreEvents
  <1>2. ev \in Seq(Units) /\ Len(ev) = 2 * Len(new)
    BY EventsAre
  <1> HIDE DEF more, ev
  <1>3. /\ all \in Seq(Units) /\ Len(all) = Len(units) + Len(ev) /\ Len(units) \in Nat
        /\ Len(ev) \in Nat
        /\ \A i \in 1..Len(units) : all[i] = units[i]
        /\ \A i \in 1..Len(ev) : all[Len(units) + i] = ev[i]
    <2> HIDE DEF all
    <2>1. Joins(units \o ev, units, ev)
      BY <1>2, Joined
    <2>2. Joins(all, units, ev)
      BY <2>1 DEF all
    <2> QED
      BY <2>2 DEF Joins
  <1> HIDE DEF all
  <1> DEFINE nu == Len(units)
             ne == Len(ev)
             nk == Len(kinds)
             nn == Len(new)
  <1>0. /\ Len(all) = nu + ne /\ Len(more) = nk + nn /\ ne = 2 * nn /\ c + nu = 2 * nk
        /\ nu \in Nat /\ ne \in Nat /\ nk \in Nat /\ nn \in Nat
    BY <1>1, <1>2, <1>3
  <1> HIDE DEF nu, ne, nk, nn
  <1>4. c + Len(all) = 2 * Len(more)
    BY <1>0
  <1>5. ASSUME NEW i \in 1..Len(all) PROVE all[i] = Events(more)[c + i]
    <2>1. CASE i <= Len(units)
      <3>1. i \in 1..Len(units) /\ c + i \in 1..(2 * Len(kinds))
        BY <1>1, <1>3, <2>1
      <3>2. units[i] = Events(kinds)[c + i]
        BY <3>1 DEF Upcoming
      <3> QED
        BY <1>1, <1>3, <3>1, <3>2
    <2>2. CASE i > Len(units)
      <3> DEFINE j == i - Len(units)
      <3>0. i \in Nat /\ i <= nu + ne /\ i > nu
        BY <1>0, <2>2 DEF nu
      <3>1. j \in 1..ne /\ j \in 1..(2 * nn) /\ nu + j = i /\ 2 * nk + j = c + i
        <4>1. j \in Nat /\ j >= 1 /\ j <= ne /\ i = nu + j
          BY <1>0, <3>0 DEF nu
        <4> HIDE DEF j
        <4>2. j \in 1..ne
          BY <1>0, <4>1
        <4>3. j \in 1..(2 * nn)
          BY <1>0, <4>2
        <4>4. 2 * nk + j = c + i
          BY <1>0, <4>1
        <4> QED
          BY <4>1, <4>2, <4>3, <4>4
      <3> HIDE DEF j
      <3> USE DEF nu, ne, nk, nn
      <3>2. all[Len(units) + j] = ev[j]
        BY <1>3, <3>1
      <3>3. Events(more)[2 * Len(kinds) + j] = ev[j]
        BY <1>1, <3>1
      <3> QED
        BY <3>1, <3>2, <3>3
    <2> QED
      BY <1>3, <2>1, <2>2
  <1>6. Upcoming(more, c, all)
    <2>1. c + Len(all) <= 2 * Len(more)
      BY <1>1, <1>4
    <2> QED
      BY <1>5, <2>1 DEF Upcoming
  <1> QED
    BY <1>3, <1>4, <1>6 DEF more, all, ev

-----------------------------------------------------------------------------
\* The proxy's loop goes on: what was read and what is under way is told again.
LEMMA LoopGoesOn ==
  ASSUME NEW kinds, NEW c, Inv, ~Local, pc' = "proxy", UNCHANGED <<request, text>>, Shape',
         Track(kinds, c)'
  PROVE  Inv'
  <1>1. Request' /\ ~Local'
    BY DEF Inv, Request, Local
  <1>2. Modes'
    BY <1>1 DEF Modes, LocalPcs, Before
  <1>3. Quiet' /\ Over'
    BY DEF Quiet, Over, EarlyFailureIsShown, HealthyStreamFinishes
  <1>4. Proxied'
    BY DEF Proxied
  <1> QED
    BY <1>1, <1>2, <1>3, <1>4 DEF Inv

\* The request is sent, or fails.
LEMMA ConnectInv ==
  ASSUME NEW ok \in BOOLEAN, Inv, Connect(ok)
  PROVE  Inv'
  <1>1. /\ pc = "connect"
        /\ UNCHANGED <<request, text, filter, wire, scan, buffer, link, saw_done, answered>>
    BY DEF Connect, sentVars, proxy
  <1>2. /\ Unasked /\ ~failed /\ stream.stage = "open" /\ Waiting(page) /\ page \in PageT
        /\ stream \in StreamsT /\ ~page.content /\ stream.seen = {} /\ ~Local
    BY <1>1, EarlyUnasked DEF Inv, Quiet, Before, Modes
  <1>3. CASE ok
    <2>1. /\ pc' = "proxy" /\ remote' = [remote EXCEPT !.pc = "asked"]
          /\ UNCHANGED <<page, stream, failed>>
      BY <1>3 DEF Connect
    <2>2. /\ remote = [pc |-> "none", sent |-> 0] /\ wire = <<>> /\ link = "up"
          /\ scan = <<>> /\ buffer = <<>> /\ saw_done = FALSE /\ answered = FALSE
      BY <1>2 DEF Unasked
    <2>3. remote'.pc = "asked" /\ remote'.sent = 0 /\ remote' \in [pc : RemotePcs, sent : 0..Len(text)]
      <3>1. Len(text) \in Nat
        BY ReadRequest DEF Inv
      <3> QED
        BY <2>1, <2>2, <3>1 DEF RemotePcs
    <2>4. Shape'
      BY <1>1, <2>1, <2>3 DEF Inv, Shape, Pcs, StreamsT
    <2> DEFINE kinds == <<>>
    <2>5. kinds \in Seq(Kinds) /\ Len(kinds) = 0
      OBVIOUS
    <2> HIDE DEF kinds
    <2>6. PiecesSent' = 0
      BY <2>3 DEF PiecesSent
    <2>7. \A K : ~Came(kinds, 0, K)
      BY <2>5 DEF Came
    <2>8. Says(kinds)'
      <3>1. Told(kinds, 0)
        BY <2>5 DEF Told
      <3> QED
        BY <2>3, <2>5, <2>6, <3>1 DEF Says
    <2>9. Begun(kinds, 0) = <<>>
      BY DEF Begun
    <2>10. Upcoming(kinds, 0, wire) /\ Latest(kinds, 0, scan)
      <3>1. wire \in Seq(Units) /\ scan \in Seq(Units) /\ Len(wire) = 0 /\ Len(scan) = 0 /\ 0 <= Part
        BY <2>2, PartAssumption
      <3> QED
        BY <2>5, <3>1 DEF Upcoming, Latest
    <2>11. /\ ~request.edit => PageAt(Blank, page, kinds, 0) /\ StreamAt(stream, kinds, 0, 0)
      <3>1. PageAt(Blank, page, kinds, 0)
        BY <1>2, <2>7, <2>9 DEF PageAt, Waiting, Blank
      <3>2. stream \in StreamT /\ stream.seen = 1..0
        <4>1. stream.seen = 1..0 /\ 0 \in Nat
          BY <1>2
        <4>2. stream.seen \in {1..k : k \in Nat}
          BY <4>1
        <4> QED
          BY <1>2, <4>1, <4>2 DEF StreamT, StreamsT
      <3> QED
        BY <1>2, <2>7, <3>1, <3>2 DEF StreamAt
    <2>12. Track(kinds, 0)'
      <3>1. Upcoming(kinds, 0, wire') /\ Latest(kinds, 0, scan')
        BY <1>1, <2>10
      <3>2. saw_done' <=> Came(kinds, 0, {"done"})
        BY <1>1, <2>2, <2>7
      <3>3. link' = "up" => 0 + Len(wire') = IF kinds = <<"json">> THEN 1 ELSE 2 * Len(kinds)
        <4>1. Len(<<"json">>) = 1
          OBVIOUS
        <4>2. kinds # <<"json">>
          BY <2>5, <4>1
        <4>3. Len(wire') = 0
          BY <1>1, <2>2
        <4> QED
          BY <2>5, <4>2, <4>3
      <3>4. Explained(kinds, 0)'
        BY <1>2, <2>1 DEF Explained
      <3>5. request'.edit => /\ Waiting(page') /\ ~page'.content /\ stream'.seen = {} /\ stream'.stage = "open"
                             /\ buffer' = Begun(kinds, 0) /\ ~Came(kinds, 0, {"error"})
                             /\ answered' <=> Came(kinds, 0, {"answer"})
        BY <1>1, <1>2, <2>1, <2>2, <2>7, <2>9
      <3>6. ~request'.edit => PageAt(Blank, page', kinds, 0) /\ StreamAt(stream', kinds, PiecesSent', 0)
        BY <1>1, <2>1, <2>6, <2>11
      <3> QED
        BY <2>8, <3>1, <3>2, <3>3, <3>4, <3>5, <3>6 DEF Track
    <2> QED
      BY <1>1, <1>2, <2>1, <2>4, <2>12, LoopGoesOn
  <1>4. CASE ~ok
    <2>1. SayLast(<<"error">>) /\ stream' = Failed /\ failed' = TRUE /\ UNCHANGED remote
      BY <1>4 DEF Connect
    <2> QED
      BY <1>1, <2>1, ErrorEnds DEF Before
  <1> QED
    BY <1>3, <1>4

-----------------------------------------------------------------------------
\* The steps of the remote server and of the connection.

\* What is known where the remote server may still send.
LEMMA Serving ==
  ASSUME Inv, remote.pc \in {"asked", "generating"}, link = "up"
  PROVE  /\ pc = "proxy" /\ ~Local /\ ~failed /\ Len(text) \in Nat
         /\ \E kinds, c : /\ Track(kinds, c) /\ Len(kinds) = PiecesSent
                          /\ c + Len(wire) = 2 * Len(kinds)
  <1>1. remote.pc # "none"
    OBVIOUS
  <1>2. ~Unasked
    BY <1>1 DEF Unasked
  <1>3. ~Local /\ pc \notin Before /\ pc \notin LocalPcs
    BY <1>2 DEF Inv, Modes
  <1>4. pc # "over"
    BY DEF Inv, Over
  <1>5. pc = "proxy"
    BY <1>3, <1>4 DEF Inv, Shape, Pcs, Before, LocalPcs
  <1>6. PICK kinds, c : Track(kinds, c)
    BY <1>5 DEF Inv, Proxied
  <1>7. Len(kinds) = PiecesSent /\ Told(kinds, PiecesSent) /\ kinds \in Seq(Kinds)
    BY <1>6 DEF Track, Says
  <1>8. kinds # <<"json">>
    <2> SUFFICES ASSUME kinds = <<"json">> PROVE FALSE
      OBVIOUS
    <2>1. Len(kinds) = 1 /\ kinds[1] = "json"
      OBVIOUS
    <2>2. 1 \in 1..Len(kinds) /\ 1 <= PiecesSent
      BY <1>7, <2>1
    <2> QED
      BY <1>7, <2>1, <2>2 DEF Told
  <1>9. c + Len(wire) = 2 * Len(kinds)
    BY <1>6, <1>8 DEF Track
  <1>10. ~failed
    <2> SUFFICES ASSUME failed PROVE FALSE
      OBVIOUS
    <2>1. Broken(kinds)
      BY <1>6, <1>8 DEF Track, Explained
    <2>2. Len(kinds) = PiecesSent + 2 /\ PiecesSent \in Nat
      BY <1>7, <2>1 DEF Broken, Told
    <2> QED
      BY <1>7, <2>2
  <1> QED
    BY <1>3, <1>5, <1>6, <1>7, <1>9, <1>10, ReadRequest DEF Inv

\* The remote server sends more.
LEMMA SendsInv ==
  ASSUME NEW kinds, NEW c, NEW new \in Seq(Kinds), Inv, pc = "proxy", ~Local, link = "up",
         Track(kinds, c), Len(kinds) = PiecesSent, c + Len(wire) = 2 * Len(kinds),
         UNCHANGED <<request, text, pc, filter, stream, link, scan, buffer, saw_done, answered, page>>,
         Sends(new), remote' \in [pc : RemotePcs, sent : 0..Len(text)], failed' \in BOOLEAN,
         Says(kinds \o new)', Explained(kinds \o new, c)', kinds \o new # <<"json">>,
         PiecesSent' = PiecesSent \/ PiecesSent' = PiecesSent + 1
  PROVE  Inv'
  <1> DEFINE more == kinds \o new
  <1>1. /\ kinds \in Seq(Kinds) /\ c \in Nat /\ PiecesSent \in Nat /\ Len(kinds) \in Nat
        /\ Upcoming(kinds, c, wire) /\ Latest(kinds, c, scan) /\ wire \in Seq(Units)
        /\ saw_done <=> Came(kinds, c, {"done"})
    BY DEF Track, Says, Told, Inv, Shape
  <1>2. c <= 2 * Len(kinds)
    BY <1>1
  <1>3. /\ wire' \in Seq(Units) /\ Upcoming(more, c, wire') /\ c + Len(wire') = 2 * Len(more)
    BY <1>1, MoreUpcoming DEF Sends
  <1>4. \A K : Came(more, c, K) <=> Came(kinds, c, K)
    BY <1>1, <1>2, MoreCame
  <1>5. /\ Begun(more, c) = Begun(kinds, c)
        /\ \A units : Latest(kinds, c, units) => Latest(more, c, units)
        /\ \A p0, p : PageAt(p0, p, kinds, c) => PageAt(p0, p, more, c)
        /\ \A s, n, n2 : /\ StreamAt(s, kinds, n, c) /\ n \in Nat /\ n2 \in Nat
                         /\ n2 = n \/ (n = Len(kinds) /\ n <= n2)
                         => StreamAt(s, more, n2, c)
    BY <1>1, <1>2, MoreKept
  <1> HIDE DEF more
  <1>6. Shape'
    BY <1>3 DEF Inv, Shape, StreamsT
  <1>7. Track(more, c)'
    <2>1. Says(more)' /\ Explained(more, c)' /\ more # <<"json">>
      BY DEF more
    <2>2. Latest(more, c, scan')
      BY <1>1, <1>5
    <2>3. saw_done' <=> Came(more, c, {"done"})
      BY <1>1, <1>4
    <2>4. link' = "up" => c + Len(wire') = IF more = <<"json">> THEN 1 ELSE 2 * Len(more)
      BY <1>3, <2>1
    <2>5. request'.edit => /\ Waiting(page') /\ ~page'.content /\ stream'.seen = {} /\ stream'.stage = "open"
                           /\ buffer' = Begun(more, c) /\ ~Came(more, c, {"error"})
                           /\ answered' <=> Came(more, c, {"answer"})
      BY <1>4, <1>5 DEF Track
    <2>6. ~request'.edit => PageAt(Blank, page', more, c) /\ StreamAt(stream', more, PiecesSent', c)
      <3> SUFFICES ASSUME ~request.edit
                   PROVE  PageAt(Blank, page, more, c) /\ StreamAt(stream, more, PiecesSent', c)
        OBVIOUS
      <3>1. PageAt(Blank, page, kinds, c) /\ StreamAt(stream, kinds, PiecesSent, c)
        BY DEF Track
      <3>2. /\ PiecesSent' \in Nat
            /\ PiecesSent' = PiecesSent \/ (PiecesSent = Len(kinds) /\ PiecesSent <= PiecesSent')
        BY <1>1
      <3> QED
        BY <1>1, <1>5, <3>1, <3>2
    <2> QED
      BY <1>1, <1>3, <2>1, <2>2, <2>3, <2>4, <2>5, <2>6 DEF Track
  <1> QED
    BY <1>6, <1>7, LoopGoesOn

\* The pieces come before the events that end the answer.
LEMMA ToldMore ==
  ASSUME NEW kinds \in Seq(Kinds), NEW new \in Seq(Kinds), NEW n, NEW m \in Nat,
         Told(kinds, n), Len(kinds) = n, n <= m, m <= n + Len(new),
         \A j \in 1..Len(new) : new[j] = "text" <=> n + j <= m,
         \A j \in 1..Len(new) : new[j] = "done" => j = Len(new)
  PROVE  Told(kinds \o new, m)
  <1> DEFINE more == kinds \o new
  <1>1. /\ Len(more) = n + Len(new) /\ n \in Nat /\ Len(new) \in Nat
        /\ \A j \in 1..n : more[j] = kinds[j]
        /\ \A j \in 1..Len(new) : more[n + j] = new[j]
    BY More
  <1> HIDE DEF more
  <1>2. ASSUME NEW j \in 1..Len(more)
        PROVE  (more[j] = "text" <=> j <= m) /\ (more[j] = "done" => j = Len(more))
    <2>1. CASE j <= n
      <3>1. j \in 1..n /\ j <= m
        BY <1>1, <2>1
      <3>2. kinds[j] = "text"
        BY <3>1 DEF Told
      <3> QED
        BY <1>1, <3>1, <3>2
    <2>2. CASE j > n
      <3> DEFINE i == j - n
      <3>1. i \in 1..Len(new) /\ n + i = j
        BY <1>1, <2>2
      <3> HIDE DEF i
      <3>2. more[j] = new[i]
        BY <1>1, <3>1
      <3>3. /\ new[i] = "text" <=> j <= m
            /\ new[i] = "done" => i = Len(new)
        BY <3>1
      <3> QED
        BY <1>1, <3>1, <3>2, <3>3
    <2> QED
      BY <1>1, <2>1, <2>2
  <1> QED
    BY <1>1, <1>2 DEF Told, more

\* The piece of the answer, or nothing, that a token makes.
LEMMA RemoteGenerateInv ==
  ASSUME Inv, RemoteGenerate
  PROVE  Inv'
  <1>1. /\ remote.pc = "generating" /\ link = "up" /\ remote.sent < Len(text)
        /\ remote' = [remote EXCEPT !.sent = @ + 1]
        /\ Sends(IF request.edit THEN <<>> ELSE <<"text">>)
        /\ UNCHANGED <<request, text, pc, filter, stream, link, scan, buffer, saw_done, answered, page, failed>>
    BY DEF RemoteGenerate, remoteVars, proxy
  <1>2. /\ pc = "proxy" /\ ~Local /\ ~failed /\ Len(text) \in Nat
    BY <1>1, Serving
  <1>3. PICK kinds, c : Track(kinds, c) /\ Len(kinds) = PiecesSent /\ c + Len(wire) = 2 * Len(kinds)
    BY <1>1, Serving
  <1>4. kinds \in Seq(Kinds) /\ Told(kinds, PiecesSent) /\ PiecesSent \in Nat /\ request.edit \in BOOLEAN
    BY <1>3, ReadRequest DEF Track, Says, Told, Inv
  <1>5. /\ remote'.pc = "generating" /\ remote'.sent = remote.sent + 1 /\ remote.sent \in Nat
        /\ remote' \in [pc : RemotePcs, sent : 0..Len(text)]
    BY <1>1, <1>2 DEF Inv, Shape, RemotePcs
  <1>6. PICK new \in Seq(Kinds) :
           /\ Sends(new) /\ PiecesSent' = PiecesSent + Len(new)
           /\ PiecesSent' = PiecesSent \/ PiecesSent' = PiecesSent + 1
           /\ Len(new) \in Nat /\ \A j \in 1..Len(new) : new[j] = "text"
    <2>1. CASE request.edit
      <3> DEFINE none == <<>>
      <3>1. Sends(none) /\ PiecesSent' = 0 /\ PiecesSent = 0
        BY <1>1, <2>1 DEF PiecesSent
      <3>2. none \in Seq(Kinds) /\ Len(none) = 0
        BY Literals
      <3> HIDE DEF none
      <3>3. /\ PiecesSent' = PiecesSent + Len(none) /\ PiecesSent' = PiecesSent
            /\ Len(none) \in Nat /\ \A j \in 1..Len(none) : none[j] = "text"
        BY <3>1, <3>2
      <3> QED
        BY <3>1, <3>2, <3>3, Zenon
    <2>2. CASE ~request.edit
      <3> DEFINE one == <<"text">>
      <3>1. Sends(one) /\ PiecesSent' = PiecesSent + 1
        BY <1>1, <1>5, <2>2 DEF PiecesSent
      <3>2. one \in Seq(Kinds) /\ Len(one) = 1 /\ one[1] = "text"
        BY Literals DEF Kinds
      <3> HIDE DEF one
      <3>3. /\ PiecesSent' = PiecesSent + Len(one) /\ Len(one) \in Nat
            /\ \A j \in 1..Len(one) : one[j] = "text"
        BY <1>4, <3>1, <3>2
      <3> QED
        BY <3>1, <3>2, <3>3, Zenon
    <2> QED
      BY <1>4, <2>1, <2>2
  <1>7. Told(kinds \o new, PiecesSent') /\ kinds \o new \in Seq(Kinds) /\ Len(kinds \o new) = PiecesSent'
    <2>1. \A j \in 1..Len(new) : new[j] = "text" <=> PiecesSent + j <= PiecesSent'
      BY <1>4, <1>6
    <2>2. \A j \in 1..Len(new) : new[j] = "done" => j = Len(new)
      BY <1>6
    <2>3. PiecesSent' \in Nat /\ PiecesSent <= PiecesSent' /\ PiecesSent' <= PiecesSent + Len(new)
      BY <1>4, <1>6
    <2>4. Told(kinds \o new, PiecesSent')
      BY <1>3, <1>4, <1>6, <2>1, <2>2, <2>3, ToldMore
    <2> QED
      BY <1>3, <1>4, <1>6, <2>4, More
  <1>8. Says(kinds \o new)'
    BY <1>5, <1>7 DEF Says
  <1>9. Explained(kinds \o new, c)' /\ failed' \in BOOLEAN
    <2>1. ~failed' /\ failed' \in BOOLEAN
      BY <1>1, <1>2 DEF Inv, Shape
    <2> QED
      BY <2>1 DEF Explained
  <1>10. kinds \o new # <<"json">>
    <2> DEFINE more == kinds \o new
    <2>1. Told(more, Len(more)) /\ Len(more) \in Nat
      BY <1>4, <1>6, <1>7
    <2> HIDE DEF more
    <2>2. more # <<"json">>
      <3> SUFFICES ASSUME more = <<"json">> PROVE FALSE
        OBVIOUS
      <3>1. Len(more) = 1 /\ more[1] = "json"
        OBVIOUS
      <3>2. 1 \in 1..Len(more) /\ 1 <= Len(more)
        BY <3>1
      <3>3. more[1] = "text"
        BY <2>1, <3>2 DEF Told
      <3> QED
        BY <3>1, <3>3
    <2> QED
      BY <2>2 DEF more
  <1> QED
    BY <1>1, <1>2, <1>3, <1>5, <1>6, <1>8, <1>9, <1>10, SendsInv

\* The events that end a stream of the remote server.
LEMMA ClosesInv ==
  ASSUME NEW new \in Seq(Kinds), Inv, remote.pc = "generating", link = "up",
         remote' = [remote EXCEPT !.pc = "closed"], Sends(new), failed' \in BOOLEAN,
         UNCHANGED <<request, text, pc, filter, stream, link, scan, buffer, saw_done, answered, page>>,
         \A j \in 1..Len(new) : new[j] # "text" /\ (new[j] = "done" => j = Len(new)),
         \/ /\ Len(new) = 2 /\ new[1] = "error" /\ new[2] = "done" /\ failed'
         \/ /\ remote.sent = Len(text) /\ failed' = failed
            /\ IF request.edit THEN Len(new) = 2 /\ new[1] = "answer" /\ new[2] = "done"
               ELSE Len(new) = 1 /\ new[1] = "done"
  PROVE  Inv'
  <1>2. /\ pc = "proxy" /\ ~Local /\ ~failed /\ Len(text) \in Nat
    BY Serving
  <1>3. PICK kinds, c : Track(kinds, c) /\ Len(kinds) = PiecesSent /\ c + Len(wire) = 2 * Len(kinds)
    BY Serving
  <1> DEFINE more == kinds \o new
             n == PiecesSent
  <1>4. kinds \in Seq(Kinds) /\ Told(kinds, n) /\ n \in Nat /\ request.edit \in BOOLEAN
    BY <1>3, ReadRequest DEF Track, Says, Told, Inv
  <1>5. /\ remote'.pc = "closed" /\ remote'.sent = remote.sent
        /\ remote' \in [pc : RemotePcs, sent : 0..Len(text)]
    BY DEF Inv, Shape, RemotePcs
  <1>6. PiecesSent' = PiecesSent
    BY <1>5 DEF PiecesSent
  <1>7. Told(more, n) /\ more \in Seq(Kinds) /\ Len(more) = n + Len(new) /\ Len(new) \in Nat
        /\ \A j \in 1..Len(new) : more[n + j] = new[j]
    <2>1. Len(new) \in Nat /\ \A j \in 1..Len(new) : new[j] = "text" <=> n + j <= n
      <3>1. Len(new) \in Nat
        OBVIOUS
      <3>2. \A j \in 1..Len(new) : ~(n + j <= n)
        BY <1>4, <3>1
      <3> QED
        BY <3>1, <3>2
    <2>2. n <= n /\ n <= n + Len(new)
      BY <1>4, <2>1
    <2>3. Told(more, n)
      BY <1>3, <1>4, <2>1, <2>2, ToldMore
    <2> QED
      BY <1>3, <1>4, <2>3, More
  <1>8. (Broken(more)' /\ failed') \/ (Complete(more)' /\ failed' = failed)
    <2>1. CASE Len(new) = 2 /\ new[1] = "error" /\ new[2] = "done" /\ failed'
      <3>1. Len(more) = n + 2 /\ 1 \in 1..Len(new) /\ 2 \in 1..Len(new)
        BY <1>7, <2>1
      <3>2. more[n + 1] = "error" /\ more[n + 2] = "done"
        BY <1>7, <2>1, <3>1
      <3> HIDE DEF more
      <3> QED
        BY <1>6, <2>1, <3>1, <3>2 DEF Broken
    <2>2. CASE /\ remote.sent = Len(text) /\ failed' = failed
               /\ IF request.edit THEN Len(new) = 2 /\ new[1] = "answer" /\ new[2] = "done"
                  ELSE Len(new) = 1 /\ new[1] = "done"
      <3>1. CASE request.edit
        <4>1. n = 0 /\ Len(new) = 2 /\ new[1] = "answer" /\ new[2] = "done"
          BY <2>2, <3>1 DEF PiecesSent
        <4>2. 1 \in 1..Len(new) /\ 2 \in 1..Len(new) /\ n + 1 = 1 /\ n + 2 = 2
          BY <4>1
        <4>3. Len(more) = 2 /\ more[1] = "answer" /\ more[2] = "done"
          <5> HIDE DEF more
          <5>1. more[n + 1] = new[1] /\ more[n + 2] = new[2] /\ Len(more) = n + 2
            BY <1>7, <4>1, <4>2
          <5> QED
            BY <4>1, <4>2, <5>1
        <4> HIDE DEF more
        <4> QED
          BY <1>5, <2>2, <3>1, <4>3 DEF Complete
      <3>2. CASE ~request.edit
        <4> HIDE DEF more
        <4>0. Len(new) = 1 /\ new[1] = "done"
          BY <2>2, <3>2
        <4>1. Len(new) = 1 /\ new[1] = "done" /\ 1 \in 1..Len(new)
          BY <4>0
        <4>2. Len(more) = n + 1 /\ more[n + 1] = "done"
          BY <1>7, <4>1
        <4> HIDE DEF more
        <4> QED
          BY <1>5, <1>6, <2>2, <3>2, <4>2 DEF Complete
      <3> QED
        BY <3>1, <3>2
    <2> QED
      BY <2>1, <2>2
  <1>9. more[Len(more)] = "done"
    BY <1>4, <1>6, <1>7, <1>8, <1>5 DEF Broken, Complete, PiecesSent
  <1>10. more # <<"json">>
    <2> HIDE DEF more
    <2> SUFFICES ASSUME more = <<"json">> PROVE FALSE
      OBVIOUS
    <2>1. Len(more) = 1 /\ more[1] = "json"
      OBVIOUS
    <2> QED
      BY <1>9, <2>1
  <1>11. Says(more)'
    <2> HIDE DEF more
    <2> QED
      BY <1>5, <1>6, <1>7, <1>8 DEF Says
  <1>12. Explained(more, c)'
    <2> HIDE DEF more
    <2>1. Broken(more)' \/ ~failed'
      BY <1>2, <1>8
    <2> QED
      BY <2>1 DEF Explained
  <1> QED
    BY <1>2, <1>3, <1>5, <1>6, <1>10, <1>11, <1>12, SendsInv

\* The remote answer ends.
LEMMA RemoteEndInv ==
  ASSUME Inv, RemoteEnd
  PROVE  Inv'
  <1> DEFINE new == IF request.edit THEN <<"answer", "done">> ELSE <<"done">>
  <1>1. /\ remote.pc = "generating" /\ link = "up" /\ remote.sent = Len(text)
        /\ remote' = [remote EXCEPT !.pc = "closed"] /\ Sends(new)
        /\ UNCHANGED <<request, text, pc, filter, stream, link, scan, buffer, saw_done, answered, page, failed>>
    BY DEF RemoteEnd, remoteVars, proxy
  <1>2. {"answer", "done"} \subseteq Kinds /\ failed \in BOOLEAN
    BY DEF Kinds, Inv, Shape
  <1>3. CASE request.edit
    <2>1. new = <<"answer", "done">>
      BY <1>3
    <2> HIDE DEF new
    <2>2. new \in Seq(Kinds) /\ Len(new) = 2 /\ new[1] = "answer" /\ new[2] = "done"
      BY <1>2, <2>1, Literals
    <2>3. \A j \in 1..Len(new) : new[j] # "text" /\ (new[j] = "done" => j = Len(new))
      BY <2>2
    <2> QED
      BY <1>1, <1>2, <1>3, <2>2, <2>3, ClosesInv
  <1>4. CASE ~request.edit
    <2>1. new = <<"done">>
      BY <1>4
    <2> HIDE DEF new
    <2>2. new \in Seq(Kinds) /\ Len(new) = 1 /\ new[1] = "done"
      BY <1>2, <2>1, Literals
    <2>3. \A j \in 1..Len(new) : new[j] # "text" /\ (new[j] = "done" => j = Len(new))
      BY <2>2
    <2> QED
      BY <1>1, <1>2, <1>4, <2>2, <2>3, ClosesInv
  <1> QED
    BY <1>3, <1>4

\* The remote server fails.
LEMMA RemoteRaiseInv ==
  ASSUME Inv, RemoteRaise
  PROVE  Inv'
  <1> DEFINE new == <<"error", "done">>
  <1>1. /\ remote.pc = "generating" /\ link = "up" /\ failed' = TRUE
        /\ remote' = [remote EXCEPT !.pc = "closed"] /\ Sends(new)
        /\ UNCHANGED <<request, text, pc, filter, stream, link, scan, buffer, saw_done, answered, page>>
    BY DEF RemoteRaise, remoteVars, proxy
  <1>2. {"error", "done"} \subseteq Kinds
    BY DEF Kinds
  <1>3. new \in Seq(Kinds) /\ Len(new) = 2 /\ new[1] = "error" /\ new[2] = "done"
    BY <1>2, Literals
  <1> HIDE DEF new
  <1>4. \A j \in 1..Len(new) : new[j] # "text" /\ (new[j] = "done" => j = Len(new))
    BY <1>3
  <1> QED
    BY <1>1, <1>3, <1>4, ClosesInv

\* The payload is refused when it asks for no tokens, and only then.
LEMMA AskInv ==
  ASSUME Inv, Collected, Ask
  PROVE  Inv'
  <1> DEFINE valid == Accepts(Payload(found, request.tokens))
  <1>1. /\ remote.pc = "asked" /\ link = "up"
        /\ remote' = [remote EXCEPT !.pc = IF valid THEN "generating" ELSE "closed"]
        /\ wire' = IF valid THEN wire ELSE <<<<"json", 1>>>>
        /\ failed' = (failed \/ request.tokens < 1)
        /\ UNCHANGED <<request, text, pc, filter, stream, link, scan, buffer, saw_done, answered, page>>
    BY DEF Ask, remoteVars, proxy
  <1>2. valid => request.tokens >= 1
    BY DEF Accepts, Payload
  <1>3. request.tokens \in Nat /\ request.edit \in BOOLEAN
    BY ReadRequest DEF Inv
  <1>4. ~valid => request.tokens < 1
    <2> SUFFICES ASSUME request.tokens >= 1 PROVE valid
      BY <1>3
    <2>1. found \in Retrieved \ {<<>>}
      BY <1>1 DEF Collected
    <2>2. found \in Seq(Chunk) /\ found # <<>> /\ request.tokens \in Nat \ {0}
      BY <1>3, <2>1, RetrievedAssumption
    <2> QED
      BY <2>2, PayloadIsSound
  <1> HIDE DEF valid
  <1>5. pc = "proxy" /\ ~Local /\ ~failed /\ Len(text) \in Nat
    BY <1>1, Serving
  <1>6. PICK kinds, c : Track(kinds, c) /\ Len(kinds) = PiecesSent /\ c + Len(wire) = 2 * Len(kinds)
    BY <1>1, Serving
  <1>7. /\ remote'.pc = IF valid THEN "generating" ELSE "closed"
        /\ remote'.sent = remote.sent /\ remote' \in [pc : RemotePcs, sent : 0..Len(text)]
    BY <1>1, <1>5 DEF Inv, Shape, RemotePcs
  <1>8. PiecesSent' = PiecesSent
    BY <1>1, <1>7 DEF PiecesSent
  <1>9. /\ kinds \in Seq(Kinds) /\ c \in Nat /\ Told(kinds, PiecesSent) /\ PiecesSent \in Nat
        /\ Upcoming(kinds, c, wire) /\ Latest(kinds, c, scan)
        /\ saw_done <=> Came(kinds, c, {"done"})
        /\ PiecesSent = 0 /\ Len(wire) \in Nat
    <2>1. kinds \in Seq(Kinds) /\ Told(kinds, PiecesSent) /\ remote.sent = 0
      BY <1>1, <1>6 DEF Track, Says
    <2>2. PiecesSent = 0
      BY <2>1 DEF PiecesSent
    <2> QED
      BY <1>6, <2>1, <2>2 DEF Track, Inv, Shape
  <1>10. CASE valid
    <2>1. UNCHANGED <<wire, failed>> /\ remote'.pc = "generating"
      BY <1>1, <1>2, <1>3, <1>5, <1>7, <1>10 DEF Inv, Shape
    <2>2. Shape'
      BY <1>1, <1>7, <2>1 DEF Inv, Shape, StreamsT
    <2>3. Says(kinds)'
      BY <1>6, <1>8, <1>9, <2>1 DEF Says
    <2>4. Explained(kinds, c)'
      BY <1>5, <2>1 DEF Explained
    <2>5. Track(kinds, c)'
      BY <1>1, <1>6, <1>8, <2>1, <2>3, <2>4 DEF Track, Waiting
    <2> QED
      BY <1>1, <1>5, <2>2, <2>5, LoopGoesOn
  <1>11. CASE ~valid
    <2> DEFINE new == <<"json">>
               more == kinds \o new
    <2>1. new \in Seq(Kinds) /\ Len(new) = 1 /\ new[1] = "json"
      BY Literals DEF Kinds
    <2>2. Len(kinds) = 0 /\ c = 0
      BY <1>6, <1>9
    <2>3. kinds = <<>>
      BY <1>9, <2>2
    <2>4. more = new
      BY <2>3
    <2>5. failed' = TRUE /\ remote'.pc = "closed" /\ wire' = <<<<"json", 1>>>>
      BY <1>1, <1>4, <1>7, <1>11
    <2>6. c <= 2 * Len(kinds)
      BY <2>2
    <2> HIDE DEF new, more
    <2>7. \A K : Came(new, c, K) <=> Came(kinds, c, K)
      <3>1. \A K : Came(kinds \o new, c, K) <=> Came(kinds, c, K)
        BY <1>9, <2>1, <2>6, MoreCame
      <3> QED
        BY <2>4, <3>1 DEF more
    <2>8. /\ Begun(new, c) = Begun(kinds, c)
          /\ \A units : Latest(kinds, c, units) => Latest(new, c, units)
          /\ \A p0, p : PageAt(p0, p, kinds, c) => PageAt(p0, p, new, c)
          /\ \A s, n, n2 : /\ StreamAt(s, kinds, n, c) /\ n \in Nat /\ n2 \in Nat
                           /\ n2 = n \/ (n = Len(kinds) /\ n <= n2)
                           => StreamAt(s, new, n2, c)
      <3>1. /\ Begun(more, c) = Begun(kinds, c)
            /\ \A units : Latest(kinds, c, units) => Latest(more, c, units)
            /\ \A p0, p : PageAt(p0, p, kinds, c) => PageAt(p0, p, more, c)
            /\ \A s, n, n2 : /\ StreamAt(s, kinds, n, c) /\ n \in Nat /\ n2 \in Nat
                             /\ n2 = n \/ (n = Len(kinds) /\ n <= n2)
                             => StreamAt(s, more, n2, c)
        BY <1>9, <2>1, <2>6, MoreKept DEF more
      <3> QED
        BY <2>4, <3>1
    <2>9. Says(new)'
      <3>1. Told(new, 0)
        BY <2>1 DEF Told
      <3>2. Rejected(new)'
        BY <2>5 DEF Rejected, new
      <3> QED
        BY <1>8, <1>9, <2>1, <2>5, <3>1, <3>2 DEF Says
    <2>10. Upcoming(new, c, wire') /\ wire' \in Seq(Units) /\ Len(wire') = 1
      <3> DEFINE w == <<<<"json", 1>>>>
      <3>1. <<"json", 1>> \in Units
        BY DEF Units, Kinds
      <3>2. w \in Seq(Units) /\ Len(w) = 1 /\ w[1] = <<"json", 1>>
        BY <3>1
      <3> HIDE DEF w
      <3>3. Events(new)[2 * 0 + 1] = <<new[0 + 1], 1>>
        <4>1. 2 * 0 + 1 \in 1..(2 * Len(new)) /\ 0 \in Nat
          BY <2>1
        <4> QED
          BY <2>1, <4>1, EventsAre
      <3>4. Events(new)[1] = <<"json", 1>>
        BY <2>1, <3>3
      <3>5. \A i \in 1..Len(w) : w[i] = Events(new)[c + i]
        BY <2>2, <3>2, <3>4
      <3>6. Upcoming(new, c, w)
        BY <2>1, <2>2, <3>2, <3>5 DEF Upcoming
      <3>7. wire' = w
        BY <2>5 DEF w
      <3> QED
        BY <3>2, <3>6, <3>7
    <2>11. Shape'
      BY <1>1, <1>7, <2>5, <2>10 DEF Inv, Shape, StreamsT
    <2>12. Track(new, c)'
      <3>1. Explained(new, c)'
        BY DEF Explained, new
      <3>2. link' = "up" => c + Len(wire') = IF new = <<"json">> THEN 1 ELSE 2 * Len(new)
        BY <2>2, <2>10 DEF new
      <3>3. Latest(new, c, scan') /\ (saw_done' <=> Came(new, c, {"done"}))
        BY <1>1, <1>9, <2>7, <2>8
      <3>4. request'.edit => /\ Waiting(page') /\ ~page'.content /\ stream'.seen = {} /\ stream'.stage = "open"
                             /\ buffer' = Begun(new, c) /\ ~Came(new, c, {"error"})
                             /\ answered' <=> Came(new, c, {"answer"})
        BY <1>1, <1>6, <2>7, <2>8 DEF Track
      <3>5. ~request'.edit => PageAt(Blank, page', new, c) /\ StreamAt(stream', new, PiecesSent', c)
        <4> SUFFICES ASSUME ~request.edit
                     PROVE  PageAt(Blank, page, new, c) /\ StreamAt(stream, new, PiecesSent, c)
          BY <1>1, <1>8
        <4>1. PageAt(Blank, page, kinds, c) /\ StreamAt(stream, kinds, PiecesSent, c)
          BY <1>6 DEF Track
        <4> QED
          BY <1>9, <2>8, <4>1
      <3> QED
        BY <1>9, <2>9, <2>10, <3>1, <3>2, <3>3, <3>4, <3>5 DEF Track
    <2> QED
      BY <1>1, <1>5, <2>11, <2>12, LoopGoesOn
  <1> QED
    BY <1>10, <1>11

\* The connection fails, and no more than a part of what is under way arrives.
LEMMA BreakInv ==
  ASSUME NEW how \in {"silent", "reset", "stalled"}, NEW n \in 0..Len(wire), Inv, Break(how, n)
  PROVE  Inv'
  <1>1. /\ pc = "proxy" /\ link = "up" /\ link' = how /\ wire' = SubSeq(wire, 1, n)
        /\ failed' = (failed \/ n < Len(wire) \/ remote.pc # "closed")
        /\ UNCHANGED <<request, text, pc, filter, stream, remote, scan, buffer, saw_done, answered, page>>
    BY DEF Break, proxy
  <1>2. PICK kinds, c : Track(kinds, c)
    BY <1>1 DEF Inv, Proxied
  <1>3. ~Local
    BY <1>1 DEF Inv, Modes
  <1>4. /\ wire \in Seq(Units) /\ Len(wire) \in Nat /\ n \in Nat /\ n <= Len(wire)
        /\ wire' \in Seq(Units) /\ Len(wire') = n /\ \A i \in 1..n : wire'[i] = wire[i]
    <2>1. wire \in Seq(Units)
      BY DEF Inv, Shape
    <2>2. n \in Nat /\ n <= Len(wire) /\ Len(wire) \in Nat
      BY <2>1
    <2>3. /\ SubSeq(wire, 1, n) \in Seq(Units) /\ Len(SubSeq(wire, 1, n)) = n
          /\ \A i \in 1..n : SubSeq(wire, 1, n)[i] = wire[i]
      BY <2>1, <2>2
    <2> QED
      BY <1>1, <2>1, <2>2, <2>3
  <1>5. c \in Nat /\ kinds \in Seq(Kinds) /\ Len(kinds) \in Nat /\ Upcoming(kinds, c, wire)
    BY <1>2 DEF Track, Says
  <1>6. Upcoming(kinds, c, wire')
    BY <1>4, <1>5 DEF Upcoming
  <1>7. Explained(kinds, c)'
    <2> SUFFICES ASSUME failed'
                 PROVE  \/ kinds = <<"json">>
                        \/ Broken(kinds)'
                        \/ link' # "up" /\ (c + Len(wire') < 2 * Len(kinds) \/ remote'.pc # "closed")
      BY DEF Explained
    <2>1. CASE failed
      <3>1. kinds = <<"json">> \/ Broken(kinds)
        BY <1>1, <1>2, <2>1 DEF Track, Explained
      <3>2. Broken(kinds) => Broken(kinds)'
        BY <1>1, <2>1 DEF Broken, PiecesSent
      <3> QED
        BY <3>1, <3>2
    <2>2. CASE n < Len(wire)
      <3>1. c + Len(wire') < 2 * Len(kinds)
        BY <1>4, <1>5, <2>2 DEF Upcoming
      <3> QED
        BY <1>1, <3>1
    <2>3. CASE remote.pc # "closed"
      BY <1>1, <2>3
    <2> QED
      BY <1>1, <2>1, <2>2, <2>3
  <1>8. failed' \in BOOLEAN /\ link' \in Links /\ link' # "up"
    BY <1>1 DEF Inv, Shape, Links
  <1>9. Shape'
    BY <1>1, <1>4, <1>8 DEF Inv, Shape, StreamsT
  <1>10. Says(kinds)'
    <2>1. Says(kinds) /\ PiecesSent' = PiecesSent
      BY <1>1, <1>2 DEF Track, PiecesSent
    <2>2. Rejected(kinds) => Rejected(kinds)'
      BY <1>1 DEF Rejected
    <2>3. Broken(kinds) => Broken(kinds)'
      BY <1>1, <2>1 DEF Broken
    <2>4. Complete(kinds) => Complete(kinds)'
      BY <1>1, <2>1 DEF Complete
    <2> QED
      BY <1>1, <2>1, <2>2, <2>3, <2>4 DEF Says
  <1>11. Track(kinds, c)'
    <2>1. PiecesSent' = PiecesSent
      BY <1>1 DEF PiecesSent
    <2> QED
      BY <1>1, <1>2, <1>6, <1>7, <1>8, <1>10, <2>1 DEF Track, Waiting
  <1> QED
    BY <1>1, <1>3, <1>9, <1>11, LoopGoesOn

-----------------------------------------------------------------------------
\* The reads of the proxy.

\* What the remote server can have said at all.
LEMMA SaidKinds ==
  ASSUME NEW kinds, Says(kinds), Request, NEW j \in 1..Len(kinds)
  PROVE  /\ ~request.edit => kinds[j] \in {"text", "error", "done", "json"}
         /\ request.edit => kinds[j] \in {"answer", "error", "done", "json"}
         /\ kinds[j] = "error" => Broken(kinds) /\ remote.pc = "closed"
         /\ kinds[j] = "done" => Broken(kinds) \/ Complete(kinds)
         /\ kinds[j] = "done" => remote.pc = "closed"
  <1> DEFINE n == PiecesSent
  <1>1. /\ kinds \in Seq(Kinds) /\ n \in Nat /\ n <= Len(kinds) /\ Len(kinds) \in Nat
        /\ \A i \in 1..Len(kinds) : kinds[i] = "text" <=> i <= n
        /\ \A i \in 1..Len(kinds) : kinds[i] = "done" => i = Len(kinds)
        /\ request.edit \in BOOLEAN /\ (request.edit => n = 0)
    BY ReadRequest DEF Says, Told, PiecesSent
  <1>2. CASE j <= n
    <2>1. kinds[j] = "text" /\ ~request.edit
      BY <1>1, <1>2
    <2> QED
      BY <2>1
  <1>3. CASE j > n
    <2>1. remote.pc = "closed" /\ (Rejected(kinds) \/ Broken(kinds) \/ Complete(kinds))
      <3>1. Len(kinds) # n
        BY <1>1, <1>3
      <3> QED
        BY <3>1 DEF Says
    <2>2. CASE Rejected(kinds)
      <3>1. Len(kinds) = 1 /\ kinds[1] = "json"
        <4>1. kinds = <<"json">>
          BY <2>2 DEF Rejected
        <4> QED
          BY <4>1
      <3>2. kinds[j] = "json"
        BY <3>1
      <3> QED
        BY <3>2
    <2>3. CASE Broken(kinds)
      <3>1. Len(kinds) = n + 2 /\ kinds[n + 1] = "error" /\ kinds[n + 2] = "done"
        BY <2>3 DEF Broken
      <3>2. j = n + 1 \/ j = n + 2
        BY <1>1, <1>3, <3>1
      <3>3. kinds[j] \in {"error", "done"}
        BY <3>1, <3>2
      <3> QED
        BY <2>1, <2>3, <3>3
    <2>4. CASE Complete(kinds)
      <3>1. CASE request.edit
        <4>1. Len(kinds) = 2 /\ kinds[1] = "answer" /\ kinds[2] = "done"
          BY <2>4, <3>1 DEF Complete
        <4>2. j = 1 \/ j = 2
          BY <4>1
        <4> QED
          BY <2>1, <2>4, <3>1, <4>1, <4>2
      <3>2. CASE ~request.edit
        <4>1. Len(kinds) = n + 1 /\ kinds[n + 1] = "done"
          BY <2>4, <3>2 DEF Complete
        <4>2. j = n + 1
          BY <1>1, <1>3, <4>1
        <4> QED
          BY <2>1, <2>4, <3>2, <4>1, <4>2
      <3> QED
        BY <3>1, <3>2
    <2> QED
      BY <2>1, <2>2, <2>3, <2>4
  <1> QED
    BY <1>1, <1>2, <1>3

\* A page that nothing of the answer was passed on to shows no content.
LEMMA NothingShown ==
  ASSUME NEW kinds, NEW c, Track(kinds, c), Request, stream.seen = {}
  PROVE  page \in PageT => ~page.content
  <1>1. kinds \in Seq(Kinds) /\ c \in Nat /\ Says(kinds) /\ Told(kinds, PiecesSent) /\ Len(kinds) \in Nat
    BY DEF Track, Says
  <1>2. CASE request.edit
    BY <1>2 DEF Track
  <1>3. CASE ~request.edit
    <2>1. /\ page.content <=> Blank.content \/ Came(kinds, c, Content)
          /\ \E k \in Nat : stream.seen = 1..k /\ k <= PiecesSent /\ 2 * k <= c /\ (k = PiecesSent \/ c <= 2 * k + 1)
      BY <1>3 DEF Track, PageAt, StreamAt
    <2>2. PICK k \in Nat : stream.seen = 1..k /\ k <= PiecesSent /\ 2 * k <= c /\ (k = PiecesSent \/ c <= 2 * k + 1)
      BY <2>1
    <2>3. k = 0
      <3>1. 1..k = {}
        BY <2>2
      <3> QED
        BY <3>1
    <2>4. ASSUME NEW j \in 1..Len(kinds), 2 * j <= c, kinds[j] \in Content PROVE FALSE
      <3>1. kinds[j] = "text"
        BY <1>1, <1>3, <2>4, SaidKinds DEF Content
      <3>2. j <= PiecesSent /\ PiecesSent \in Nat
        BY <1>1, <3>1 DEF Told
      <3> QED
        BY <1>1, <2>2, <2>3, <2>4, <3>2
    <2>5. ~Came(kinds, c, Content)
      BY <2>4 DEF Came
    <2> QED
      BY <2>1, <2>5 DEF Blank
  <1> QED
    BY <1>2, <1>3

\* The part that is read, and what is left.
LEMMA Reading ==
  ASSUME NEW kinds \in Seq(Kinds), NEW c \in Nat, wire \in Seq(Units), Upcoming(kinds, c, wire)
  PROVE  LET part == Next4096
             rest == SubSeq(wire, Len(part) + 1, Len(wire))
         IN /\ part \in Seq(Units) /\ Len(part) \in Nat /\ Upcoming(kinds, c, part)
            /\ rest \in Seq(Units) /\ Upcoming(kinds, c + Len(part), rest)
            /\ c + Len(part) + Len(rest) = c + Len(wire) /\ c + Len(part) <= 2 * Len(kinds)
  <1> DEFINE m == IF Len(wire) < Part THEN Len(wire) ELSE Part
             w == Len(wire)
             part == SubSeq(wire, 1, m)
             rest == SubSeq(wire, m + 1, w)
  <1>1. /\ w \in Nat /\ m \in Nat /\ m <= w /\ Len(kinds) \in Nat /\ c + w <= 2 * Len(kinds)
        /\ \A i \in 1..w : wire[i] = Events(kinds)[c + i]
    BY PartAssumption DEF Upcoming
  <1> HIDE DEF m
  <1>2. part \in Seq(Units) /\ Len(part) = m /\ \A i \in 1..m : part[i] = wire[i]
    BY <1>1
  <1>3. rest \in Seq(Units) /\ Len(rest) = w - m /\ \A i \in 1..(w - m) : rest[i] = wire[m + i]
    BY <1>1
  <1> HIDE DEF part, rest, w
  <1>4. Upcoming(kinds, c, part)
    <2>1. ASSUME NEW i \in 1..Len(part) PROVE part[i] = Events(kinds)[c + i]
      <3>1. i \in 1..m /\ i \in 1..w
        BY <1>1, <1>2
      <3> QED
        BY <1>1, <1>2, <3>1
    <2>2. c + Len(part) <= 2 * Len(kinds)
      BY <1>1, <1>2
    <2> QED
      BY <2>1, <2>2 DEF Upcoming
  <1>5. Upcoming(kinds, c + m, rest)
    <2>1. ASSUME NEW i \in 1..Len(rest) PROVE rest[i] = Events(kinds)[c + m + i]
      <3>1. i \in 1..(w - m) /\ m + i \in 1..w /\ c + (m + i) = c + m + i
        BY <1>1, <1>3
      <3> QED
        BY <1>1, <1>3, <3>1
    <2>2. c + m + Len(rest) <= 2 * Len(kinds)
      BY <1>1, <1>3
    <2> QED
      BY <2>1, <2>2 DEF Upcoming
  <1>6. Next4096 = part
    BY DEF Next4096, part, m
  <1>7. SubSeq(wire, Len(Next4096) + 1, Len(wire)) = rest
    BY <1>2, <1>6 DEF rest, w
  <1>8. c + m + Len(rest) = c + w /\ c + m <= 2 * Len(kinds)
    BY <1>1, <1>3
  <1> QED
    BY <1>1, <1>2, <1>3, <1>4, <1>5, <1>6, <1>7, <1>8 DEF w

\* What has come stays.
LEMMA CameLater ==
  ASSUME NEW kinds, NEW c \in Nat, NEW d \in Nat, NEW K, c <= d, Len(kinds) \in Nat
  PROVE  Came(kinds, c, K) => Came(kinds, d, K)
  BY DEF Came

\* What a read of a part makes of the wire, the last units kept and the marker.
LEMMA ReadPartIs ==
  ASSUME NEW kinds, NEW c, Inv, ReadPart, Track(kinds, c)
  PROVE  LET part == Next4096
             d == c + Len(part)
         IN /\ part \in Seq(Units) /\ Upcoming(kinds, c, part)
            /\ d \in Nat /\ c <= d /\ d <= 2 * Len(kinds) /\ d + Len(wire') = c + Len(wire)
            /\ wire' \in Seq(Units) /\ Upcoming(kinds, d, wire')
            /\ Latest(kinds, d, scan') /\ saw_done' \in BOOLEAN
            /\ saw_done' <=> Came(kinds, d, {"done"})
  <1> DEFINE part == Next4096
             d == c + Len(part)
             all == scan \o part
  <1>1. /\ wire' = SubSeq(wire, Len(part) + 1, Len(wire))
        /\ scan' = IF Len(all) <= Part THEN all ELSE SubSeq(all, Len(all) - Part + 1, Len(all))
        /\ saw_done' = (saw_done \/ HasDone(scan'))
    BY DEF ReadPart
  <1>2. /\ kinds \in Seq(Kinds) /\ c \in Nat /\ Told(kinds, PiecesSent) /\ Len(kinds) \in Nat
        /\ Upcoming(kinds, c, wire) /\ Latest(kinds, c, scan) /\ wire \in Seq(Units)
        /\ saw_done <=> Came(kinds, c, {"done"})
        /\ saw_done \in BOOLEAN
    BY DEF Track, Says, Inv, Shape
  <1>3. /\ part \in Seq(Units) /\ Len(part) \in Nat /\ Upcoming(kinds, c, part)
        /\ wire' \in Seq(Units) /\ Upcoming(kinds, d, wire')
        /\ c + Len(part) + Len(wire') = c + Len(wire) /\ c + Len(part) <= 2 * Len(kinds)
    BY <1>1, <1>2, Reading
  <1>4. d \in Nat /\ c <= d /\ d <= 2 * Len(kinds) /\ d + Len(wire') = c + Len(wire)
    BY <1>2, <1>3
  <1> HIDE DEF part
  <1>5. Latest(kinds, d, scan')
    BY <1>1, <1>2, <1>3, LatestStep
  <1> HIDE DEF d
  <1>6. HasDone(scan') <=> Came(kinds, d, {"done"})
    BY <1>2, <1>4, <1>5, MarkerIsFound, MarkerIsSeen
  <1>7. Came(kinds, c, {"done"}) => Came(kinds, d, {"done"})
    BY <1>2, <1>4, CameLater
  <1>8. /\ saw_done' <=> Came(kinds, d, {"done"})
        /\ saw_done' \in BOOLEAN
    <2>1. HasDone(scan') \in BOOLEAN
      BY DEF HasDone
    <2> QED
      BY <1>1, <1>2, <1>6, <1>7, <2>1, Zenon
  <1> QED
    BY <1>3, <1>4, <1>5, <1>8 DEF part, d

\* What the proxy has collected is what came before an error.
LEMMA CollectedIs ==
  ASSUME NEW part, CollectEvents(part)
  PROVE  /\ buffer' = Rest(buffer \o part)
         /\ answered \in BOOLEAN => answered' \in BOOLEAN
         /\ answered' <=> answered \/ \E i \in Ends(buffer \o part) : (buffer \o part)[i][1] \in {"answer"}
         /\ IF \E i \in Ends(buffer \o part) : (buffer \o part)[i][1] \in {"error"}
            THEN SayLast(<<"error">>) /\ stream' = Failed
            ELSE UNCHANGED <<pc, page, stream>>
  <1> DEFINE all == buffer \o part
             kinds == {all[i][1] : i \in Ends(all)}
  <1>1. /\ buffer' = Rest(all)
        /\ answered' = (answered \/ "answer" \in kinds)
        /\ IF "error" \in kinds THEN SayLast(<<"error">>) /\ stream' = Failed
           ELSE UNCHANGED <<pc, page, stream>>
    BY DEF CollectEvents, Rest, Ends
  <1>2. /\ "error" \in kinds <=> \E i \in Ends(all) : all[i][1] \in {"error"}
        /\ "answer" \in kinds <=> \E i \in Ends(all) : all[i][1] \in {"answer"}
    OBVIOUS
  <1> HIDE DEF kinds, all
  <1>3. answered \in BOOLEAN => answered' \in BOOLEAN
    BY <1>1
  <1>4. IF \E i \in Ends(all) : all[i][1] \in {"error"}
        THEN SayLast(<<"error">>) /\ stream' = Failed
        ELSE UNCHANGED <<pc, page, stream>>
    BY <1>1, <1>2, Zenon
  <1>5. answered' <=> answered \/ \E i \in Ends(all) : all[i][1] \in {"answer"}
    BY <1>1, <1>2, Zenon
  <1> QED
    BY <1>1, <1>3, <1>4, <1>5, Zenon DEF all

\* At most one unit waits for its event to end.
LEMMA BegunType ==
  ASSUME NEW kinds \in Seq(Kinds), NEW c \in Nat, c <= 2 * Len(kinds)
  PROVE  Begun(kinds, c) \in Seq(Units) /\ Len(Begun(kinds, c)) <= 1
  <1>1. CASE c % 2 = 1
    <2>1. c \in 1..(2 * Len(kinds))
      BY <1>1
    <2>2. Events(kinds) \in Seq(Units) /\ Len(Events(kinds)) = 2 * Len(kinds)
      BY EventsAre
    <2>3. Events(kinds)[c] \in Units
      BY <2>1, <2>2
    <2>4. Begun(kinds, c) = <<Events(kinds)[c]>>
      BY <1>1 DEF Begun
    <2> DEFINE u == Events(kinds)[c]
    <2> HIDE DEF u
    <2>5. u \in Units => <<u>> \in Seq(Units) /\ Len(<<u>>) <= 1
      OBVIOUS
    <2> QED
      BY <2>3, <2>4, <2>5 DEF u
  <1>2. CASE c % 2 # 1
    BY <1>2 DEF Begun
  <1> QED
    BY <1>1, <1>2

\* What is told again is told the same when nothing but the reader has moved.
LEMMA SaysKept ==
  ASSUME NEW kinds, Says(kinds), Inv, UNCHANGED <<request, text, remote, failed>>
  PROVE  Says(kinds)' /\ PiecesSent' = PiecesSent /\ (Broken(kinds)' <=> Broken(kinds))
  <1>1. PiecesSent' = PiecesSent
    BY DEF PiecesSent
  <1>2. Broken(kinds)' <=> Broken(kinds)
    BY <1>1 DEF Broken
  <1>3. Rejected(kinds) => Rejected(kinds)'
    BY DEF Rejected
  <1>4. Complete(kinds) => Complete(kinds)'
    BY <1>1 DEF Complete
  <1> QED
    BY <1>1, <1>2, <1>3, <1>4 DEF Says

\* A part is read, and passed on or collected.
LEMMA ReadPartInv ==
  ASSUME Inv, ReadPart
  PROVE  Inv'
  <1> DEFINE part == Next4096
  <1>1. /\ pc = "proxy" /\ UNCHANGED <<request, text, filter, remote, link, failed>>
        /\ IF request.edit THEN CollectEvents(part) ELSE PassOn(part)
    BY DEF ReadPart
  <1>2. PICK kinds, c : Track(kinds, c)
    BY <1>1 DEF Inv, Proxied
  <1>d. PICK d : d = c + Len(part)
    OBVIOUS
  <1>3. /\ part \in Seq(Units) /\ Upcoming(kinds, c, part)
        /\ d \in Nat /\ c <= d /\ d <= 2 * Len(kinds) /\ d + Len(wire') = c + Len(wire)
        /\ wire' \in Seq(Units) /\ Upcoming(kinds, d, wire')
        /\ Latest(kinds, d, scan') /\ saw_done' \in BOOLEAN
        /\ saw_done' <=> Came(kinds, d, {"done"})
    BY <1>2, <1>d, ReadPartIs
  <1> HIDE DEF part
  <1>4. /\ kinds \in Seq(Kinds) /\ c \in Nat /\ Told(kinds, PiecesSent) /\ Len(kinds) \in Nat
        /\ Says(kinds) /\ request.edit \in BOOLEAN
    BY <1>2, ReadRequest DEF Track, Says, Inv
  <1>5. Says(kinds)' /\ PiecesSent' = PiecesSent /\ (Broken(kinds)' <=> Broken(kinds))
    BY <1>1, <1>4, SaysKept
  <1>6. Explained(kinds, d)'
    BY <1>1, <1>2, <1>3, <1>5 DEF Track, Explained
  <1>7. scan' \in Seq(Units) /\ Len(scan') <= Part
    BY <1>3, <1>4, PartAssumption DEF Latest
  <1>8. link' = "up" => d + Len(wire') = IF kinds = <<"json">> THEN 1 ELSE 2 * Len(kinds)
    BY <1>1, <1>2, <1>3 DEF Track
  <1>9. ~Local
    BY <1>1 DEF Inv, Modes
  <1>10. CASE ~request.edit
    <2>1. /\ page' = Shows(page, part) /\ stream' = FoldLeft(Passed, stream, part)
          /\ UNCHANGED <<pc, buffer, answered>>
      BY <1>1, <1>10 DEF PassOn
    <2>2. PageAt(Blank, page, kinds, c) /\ StreamAt(stream, kinds, PiecesSent, c)
      BY <1>2, <1>10 DEF Track
    <2>3. PageAt(Blank, page', kinds, d)
      BY <1>3, <1>4, <1>d, <2>1, <2>2, PageRun
    <2>4. StreamAt(stream', kinds, PiecesSent, d)
      BY <1>3, <1>4, <1>d, <2>1, <2>2, StreamRun
    <2>5. stream' \in StreamsT
      <3>1. stream' \in StreamT /\ \E k \in Nat : stream'.seen = 1..k /\ k <= PiecesSent
        BY <2>4 DEF StreamAt
      <3>2. PICK k \in Nat : stream'.seen = 1..k /\ k <= PiecesSent
        BY <3>1
      <3>3. PiecesSent \in Nat /\ PiecesSent <= Len(text) /\ Len(text) \in Nat
        <4>1. remote.sent \in 0..Len(text) /\ Len(text) \in Nat
          BY ReadRequest DEF Inv, Shape
        <4> QED
          BY <4>1 DEF PiecesSent
      <3>4. stream'.seen \subseteq 1..Len(text)
        BY <3>2, <3>3
      <3> QED
        BY <3>1, <3>4 DEF StreamT, StreamsT
    <2>6. page' \in PageT
      BY <2>3 DEF PageAt
    <2>7. Shape'
      BY <1>1, <1>3, <1>7, <2>1, <2>5, <2>6 DEF Inv, Shape, StreamsT
    <2>8. Track(kinds, d)'
      BY <1>1, <1>3, <1>5, <1>6, <1>8, <1>10, <2>3, <2>4 DEF Track
    <2> QED
      BY <1>1, <1>9, <2>1, <2>7, <2>8, LoopGoesOn
  <1>11. CASE request.edit
    <2> DEFINE all == buffer \o part
    <2>1. /\ Waiting(page) /\ ~page.content /\ stream.seen = {} /\ stream.stage = "open"
          /\ buffer = Begun(kinds, c) /\ ~Came(kinds, c, {"error"})
          /\ answered <=> Came(kinds, c, {"answer"})
      BY <1>2, <1>11 DEF Track
    <2>2. CollectEvents(part)
      BY <1>1, <1>11
    <2>3. /\ buffer' = Rest(all) /\ answered' \in BOOLEAN
          /\ answered' <=> answered \/ \E i \in Ends(all) : all[i][1] \in {"answer"}
          /\ IF \E i \in Ends(all) : all[i][1] \in {"error"}
             THEN SayLast(<<"error">>) /\ stream' = Failed
             ELSE UNCHANGED <<pc, page, stream>>
      BY <2>2, CollectedIs DEF Inv, Shape
    <2>4. all = Begun(kinds, c) \o part
      BY <2>1
    <2> HIDE DEF all
    <2>5. /\ Rest(all) = Begun(kinds, d)
          /\ \A K : Came(kinds, d, K) <=> Came(kinds, c, K) \/ \E i \in Ends(all) : all[i][1] \in K
      BY <1>3, <1>4, <1>d, <2>4, Collecting
    <2>6. Came(kinds, d, {"error"}) <=> \E i \in Ends(all) : all[i][1] \in {"error"}
      <3>1. Came(kinds, d, {"error"}) <=> Came(kinds, c, {"error"}) \/ \E i \in Ends(all) : all[i][1] \in {"error"}
        BY <2>5
      <3> QED
        BY <2>1, <3>1
    <2>7. buffer' \in Seq(Units) /\ Len(buffer') <= 1 /\ buffer' = Begun(kinds, d)
      <3>1. Begun(kinds, d) \in Seq(Units) /\ Len(Begun(kinds, d)) <= 1
        BY <1>3, <1>4, BegunType
      <3> QED
        BY <2>3, <2>5, <3>1
    <2>8. CASE ~Came(kinds, d, {"error"})
      <3>1. UNCHANGED <<pc, page, stream>>
        BY <2>3, <2>6, <2>8
      <3>2. Shape'
        BY <1>1, <1>3, <1>7, <2>3, <2>7, <3>1 DEF Inv, Shape, StreamsT
      <3>3. Waiting(page')
        BY <2>1, <3>1 DEF Waiting
      <3>4. answered' <=> Came(kinds, d, {"answer"})
        <4>1. Came(kinds, d, {"answer"}) <=> Came(kinds, c, {"answer"}) \/ \E i \in Ends(all) : all[i][1] \in {"answer"}
          BY <2>5
        <4> QED
          BY <2>1, <2>3, <4>1
      <3>5. Track(kinds, d)'
        BY <1>1, <1>3, <1>5, <1>6, <1>8, <1>11, <2>1, <2>7, <2>8, <3>1, <3>3, <3>4 DEF Track
      <3> QED
        BY <1>1, <1>9, <3>1, <3>2, <3>5, LoopGoesOn
    <2>9. CASE Came(kinds, d, {"error"})
      <3> DEFINE one == <<"error">>
      <3>1. SayLast(one) /\ stream' = Failed
        BY <2>3, <2>6, <2>9
      <3>2. PICK j \in 1..Len(kinds) : kinds[j] = "error"
        BY <2>9 DEF Came
      <3>3. failed /\ remote.pc = "closed"
        <4>1. Broken(kinds) /\ remote.pc = "closed"
          BY <1>4, <3>2, SaidKinds DEF Inv
        <4> QED
          BY <4>1 DEF Broken
      <3>4. /\ page \in PageT /\ stream \in StreamsT /\ page.block = <<>> /\ ~page.content
        BY <2>1 DEF Inv, Shape, Waiting
      <3>5. stream' \in StreamsT
        BY <3>1, <3>4, StreamEnds DEF Failed, Stages
      <3>6. /\ one \in Seq(Kinds) /\ 1 \in 1..Len(one) /\ one[1] = "error"
            /\ \A i \in 1..Len(one) : one[i] \notin Content
        BY DEF Kinds, Content
      <3> HIDE DEF one
      <3>7. /\ pc' = "over" /\ page' \in PageT /\ page'.view = "error"
        BY <3>1, <3>4, <3>6, SayLastIs
      <3>8. Shape'
        BY <1>1, <1>3, <1>7, <2>3, <2>7, <3>5, <3>7 DEF Inv, Shape, StreamsT, Pcs
      <3>9. Over'
        <4>1. failed' /\ remote'.pc = "closed"
          BY <1>1, <3>3
        <4> QED
          BY <3>7, <4>1 DEF Over, EarlyFailureIsShown, ErrorIsVisible, HealthyStreamFinishes
      <3> QED
        BY <1>1, <1>9, <3>7, <3>8, <3>9, EndsInv
    <2> QED
      BY <2>8, <2>9
  <1> QED
    BY <1>4, <1>10, <1>11

\* A stream that nothing went wrong with has arrived with its marker when it ends.
LEMMA Settled ==
  ASSUME NEW kinds, NEW c, Track(kinds, c), Inv, wire = <<>>, link = "up", remote.pc = "closed", ~failed
  PROVE  Complete(kinds) /\ c = 2 * Len(kinds) /\ saw_done
  <1>1. /\ kinds \in Seq(Kinds) /\ c \in Nat /\ PiecesSent \in Nat /\ Len(kinds) \in Nat
        /\ Told(kinds, PiecesSent) /\ Says(kinds) /\ request.edit \in BOOLEAN
    BY ReadRequest DEF Track, Says, Told, Inv
  <1>2. Complete(kinds)
    BY <1>1 DEF Says, Rejected, Broken
  <1>3. Len(kinds) \in 1..Len(kinds) /\ kinds[Len(kinds)] = "done"
    <2>1. CASE request.edit
      <3>1. Len(kinds) = 2 /\ kinds[2] = "done"
        BY <1>2, <2>1 DEF Complete
      <3> QED
        BY <3>1
    <2>2. CASE ~request.edit
      <3>1. Len(kinds) = PiecesSent + 1 /\ kinds[PiecesSent + 1] = "done"
        BY <1>2, <2>2 DEF Complete
      <3> QED
        BY <1>1, <3>1
    <2> QED
      BY <1>1, <2>1, <2>2
  <1>4. kinds # <<"json">>
    <2> SUFFICES ASSUME kinds = <<"json">> PROVE FALSE
      OBVIOUS
    <2>1. Len(kinds) = 1 /\ kinds[1] = "json"
      OBVIOUS
    <2> QED
      BY <1>3, <2>1
  <1>5. c = 2 * Len(kinds)
    <2>1. c + Len(wire) = 2 * Len(kinds) /\ Len(wire) = 0
      BY <1>4 DEF Track
    <2> QED
      BY <1>1, <2>1
  <1>6. Came(kinds, c, {"done"})
    <2>1. 2 * Len(kinds) <= c
      BY <1>1, <1>5
    <2> QED
      BY <1>3, <2>1 DEF Came
  <1> QED
    BY <1>2, <1>5, <1>6 DEF Track

\* An edit answer whose marker came is whole.
LEMMA EditIsWhole ==
  ASSUME NEW kinds, NEW c, Track(kinds, c), Inv, request.edit, saw_done, wire = <<>>
  PROVE  ~failed
  <1>1. /\ kinds \in Seq(Kinds) /\ c \in Nat /\ Len(kinds) \in Nat /\ Says(kinds)
        /\ Came(kinds, c, {"done"}) /\ ~Came(kinds, c, {"error"}) /\ PiecesSent = 0
        /\ Told(kinds, PiecesSent) /\ Len(wire) = 0
    BY DEF Track, Says, PiecesSent
  <1>2. PICK j \in 1..Len(kinds) : 2 * j <= c /\ kinds[j] = "done"
    BY <1>1 DEF Came
  <1>3. remote.pc = "closed" /\ (Broken(kinds) \/ Complete(kinds))
    BY <1>1, <1>2, SaidKinds DEF Inv
  <1>4. j = Len(kinds)
    BY <1>1, <1>2 DEF Told
  <1>5. ~Broken(kinds)
    <2> SUFFICES ASSUME Broken(kinds) PROVE FALSE
      OBVIOUS
    <2>1. Len(kinds) = 2 /\ kinds[1] = "error"
      BY <1>1 DEF Broken
    <2>2. 1 \in 1..Len(kinds) /\ 2 * 1 <= c
      BY <1>1, <1>2, <1>4, <2>1
    <2> QED
      BY <1>1, <2>1, <2>2 DEF Came
  <1>6. kinds # <<"json">>
    <2>1. Len(kinds) = 2
      BY <1>3, <1>5 DEF Complete
    <2>2. Len(<<"json">>) = 1
      OBVIOUS
    <2> QED
      BY <2>1, <2>2
  <1>7. ~(c + Len(wire) < 2 * Len(kinds))
    BY <1>1, <1>2, <1>4
  <1> QED
    BY <1>3, <1>5, <1>6, <1>7 DEF Track, Explained

\* A whole answer that was passed on as it came.
LEMMA WholeIsShown ==
  ASSUME NEW kinds, NEW c, Track(kinds, c), Inv, ~request.edit, Complete(kinds), c = 2 * Len(kinds)
  PROVE  /\ stream.stage = "finished" /\ ~page.error
         /\ page.content <=> text # <<>>
  <1> DEFINE n == PiecesSent
  <1>1. /\ kinds \in Seq(Kinds) /\ c \in Nat /\ Len(kinds) \in Nat /\ n = Len(text) /\ n \in Nat
        /\ \A j \in 1..Len(kinds) : kinds[j] = "text" <=> j <= n
        /\ Len(kinds) = n + 1 /\ kinds[n + 1] = "done"
        /\ text # <<>> <=> Len(text) > 0
    BY ReadRequest DEF Track, Says, Told, Complete, PiecesSent, Inv
  <1>2. /\ page.content <=> Came(kinds, c, Content)
        /\ page.error <=> Came(kinds, c, {"error"})
        /\ stream.stage = IF Came(kinds, c, {"error"})
                          THEN IF Came(kinds, c, {"done"}) THEN "ended" ELSE "failed"
                          ELSE IF Came(kinds, c, {"done"}) THEN "finished" ELSE "open"
    BY DEF Track, PageAt, StreamAt, Blank
  <1> HIDE DEF n
  <1>3. \A j \in 1..Len(kinds) : kinds[j] = "text" \/ (j = n + 1 /\ kinds[j] = "done")
    BY <1>1
  <1>4. ~Came(kinds, c, {"error"})
    BY <1>3 DEF Came
  <1>5. Came(kinds, c, {"done"})
    <2>1. n + 1 \in 1..Len(kinds) /\ 2 * (n + 1) <= c
      BY <1>1
    <2> QED
      BY <1>1, <2>1 DEF Came
  <1>6. Came(kinds, c, Content) <=> n > 0
    <2>1. ASSUME n > 0 PROVE Came(kinds, c, Content)
      <3>1. 1 \in 1..Len(kinds) /\ 2 * 1 <= c /\ kinds[1] = "text"
        BY <1>1, <2>1
      <3>2. "text" \in Content
        BY DEF Content
      <3> QED
        BY <3>1, <3>2 DEF Came
    <2>2. ASSUME NEW j \in 1..Len(kinds), kinds[j] \in Content PROVE n > 0
      <3>1. kinds[j] = "text"
        BY <1>3, <2>2 DEF Content
      <3>2. j <= n /\ j >= 1
        BY <1>1, <3>1
      <3> QED
        BY <1>1, <3>2
    <2> QED
      BY <2>1, <2>2 DEF Came
  <1> QED
    BY <1>1, <1>2, <1>4, <1>5, <1>6

\* An end of the proxy's loop: an error is shown unless something of the answer was.
LEMMA LoopEnds ==
  ASSUME Inv, pc = "proxy", pc' = "over", page' \in PageT, stream' \in StreamsT,
         UNCHANGED <<request, text, filter, link, scan, buffer, saw_done, answered, remote, wire, failed>>,
         EarlyFailureIsShown', HealthyStreamFinishes', link = "up" => remote.pc = "closed"
  PROVE  Inv'
  <1>1. Shape'
    BY DEF Inv, Shape, StreamsT, Pcs
  <1>2. ~Local
    BY DEF Inv, Modes
  <1>3. Over'
    BY DEF Over
  <1> QED
    BY <1>1, <1>2, <1>3, EndsInv

\* The error and the marker after a stream that was interrupted.
LEMMA InterruptedInv ==
  ASSUME Inv, pc = "proxy", SayLast(<<"error">>),
         stream' \in {Failed, stream},
         UNCHANGED <<request, text, filter, link, scan, buffer, saw_done, answered, remote, wire, failed>>,
         link = "up" => remote.pc = "closed" /\ failed
  PROVE  Inv'
  <1>1. PICK kinds, c : Track(kinds, c)
    BY DEF Inv, Proxied
  <1>2. page \in PageT /\ stream \in StreamsT /\ Request
    BY DEF Inv, Shape
  <1>3. /\ pc' = "over" /\ page' \in PageT /\ page'.content = page.content
        /\ page'.view = IF page.content THEN "answer"
                        ELSE IF page'.error THEN "error" ELSE "no response"
    BY <1>2, ErrorLast
  <1>4. stream' \in StreamsT /\ stream'.seen = stream.seen
    <2>1. Failed \in StreamsT /\ Failed.seen = stream.seen
      BY <1>2 DEF Failed, StreamsT, Stages
    <2> QED
      BY <1>2, <2>1
  <1>5. ~Local' /\ ~Local
    BY DEF Inv, Modes, Local
  <1>6. EarlyFailureIsShown'
    <2>1. stream'.seen = {} => ~page.content
      BY <1>1, <1>2, <1>4, NothingShown
    <2> QED
      BY <1>3, <1>5, <2>1 DEF EarlyFailureIsShown, ErrorIsVisible
  <1>7. HealthyStreamFinishes'
    BY DEF HealthyStreamFinishes
  <1> QED
    BY <1>3, <1>4, <1>6, <1>7, LoopEnds

\* A reset or a stall.
LEMMA ReadRaisesInv ==
  ASSUME Inv, ReadRaises
  PROVE  Inv'
  <1>1. /\ pc = "proxy" /\ link \in {"reset", "stalled"} /\ SayLast(<<"error">>)
        /\ stream' \in {Failed, stream}
        /\ UNCHANGED <<request, text, filter, link, scan, buffer, saw_done, answered, remote, wire, failed>>
    BY DEF ReadRaises, sentVars, proxy
  <1> QED
    BY <1>1, InterruptedInv

\* The end of the stream.
LEMMA ReadEndInv ==
  ASSUME Inv, ReadEnd
  PROVE  Inv'
  <1>1. /\ pc = "proxy" /\ wire = <<>> /\ (link = "up" => remote.pc = "closed")
        /\ UNCHANGED <<request, text, filter, link, scan, buffer, saw_done, answered, remote, wire, failed>>
    BY DEF ReadEnd, sentVars, proxy, Ended
  <1>2. PICK kinds, c : Track(kinds, c)
    BY <1>1 DEF Inv, Proxied
  <1>3. /\ page \in PageT /\ stream \in StreamsT /\ Request /\ saw_done \in BOOLEAN
        /\ request.edit \in BOOLEAN /\ Len(text) \in Nat
    BY ReadRequest DEF Inv, Shape
  <1>4. ~Local /\ ~Local'
    BY <1>1 DEF Inv, Modes, Local
  <1>5. CASE ~saw_done
    <2>1. SayLast(<<"error">>) /\ stream' = Failed
      BY <1>5 DEF ReadEnd
    <2>2. link = "up" => failed
      BY <1>1, <1>2, <1>5, Settled
    <2> QED
      BY <1>1, <2>1, <2>2, InterruptedInv
  <1>6. CASE saw_done /\ request.edit
    <2> DEFINE one == <<"answer">>
    <2>1. SayLast(one) /\ stream' = Finished(IF answered THEN 1..Len(text) ELSE {})
      BY <1>6 DEF ReadEnd
    <2>2. one \in Seq(Kinds) /\ Len(one) = 1 /\ one[1] = "answer"
      BY Literals DEF Kinds
    <2> HIDE DEF one
    <2>3. page.block = <<>> /\ ~page.error
      BY <1>2, <1>6 DEF Track, Waiting
    <2>4. 1 \in 1..Len(one) /\ one[1] \in Content /\ \A j \in 1..Len(one) : one[j] # "error"
      BY <2>2 DEF Content
    <2>5. pc' = "over" /\ page' \in PageT /\ page'.content /\ ~page'.error /\ page'.view = "answer"
      BY <1>3, <2>1, <2>2, <2>3, <2>4, SayLastIs
    <2>6. stream' \in StreamsT /\ stream'.stage = "finished"
      <3> DEFINE S == IF answered THEN 1..Len(text) ELSE {}
      <3>1. S \subseteq 1..Len(text)
        OBVIOUS
      <3>2. stream' = [seen |-> S, stage |-> "finished"]
        BY <2>1 DEF Finished
      <3> HIDE DEF S
      <3> QED
        BY <1>1, <3>1, <3>2 DEF StreamsT, Stages
    <2>7. ~failed'
      BY <1>1, <1>2, <1>6, EditIsWhole
    <2>8. EarlyFailureIsShown'
      BY <2>7 DEF EarlyFailureIsShown
    <2>9. HealthyStreamFinishes'
      BY <1>1, <1>6, <2>5, <2>6 DEF HealthyStreamFinishes
    <2> QED
      BY <1>1, <2>5, <2>6, <2>8, <2>9, LoopEnds
  <1>7. CASE saw_done /\ ~request.edit
    <2>1. pc' = "over" /\ page' = Closed(page, FALSE) /\ UNCHANGED stream
      BY <1>7 DEF ReadEnd
    <2>2. /\ page' \in PageT /\ page'.content = page.content /\ page'.error = page.error
          /\ page'.view = IF page.content THEN "answer" ELSE IF page.error THEN "error" ELSE "no response"
      BY <1>3, <2>1, ClosedIs
    <2>3. EarlyFailureIsShown'
      <3>1. stream.seen = {} => ~page.content
        BY <1>2, <1>3, NothingShown
      <3> QED
        BY <1>4, <2>1, <2>2, <3>1 DEF EarlyFailureIsShown, ErrorIsVisible
    <2>4. HealthyStreamFinishes'
      <3> SUFFICES ASSUME ~failed, link = "up"
                   PROVE  /\ stream.stage = "finished" /\ ~page.error
                          /\ page'.view = IF text # <<>> THEN "answer" ELSE "no response"
        BY <1>1, <1>4, <1>7, <2>1, <2>2 DEF HealthyStreamFinishes
      <3>1. Complete(kinds) /\ c = 2 * Len(kinds)
        BY <1>1, <1>2, Settled
      <3>2. /\ stream.stage = "finished" /\ ~page.error
            /\ page.content <=> text # <<>>
        BY <1>2, <1>7, <3>1, WholeIsShown
      <3> QED
        BY <2>2, <3>2
    <2> QED
      BY <1>1, <1>3, <2>1, <2>2, <2>3, <2>4, LoopEnds
  <1> QED
    BY <1>3, <1>5, <1>6, <1>7

\* Nothing changes.
LEMMA InvStutters ==
  ASSUME Inv, UNCHANGED vars
  PROVE  Inv'
  <1>1. UNCHANGED <<request, text, pc, filter, stream, remote, wire, link, scan, buffer, saw_done,
                    answered, page, failed>>
    BY DEF vars, proxy
  <1>2. Request' /\ Shape'
    BY <1>1 DEF Inv, Request, Shape, StreamsT
  <1>3. Modes'
    <2>1. (Local' <=> Local) /\ (Unasked' <=> Unasked)
      BY <1>1 DEF Local, Unasked
    <2> QED
      BY <1>1, <2>1 DEF Inv, Modes
  <1>4. Quiet'
    BY <1>1 DEF Inv, Quiet, Waiting
  <1>5. Proxied'
    <2> SUFFICES ASSUME pc' = "proxy" PROVE \E kinds, c : Track(kinds, c)'
      BY DEF Proxied
    <2>1. PICK kinds, c : Track(kinds, c)
      BY <1>1 DEF Inv, Proxied
    <2>2. Says(kinds)' /\ PiecesSent' = PiecesSent /\ (Broken(kinds)' <=> Broken(kinds))
      BY <1>1, <2>1, SaysKept DEF Track
    <2>3. Explained(kinds, c)'
      BY <1>1, <2>1, <2>2 DEF Track, Explained
    <2>4. Waiting(page) => Waiting(page')
      BY <1>1 DEF Waiting
    <2>5. Track(kinds, c)'
      BY <1>1, <2>1, <2>2, <2>3, <2>4 DEF Track
    <2> QED
      BY <2>5
  <1>6. Over'
    <2>1. EarlyFailureIsShown'
      BY <1>1 DEF Inv, Over, EarlyFailureIsShown, ErrorIsVisible, Local
    <2>2. HealthyStreamFinishes'
      BY <1>1 DEF Inv, Over, HealthyStreamFinishes, Local
    <2> QED
      BY <1>1, <2>1, <2>2 DEF Inv, Over
  <1> QED
    BY <1>2, <1>3, <1>4, <1>5, <1>6 DEF Inv

\* Every step keeps the invariant.
LEMMA InvStep == Inv /\ Collected /\ [Next]_vars => Inv'
  <1> SUFFICES ASSUME Inv, Collected, [Next]_vars PROVE Inv'
    OBVIOUS
  <1>1. ASSUME NEW outcome \in Outcomes, CheckFreshness(outcome) PROVE Inv'
    BY <1>1, CheckFreshnessInv
  <1>2. CASE LocalStep
    <2>1. ASSUME NEW hit \in BOOLEAN, Analyze(hit) PROVE Inv'
      BY <2>1, AnalyzeInv
    <2>2. ASSUME NEW n \in 1..MaxToken, Generate(n) PROVE Inv'
      BY <2>2, GenerateInv
    <2> QED
      BY <1>2, <2>1, <2>2, BuildContextInv, EndGenerationInv, FinishInv, RaiseInv DEF LocalStep
  <1>3. CASE ProxyStep
    <2>1. ASSUME NEW chunks \in Retrieved, Collect(chunks) PROVE Inv'
      BY <2>1, CollectInv
    <2>2. ASSUME NEW ok \in BOOLEAN, Connect(ok) PROVE Inv'
      BY <2>2, ConnectInv
    <2> QED
      BY <1>3, <2>1, <2>2, CollectRaisesInv, ReadPartInv, ReadEndInv, ReadRaisesInv DEF ProxyStep
  <1>4. CASE RemoteStep
    BY <1>4, AskInv, RemoteGenerateInv, RemoteEndInv, RemoteRaiseInv DEF RemoteStep
  <1>5. ASSUME NEW how \in {"silent", "reset", "stalled"}, NEW n \in 0..Len(wire), Break(how, n)
        PROVE  Inv'
    BY <1>5, BreakInv
  <1>6. CASE UNCHANGED vars \/ Done
    BY <1>6, InvStutters DEF Done
  <1> QED
    BY <1>1, <1>2, <1>3, <1>4, <1>5, <1>6 DEF Next, ServerStep

\* The invariant has the types.
LEMMA TypesAre ==
  ASSUME Inv, Collected
  PROVE  TypeOK
  <1>1. /\ request \in [mode: {"local", "remote"}, edit: BOOLEAN, tokens: {0, 1024}]
        /\ found \in Retrieved \cup {<<>>} /\ Len(text) \in Nat
    BY ReadRequest DEF Inv, Request, Collected
  <1>2. /\ filter.base \in 0..filter.read /\ filter.read \in 0..Len(text)
        /\ filter.thinking \in BOOLEAN /\ filter.shown \subseteq 1..filter.base
    <2>1. FilterT(text, filter)
      BY DEF Inv, Shape
    <2>2. /\ filter.base \in Nat /\ filter.read \in Nat
          /\ filter.thinking \in BOOLEAN /\ filter.base <= filter.read
          /\ filter.read <= Len(text)
          /\ filter.shown \subseteq 1..filter.base
      BY <2>1 DEF FilterT, FilterR
    <2> QED
      BY <1>1, <2>2
  <1>3. stream.seen \subseteq 1..Len(text) /\ stream.stage \in {"open", "failed", "finished", "ended", "cut"}
    BY DEF Inv, Shape, StreamsT, Stages
  <1>4. remote.pc \in {"none", "asked", "generating", "closed"} /\ remote.sent \in 0..Len(text)
    BY DEF Inv, Shape, RemotePcs
  <1>5. /\ page.block \in Seq(Units) /\ {page.content, page.told, page.error} \subseteq BOOLEAN
        /\ page.view \in {"waiting", "answer", "error", "no response", "connection error"}
    BY DEF Inv, Shape, PageT, Views
  <1>6. \A s \in {wire, scan, buffer, page.block} : s \in Seq(Kinds \X {1, 2})
    <2>1. wire \in Seq(Units) /\ scan \in Seq(Units) /\ buffer \in Seq(Units)
      BY DEF Inv, Shape
    <2> QED
      BY <1>5, <2>1 DEF Units
  <1>7. /\ Len(scan) <= Part /\ Len(buffer) <= 1
        /\ link \in {"up", "silent", "reset", "stalled"}
        /\ saw_done \in BOOLEAN /\ answered \in BOOLEAN /\ failed \in BOOLEAN
        /\ pc \in {"freshness", "analyze", "context", "generate", "finish", "collect", "connect",
                   "proxy", "over"}
    BY DEF Inv, Shape, Links, Pcs
  <1>8. {saw_done, answered, failed, page.content, page.told, page.error} \subseteq BOOLEAN
    BY <1>5, <1>7, Zenon
  <1> QED
    BY <1>1, <1>2, <1>3, <1>4, <1>5, <1>6, <1>7, <1>8, Zenon DEF TypeOK

\* It holds in every state.
LEMMA InvHolds == Spec => [](Inv /\ Collected)
  <1>1. Init => Inv /\ Collected
    BY InvInit, CollectedInit
  <1>2. Inv /\ Collected /\ [Next]_vars => (Inv /\ Collected)'
    BY InvStep, CollectedStep
  <1> QED
    BY <1>1, <1>2, PTL DEF Spec

\* Every variable has its type on every path of a request, local or remote, for
\* every text the model may say and however the connection cuts or breaks.
THEOREM Types == Spec => []TypeOK
  <1>1. Inv /\ Collected => TypeOK
    BY TypesAre
  <1> QED
    BY <1>1, InvHolds, PTL

\* The page shows what went wrong in an answer that was generated here, or of
\* which nothing had been passed on (streamResponse in static/index.html,
\* _remote_proxy_stream_with_freshness in server.py).
THEOREM ShowsEarlyFailure == Spec => []EarlyFailureIsShown
  <1>1. Inv => EarlyFailureIsShown
    BY DEF Inv, Over
  <1> QED
    BY <1>1, InvHolds, PTL

\* A request that nothing goes wrong with ends with its answer and no error, for
\* every text and every size of the parts the stream is read in: the marker is
\* found wherever the reads cut it.
THEOREM FinishesHealthyStream == Spec => []HealthyStreamFinishes
  <1>1. Inv => HealthyStreamFinishes
    BY DEF Inv, Over
  <1> QED
    BY <1>1, InvHolds, PTL

-----------------------------------------------------------------------------
\* Toward the refinement: what a reader from left to right makes of a text, whether
\* the reader begins at its start or where the buffer does.

\* The unit at a has one of some places, after which comes w as far as b.
Leads(txt, from, to, V, w, a, b) ==
    /\ from <= a /\ a <= b /\ b <= to /\ Places(txt, from, to)[a] \in V /\ w \in V
    /\ \A v \in V, i \in (a + 1)..b : NextPlace(txt, to, v, i) = w

\* The units after a, as far as b, are all the same.
Alike(txt, from, to, w, a, b) == \A i \in (a + 1)..b : Places(txt, from, to)[i] = w

\* Where a place of some kinds is followed by another whatever it was, the places
\* that follow are all the same.
LEMMA PlacesRun ==
  ASSUME NEW txt, NEW from \in Nat, NEW to \in Nat, NEW a \in Nat, NEW b \in Nat,
         NEW V, NEW w, Leads(txt, from, to, V, w, a, b)
  PROVE  Alike(txt, from, to, w, a, b)
  <1> DEFINE place == Places(txt, from, to)
             Y == {n \in Nat : n = 0 \/ a + n > b \/ place[a + n] = w}
  <1>1. \A i \in from..to : place[i] = IF i = from THEN "out" ELSE NextPlace(txt, to, place[i - 1], i)
    <2>1. from <= to
      BY DEF Leads
    <2> QED
      BY <2>1, PlacesSteps
  <1> HIDE DEF place
  <1>2. ASSUME NEW n \in Nat, n \in Y PROVE n + 1 \in Y
    <2>1. SUFFICES ASSUME a + (n + 1) <= b PROVE place[a + (n + 1)] = w
      OBVIOUS
    <2>2. place[a + n] \in V
      BY <1>2, <2>1 DEF place, Leads
    <2>3. /\ a + (n + 1) \in (a + 1)..b /\ a + (n + 1) \in from..to /\ a + (n + 1) # from
          /\ a + (n + 1) - 1 = a + n
      BY <2>1 DEF Leads
    <2>4. place[a + (n + 1)] = NextPlace(txt, to, place[a + n], a + (n + 1))
      BY <1>1, <2>3
    <2> QED
      BY <2>2, <2>3, <2>4 DEF Leads
  <1>3. Nat \subseteq Y
    <2>1. 0 \in Y
      OBVIOUS
    <2> HIDE DEF Y
    <2> QED
      BY <1>2, <2>1, SetInduction
  <1>4. ASSUME NEW i \in (a + 1)..b PROVE place[i] = w
    <2>1. i - a \in Nat /\ i - a # 0 /\ a + (i - a) = i /\ ~(i > b)
      OBVIOUS
    <2>2. i - a \in Y
      BY <1>3, <2>1
    <2> QED
      BY <2>1, <2>2
  <1> QED
    BY <1>4 DEF place, Alike

\* No tag opens after a, as far as b, and none closes.
Unopened(txt, a, b, to) == \A i \in (a + 1)..b : ~IsOpen(txt, i, to)
Unshut(txt, a, b, to) == \A i \in (a + 1)..b : ~IsClose(txt, i, to)

\* Between regions.
Between == {"out", "shut"}

\* Where no tag opens, the text stays outside.
LEMMA OutsideRun ==
  ASSUME NEW txt, NEW from \in Nat, NEW to \in Nat, NEW a \in Nat, NEW b \in Nat,
         from <= a, a <= b, b <= to,
         Places(txt, from, to)[a] \in Between, Unopened(txt, a, b, to)
  PROVE  Alike(txt, from, to, "out", a, b)
  <1>1. Leads(txt, from, to, Between, "out", a, b)
    BY DEF Leads, NextPlace, Between, Unopened
  <1> QED
    BY <1>1, PlacesRun

\* Where none closes, a region goes on.
LEMMA InsideRun ==
  ASSUME NEW txt, NEW from \in Nat, NEW to \in Nat, NEW a \in Nat, NEW b \in Nat,
         from <= a, a <= b, b <= to,
         Places(txt, from, to)[a] = "in", Unshut(txt, a, b, to)
  PROVE  Alike(txt, from, to, "in", a, b)
  <1>1. Leads(txt, from, to, {"in"}, "in", a, b)
    BY DEF Leads, NextPlace, Unshut
  <1> QED
    BY <1>1, PlacesRun

\* A reader that begins between regions sees what one sees that read it all.
LEMMA SameBeyond ==
  ASSUME NEW txt, NEW to \in Nat, NEW b \in 0..to, Places(txt, 0, to)[b] \in Between
  PROVE  \A i \in (b + 1)..to : Places(txt, b, to)[i] = Places(txt, 0, to)[i]
  <1> DEFINE place == Places(txt, b, to)
             all == Places(txt, 0, to)
             Y == {n \in Nat : n = 0 \/ b + n > to \/ place[b + n] = all[b + n]}
  <1>1. /\ \A i \in b..to : place[i] = IF i = b THEN "out" ELSE NextPlace(txt, to, place[i - 1], i)
        /\ \A i \in 0..to : all[i] = IF i = 0 THEN "out" ELSE NextPlace(txt, to, all[i - 1], i)
        /\ all[b] \in Between /\ b \in Nat
    BY PlacesSteps
  <1> HIDE DEF place, all
  <1>2. ASSUME NEW n \in Nat, n \in Y PROVE n + 1 \in Y
    <2>1. SUFFICES ASSUME b + (n + 1) <= to PROVE place[b + (n + 1)] = all[b + (n + 1)]
      OBVIOUS
    <2> DEFINE i == b + (n + 1)
    <2>2. i \in b..to /\ i # b /\ i \in 0..to /\ i # 0 /\ i - 1 = b + n
      BY <2>1
    <2>3. place[i] = NextPlace(txt, to, place[b + n], i) /\ all[i] = NextPlace(txt, to, all[b + n], i)
      BY <1>1, <2>2
    <2>4. CASE n = 0
      <3>1. b + n = b /\ b \in b..to
        BY <1>1, <2>4
      <3>2. place[b + n] = "out" /\ all[b + n] \in Between
        BY <1>1, <3>1
      <3> QED
        BY <2>3, <3>2 DEF Between, NextPlace
    <2>5. CASE n # 0
      BY <1>2, <2>1, <2>3, <2>5
    <2> QED
      BY <2>4, <2>5
  <1>3. Nat \subseteq Y
    <2>1. 0 \in Y
      OBVIOUS
    <2> HIDE DEF Y
    <2> QED
      BY <1>2, <2>1, SetInduction
  <1>4. ASSUME NEW i \in (b + 1)..to PROVE place[i] = all[i]
    <2>1. i - b \in Nat /\ i - b # 0 /\ b + (i - b) = i /\ ~(i > to)
      BY <1>1
    <2>2. i - b \in Y
      BY <1>3, <2>1
    <2> QED
      BY <2>1, <2>2
  <1> QED
    BY <1>4 DEF place, all

\* A region that is in progress at the end has begun.
LEMMA RegionBegins ==
  ASSUME NEW txt, NEW from \in Nat, NEW to \in Nat, from <= to,
         Places(txt, from, to)[to] \in {"open", "in"}
  PROVE  \E j \in (from + 1)..to : Places(txt, from, to)[j] = "open"
  <1> DEFINE place == Places(txt, from, to)
             Begins(i) == place[i] \in {"open", "in"} => \E j \in (from + 1)..i : place[j] = "open"
             Y == {n \in Nat : from + n <= to => Begins(from + n)}
  <1>1. \A i \in from..to : place[i] = IF i = from THEN "out" ELSE NextPlace(txt, to, place[i - 1], i)
    BY PlacesSteps
  <1> HIDE DEF place
  <1>2. 0 \in Y
    BY <1>1
  <1>3. ASSUME NEW n \in Nat, n \in Y PROVE n + 1 \in Y
    <2>1. SUFFICES ASSUME from + (n + 1) <= to, place[from + (n + 1)] \in {"open", "in"}
                   PROVE  \E j \in (from + 1)..(from + (n + 1)) : place[j] = "open"
      OBVIOUS
    <2> DEFINE i == from + (n + 1)
    <2>2. i \in from..to /\ i # from /\ i - 1 = from + n /\ i \in (from + 1)..i
      BY <2>1
    <2>3. place[i] = NextPlace(txt, to, place[from + n], i)
      BY <1>1, <2>2
    <2>4. CASE place[i] = "open"
      BY <2>2, <2>4
    <2>5. CASE place[i] = "in"
      <3>1. place[from + n] \in {"open", "in"}
        BY <2>3, <2>5 DEF NextPlace
      <3>2. PICK j \in (from + 1)..(from + n) : place[j] = "open"
        BY <1>3, <2>1, <3>1
      <3> QED
        BY <3>2
    <2> QED
      BY <2>1, <2>4, <2>5
  <1> HIDE DEF Y
  <1>4. to - from \in Y /\ from + (to - from) = to
    BY <1>2, <1>3, SetInduction
  <1> QED
    BY <1>4 DEF Y, place

\* Between regions, what is left of the rest of a text is what is left of it there.
LEMMA StrippedRest ==
  ASSUME NEW txt, NEW to \in Nat, NEW b \in 0..to, Places(txt, 0, to)[b] \in Between
  PROVE  /\ Outside(txt, b, to) = {i \in Outside(txt, 0, to) : i > b}
         /\ Unclosed(txt, b, to) \subseteq Unclosed(txt, 0, to)
  <1> DEFINE place == Places(txt, b, to)
             all == Places(txt, 0, to)
             starts == {i \in (b + 1)..to : place[i] = "open"}
             begins == {i \in (0 + 1)..to : all[i] = "open"}
  <1>1. \A i \in (b + 1)..to : place[i] = all[i]
    BY SameBeyond
  <1>2. /\ Outside(txt, b, to) = {i \in (b + 1)..to : place[i] = "out"}
        /\ Outside(txt, 0, to) = {i \in (0 + 1)..to : all[i] = "out"}
        /\ Unclosed(txt, b, to) = IF place[to] # "in" THEN {} ELSE Max(starts)..to
        /\ Unclosed(txt, 0, to) = IF all[to] # "in" THEN {} ELSE Max(begins)..to
    BY DEF Outside, Unclosed
  <1>3. place[b] = "out" /\ b \in Nat /\ b <= to
    <2>1. b \in Nat /\ b <= to /\ b \in b..to
      OBVIOUS
    <2>2. place[b] = IF b = b THEN "out" ELSE NextPlace(txt, to, place[b - 1], b)
      BY <2>1, PlacesSteps
    <2> QED
      BY <2>1, <2>2
  <1>4. place[to] = "in" => starts # {}
    BY <1>3, RegionBegins
  <1> HIDE DEF place, all
  <1>5. Outside(txt, b, to) = {i \in Outside(txt, 0, to) : i > b}
    BY <1>1, <1>2, <1>3
  <1>6. CASE place[to] = "in"
    <2>1. b # to /\ all[to] = "in"
      BY <1>1, <1>3, <1>6
    <2>2. starts \subseteq begins /\ starts # {} /\ starts \in SUBSET (1..to) /\ begins \in SUBSET (1..to)
      BY <1>1, <1>3, <1>4, <1>6
    <2>3. /\ Max(starts) \in starts /\ \A y \in starts : y <= Max(starts)
          /\ Max(begins) \in begins /\ \A y \in begins : y <= Max(begins)
      BY <2>2, MaxIsIn
    <2>4. Max(begins) = Max(starts)
      <3>1. Max(starts) <= Max(begins) /\ Max(starts) > b /\ Max(begins) <= to
        BY <2>2, <2>3
      <3>2. Max(begins) \in starts
        BY <1>1, <1>3, <2>3, <3>1
      <3> QED
        BY <2>2, <2>3, <3>1, <3>2
    <2> QED
      BY <1>2, <1>5, <1>6, <2>1, <2>4
  <1> QED
    BY <1>2, <1>5, <1>6

-----------------------------------------------------------------------------
\* The reader of the whole text.

\* The text as a reader sees it that has all of it.
Reader(txt) == Places(txt, 0, Len(txt))

\* The filter keeps up with that reader: it stands between regions, or before one
\* whose tag is in the buffer, and has shown what is outside, but for blanks.
KeepsUp(txt, s) ==
    /\ Reader(txt)[s.base] \in Between
    /\ s.thinking => s.base + 2 <= s.read /\ Reader(txt)[s.base + 1] = "open"
    /\ s.shown \subseteq Outside(txt, 0, Len(txt))
    /\ \A i \in Outside(txt, 0, Len(txt)) : i <= s.base /\ txt[i] # "s" => i \in s.shown

\* What the reader's place of a unit says of the next one.
LEMMA ReaderSteps ==
  ASSUME NEW txt, Len(txt) \in Nat, NEW i \in Nat, i < Len(txt)
  PROVE  /\ Reader(txt)[i + 1] = NextPlace(txt, Len(txt), Reader(txt)[i], i + 1)
         /\ i + 1 \in Outside(txt, 0, Len(txt)) <=> Reader(txt)[i + 1] = "out"
  <1>1. i + 1 \in 0..Len(txt) /\ i + 1 # 0 /\ i + 1 - 1 = i /\ i + 1 \in (0 + 1)..Len(txt)
    OBVIOUS
  <1>2. Places(txt, 0, Len(txt))[i + 1] = NextPlace(txt, Len(txt), Places(txt, 0, Len(txt))[i + 1 - 1], i + 1)
    <2> DEFINE place == Places(txt, 0, Len(txt))
    <2>1. \A k \in 0..Len(txt) : place[k] = IF k = 0 THEN "out" ELSE NextPlace(txt, Len(txt), place[k - 1], k)
      BY PlacesSteps
    <2> HIDE DEF place
    <2> QED
      BY <1>1, <2>1 DEF place
  <1> QED
    BY <1>1, <1>2 DEF Reader, Outside

\* Up to the first tag that opens, and as far as no tag can have begun, the reader
\* stays outside.
LEMMA OutsideUpTo ==
  ASSUME NEW txt, Len(txt) \in Nat, NEW b \in Nat, NEW to \in Nat, NEW m \in Nat,
         b <= m, m < to, to <= Len(txt), Reader(txt)[b] \in Between, Unopened(txt, b, m, to)
  PROVE  /\ (b + 1)..m \subseteq Outside(txt, 0, Len(txt))
         /\ Reader(txt)[m] \in Between
  <1>1. Unopened(txt, b, m, Len(txt))
    BY DEF Unopened, IsOpen
  <1>2. m <= Len(txt)
    OBVIOUS
  <1>3. Alike(txt, 0, Len(txt), "out", b, m)
    BY <1>1, <1>2, OutsideRun DEF Reader
  <1>4. \A i \in (b + 1)..m : Reader(txt)[i] = "out"
    BY <1>3 DEF Alike, Reader
  <1>5. (b + 1)..m \subseteq Outside(txt, 0, Len(txt))
    BY <1>2, <1>4 DEF Outside, Reader
  <1>6. Reader(txt)[m] \in Between
    <2>1. m = b \/ m \in (b + 1)..m
      OBVIOUS
    <2> QED
      BY <1>4, <2>1 DEF Between
  <1> QED
    BY <1>5, <1>6

\* From a tag that opens to the first that closes, the reader is in a region.
LEMMA InsideUpTo ==
  ASSUME NEW txt, Len(txt) \in Nat, NEW b \in Nat, NEW to \in Nat, NEW m \in Nat,
         b < m, to <= Len(txt), Reader(txt)[b] \in Between, Reader(txt)[b + 1] = "open",
         IsClose(txt, m, to), Unshut(txt, b, m - 1, to)
  PROVE  /\ Reader(txt)[m + 1] = "shut"
         /\ \A i \in (b + 1)..(m + 1) : i \notin Outside(txt, 0, Len(txt))
  <1> DEFINE L == Len(txt)
  <1>1. m < to /\ txt[m] = "c1" /\ txt[m + 1] = "c2" /\ IsClose(txt, m, L)
    BY DEF IsClose
  <1>2. IsOpen(txt, b + 1, L)
    <2>1. b < L
      BY <1>1
    <2>2. Reader(txt)[b + 1] = NextPlace(txt, L, Reader(txt)[b], b + 1)
      BY <2>1, ReaderSteps
    <2> QED
      BY <2>2 DEF NextPlace, Between
  <1>3. b + 2 <= L /\ txt[b + 1] = "o1" /\ txt[b + 2] = "o2"
    BY <1>2 DEF IsOpen
  <1>4. m >= b + 3
    <2>1. m # b + 1 /\ m # b + 2
      BY <1>1, <1>3
    <2> QED
      BY <2>1
  <1>5. Reader(txt)[b + 2] = "in"
    <2>1. b + 1 \in Nat /\ b + 1 < L /\ b + 1 + 1 = b + 2
      BY <1>3
    <2>2. Reader(txt)[b + 2] = NextPlace(txt, L, Reader(txt)[b + 1], b + 2)
      BY <2>1, ReaderSteps
    <2> QED
      BY <2>2 DEF NextPlace
  <1>6. \A i \in (b + 3)..(m - 1) : Reader(txt)[i] = "in"
    <2>1. /\ b + 2 \in Nat /\ m - 1 \in Nat /\ 0 <= b + 2 /\ b + 2 <= m - 1 /\ m - 1 <= L
          /\ b + 2 + 1 = b + 3
      BY <1>1, <1>4
    <2>2. Unshut(txt, b + 2, m - 1, L)
      BY <1>1, <2>1 DEF Unshut, IsClose
    <2>3. Alike(txt, 0, L, "in", b + 2, m - 1)
      BY <1>5, <2>1, <2>2, InsideRun DEF Reader
    <2> QED
      BY <2>1, <2>3 DEF Alike, Reader
  <1>7. Reader(txt)[m] = "close"
    <2>1. Reader(txt)[m - 1] = "in"
      <3>1. m - 1 = b + 2 \/ m - 1 \in (b + 3)..(m - 1)
        BY <1>4
      <3> QED
        BY <1>5, <1>6, <3>1
    <2>2. m - 1 \in Nat /\ m - 1 < L /\ m - 1 + 1 = m
      BY <1>1, <1>4
    <2>3. Reader(txt)[m] = NextPlace(txt, L, Reader(txt)[m - 1], m)
      BY <2>2, ReaderSteps
    <2> QED
      BY <1>1, <2>1, <2>3 DEF NextPlace
  <1>8. Reader(txt)[m + 1] = "shut"
    <2>1. m < L
      BY <1>1
    <2>2. Reader(txt)[m + 1] = NextPlace(txt, L, Reader(txt)[m], m + 1)
      BY <2>1, ReaderSteps
    <2> QED
      BY <1>7, <2>2 DEF NextPlace
  <1>9. ASSUME NEW i \in (b + 1)..(m + 1) PROVE Reader(txt)[i] # "out"
    <2>1. i = b + 1 \/ i = b + 2 \/ i \in (b + 3)..(m - 1) \/ i = m \/ i = m + 1
      BY <1>4
    <2> QED
      BY <1>5, <1>6, <1>7, <1>8, <2>1
  <1> QED
    BY <1>8, <1>9 DEF Outside, Reader

-----------------------------------------------------------------------------
\* The filter keeps up with the reader of the whole text.

\* A filter that keeps up still does when its base is farther on and it has shown what
\* is outside in between, but for blanks.
LEMMA MovesOn ==
  ASSUME NEW txt, Len(txt) \in Nat, NEW s, NEW r, NEW new, KeepsUp(txt, s),
         s.base \in Nat, r.base \in Nat, s.base <= r.base,
         r.shown = s.shown \cup new,
         new \subseteq Outside(txt, 0, Len(txt)),
         (Outside(txt, 0, Len(txt)) \cap (s.base + 1)..r.base) \ new \subseteq {i \in Nat : txt[i] = "s"},
         Reader(txt)[r.base] \in Between,
         r.thinking => r.base + 2 <= r.read /\ Reader(txt)[r.base + 1] = "open"
  PROVE  KeepsUp(txt, r)
  <1> DEFINE out == Outside(txt, 0, Len(txt))
  <1>1. out \subseteq Nat
    BY DEF Outside
  <1> HIDE DEF out
  <1>2. s.shown \subseteq out /\ \A i \in out : i <= s.base /\ txt[i] # "s" => i \in s.shown
    BY DEF KeepsUp, out
  <1>3. r.shown \subseteq out
    BY <1>2 DEF out
  <1>4. ASSUME NEW i \in out, i <= r.base, txt[i] # "s" PROVE i \in r.shown
    <2>1. CASE i <= s.base
      BY <1>2, <1>4, <2>1
    <2>2. CASE ~(i <= s.base)
      <3>1. i \in (s.base + 1)..r.base
        BY <1>1, <1>4, <2>2
      <3>2. i \in new
        BY <1>1, <1>4, <3>1 DEF out
      <3> QED
        BY <3>2
    <2> QED
      BY <2>1, <2>2
  <1> QED
    BY <1>3, <1>4 DEF KeepsUp, out

\* What is shown next lies beyond the base there was.
Beyond(s, r) == \A j \in r.shown \ s.shown : j > s.base

\* A token keeps the filter up with the reader.
LEMMA FeedKeepsUp ==
  ASSUME NEW txt, NEW s, NEW n \in Nat, Len(txt) \in Nat, FilterT(txt, s), s.read + n <= Len(txt),
         KeepsUp(txt, s)
  PROVE  KeepsUp(txt, Feed(txt, s, n)) /\ Beyond(s, Feed(txt, s, n))
  <1> DEFINE to == s.read + n
             opens == Opens(txt, s.base, to)
             closes == Closes(txt, s.base, to)
             before == (s.base + 1)..(Min(opens) - 1)
             next == [s EXCEPT !.read = to]
             out == Outside(txt, 0, Len(txt))
  <1>1. /\ s.base \in Nat /\ s.read \in Nat /\ to \in Nat /\ s.shown \in SUBSET Nat
        /\ s.base <= s.read /\ s.read <= to /\ to <= Len(txt) /\ s.thinking \in BOOLEAN
    BY DEF FilterT, FilterR
  <1>2. /\ next \in FilterR /\ next.base = s.base /\ next.read = to
        /\ next.thinking = s.thinking /\ next.shown = s.shown
    BY <1>1 DEF FilterT, FilterR
  <1>3. /\ \A i \in opens : i \in Nat /\ i > s.base /\ i + 1 <= to /\ IsOpen(txt, i, to)
        /\ \A i \in closes : i \in Nat /\ i > s.base /\ i + 1 <= to /\ IsClose(txt, i, to)
        /\ \A i \in (s.base + 1)..to : (IsOpen(txt, i, to) => i \in opens) /\ (IsClose(txt, i, to) => i \in closes)
        /\ opens \in SUBSET Nat /\ closes \in SUBSET Nat
    BY <1>1 DEF Opens, Closes, IsOpen, IsClose
  <1>4. Feed(txt, s, n) =
          IF ~s.thinking /\ opens # {}
          THEN [next EXCEPT !.base = Min(opens) - 1, !.thinking = TRUE,
                            !.shown = IF \E i \in before : txt[i] # "s" THEN @ \cup before ELSE @]
          ELSE IF s.thinking /\ closes # {}
          THEN [next EXCEPT !.base = Min(closes) + 1, !.thinking = FALSE]
          ELSE IF ~s.thinking /\ to - s.base > TagLen + Slack
          THEN [next EXCEPT !.base = to - TagLen,
                            !.shown = @ \cup Stripped(txt, s.base, to - TagLen)]
          ELSE next
    BY DEF Feed
  <1>5. Reader(txt)[s.base] \in Between
    BY DEF KeepsUp
  <1> HIDE DEF next, opens, closes, to
  <1>6. CASE ~s.thinking /\ opens # {}
    <2> DEFINE m == Min(opens)
               new == IF \E i \in before : txt[i] # "s" THEN before ELSE {}
               r == Feed(txt, s, n)
    <2>1. m \in opens /\ \A y \in opens : m <= y
      BY <1>3, <1>6, MinIsIn
    <2>2. m \in Nat /\ m > s.base /\ m + 1 <= to /\ IsOpen(txt, m, to)
      BY <1>3, <2>1
    <2>3. r = [next EXCEPT !.base = m - 1, !.thinking = TRUE, !.shown = s.shown \cup new]
      BY <1>2, <1>4, <1>6
    <2> HIDE DEF m
    <2>4. before = (s.base + 1)..(m - 1)
      BY DEF m
    <2> HIDE DEF before
    <2>5. new \subseteq before /\ before \subseteq Nat
      BY <1>1, <2>2, <2>4
    <2>6. before \ new \subseteq {i \in Nat : txt[i] = "s"}
      BY <2>5
    <2> HIDE DEF new
    <2>7. r.base = m - 1 /\ r.read = to /\ r.thinking = TRUE /\ r.shown = s.shown \cup new
      BY <1>2, <2>3 DEF FilterR
    <2> HIDE DEF r
    <2>8. Unopened(txt, s.base, m - 1, to)
      <3>1. ASSUME NEW i \in (s.base + 1)..(m - 1), IsOpen(txt, i, to) PROVE FALSE
        <4>1. i \in (s.base + 1)..to /\ ~(m <= i)
          BY <1>1, <2>2
        <4> QED
          BY <1>3, <2>1, <3>1, <4>1
      <3> QED
        BY <3>1 DEF Unopened
    <2>9. before \subseteq out /\ Reader(txt)[m - 1] \in Between
      <3>1. m - 1 \in Nat /\ s.base <= m - 1 /\ m - 1 < to
        BY <1>1, <2>2
      <3> QED
        BY <1>1, <1>5, <2>4, <2>8, <3>1, OutsideUpTo
    <2>10. Reader(txt)[m] = "open"
      <3>1. m - 1 \in Nat /\ m - 1 < Len(txt) /\ m - 1 + 1 = m
        BY <1>1, <2>2
      <3>2. Reader(txt)[m] = NextPlace(txt, Len(txt), Reader(txt)[m - 1], m)
        BY <3>1, ReaderSteps
      <3>3. IsOpen(txt, m, Len(txt))
        BY <1>1, <2>2 DEF IsOpen
      <3> QED
        BY <2>9, <3>2, <3>3 DEF NextPlace, Between
    <2>11. r.base + 1 = m /\ r.base + 2 <= r.read /\ r.base \in Nat /\ s.base <= r.base
      BY <1>1, <2>2, <2>7
    <2>12. KeepsUp(txt, r)
      <3>1. new \subseteq out
        BY <2>5, <2>9
      <3>2. (out \cap (s.base + 1)..r.base) \ new \subseteq {i \in Nat : txt[i] = "s"}
        BY <2>4, <2>6, <2>7
      <3>3. Reader(txt)[r.base] \in Between /\ Reader(txt)[r.base + 1] = "open"
        BY <2>7, <2>9, <2>10, <2>11
      <3> QED
        BY <1>1, <2>7, <2>11, <3>1, <3>2, <3>3, MovesOn
    <2>13. Beyond(s, r)
      <3>1. \A j \in new : j > s.base
        BY <1>1, <2>4, <2>5
      <3>2. r.shown \ s.shown \subseteq new
        BY <2>7
      <3> QED
        BY <3>1, <3>2 DEF Beyond
    <2> QED
      BY <2>12, <2>13 DEF r
  <1>7. CASE s.thinking /\ closes # {}
    <2> DEFINE m == Min(closes)
               r == Feed(txt, s, n)
    <2>1. m \in closes /\ \A y \in closes : m <= y
      BY <1>3, <1>7, MinIsIn
    <2>2. m \in Nat /\ m > s.base /\ m + 1 <= to /\ IsClose(txt, m, to)
      BY <1>3, <2>1
    <2>3. r = [next EXCEPT !.base = m + 1, !.thinking = FALSE]
      BY <1>4, <1>7
    <2> HIDE DEF m
    <2>4. r.base = m + 1 /\ r.read = to /\ r.thinking = FALSE /\ r.shown = s.shown
      BY <1>2, <2>3 DEF FilterR
    <2> HIDE DEF r
    <2>5. Unshut(txt, s.base, m - 1, to)
      <3>1. ASSUME NEW i \in (s.base + 1)..(m - 1), IsClose(txt, i, to) PROVE FALSE
        <4>1. i \in (s.base + 1)..to /\ ~(m <= i)
          BY <1>1, <2>2
        <4> QED
          BY <1>3, <2>1, <3>1, <4>1
      <3> QED
        BY <3>1 DEF Unshut
    <2>6. Reader(txt)[s.base + 1] = "open"
      BY <1>7 DEF KeepsUp
    <2>7. /\ Reader(txt)[m + 1] = "shut"
          /\ \A i \in (s.base + 1)..(m + 1) : i \notin out
      BY <1>1, <1>5, <2>2, <2>5, <2>6, InsideUpTo
    <2>8. KeepsUp(txt, r)
      <3> DEFINE new == {}
      <3>1. r.shown = s.shown \cup new /\ new \subseteq out
        BY <2>4
      <3>2. (out \cap (s.base + 1)..r.base) \ new \subseteq {i \in Nat : txt[i] = "s"}
        BY <2>4, <2>7
      <3>3. Reader(txt)[r.base] \in Between
        BY <2>4, <2>7 DEF Between
      <3>4. r.base \in Nat /\ s.base <= r.base /\ ~r.thinking
        BY <1>1, <2>2, <2>4
      <3> HIDE DEF new
      <3> QED
        BY <1>1, <3>1, <3>2, <3>3, <3>4, MovesOn
    <2>9. Beyond(s, r)
      BY <2>4 DEF Beyond
    <2> QED
      BY <2>8, <2>9 DEF r
  <1>8. CASE ~s.thinking /\ opens = {} /\ to - s.base > TagLen + Slack
    <2> DEFINE b == to - TagLen
               new == Stripped(txt, s.base, b)
               r == Feed(txt, s, n)
    <2>1. b \in Nat /\ s.base < b /\ b < to
      BY <1>1, <1>8 DEF TagLen, Slack
    <2>2. r = [next EXCEPT !.base = b, !.shown = s.shown \cup new]
      BY <1>1, <1>2, <1>4, <1>8
    <2> HIDE DEF b, new
    <2>3. r.base = b /\ r.read = to /\ r.thinking = FALSE /\ r.shown = s.shown \cup new
      BY <1>2, <1>8, <2>2 DEF FilterR
    <2> HIDE DEF r
    <2>4. Unopened(txt, s.base, b, to)
      <3>1. ASSUME NEW i \in (s.base + 1)..b, IsOpen(txt, i, to) PROVE FALSE
        <4>1. i \in (s.base + 1)..to
          BY <1>1, <2>1
        <4> QED
          BY <1>3, <1>8, <3>1, <4>1
      <3> QED
        BY <3>1 DEF Unopened
    <2>5. (s.base + 1)..b \subseteq out /\ Reader(txt)[b] \in Between
      BY <1>1, <1>5, <2>1, <2>4, OutsideUpTo
    <2>6. new = (s.base + 1)..b
      <3>1. Unopened(txt, s.base, b, b)
        BY <1>1, <2>1, <2>4 DEF Unopened, IsOpen
      <3>2. Places(txt, s.base, b)[s.base] \in Between
        <4>1. s.base \in Nat /\ b \in Nat /\ s.base \in s.base..b /\ s.base <= b
          BY <1>1, <2>1
        <4>2. \A i \in s.base..b : Places(txt, s.base, b)[i] =
                 IF i = s.base THEN "out" ELSE NextPlace(txt, b, Places(txt, s.base, b)[i - 1], i)
          BY <4>1, PlacesSteps
        <4> QED
          BY <4>1, <4>2 DEF Between
      <3>3. Alike(txt, s.base, b, "out", s.base, b)
        <4>1. s.base <= s.base /\ s.base <= b /\ b <= b
          BY <1>1, <2>1
        <4> QED
          BY <1>1, <2>1, <3>1, <3>2, <4>1, OutsideRun
      <3>4. \A i \in (s.base + 1)..b : Places(txt, s.base, b)[i] = "out"
        BY <3>3 DEF Alike
      <3>5. Outside(txt, s.base, b) = (s.base + 1)..b
        BY <3>4 DEF Outside
      <3>6. Unclosed(txt, s.base, b) = {}
        <4>1. b \in (s.base + 1)..b
          BY <1>1, <2>1
        <4> QED
          BY <3>4, <4>1 DEF Unclosed
      <3> QED
        BY <3>5, <3>6 DEF Stripped, new
    <2>7. KeepsUp(txt, r)
      <3>1. new \subseteq out
        BY <2>5, <2>6
      <3>2. (out \cap (s.base + 1)..r.base) \ new \subseteq {i \in Nat : txt[i] = "s"}
        BY <2>3, <2>6
      <3>3. Reader(txt)[r.base] \in Between /\ r.base \in Nat /\ s.base <= r.base /\ ~r.thinking
        BY <1>1, <2>1, <2>3, <2>5
      <3> QED
        BY <1>1, <2>3, <3>1, <3>2, <3>3, MovesOn
    <2>8. Beyond(s, r)
      BY <1>1, <2>3, <2>6 DEF Beyond
    <2> QED
      BY <2>7, <2>8 DEF r
  <1>9. CASE Feed(txt, s, n) = next
    <2>1. KeepsUp(txt, next)
      BY <1>1, <1>2 DEF KeepsUp
    <2>2. Beyond(s, next)
      BY <1>2 DEF Beyond
    <2> QED
      BY <1>9, <2>1, <2>2
  <1> QED
    BY <1>1, <1>4, <1>6, <1>7, <1>8, <1>9

\* What a finished answer has, by the state of the filter at the end.
Owed(txt, s) ==
    {i \in Outside(txt, 0, Len(txt)) : txt[i] # "s"}
    \ (IF s.thinking THEN (s.base + 1)..s.read ELSE {})

\* At the end of the tokens everything that is owed is shown, and nothing but what may be.
LEMMA FlushShows ==
  ASSUME NEW txt, NEW s, Len(txt) \in Nat, FilterT(txt, s), s.read = Len(txt), KeepsUp(txt, s)
  PROVE  /\ Owed(txt, Flush(txt, s)) \subseteq Flush(txt, s).shown
         /\ Flush(txt, s).shown \subseteq Outside(txt, 0, Len(txt)) \cup Unclosed(txt, 0, Len(txt))
         /\ Beyond(s, Flush(txt, s))
  <1> DEFINE out == Outside(txt, 0, Len(txt))
  <1>1. /\ s.base \in Nat /\ s.read \in Nat /\ s.shown \in SUBSET Nat
        /\ s.base <= s.read /\ s.thinking \in BOOLEAN /\ s \in FilterR
    BY DEF FilterT, FilterR
  <1>2. /\ s.shown \subseteq out /\ Reader(txt)[s.base] \in Between
        /\ \A i \in out : i <= s.base /\ txt[i] # "s" => i \in s.shown
    BY DEF KeepsUp
  <1>3. out \subseteq 1..Len(txt)
    BY DEF Outside
  <1> HIDE DEF out
  <1>4. CASE s.thinking
    <2>1. Flush(txt, s) = s
      BY <1>4 DEF Flush
    <2>2. Owed(txt, s) \subseteq s.shown
      BY <1>1, <1>2, <1>3, <1>4 DEF Owed, out
    <2> QED
      BY <1>2, <2>1, <2>2 DEF Beyond, out
  <1>5. CASE ~s.thinking
    <2> DEFINE new == Stripped(txt, s.base, s.read)
               r == Flush(txt, s)
    <2>1. r = [s EXCEPT !.base = s.read, !.shown = s.shown \cup new]
      BY <1>1, <1>5 DEF Flush, FilterR
    <2> HIDE DEF new
    <2>2. r.shown = s.shown \cup new /\ r.thinking = FALSE
      BY <1>1, <1>5, <2>1 DEF FilterR
    <2> HIDE DEF r
    <2>3. /\ Outside(txt, s.base, Len(txt)) = {i \in out : i > s.base}
          /\ Unclosed(txt, s.base, Len(txt)) \subseteq Unclosed(txt, 0, Len(txt))
      BY <1>1, <1>2, StrippedRest DEF Reader, out
    <2>4. {i \in out : i > s.base} \subseteq new /\ new \subseteq out \cup Unclosed(txt, 0, Len(txt))
      BY <2>3 DEF new, Stripped
    <2>5. Owed(txt, r) \subseteq r.shown
      BY <1>1, <1>2, <1>3, <2>2, <2>4 DEF Owed, out
    <2>6. r.shown \subseteq out \cup Unclosed(txt, 0, Len(txt))
      BY <1>2, <2>2, <2>4
    <2>7. Beyond(s, r)
      <3>1. new \subseteq (s.base + 1)..Len(txt)
        BY <1>1, StrippedPlaces DEF new
      <3>2. \A j \in new : j > s.base
        BY <1>1, <3>1
      <3>3. r.shown \ s.shown \subseteq new
        BY <2>2
      <3> QED
        BY <3>2, <3>3 DEF Beyond
    <2> QED
      BY <2>5, <2>6, <2>7 DEF r, out
  <1> QED
    BY <1>1, <1>4, <1>5

-----------------------------------------------------------------------------
\* Every step of the request is a step of the stream, or none: what is generated here.

\* The steps of AnswerStream, as steps of the stream.
Delivers ==
    /\ stream.stage = "open"
    /\ stream.seen \subseteq stream'.seen /\ stream'.seen \subseteq Allowed'
    /\ \A i \in stream.seen, j \in stream'.seen \ stream.seen : i < j
    /\ stream'.stage = "finished" => Due' \subseteq stream'.seen
ClosesDown == stream.stage = "failed" /\ stream'.stage = "ended" /\ stream'.seen = stream.seen
Stays == stream'.seen = stream.seen /\ stream'.stage = stream.stage
Keeps == Delivers \/ ClosesDown \/ Stays

\* A step that keeps the promise is one AnswerStream allows, or none.
LEMMA KeepsSteps == Keeps => [Promise!Next]_(Promise!vars)
  <1>1. Delivers => Promise!Deliver
    BY DEF Delivers, Promise!Deliver, Promise!InOrder
  <1>2. ClosesDown => Promise!End
    BY DEF ClosesDown, Promise!End
  <1>3. Stays => UNCHANGED Promise!vars
    BY DEF Stays, Promise!vars
  <1> QED
    BY <1>1, <1>2, <1>3 DEF Keeps, Promise!Next

\* What has been said of an answer that is generated here.
Preparing == {"freshness", "analyze", "context"}
Means ==
    Local =>
        /\ pc \in Preparing => filter = Fresh /\ stream.seen = {}
        /\ pc = "generate" => /\ KeepsUp(text, filter)
                              /\ stream.seen = IF request.edit THEN {} ELSE filter.shown
        /\ pc = "finish" => /\ stream.seen = filter.shown /\ Due \subseteq stream.seen
                            /\ stream.seen \subseteq Allowed

\* At the start nothing has been said.
LEMMA MeansInit == Init => Means
  BY DEF Init, Means, Preparing

\* Until the response is over the stream has said nothing but what it may.
LEMMA SeenAllowed ==
  ASSUME Inv, Means, pc # "over"
  PROVE  stream.seen \subseteq Allowed
  <1>1. stream.seen \subseteq 1..Len(text)
    BY DEF Inv, Shape, StreamsT
  <1>2. CASE Local
    <2>1. pc \in Preparing \/ pc = "generate" \/ pc = "finish"
      BY <1>2 DEF Inv, Shape, Modes, Pcs, Preparing
    <2>2. pc = "generate" => stream.seen \subseteq Outside(text, 0, Len(text))
      BY <1>2 DEF Means, KeepsUp
    <2> QED
      BY <1>2, <2>1, <2>2 DEF Means, Allowed
  <1>3. CASE ~Local
    BY <1>1, <1>3 DEF Allowed
  <1> QED
    BY <1>2, <1>3

\* What may be said is told by the request and the text, and what is owed by the
\* filter as well.
LEMMA AllowedIs ==
  ASSUME UNCHANGED <<request, text>>
  PROVE  /\ Local' = Local /\ Allowed' = Allowed
         /\ ~Local => Allowed = 1..Len(text) /\ Due' = 1..Len(text)
         /\ Local => /\ Allowed = Outside(text, 0, Len(text)) \cup Unclosed(text, 0, Len(text))
                     /\ Due = Owed(text, filter) /\ Due' = Owed(text, filter')
  <1>1. Local' = Local
    BY DEF Local
  <1> QED
    BY <1>1 DEF Allowed, Due, Owed

\* A step that ends the response without the rest of the answer.
LEMMA GivesUp ==
  ASSUME Inv, Means, pc # "over", pc' = "over", UNCHANGED <<request, text>>,
         stream.stage = "open", stream'.seen = stream.seen, stream'.stage \in {"cut", "ended"}
  PROVE  Means' /\ Keeps
  <1>1. stream.seen \subseteq Allowed'
    BY SeenAllowed, AllowedIs
  <1>2. Delivers
    BY <1>1 DEF Delivers
  <1>3. Means'
    BY DEF Means, Preparing
  <1> QED
    BY <1>2, <1>3 DEF Keeps

\* A step that leaves the stream alone, where nothing is generated here.
LEMMA LeavesAlone ==
  ASSUME ~Local \/ pc' = "over", UNCHANGED <<request, stream>>
  PROVE  Means' /\ Keeps
  <1>1. Means'
    BY DEF Means, Preparing, Local
  <1>2. Stays
    BY DEF Stays
  <1> QED
    BY <1>1, <1>2 DEF Keeps

\* A failure before the stream has ended.
LEMMA FailsIs ==
  ASSUME stream \in StreamsT
  PROVE  /\ Failed.seen = stream.seen /\ Failed.stage = "ended"
         /\ [stream EXCEPT !.stage = "cut"].seen = stream.seen
         /\ [stream EXCEPT !.stage = "cut"].stage = "cut"
         /\ \A seen : /\ [stream EXCEPT !.seen = seen].seen = seen
                      /\ [stream EXCEPT !.seen = seen].stage = stream.stage
  BY DEF StreamsT, Failed

-----------------------------------------------------------------------------
\* The check of the index says nothing of the answer, and may end the response.
LEMMA CheckFreshnessKeeps ==
  ASSUME NEW outcome \in Outcomes, Inv, Means, CheckFreshness(outcome)
  PROVE  Means' /\ Keeps
  <1>1. pc = "freshness" /\ UNCHANGED <<request, text, filter>>
    BY DEF CheckFreshness
  <1>2. stream.stage = "open" /\ stream \in StreamsT
    BY <1>1, EarlyUnasked
  <1>3. \/ UNCHANGED stream /\ pc' = IF Local THEN "analyze" ELSE "collect"
        \/ pc' = "over" /\ stream' \in {Failed, [stream EXCEPT !.stage = "cut"]}
    BY DEF CheckFreshness, BreakOff, SayLast
  <1>4. CASE UNCHANGED stream /\ pc' = IF Local THEN "analyze" ELSE "collect"
    <2>1. Stays
      BY <1>4 DEF Stays
    <2>2. Means'
      BY <1>1, <1>4 DEF Means, Preparing, Local
    <2> QED
      BY <2>1, <2>2 DEF Keeps
  <1>5. CASE pc' = "over" /\ stream' \in {Failed, [stream EXCEPT !.stage = "cut"]}
    <2>1. stream'.seen = stream.seen /\ stream'.stage \in {"cut", "ended"}
      BY <1>2, <1>5, FailsIs
    <2> QED
      BY <1>1, <1>2, <1>5, <2>1, GivesUp
  <1> QED
    BY <1>3, <1>4, <1>5

\* Where an answer is generated here.
LEMMA LocalPc ==
  ASSUME Inv, pc \in LocalPcs
  PROVE  /\ Local /\ stream.stage = "open" /\ stream \in StreamsT /\ Len(text) \in Nat
         /\ FilterT(text, filter) /\ request.edit \in BOOLEAN
  BY EarlyUnasked, ReadRequest DEF Inv, Modes, LocalPcs

\* A piece of the answer comes after what was shown.
LEMMA ShownLater ==
  ASSUME NEW txt, NEW s, NEW r, Len(txt) \in Nat, FilterT(txt, s), FilterT(txt, r), Beyond(s, r)
  PROVE  \A i \in s.shown, j \in r.shown \ s.shown : i < j
  <1>1. s.base \in Nat /\ s.shown \subseteq 1..s.base /\ r.shown \subseteq Nat
    BY DEF FilterT, FilterR
  <1> QED
    BY <1>1 DEF Beyond

\* An answer from the cache comes at once.
LEMMA AnalyzeKeeps ==
  ASSUME NEW hit \in BOOLEAN, Inv, Means, Analyze(hit)
  PROVE  Means' /\ Keeps
  <1>1. /\ pc = "analyze" /\ pc' = IF hit THEN "finish" ELSE "context"
        /\ filter' = IF hit THEN [filter EXCEPT !.base = Len(text), !.read = Len(text),
                                                !.shown = Outside(text, 0, Len(text))]
                     ELSE filter
        /\ stream' = [stream EXCEPT !.seen = filter'.shown]
        /\ UNCHANGED <<request, text>>
    BY DEF Analyze, Seen, localVars
  <1>2. Local /\ stream.stage = "open" /\ stream \in StreamsT /\ FilterT(text, filter)
    BY <1>1, LocalPc DEF LocalPcs
  <1>3. filter = Fresh /\ stream.seen = {}
    BY <1>1, <1>2 DEF Means, Preparing
  <1>4. /\ stream'.seen = filter'.shown /\ stream'.stage = "open"
        /\ Local' /\ Allowed' = Allowed /\ Due' = Owed(text, filter')
        /\ Allowed = Outside(text, 0, Len(text)) \cup Unclosed(text, 0, Len(text))
    <2>1. /\ [stream EXCEPT !.seen = filter'.shown].seen = filter'.shown
          /\ [stream EXCEPT !.seen = filter'.shown].stage = stream.stage
      BY <1>2, FailsIs
    <2> QED
      BY <1>1, <1>2, <2>1, AllowedIs
  <1>5. CASE hit
    <2>1. filter'.shown = Outside(text, 0, Len(text))
      BY <1>1, <1>2, <1>5 DEF FilterT, FilterR
    <2>2. Due' \subseteq stream'.seen /\ stream'.seen \subseteq Allowed'
      BY <1>4, <2>1 DEF Owed
    <2>3. Delivers
      BY <1>2, <1>3, <1>4, <2>2 DEF Delivers
    <2>4. Means'
      BY <1>1, <1>4, <1>5, <2>2 DEF Means, Preparing
    <2> QED
      BY <2>3, <2>4 DEF Keeps
  <1>6. CASE ~hit
    <2>1. filter' = filter /\ filter'.shown = {}
      BY <1>1, <1>3, <1>6 DEF Fresh
    <2>2. Stays
      BY <1>2, <1>3, <1>4, <2>1 DEF Stays
    <2>3. Means'
      BY <1>1, <1>3, <1>4, <1>6, <2>1 DEF Means, Preparing
    <2> QED
      BY <2>2, <2>3 DEF Keeps
  <1> QED
    BY <1>5, <1>6

\* Before the first token the filter is fresh.
LEMMA BuildContextKeeps ==
  ASSUME Inv, Means, BuildContext
  PROVE  Means' /\ Keeps
  <1>1. pc = "context" /\ pc' = "generate" /\ UNCHANGED <<request, text, filter, stream>>
    BY DEF BuildContext, localVars
  <1>2. Local /\ Local' /\ Len(text) \in Nat
    BY <1>1, LocalPc DEF LocalPcs, Local
  <1>3. filter = Fresh /\ stream.seen = {}
    BY <1>1, <1>2 DEF Means, Preparing
  <1>4. KeepsUp(text, Fresh)
    <2>1. Reader(text)[0] = "out"
      <3> DEFINE place == Places(text, 0, Len(text))
      <3>1. \A k \in 0..Len(text) : place[k] = IF k = 0 THEN "out" ELSE NextPlace(text, Len(text), place[k - 1], k)
        BY <1>2, PlacesSteps
      <3> HIDE DEF place
      <3>2. 0 \in 0..Len(text)
        BY <1>2
      <3> QED
        BY <3>1, <3>2 DEF place, Reader
    <2>2. Fresh.base = 0 /\ Fresh.thinking = FALSE /\ Fresh.shown = {}
      BY DEF Fresh
    <2>3. \A i \in Outside(text, 0, Len(text)) : i \in Nat /\ i >= 1
      BY <1>2 DEF Outside
    <2>4. Reader(text)[Fresh.base] \in Between
      BY <2>1, <2>2 DEF Between
    <2>5. \A i \in Outside(text, 0, Len(text)) : ~(i <= Fresh.base)
      BY <2>2, <2>3
    <2> QED
      BY <2>2, <2>4, <2>5 DEF KeepsUp
  <1>5. Means'
    <2>1. stream'.seen = IF request'.edit THEN {} ELSE filter'.shown
      BY <1>1, <1>3 DEF Fresh
    <2>2. KeepsUp(text', filter')
      BY <1>1, <1>3, <1>4
    <2> QED
      BY <1>1, <2>1, <2>2 DEF Means, Preparing
  <1>6. Stays
    BY <1>1 DEF Stays
  <1> QED
    BY <1>5, <1>6 DEF Keeps

\* A token shows what comes next, or nothing.
LEMMA GenerateKeeps ==
  ASSUME NEW n \in 1..MaxToken, Inv, Means, Generate(n)
  PROVE  Means' /\ Keeps
  <1>1. /\ pc = "generate" /\ pc' = pc /\ filter.read + n <= Len(text)
        /\ filter' = Feed(text, filter, n) /\ UNCHANGED <<request, text>>
        /\ IF request.edit \/ filter'.shown = filter.shown
           THEN UNCHANGED stream ELSE stream' = [stream EXCEPT !.seen = filter'.shown]
    BY DEF Generate, Seen, localVars
  <1>2. Local /\ stream.stage = "open" /\ stream \in StreamsT /\ FilterT(text, filter) /\ Len(text) \in Nat
        /\ request.edit \in BOOLEAN
    BY <1>1, LocalPc DEF LocalPcs
  <1>3. /\ KeepsUp(text, filter) /\ stream.seen = IF request.edit THEN {} ELSE filter.shown
    BY <1>1, <1>2 DEF Means, Preparing
  <1>4. n \in Nat
    BY PartAssumption
  <1>5. KeepsUp(text, filter') /\ Beyond(filter, filter')
    BY <1>1, <1>2, <1>3, <1>4, FeedKeepsUp
  <1>6. FilterT(text, filter') /\ filter.shown \subseteq filter'.shown
    BY <1>1, <1>2, <1>4, FeedType
  <1>7. stream'.seen = (IF request.edit THEN {} ELSE filter'.shown) /\ stream'.stage = "open"
    <2>1. /\ [stream EXCEPT !.seen = filter'.shown].seen = filter'.shown
          /\ [stream EXCEPT !.seen = filter'.shown].stage = stream.stage
      BY <1>2, FailsIs
    <2> QED
      BY <1>1, <1>2, <1>3, <2>1
  <1>8. /\ Local' /\ Allowed' = Outside(text, 0, Len(text)) \cup Unclosed(text, 0, Len(text))
    BY <1>1, <1>2, AllowedIs
  <1>9. Delivers
    <2>1. stream'.seen \subseteq Allowed'
      BY <1>5, <1>7, <1>8 DEF KeepsUp
    <2>2. \A i \in filter.shown, j \in filter'.shown \ filter.shown : i < j
      BY <1>2, <1>5, <1>6, ShownLater
    <2> QED
      BY <1>2, <1>3, <1>6, <1>7, <2>1, <2>2 DEF Delivers
  <1>10. Means'
    BY <1>1, <1>5, <1>7 DEF Means, Preparing
  <1> QED
    BY <1>9, <1>10 DEF Keeps

\* At the end of the tokens everything that is owed is shown.
LEMMA EndGenerationKeeps ==
  ASSUME Inv, Means, EndGeneration
  PROVE  Means' /\ Keeps
  <1>1. /\ pc = "generate" /\ pc' = "finish" /\ filter.read = Len(text)
        /\ filter' = Flush(text, filter) /\ UNCHANGED <<request, text>>
        /\ stream' = [stream EXCEPT !.seen = filter'.shown]
    BY DEF EndGeneration, Seen, localVars
  <1>2. Local /\ stream.stage = "open" /\ stream \in StreamsT /\ FilterT(text, filter) /\ Len(text) \in Nat
        /\ request.edit \in BOOLEAN
    BY <1>1, LocalPc DEF LocalPcs
  <1>3. /\ KeepsUp(text, filter) /\ stream.seen = IF request.edit THEN {} ELSE filter.shown
    BY <1>1, <1>2 DEF Means, Preparing
  <1>4. /\ Owed(text, filter') \subseteq filter'.shown
        /\ filter'.shown \subseteq Outside(text, 0, Len(text)) \cup Unclosed(text, 0, Len(text))
        /\ Beyond(filter, filter')
    BY <1>1, <1>2, <1>3, FlushShows
  <1>5. FilterT(text, filter') /\ filter.shown \subseteq filter'.shown
    BY <1>1, <1>2, FlushType
  <1>6. stream'.seen = filter'.shown /\ stream'.stage = "open"
    <2>1. /\ [stream EXCEPT !.seen = filter'.shown].seen = filter'.shown
          /\ [stream EXCEPT !.seen = filter'.shown].stage = stream.stage
      BY <1>2, FailsIs
    <2> QED
      BY <1>1, <1>2, <2>1
  <1>7. /\ Local' /\ Due' = Owed(text, filter')
        /\ Allowed' = Outside(text, 0, Len(text)) \cup Unclosed(text, 0, Len(text))
    BY <1>1, <1>2, AllowedIs
  <1>8. stream'.seen \subseteq Allowed' /\ Due' \subseteq stream'.seen
    BY <1>4, <1>6, <1>7
  <1>9. Delivers
    <2>1. \A i \in filter.shown, j \in filter'.shown \ filter.shown : i < j
      BY <1>2, <1>4, <1>5, ShownLater
    <2> QED
      BY <1>2, <1>3, <1>5, <1>6, <1>8, <2>1 DEF Delivers
  <1>10. Means'
    BY <1>1, <1>6, <1>8 DEF Means, Preparing
  <1> QED
    BY <1>9, <1>10 DEF Keeps

\* The marker comes after the whole answer.
LEMMA FinishKeeps ==
  ASSUME Inv, Means, Finish
  PROVE  Means' /\ Keeps
  <1>1. /\ pc = "finish" /\ pc' = "over" /\ stream' = [seen |-> stream.seen, stage |-> "finished"]
        /\ UNCHANGED <<request, text, filter>>
    BY DEF Finish, SayLast, Finished, localVars
  <1>2. Local /\ stream.stage = "open"
    BY <1>1, LocalPc DEF LocalPcs
  <1>3. Due \subseteq stream.seen /\ stream.seen \subseteq Allowed
    BY <1>1, <1>2 DEF Means
  <1>4. Allowed' = Allowed /\ Due' = Due
    BY <1>1, <1>2, AllowedIs
  <1>5. Delivers
    BY <1>1, <1>2, <1>3, <1>4 DEF Delivers
  <1>6. Means'
    BY <1>1 DEF Means, Preparing
  <1> QED
    BY <1>5, <1>6 DEF Keeps

\* An exception is told and the marker follows.
LEMMA RaiseKeeps ==
  ASSUME Inv, Means, Raise
  PROVE  Means' /\ Keeps
  <1>1. pc \in LocalPcs /\ pc' = "over" /\ stream' = Failed /\ UNCHANGED <<request, text>>
    BY DEF Raise, SayLast, localVars, LocalPcs
  <1>2. stream.stage = "open" /\ stream \in StreamsT /\ pc # "over"
    BY <1>1, LocalPc DEF LocalPcs
  <1>3. stream'.seen = stream.seen /\ stream'.stage = "ended"
    BY <1>1, <1>2, FailsIs
  <1> QED
    BY <1>1, <1>2, <1>3, GivesUp

\* Before the remote server answers nothing is said of the answer.
LEMMA BeforeKeeps ==
  ASSUME Inv, Means, pc \in Before, ~Local, UNCHANGED <<request, text>>,
         \/ UNCHANGED stream
         \/ pc' = "over" /\ stream' \in {Failed, [stream EXCEPT !.stage = "cut"]}
  PROVE  Means' /\ Keeps
  <1>1. stream.stage = "open" /\ stream \in StreamsT /\ pc # "over"
    BY EarlyUnasked DEF Before
  <1>2. CASE UNCHANGED stream
    BY <1>2, LeavesAlone
  <1>3. CASE pc' = "over" /\ stream' \in {Failed, [stream EXCEPT !.stage = "cut"]}
    <2>1. stream'.seen = stream.seen /\ stream'.stage \in {"cut", "ended"}
      BY <1>1, <1>3, FailsIs
    <2> QED
      BY <1>1, <1>3, <2>1, GivesUp
  <1> QED
    BY <1>2, <1>3

-----------------------------------------------------------------------------
\* And what is passed on from the remote server.

\* The pieces of the answer that the first c units of a plain stream hold.
Held(s, n, c, k) == s.seen = 1..k /\ k <= n /\ 2 * k <= c /\ (k = n \/ c <= 2 * k + 1)

\* A later reading holds what an earlier one did, and more only behind it; where
\* the events go on after the pieces it holds all of them.
LEMMA HeldLater ==
  ASSUME NEW s, NEW r, NEW n \in Nat, NEW c \in Nat, NEW d \in Nat, NEW k \in Nat, NEW m \in Nat,
         c <= d, Held(s, n, c, k), Held(r, n, d, m)
  PROVE  /\ s.seen \subseteq r.seen /\ r.seen \subseteq 1..n
         /\ \A i \in s.seen, j \in r.seen \ s.seen : i < j
         /\ 2 * (n + 1) <= d => r.seen = 1..n
         /\ 2 * (n + 1) <= c => r.seen = s.seen
  <1>1. k <= m /\ m <= n
    BY DEF Held
  <1>2. s.seen = 1..k /\ r.seen = 1..m
    BY DEF Held
  <1>3. 2 * (n + 1) <= d => m = n
    BY DEF Held
  <1>4. 2 * (n + 1) <= c => k = n
    BY DEF Held
  <1> QED
    BY <1>1, <1>2, <1>3, <1>4

\* Where the marker and an error stand among the events.
LEMMA MarkerIsLast ==
  ASSUME NEW kinds, NEW c \in Nat, Says(kinds), Request
  PROVE  /\ Came(kinds, c, {"done"}) => 2 * Len(kinds) <= c /\ 2 * (PiecesSent + 1) <= c
         /\ Came(kinds, c, {"error"}) => Broken(kinds) /\ 2 * (PiecesSent + 1) <= c
         /\ Came(kinds, c, {"done"}) /\ ~Came(kinds, c, {"error"}) => Complete(kinds)
  <1>1. /\ Len(kinds) \in Nat /\ PiecesSent \in Nat
        /\ \A j \in 1..Len(kinds) : kinds[j] = "text" <=> j <= PiecesSent
        /\ \A j \in 1..Len(kinds) : kinds[j] = "done" => j = Len(kinds)
    BY DEF Says, Told
  <1>2. ASSUME Came(kinds, c, {"done"})
        PROVE  2 * Len(kinds) <= c /\ 2 * (PiecesSent + 1) <= c /\ (Broken(kinds) \/ Complete(kinds))
    <2>1. PICK j \in 1..Len(kinds) : 2 * j <= c /\ kinds[j] = "done"
      BY <1>2 DEF Came
    <2>2. kinds[j] # "text"
      BY <2>1
    <2>3. j = Len(kinds) /\ ~(j <= PiecesSent)
      BY <1>1, <2>1, <2>2
    <2>4. Broken(kinds) \/ Complete(kinds)
      BY <2>1, SaidKinds
    <2> QED
      BY <1>1, <2>1, <2>3, <2>4
  <1>3. ASSUME Came(kinds, c, {"error"}) PROVE Broken(kinds) /\ 2 * (PiecesSent + 1) <= c
    <2>1. PICK j \in 1..Len(kinds) : 2 * j <= c /\ kinds[j] = "error"
      BY <1>3 DEF Came
    <2>2. kinds[j] # "text"
      BY <2>1
    <2>3. ~(j <= PiecesSent)
      BY <1>1, <2>2
    <2>4. Broken(kinds)
      BY <2>1, SaidKinds
    <2> QED
      BY <1>1, <2>1, <2>3, <2>4
  <1>4. ASSUME Came(kinds, c, {"done"}), Broken(kinds) PROVE Came(kinds, c, {"error"})
    <2>1. Len(kinds) = PiecesSent + 2 /\ kinds[PiecesSent + 1] = "error"
      BY <1>4 DEF Broken
    <2>2. PiecesSent + 1 \in 1..Len(kinds) /\ 2 * (PiecesSent + 1) <= c
      BY <1>1, <1>2, <1>4, <2>1
    <2> QED
      BY <2>1, <2>2 DEF Came
  <1> QED
    BY <1>2, <1>3, <1>4

\* What is passed on keeps the promise: the pieces come in order, and the marker
\* after all of them or after the error.
LEMMA PassesOn ==
  ASSUME NEW kinds, NEW c \in Nat, NEW d \in Nat, c <= d, d <= 2 * Len(kinds),
         Inv, Says(kinds), ~Local, ~request.edit, UNCHANGED <<request, text>>,
         StreamAt(stream, kinds, PiecesSent, c), StreamAt(stream', kinds, PiecesSent, d)
  PROVE  Keeps
  <1> DEFINE n == PiecesSent
  <1>1. /\ n \in Nat /\ n <= Len(text) /\ n = remote.sent /\ Len(text) \in Nat
        /\ Len(kinds) \in Nat /\ Request
    BY ReadRequest DEF Inv, Shape, PiecesSent, Says, Told
  <1> HIDE DEF n
  <1>2. PICK k \in Nat : Held(stream, n, c, k)
    BY DEF StreamAt, Held, n
  <1>3. PICK m \in Nat : Held(stream', n, d, m)
    BY DEF StreamAt, Held, n
  <1>4. /\ stream.seen \subseteq stream'.seen /\ stream'.seen \subseteq 1..n
        /\ \A i \in stream.seen, j \in stream'.seen \ stream.seen : i < j
        /\ 2 * (n + 1) <= d => stream'.seen = 1..n
        /\ 2 * (n + 1) <= c => stream'.seen = stream.seen
    BY <1>1, <1>2, <1>3, HeldLater
  <1> DEFINE done(e) == Came(kinds, e, {"done"})
             error(e) == Came(kinds, e, {"error"})
  <1>5. /\ stream.stage = IF error(c) THEN IF done(c) THEN "ended" ELSE "failed"
                          ELSE IF done(c) THEN "finished" ELSE "open"
        /\ stream'.stage = IF error(d) THEN IF done(d) THEN "ended" ELSE "failed"
                           ELSE IF done(d) THEN "finished" ELSE "open"
    BY DEF StreamAt
  <1>6. /\ done(c) => 2 * Len(kinds) <= c /\ 2 * (n + 1) <= c
        /\ error(c) => 2 * (n + 1) <= c
        /\ done(d) => 2 * (n + 1) <= d
        /\ done(d) /\ ~error(d) => Complete(kinds)
    BY <1>1, MarkerIsLast DEF n
  <1>7. error(c) => error(d)
    BY <1>1, CameLater
  <1> HIDE DEF done, error
  <1>8. CASE done(c)
    <2>1. c = d
      BY <1>1, <1>6, <1>8
    <2>2. Stays
      BY <1>4, <1>5, <1>6, <1>8, <2>1 DEF Stays
    <2> QED
      BY <2>2 DEF Keeps
  <1>9. CASE ~done(c) /\ error(c)
    <2>1. stream'.seen = stream.seen /\ stream.stage = "failed" /\ stream'.stage \in {"failed", "ended"}
      BY <1>4, <1>5, <1>6, <1>7, <1>9
    <2> QED
      BY <2>1 DEF Keeps, Stays, ClosesDown
  <1>10. CASE ~done(c) /\ ~error(c)
    <2>1. Allowed' = 1..Len(text) /\ Due' = 1..Len(text)
      BY AllowedIs
    <2>2. stream'.seen \subseteq Allowed'
      BY <1>1, <1>4, <2>1
    <2>3. ASSUME stream'.stage = "finished" PROVE Due' \subseteq stream'.seen
      <3>1. done(d) /\ ~error(d)
        BY <1>5, <2>3
      <3>2. n = Len(text)
        BY <1>1, <1>6, <3>1 DEF Complete
      <3> QED
        BY <1>4, <1>6, <2>1, <3>1, <3>2
    <2>4. Delivers
      BY <1>4, <1>5, <1>10, <2>2, <2>3 DEF Delivers
    <2> QED
      BY <2>4 DEF Keeps
  <1> QED
    BY <1>8, <1>9, <1>10

\* Before the marker of an edit answer, or before any end, the stream is open or
\* has failed.
LEMMA Interrupts ==
  ASSUME Inv, Means, pc = "proxy", pc' = "over", UNCHANGED <<request, text>>,
         stream' = Failed, stream.stage # "finished"
  PROVE  Means' /\ Keeps
  <1>1. stream \in StreamsT
    BY DEF Inv, Shape
  <1>2. stream'.seen = stream.seen /\ stream'.stage = "ended"
    BY <1>1, FailsIs
  <1>3. stream.stage \in {"open", "failed", "ended"}
    <2>1. PICK kinds, c : Track(kinds, c)
      BY DEF Inv, Proxied
    <2> QED
      BY <2>1 DEF Track, StreamAt
  <1>4. CASE stream.stage = "open"
    BY <1>2, <1>4, GivesUp
  <1>5. CASE stream.stage \in {"failed", "ended"}
    <2>1. Keeps
      BY <1>2, <1>5 DEF Keeps, ClosesDown, Stays
    <2>2. Means'
      BY DEF Means, Preparing
    <2> QED
      BY <2>1, <2>2
  <1> QED
    BY <1>3, <1>4, <1>5

\* A part is passed on, or collected.
LEMMA ReadPartKeeps ==
  ASSUME Inv, Means, ReadPart
  PROVE  Means' /\ Keeps
  <1> DEFINE part == Next4096
  <1>1. /\ pc = "proxy" /\ UNCHANGED <<request, text>>
        /\ IF request.edit THEN CollectEvents(part) ELSE PassOn(part)
    BY DEF ReadPart
  <1>2. PICK kinds, c : Track(kinds, c)
    BY <1>1 DEF Inv, Proxied
  <1>3. ~Local /\ ~Local'
    BY <1>1 DEF Inv, Modes, Local
  <1> DEFINE d == c + Len(part)
  <1>4. /\ part \in Seq(Units) /\ Upcoming(kinds, c, part)
        /\ d \in Nat /\ c <= d /\ d <= 2 * Len(kinds)
    BY <1>2, ReadPartIs
  <1>5. kinds \in Seq(Kinds) /\ c \in Nat /\ Says(kinds) /\ Told(kinds, PiecesSent)
    BY <1>2 DEF Track, Says
  <1> HIDE DEF part
  <1>6. CASE request.edit
    <2>1. stream.stage = "open"
      BY <1>2, <1>6 DEF Track
    <2>2. \/ pc' = "over" /\ stream' = Failed
          \/ UNCHANGED stream
      BY <1>1, <1>6, CollectedIs DEF SayLast
    <2>3. CASE pc' = "over" /\ stream' = Failed
      BY <1>1, <2>1, <2>3, Interrupts
    <2>4. CASE UNCHANGED stream
      BY <1>1, <1>3, <2>4, LeavesAlone
    <2> QED
      BY <2>2, <2>3, <2>4
  <1>7. CASE ~request.edit
    <2>1. stream' = FoldLeft(Passed, stream, part)
      BY <1>1, <1>7 DEF PassOn
    <2>2. StreamAt(stream, kinds, PiecesSent, c)
      BY <1>2, <1>7 DEF Track
    <2>3. StreamAt(FoldLeft(Passed, stream, part), kinds, PiecesSent, d)
      BY <1>4, <1>5, <2>2, StreamRun
    <2> HIDE DEF d
    <2>4. StreamAt(stream', kinds, PiecesSent, d)
      BY <2>1, <2>3
    <2>5. Keeps
      BY <1>1, <1>3, <1>4, <1>5, <1>7, <2>2, <2>4, PassesOn
    <2>6. Means'
      BY <1>3 DEF Means
    <2> QED
      BY <2>5, <2>6
  <1> QED
    BY <1>6, <1>7

\* The end of the stream: an edit answer with its marker is whole.
LEMMA ReadEndKeeps ==
  ASSUME Inv, Means, ReadEnd
  PROVE  Means' /\ Keeps
  <1>1. pc = "proxy" /\ pc' = "over" /\ wire = <<>> /\ UNCHANGED <<request, text>>
    BY DEF ReadEnd, sentVars, SayLast
  <1>2. PICK kinds, c : Track(kinds, c)
    BY <1>1 DEF Inv, Proxied
  <1>3. Says(kinds) /\ c \in Nat /\ Request /\ ~Local /\ saw_done \in BOOLEAN /\ request.edit \in BOOLEAN
    BY <1>1, <1>2, ReadRequest DEF Track, Inv, Modes, Shape
  <1>4. CASE ~saw_done
    <2>1. stream' = Failed
      BY <1>4 DEF ReadEnd
    <2>2. stream.stage # "finished"
      BY <1>2, <1>4 DEF Track, StreamAt
    <2> QED
      BY <1>1, <2>1, <2>2, Interrupts
  <1>5. CASE saw_done /\ request.edit
    <2>1. stream' = Finished(IF answered THEN 1..Len(text) ELSE {})
      BY <1>5 DEF ReadEnd
    <2>2. /\ stream.seen = {} /\ stream.stage = "open" /\ Came(kinds, c, {"done"})
          /\ ~Came(kinds, c, {"error"}) /\ (answered <=> Came(kinds, c, {"answer"}))
      BY <1>2, <1>5 DEF Track
    <2>3. Complete(kinds) /\ 2 * Len(kinds) <= c
      BY <1>3, <2>2, MarkerIsLast
    <2>4. Came(kinds, c, {"answer"})
      <3>1. Len(kinds) = 2 /\ kinds[1] = "answer"
        BY <1>5, <2>3 DEF Complete
      <3>2. 1 \in 1..Len(kinds) /\ 2 * 1 <= c
        BY <1>3, <2>3, <3>1
      <3> QED
        BY <3>1, <3>2 DEF Came
    <2>5. stream'.seen = 1..Len(text)
      BY <2>1, <2>2, <2>4 DEF Finished
    <2>6. Allowed' = 1..Len(text) /\ Due' = 1..Len(text)
      BY <1>1, <1>3, AllowedIs
    <2>7. Delivers
      BY <2>2, <2>5, <2>6 DEF Delivers
    <2>8. Means'
      BY <1>1 DEF Means, Preparing
    <2> QED
      BY <2>7, <2>8 DEF Keeps
  <1>6. CASE saw_done /\ ~request.edit
    <2>1. UNCHANGED stream
      BY <1>6 DEF ReadEnd
    <2> QED
      BY <1>1, <2>1, LeavesAlone
  <1> QED
    BY <1>3, <1>4, <1>5, <1>6

\* A reset or a stall adds an error, unless the answer has been finished.
LEMMA ReadRaisesKeeps ==
  ASSUME Inv, Means, ReadRaises
  PROVE  Means' /\ Keeps
  <1>1. /\ pc = "proxy" /\ pc' = "over" /\ UNCHANGED <<request, text>>
        /\ stream' = IF stream.stage = "finished" THEN stream ELSE Failed
    BY DEF ReadRaises, sentVars, SayLast
  <1>2. CASE stream.stage = "finished"
    BY <1>1, <1>2, LeavesAlone
  <1>3. CASE stream.stage # "finished"
    BY <1>1, <1>3, Interrupts
  <1> QED
    BY <1>2, <1>3

-----------------------------------------------------------------------------
\* What is retrieved, an exception there, and a refused connection.
LEMMA CollectKeeps ==
  ASSUME NEW chunks \in Retrieved, Inv, Means, Collect(chunks)
  PROVE  Means' /\ Keeps
  <1>1. pc = "collect" /\ UNCHANGED <<request, text>>
    BY DEF Collect, sentVars
  <1>2. UNCHANGED stream \/ (pc' = "over" /\ stream' = Failed)
    BY DEF Collect, SayLast
  <1>3. pc \in Before /\ ~Local
    BY <1>1 DEF Before, Inv, Modes
  <1> QED
    BY <1>1, <1>2, <1>3, BeforeKeeps

LEMMA CollectRaisesKeeps ==
  ASSUME Inv, Means, CollectRaises
  PROVE  Means' /\ Keeps
  <1>1. pc = "collect" /\ UNCHANGED <<request, text>>
    BY DEF CollectRaises, sentVars
  <1>2. pc' = "over" /\ stream' = [stream EXCEPT !.stage = "cut"]
    BY DEF CollectRaises, BreakOff
  <1>3. pc \in Before /\ ~Local
    BY <1>1 DEF Before, Inv, Modes
  <1> QED
    BY <1>1, <1>2, <1>3, BeforeKeeps

LEMMA ConnectKeeps ==
  ASSUME NEW ok \in BOOLEAN, Inv, Means, Connect(ok)
  PROVE  Means' /\ Keeps
  <1>1. pc = "connect" /\ UNCHANGED <<request, text>>
    BY DEF Connect, sentVars
  <1>2. UNCHANGED stream \/ (pc' = "over" /\ stream' = Failed)
    BY DEF Connect, SayLast
  <1>3. pc \in Before /\ ~Local
    BY <1>1 DEF Before, Inv, Modes
  <1> QED
    BY <1>1, <1>2, <1>3, BeforeKeeps

\* What the remote server does, and what happens to the connection.
LEMMA ElsewhereKeeps ==
  ASSUME Means, UNCHANGED <<request, text, pc, filter, stream>>
  PROVE  Means' /\ Keeps
  <1>1. Local' = Local /\ Allowed' = Allowed /\ Due' = Due
    BY DEF Local, Allowed, Due
  <1>2. Means'
    BY <1>1 DEF Means
  <1>3. Stays
    BY DEF Stays
  <1> QED
    BY <1>2, <1>3 DEF Keeps

\* Every step of a request is one its stream may take, or none.
LEMMA StepKeeps ==
  ASSUME Inv, Means, [Next]_vars
  PROVE  Means' /\ Keeps
  <1>1. ASSUME NEW outcome \in Outcomes, CheckFreshness(outcome) PROVE Means' /\ Keeps
    BY <1>1, CheckFreshnessKeeps
  <1>2. CASE LocalStep
    <2>1. ASSUME NEW hit \in BOOLEAN, Analyze(hit) PROVE Means' /\ Keeps
      BY <2>1, AnalyzeKeeps
    <2>2. ASSUME NEW n \in 1..MaxToken, Generate(n) PROVE Means' /\ Keeps
      BY <2>2, GenerateKeeps
    <2> QED
      BY <1>2, <2>1, <2>2, BuildContextKeeps, EndGenerationKeeps, FinishKeeps, RaiseKeeps DEF LocalStep
  <1>3. CASE ProxyStep
    <2>1. ASSUME NEW chunks \in Retrieved, Collect(chunks) PROVE Means' /\ Keeps
      BY <2>1, CollectKeeps
    <2>2. ASSUME NEW ok \in BOOLEAN, Connect(ok) PROVE Means' /\ Keeps
      BY <2>2, ConnectKeeps
    <2> QED
      BY <1>3, <2>1, <2>2, CollectRaisesKeeps, ReadPartKeeps, ReadEndKeeps, ReadRaisesKeeps DEF ProxyStep
  <1>4. CASE RemoteStep
    <2>1. UNCHANGED <<request, text, pc, filter, stream>>
      BY <1>4 DEF RemoteStep, Ask, RemoteGenerate, RemoteEnd, RemoteRaise, remoteVars
    <2> QED
      BY <2>1, ElsewhereKeeps
  <1>5. ASSUME NEW how \in {"silent", "reset", "stalled"}, NEW n \in 0..Len(wire), Break(how, n)
        PROVE  Means' /\ Keeps
    <2>1. UNCHANGED <<request, text, pc, filter, stream>>
      BY <1>5 DEF Break
    <2> QED
      BY <2>1, ElsewhereKeeps
  <1>6. CASE UNCHANGED vars \/ Done
    <2>1. UNCHANGED <<request, text, pc, filter, stream>>
      BY <1>6 DEF Done, vars
    <2> QED
      BY <2>1, ElsewhereKeeps
  <1> QED
    BY <1>1, <1>2, <1>3, <1>4, <1>5, <1>6 DEF Next, ServerStep

\* A chat stream implements what AnswerStream promises its reader, but for the
\* promise that it ends: pieces of the answer come in order, nothing of closed
\* regions of thinking among them, the marker after all that is due or after a failure,
\* and nothing of the answer comes after either; for every text, every length of
\* the tokens and every size of the reads (_stream and
\* _remote_proxy_stream_with_freshness in server.py).
THEOREM ImplementsPromise == Spec => Promise!Safety
  <1>1. Init => Means /\ Promise!Init
    <2>1. Init => Promise!Init
      BY DEF Init, Promise!Init
    <2> QED
      BY <2>1, MeansInit
  <1>2. Inv /\ Collected /\ Means /\ [Next]_vars => Means' /\ [Promise!Next]_(Promise!vars)
    BY StepKeeps, KeepsSteps
  <1> QED
    BY <1>1, <1>2, InvHolds, PTL DEF Spec, Promise!Safety

=============================================================================
