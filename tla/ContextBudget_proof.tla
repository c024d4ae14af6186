------------------------ MODULE ContextBudget_proof ------------------------
(* Proofs about ContextBudget: the order of packing makes the priority of    *)
(* the documentation hold for every retrieval, window and budget.            *)
EXTENDS ContextBudget, TLAPS, FiniteSets, FiniteSetTheorems, WellFoundedInduction

\* Nothing is packed, dropped or forced before packing starts.
Untouched ==
    pc \in {"prioritize", "enforce"} =>
        packed = {} /\ dropped = {} /\ used = 0 /\ forced = 0

\* Before a candidate is forced, every tier is one of the four.
PlainTiers == pc = "enforce" => \A i \in Ranks : cands[i].tier >= 0

\* What is packed comes before what is not decided yet.
Ordered == \A i \in packed, j \in Pending : cands[i].tier <= cands[j].tier

\* The forced candidate is alone in the first tier, fits, and is packed first.
ForcedFirst ==
    pc \in {"pack", "done"} /\ forced # 0 =>
        /\ cands[forced].tier = -1
        /\ \A i \in Ranks \ {forced} : cands[i].tier >= 0
        /\ Budget > 0 => cands[forced].est <= Budget /\ forced \notin dropped
        /\ forced \in Pending => packed = {} /\ dropped = {} /\ used = 0

\* A question about declarations has forced one if it could.
ForcedSet ==
    pc \in {"pack", "done"} /\ declaration /\ AuthoritativeCandidates # {} => forced # 0

Finished == pc = "done" => Pending = {}

\* What a candidate is counted for is what its section takes, but for a forced
\* one that does not fit.
Honest ==
    pc # "prioritize" => \A i \in Ranks :
        \/ cands[i].est = estimate_tokens(cands[i].text)
        \/ i = forced /\ estimate_tokens(cands[i].text) > Budget

\* What is packed takes no more than what was counted, and that is in the budget.
Counted ==
    /\ used <= Budget
    /\ forced = 0 \/ estimate_tokens(cands[forced].text) <= Budget =>
          RealTokens(packed) <= used

IInv == /\ TypeOK /\ Untouched /\ PlainTiers /\ Ordered /\ ForcedFirst /\ ForcedSet
        /\ Finished /\ PriorityKept /\ NoNeedlessDrop /\ Honest /\ Counted

-----------------------------------------------------------------------------
\* Induction on the naturals, with a set for the predicate: the library's theorem
\* takes an operator, and this follows from the well-foundedness it rests on.
LEMMA SetInduction ==
  ASSUME NEW X, 0 \in X, \A n \in Nat : n \in X => n + 1 \in X
  PROVE  Nat \subseteq X
  <1> DEFINE R == OpToRel(<, Nat)
  <1>1. SUFFICES ASSUME Nat \ X # {} PROVE FALSE
    OBVIOUS
  <1>2. IsWellFoundedOn(R, Nat)
    BY NatLessThanWellFounded
  <1>3. \A x, y \in Nat : x < y => <<x, y>> \in R
    BY DEF OpToRel
  <1> HIDE DEF R
  <1>4. PICK m \in Nat \ X : \A y \in Nat \ X : ~(<<y, m>> \in R)
    BY <1>1, <1>2, WFMin
  <1>5. m # 0 /\ m - 1 \in Nat /\ m - 1 < m /\ m - 1 + 1 = m
    BY <1>4
  <1>6. m - 1 \in X
    BY <1>3, <1>4, <1>5
  <1> QED
    BY <1>4, <1>5, <1>6

\* A finite set is one smaller without one of its elements.
LEMMA TakeOut ==
  ASSUME NEW T, IsFiniteSet(T), NEW x \in T
  PROVE  /\ IsFiniteSet(T \ {x}) /\ Cardinality(T) \in Nat
         /\ Cardinality(T \ {x}) = Cardinality(T) - 1
  <1>1. Cardinality(T) \in Nat
    BY FS_CardinalityType
  <1>2. /\ IsFiniteSet(T \ {x})
        /\ Cardinality(T \ {x}) = IF x \in T THEN Cardinality(T) - 1 ELSE Cardinality(T)
    BY FS_RemoveElement, Zenon
  <1> QED
    BY <1>1, <1>2

\* Induction on the subsets of a finite set, an element at a time.
LEMMA SubsetInduction ==
  ASSUME NEW U, IsFiniteSet(U), NEW X,
         \A T \in SUBSET U : (\A x \in T : T \ {x} \in X) => T \in X
  PROVE  SUBSET U \subseteq X
  <1> DEFINE Y == {n \in Nat : \A T \in SUBSET U : Cardinality(T) = n => T \in X}
  <1>1. 0 \in Y
    <2>1. \A T \in SUBSET U : Cardinality(T) = 0 => T = {}
      BY FS_Subset, FS_EmptySet
    <2> QED
      BY <2>1
  <1>2. ASSUME NEW n \in Nat, n \in Y PROVE n + 1 \in Y
    <2>1. ASSUME NEW T \in SUBSET U, Cardinality(T) = n + 1, NEW x \in T
          PROVE  T \ {x} \in X
      <3>1. Cardinality(T \ {x}) = n
        <4>1. IsFiniteSet(T)
          BY FS_Subset, Zenon
        <4> QED
          BY <2>1, <4>1, TakeOut
      <3> QED
        BY <1>2, <3>1
    <2> QED
      BY <2>1
  <1> HIDE DEF Y
  <1>3. Nat \subseteq Y
    BY <1>1, <1>2, SetInduction
  <1> QED
    BY <1>3, FS_Subset, FS_CardinalityType DEF Y

\* g sums the weights w over the subsets of U: what MapThenSumSet's recursion says.
Summed(w, g, s) ==
    IF s = {} THEN 0 ELSE w[CHOOSE x \in s : TRUE] + g[s \ {CHOOSE x \in s : TRUE}]
Summing(U, w, g) == \A s \in SUBSET U : g[s] = Summed(w, g, s)
Sums(U, w, g) == g \in [SUBSET U -> Nat] /\ Summing(U, w, g)

\* The recursion has a solution: it is built for sets of growing size.
LEMMA SumExists ==
  ASSUME NEW U, IsFiniteSet(U), NEW w, w \in [U -> Nat]
  PROVE  \E g : Sums(U, w, g)
  <1> DEFINE Upto(n, g) == /\ g \in [SUBSET U -> Nat]
                           /\ \A s \in SUBSET U : Cardinality(s) <= n => g[s] = Summed(w, g, s)
             Y == {n \in Nat : \E g : Upto(n, g)}
  <1>1. \A s \in SUBSET U : /\ IsFiniteSet(s) /\ Cardinality(s) \in Nat
                            /\ Cardinality(s) <= Cardinality(U)
    BY FS_Subset, FS_CardinalityType
  <1>2. 0 \in Y
    <2>1. \A s \in SUBSET U : Cardinality(s) <= 0 => s = {}
      BY <1>1, FS_EmptySet
    <2>2. Upto(0, [s \in SUBSET U |-> 0])
      BY <2>1 DEF Summed
    <2> HIDE DEF Upto
    <2> QED
      BY <2>2
  <1>3. ASSUME NEW n \in Nat, n \in Y PROVE n + 1 \in Y
    <2>1. PICK g : Upto(n, g)
      BY <1>3
    <2> DEFINE h == [s \in SUBSET U |-> Summed(w, g, s)]
    <2>2. h \in [SUBSET U -> Nat]
      <3>1. \A s \in SUBSET U : s # {} => (CHOOSE x \in s : TRUE) \in s
        OBVIOUS
      <3> QED
        BY <2>1, <3>1 DEF Summed
    <2>3. ASSUME NEW s \in SUBSET U, Cardinality(s) <= n + 1 PROVE h[s] = Summed(w, h, s)
      <3>1. CASE s = {}
        BY <3>1 DEF Summed
      <3>2. CASE s # {}
        <4> DEFINE x == CHOOSE x \in s : TRUE
        <4>1. x \in s
          BY <3>2
        <4>2. Cardinality(s \ {x}) <= n
          <5>1. Cardinality(s) \in Nat /\ Cardinality(s \ {x}) = Cardinality(s) - 1
            BY <1>1, <4>1, TakeOut, Zenon
          <5> QED
            BY <2>3, <5>1
        <4>3. h[s \ {x}] = g[s \ {x}]
          BY <2>1, <4>2
        <4> QED
          BY <3>2, <4>3 DEF Summed
      <3> QED
        BY <3>1, <3>2
    <2> HIDE DEF h
    <2>4. Upto(n + 1, h)
      BY <2>2, <2>3
    <2> QED
      BY <2>4
  <1> HIDE DEF Y
  <1>4. Cardinality(U) \in Y
    BY <1>1, <1>2, <1>3, SetInduction
  <1> QED
    BY <1>1, <1>4 DEF Y, Sums, Summing

\* Whatever element is taken out first, the sum is the same.
LEMMA SumTakesOut ==
  ASSUME NEW U, IsFiniteSet(U), NEW w, w \in [U -> Nat], NEW g, Sums(U, w, g)
  PROVE  \A s \in SUBSET U : \A x \in s : g[s] = w[x] + g[s \ {x}]
  <1> DEFINE X == {s \in SUBSET U : \A x \in s : g[s] = w[x] + g[s \ {x}]}
  <1>1. ASSUME NEW s \in SUBSET U, \A x \in s : s \ {x} \in X, NEW x \in s
        PROVE  g[s] = w[x] + g[s \ {x}]
    <2> DEFINE y == CHOOSE y \in s : TRUE
    <2>1. y \in s
      OBVIOUS
    <2>2. g[s] = w[y] + g[s \ {y}]
      BY DEF Sums, Summing, Summed
    <2> HIDE DEF y
    <2>3. CASE x # y
      <3>1. (s \ {y}) \ {x} = (s \ {x}) \ {y}
        OBVIOUS
      <3>2. g[s \ {y}] = w[x] + g[(s \ {x}) \ {y}]
        BY <1>1, <2>1, <2>3, <3>1, Zenon
      <3>3. g[s \ {x}] = w[y] + g[(s \ {x}) \ {y}]
        BY <1>1, <2>1, <2>3, Zenon
      <3>4. g[(s \ {x}) \ {y}] \in Nat /\ w[x] \in Nat /\ w[y] \in Nat
        BY <2>1 DEF Sums
      <3> QED
        BY <2>2, <3>2, <3>3, <3>4
    <2> QED
      BY <2>2, <2>3
  <1>2. ASSUME NEW s \in SUBSET U, \A x \in s : s \ {x} \in X PROVE s \in X
    BY <1>1, <1>2
  <1> HIDE DEF X
  <1>3. SUBSET U \subseteq X
    BY <1>2, SubsetInduction
  <1> QED
    BY <1>3 DEF X

\* Two solutions give the same sum.
LEMMA SumUnique ==
  ASSUME NEW U, IsFiniteSet(U), NEW w,
         NEW g, Summing(U, w, g), NEW h, Summing(U, w, h)
  PROVE  g[U] = h[U]
  <1> DEFINE X == {s \in SUBSET U : g[s] = h[s]}
  <1>1. ASSUME NEW s \in SUBSET U, \A x \in s : s \ {x} \in X PROVE s \in X
    BY <1>1 DEF Summing, Summed
  <1> HIDE DEF X
  <1>2. SUBSET U \subseteq X
    BY <1>1, SubsetInduction
  <1> QED
    BY <1>2 DEF X

\* w gives the candidates of U the tokens of their sections.
Weigh(U, w) == w \in [U -> Nat] /\ \A i \in U : w[i] = estimate_tokens(cands[i].text)

\* RealTokens is what any solution gives, so its recursion may be used.
LEMMA RealTokensIs ==
  ASSUME NEW S, IsFiniteSet(S), NEW w, Weigh(S, w), NEW g, Sums(S, w, g)
  PROVE  RealTokens(S) = g[S]
  <1> DEFINE real(i) == estimate_tokens(cands[i].text)
             Real(f, s) == IF s = {} THEN 0
                           ELSE real(CHOOSE x \in s : TRUE) + f[s \ {CHOOSE x \in s : TRUE}]
             F == CHOOSE f : f = [s \in SUBSET S |-> Real(f, s)]
  <1>1. RealTokens(S) = F[S]
    BY DEF RealTokens, MapThenSumSet, MapThenFoldSet
  <1>2. ASSUME NEW f, NEW s \in SUBSET S PROVE Real(f, s) = Summed(w, f, s)
    <2>1. CASE s # {}
      <3>1. (CHOOSE x \in s : TRUE) \in S
        BY <2>1
      <3> QED
        BY <2>1, <3>1 DEF Summed, Weigh
    <2> QED
      BY <2>1 DEF Summed
  <1> HIDE DEF Real
  <1>3. g = [s \in SUBSET S |-> Real(g, s)]
    BY <1>2 DEF Sums, Summing
  <1>4. F = [s \in SUBSET S |-> Real(F, s)]
    BY <1>3
  <1> HIDE DEF F
  <1>5. Summing(S, w, F)
    BY <1>2, <1>4 DEF Summing
  <1>6. Summing(S, w, g)
    BY DEF Sums
  <1>7. F[S] = g[S]
    BY <1>5, <1>6, SumUnique
  <1> QED
    BY <1>1, <1>7

\* The tokens of some candidates are a number (MapThenSumSet over their estimates).
LEMMA RealTokensType ==
  ASSUME NEW S, IsFiniteSet(S), \A j \in S : estimate_tokens(cands[j].text) \in Nat
  PROVE  RealTokens(S) \in Nat
  <1> DEFINE w == [j \in S |-> estimate_tokens(cands[j].text)]
  <1>1. Weigh(S, w)
    BY DEF Weigh
  <1> HIDE DEF w
  <1>2. PICK g : Sums(S, w, g)
    BY <1>1, SumExists DEF Weigh
  <1>3. g[S] \in Nat
    BY <1>2 DEF Sums
  <1> QED
    BY <1>1, <1>2, <1>3, RealTokensIs

\* Packing one more candidate adds its tokens to the prompt (pack_chunks_to_budget).
LEMMA RealTokensAdd ==
  ASSUME NEW S, IsFiniteSet(S), NEW i, i \notin S,
         \A j \in S \cup {i} : estimate_tokens(cands[j].text) \in Nat
  PROVE  /\ RealTokens(S) \in Nat
         /\ RealTokens(S \cup {i}) = RealTokens(S) + estimate_tokens(cands[i].text)
  <1> DEFINE U == S \cup {i}
             w == [j \in U |-> estimate_tokens(cands[j].text)]
  <1>1. IsFiniteSet(U) /\ S = U \ {i} /\ i \in U /\ U \in SUBSET U /\ S \in SUBSET U
    BY FS_AddElement
  <1>2. Weigh(U, w)
    BY DEF Weigh
  <1> HIDE DEF U, w
  <1>3. PICK g : Sums(U, w, g)
    BY <1>1, <1>2, SumExists DEF Weigh
  <1>4. RealTokens(U) = g[U]
    BY <1>1, <1>2, <1>3, RealTokensIs
  <1>5. RealTokens(S) = g[S]
    <2> DEFINE v == [j \in S |-> w[j]]
               f == [s \in SUBSET S |-> g[s]]
    <2>1. Weigh(S, v)
      BY <1>1, <1>2 DEF Weigh
    <2>2. Sums(S, v, f)
      BY <1>1, <1>3 DEF Sums, Summing, Summed
    <2>3. f[S] = g[S]
      OBVIOUS
    <2> HIDE DEF v, f
    <2> QED
      BY <2>1, <2>2, <2>3, RealTokensIs
  <1>6. g[U] = w[i] + g[S]
    BY <1>1, <1>2, <1>3, SumTakesOut DEF Weigh
  <1>7. g[S] \in Nat /\ w[i] \in Nat /\ w[i] = estimate_tokens(cands[i].text)
    BY <1>1, <1>2, <1>3 DEF Weigh, Sums
  <1>8. RealTokens(U) = RealTokens(S) + estimate_tokens(cands[i].text)
    BY <1>4, <1>5, <1>6, <1>7
  <1> QED
    BY <1>5, <1>7, <1>8 DEF U

\* An empty prompt section has no tokens.
LEMMA RealTokensNone == RealTokens({}) = 0
  <1> DEFINE real(i) == estimate_tokens(cands[i].text)
             g == [s \in SUBSET {} |-> 0]
  <1>1. IsFiniteSet({}) /\ Weigh({}, <<>>) /\ Sums({}, <<>>, g) /\ g[{}] = 0
    BY FS_EmptySet DEF Weigh, Sums, Summing, Summed
  <1> HIDE DEF g
  <1> QED
    BY <1>1, RealTokensIs

-----------------------------------------------------------------------------
\* Three characters a token, rounded up, is a number of tokens
\* (context_budget.estimate_tokens).
LEMMA EstimateType == \A n \in Nat : estimate_tokens(n) \in Nat
  BY DEF estimate_tokens

\* The budget is a number of tokens (context_budget.compute_context_budget).
LEMMA BudgetType == fixed \in Fixed => Budget \in Nat
  BY SizesAssumption DEF Budget

\* A retrieved chunk is a file and a length, and its rank is positive.
LEMMA ChunkType ==
  ASSUME chunks \in Retrievals
  PROVE  /\ Ranks \subseteq Nat \ {0}
         /\ \A i \in Ranks : chunks[i].file \in Files /\ chunks[i].len \in Nat
  <1>1. PICK n \in 0..MaxChunks : chunks \in [1..n -> [file: Files, len: Lengths]]
    BY DEF Retrievals
  <1>2. Ranks = 1..n /\ \A i \in 1..n : chunks[i] \in [file: Files, len: Lengths]
    BY <1>1 DEF Ranks
  <1>3. Ranks \subseteq Nat \ {0}
    BY <1>1, <1>2, SizesAssumption
  <1> QED
    BY <1>2, <1>3, SizesAssumption

\* There are finitely many ranks.
LEMMA FiniteRanks == TypeOK => IsFiniteSet(Ranks)
  <1> SUFFICES ASSUME TypeOK PROVE IsFiniteSet(Ranks)
    OBVIOUS
  <1>1. PICK n \in 0..MaxChunks : chunks \in [1..n -> [file: Files, len: Lengths]]
    BY DEF TypeOK, Retrievals
  <1>2. Ranks = 1..n /\ n \in Int
    BY <1>1, SizesAssumption DEF Ranks
  <1> QED
    BY <1>2, FS_Interval

\* Whatever section is forced has a length (_enforce_authoritative_candidate).
LEMMA SectionType ==
  ASSUME TypeOK, pc # "prioritize", NEW i \in Ranks, NEW text \in Sections(i)
  PROVE  text \in Nat
  <1>1. chunks[i].len \in Nat /\ cands[i].text \in Nat
    BY ChunkType DEF TypeOK, Candidate
  <1>2. ASSUME NEW k \in DOMAIN Cuts PROVE Excerpt(i, Cuts[k]) \in Nat
    <2>1. Cuts[k] \in Nat
      BY SizesAssumption
    <2> QED
      BY <1>1, <2>1, SizesAssumption DEF Excerpt
  <1> QED
    BY <1>2, SizesAssumption DEF Sections, Kept

\* The initial state satisfies the invariant (entry of _pack_context_section).
LEMMA InitInv == Init => IInv
  <1> SUFFICES ASSUME Init PROVE IInv
    OBVIOUS
  <1>1. Budget \in Nat
    BY BudgetType DEF Init
  <1>2. TypeOK
    BY <1>1 DEF Init, TypeOK
  <1>3. Honest /\ Counted
    BY <1>1, RealTokensNone DEF Init, Honest, Counted
  <1> QED
    BY <1>2, <1>3 DEF Init, IInv, Untouched, PlainTiers, Ordered, ForcedFirst, ForcedSet,
                Finished, PriorityKept, NoNeedlessDrop

\* Giving the tiers preserves the invariant (_prioritize_chunk_candidates).
LEMMA PrioritizeInv == IInv /\ Prioritize => IInv'
  <1> SUFFICES ASSUME IInv, Prioritize PROVE IInv'
    OBVIOUS
  <1> USE DEF IInv
  <1>1. UNCHANGED <<Ranks, Budget, AuthoritativeCandidates>>
    BY DEF Prioritize, input, Ranks, Budget, AuthoritativeCandidates
  <1>2. \A i \in Ranks : Tier(chunks[i].file) \in 0..3
    BY DEF Tier
  <1>3. \A i \in Ranks : chunks[i].len + Wrap \in Nat
    BY ChunkType, SizesAssumption DEF TypeOK
  <1>4. cands' \in [Ranks -> Candidate]
    <2>1. \A i \in Ranks : estimate_tokens(chunks[i].len + Wrap) \in Nat
      BY <1>3, EstimateType
    <2> QED
      BY <1>2, <1>3, <2>1 DEF Prioritize, Candidate
  <1>5. \A i \in Ranks : cands'[i].tier >= 0
    BY <1>2 DEF Prioritize
  <1>6. TypeOK'
    BY <1>1, <1>4 DEF Prioritize, TypeOK, input, Ranks
  <1>7. packed' = {} /\ dropped' = {} /\ used' = 0 /\ forced' = 0
    BY DEF Prioritize, Untouched
  <1>8. ForcedSet' /\ Finished'
    BY <1>7 DEF Prioritize, ForcedSet, Finished, input
  <1>9. Honest'
    BY <1>1 DEF Prioritize, Honest
  <1>10. Counted'
    <2>1. (RealTokens({}) = 0)'
      BY RealTokensNone, PTL
    <2> QED
      BY <1>1, <1>7, <2>1 DEF Counted, TypeOK
  <1> QED
    BY <1>1, <1>5, <1>6, <1>7, <1>8, <1>9, <1>10
    DEF Untouched, PlainTiers, Ordered, ForcedFirst, PriorityKept, NoNeedlessDrop

\* Forcing a declaration preserves it (_enforce_authoritative_candidate).
LEMMA EnforceInv == IInv /\ Enforce => IInv'
  <1> SUFFICES ASSUME IInv, Enforce PROVE IInv'
    OBVIOUS
  <1> USE DEF IInv
  <1>1. /\ UNCHANGED <<Ranks, Budget, AuthoritativeCandidates, packed, dropped, used,
                       chunks, declaration, fixed>>
        /\ pc = "enforce" /\ pc' = "pack"
        /\ packed = {} /\ dropped = {} /\ used = 0 /\ forced = 0
    BY DEF Enforce, input, Ranks, Budget, AuthoritativeCandidates, Untouched
  <1>2. Ordered' /\ PriorityKept' /\ NoNeedlessDrop' /\ Untouched' /\ PlainTiers' /\ Finished'
    BY <1>1 DEF Ordered, PriorityKept, NoNeedlessDrop, Untouched, PlainTiers, Finished
  <1>20. Counted'
    <2>1. (RealTokens({}) = 0)'
      BY RealTokensNone, PTL
    <2> QED
      BY <1>1, <2>1 DEF Counted, TypeOK
  <1>3. CASE AuthoritativeCandidates = {} /\ UNCHANGED <<cands, forced>>
    <2>1. TypeOK'
      BY <1>1, <1>3 DEF TypeOK, Ranks
    <2>2. Honest'
      BY <1>1, <1>3 DEF Honest
    <2> QED
      BY <1>1, <1>2, <1>20, <1>3, <2>1, <2>2 DEF ForcedFirst, ForcedSet
  <1>4. CASE AuthoritativeCandidates # {} \/ ~UNCHANGED <<cands, forced>>
    <2> DEFINE Forces(i, text) ==
                  /\ cands' = [cands EXCEPT ![i] = [tier |-> -1, authority |-> -1,
                                                    text |-> text, est |-> ForcedEst(text)]]
                  /\ forced' = i
    <2>0. PICK i \in AuthoritativeCandidates : \E text \in Sections(i) : Forces(i, text)
      BY <1>4 DEF Enforce
    <2>1. PICK text \in Sections(i) : Forces(i, text)
      BY <2>0
    <2>2. i \in Ranks /\ i # 0
      BY ChunkType DEF AuthoritativeCandidates, TypeOK
    <2>3. text \in Nat /\ Budget \in Nat /\ estimate_tokens(text) \in Nat
      BY <1>1, <2>2, SectionType, EstimateType DEF TypeOK
    <2>4. ForcedEst(text) \in Nat /\ (Budget > 0 => ForcedEst(text) <= Budget)
      BY <2>3 DEF ForcedEst, Smaller
    <2>5. cands \in [Ranks -> Candidate]
      BY <1>1 DEF TypeOK
    <2>6. cands' \in [Ranks -> Candidate]
      BY <2>1, <2>2, <2>3, <2>4, <2>5 DEF Candidate
    <2>7. TypeOK'
      BY <1>1, <2>1, <2>2, <2>6 DEF TypeOK, Ranks
    <2>8. /\ cands'[i].tier = -1 /\ cands'[i].est = ForcedEst(text)
          /\ \A j \in Ranks \ {i} : cands'[j].tier >= 0
      BY <1>1, <2>1, <2>2, <2>5 DEF PlainTiers
    <2>9. ForcedFirst'
      BY <1>1, <2>1, <2>4, <2>8 DEF ForcedFirst
    <2>10. Honest'
      <3>1. /\ cands'[i].text = text /\ \A j \in Ranks \ {i} : cands'[j] = cands[j]
        BY <2>1, <2>2, <2>5
      <3>2. /\ ForcedEst(text) = estimate_tokens(text) \/ estimate_tokens(text) > Budget
        BY <2>3 DEF ForcedEst, Smaller
      <3>3. \A j \in Ranks : cands[j].est = estimate_tokens(cands[j].text)
        BY <1>1, ChunkType DEF Honest, TypeOK
      <3> QED
        BY <1>1, <2>1, <2>8, <3>1, <3>2, <3>3 DEF Honest
    <2> QED
      BY <1>2, <1>20, <2>1, <2>2, <2>7, <2>9, <2>10 DEF ForcedSet
  <1> QED
    BY <1>3, <1>4

\* Packing the next candidate preserves it (pack_chunks_to_budget).
LEMMA PackInv == ASSUME NEW i \in Ranks PROVE IInv /\ Pack(i) => IInv'
  <1> SUFFICES ASSUME IInv, Pack(i) PROVE IInv'
    OBVIOUS
  <1> USE DEF IInv
  <1>1. UNCHANGED <<Ranks, Budget, AuthoritativeCandidates, cands, forced, dropped, pc,
                    chunks, declaration, fixed>>
    BY DEF Pack, input, Ranks, Budget, AuthoritativeCandidates
  <1>2. cands \in [Ranks -> Candidate] /\ used \in Nat /\ Budget \in Nat /\ pc = "pack"
    BY DEF Pack, TypeOK
  <1>3. /\ i \in Pending /\ packed' = packed \cup {i} /\ used' = used + cands[i].est
        /\ used' <= Budget /\ Pending' = Pending \ {i}
    BY <1>1 DEF Pack, IsNext, Pending
  <1>4. \A j \in Pending : cands[i].tier <= cands[j].tier
    BY <1>2 DEF Pack, IsNext, Before, Pending, Candidate
  <1>5. TypeOK'
    BY <1>1, <1>2, <1>3 DEF TypeOK, Candidate, Pending, Ranks
  <1>6. Ordered'
    BY <1>1, <1>3, <1>4 DEF Ordered
  <1>7. \A j \in dropped : cands[j].tier < cands[i].tier => ~Contributed(cands[j].tier)
    BY <1>2 DEF Pack, Blocked, Cut, Overflowed, TypeOK, Candidate
  <1>8. PriorityKept'
    <2> SUFFICES ASSUME NEW k \in packed', NEW j \in dropped', cands[j].tier < cands[k].tier
                 PROVE  ~Contributed(cands[j].tier)'
      BY <1>1 DEF PriorityKept
    <2>1. k \in Ranks /\ j \in Ranks /\ j \in dropped
      BY <1>1, <1>3 DEF TypeOK
    <2>2. cands[i].tier # cands[j].tier
      BY <1>2, <1>3, <2>1 DEF Ordered, Candidate
    <2>3. ~Contributed(cands[j].tier)
      BY <1>3, <1>7, <2>1 DEF PriorityKept
    <2> QED
      BY <1>1, <1>3, <2>2, <2>3 DEF Contributed
  <1>9. NoNeedlessDrop'
    <2> SUFFICES ASSUME NEW j \in dropped
                 PROVE  \/ used' + cands[j].est > Budget
                        \/ \E t \in -1..(cands[j].tier - 1) :
                              Overflowed(t)' /\ Contributed(t)'
      BY <1>1 DEF NoNeedlessDrop
    <2>1. j \in Ranks /\ cands[j].est \in Nat /\ cands[i].est \in Nat
      BY <1>2 DEF TypeOK, Candidate
    <2>2. CASE used + cands[j].est > Budget
      BY <1>2, <1>3, <2>1, <2>2
    <2>3. ASSUME NEW t \in -1..(cands[j].tier - 1), Overflowed(t), Contributed(t)
          PROVE  Overflowed(t)' /\ Contributed(t)'
      BY <1>1, <1>3, <2>3 DEF Overflowed, Contributed
    <2> QED
      BY <2>2, <2>3 DEF NoNeedlessDrop
  <1>10. ForcedFirst'
    BY <1>1, <1>2, <1>3, <1>4 DEF ForcedFirst, TypeOK, Candidate, Pending
  <1>11. ForcedSet' /\ Untouched' /\ PlainTiers' /\ Finished'
    BY <1>1, <1>2 DEF ForcedSet, Untouched, PlainTiers, Finished
  <1>12. Honest'
    BY <1>1 DEF Honest
  <1>13. Counted'
    <2>1. IsFiniteSet(packed) /\ i \notin packed
      BY <1>3, FiniteRanks, FS_Subset DEF TypeOK, Pending
    <2>2. \A j \in packed \cup {i} : estimate_tokens(cands[j].text) \in Nat
      BY <1>2, EstimateType DEF TypeOK, Candidate
    <2>3. /\ RealTokens(packed) \in Nat
          /\ RealTokens(packed \cup {i}) = RealTokens(packed) + estimate_tokens(cands[i].text)
      BY <2>1, <2>2, RealTokensAdd
    <2>4. RealTokens(packed)' = RealTokens(packed \cup {i})
      BY <1>1, <1>3 DEF RealTokens, MapThenSumSet, MapThenFoldSet
    <2>5. \/ cands[i].est = estimate_tokens(cands[i].text)
          \/ i = forced /\ estimate_tokens(cands[i].text) > Budget
      BY <1>2 DEF Honest
    <2>6. forced # 0 \/ i # forced
      BY ChunkType DEF TypeOK
    <2>7. cands[i].est \in Nat /\ estimate_tokens(cands[i].text) \in Nat
      BY <1>2, <2>2 DEF Candidate
    <2> QED
      BY <1>1, <1>2, <1>3, <2>3, <2>4, <2>5, <2>6, <2>7 DEF Counted
  <1> QED
    BY <1>5, <1>6, <1>8, <1>9, <1>10, <1>11, <1>12, <1>13

\* Dropping a candidate that does not fit preserves it.
LEMMA DropInv == ASSUME NEW i \in Ranks PROVE IInv /\ Drop(i) => IInv'
  <1> SUFFICES ASSUME IInv, Drop(i) PROVE IInv'
    OBVIOUS
  <1> USE DEF IInv
  <1>1. UNCHANGED <<Ranks, Budget, AuthoritativeCandidates, cands, forced, packed, used, pc,
                    chunks, declaration, fixed>>
    BY DEF Drop, input, Ranks, Budget, AuthoritativeCandidates
  <1>2. cands \in [Ranks -> Candidate] /\ used \in Nat /\ Budget \in Nat /\ pc = "pack"
    BY DEF Drop, TypeOK
  <1>3. /\ i \in Pending /\ dropped' = dropped \cup {i} /\ used + cands[i].est > Budget
        /\ Pending' = Pending \ {i}
    BY <1>1 DEF Drop, IsNext, Pending
  <1>4. TypeOK'
    BY <1>1, <1>3 DEF TypeOK, Pending, Ranks
  <1>5. Ordered'
    BY <1>1, <1>3 DEF Ordered
  <1>6. PriorityKept'
    <2> SUFFICES ASSUME NEW k \in packed, NEW j \in dropped', cands[j].tier < cands[k].tier
                 PROVE  ~Contributed(cands[j].tier)
      BY <1>1 DEF PriorityKept, Contributed
    <2>1. k \in Ranks /\ j \in Ranks
      BY <1>3 DEF TypeOK
    <2>2. j # i
      BY <1>2, <1>3, <2>1 DEF Ordered, Candidate
    <2> QED
      BY <1>3, <2>2 DEF PriorityKept
  <1>7. NoNeedlessDrop'
    <2> SUFFICES ASSUME NEW j \in dropped'
                 PROVE  \/ used + cands[j].est > Budget
                        \/ \E t \in -1..(cands[j].tier - 1) :
                              Overflowed(t)' /\ Contributed(t)'
      BY <1>1 DEF NoNeedlessDrop
    <2>1. \A t : Overflowed(t) /\ Contributed(t) => Overflowed(t)' /\ Contributed(t)'
      BY <1>1, <1>3 DEF Overflowed, Contributed
    <2> QED
      BY <1>3, <2>1 DEF NoNeedlessDrop
  <1>8. ForcedFirst'
    <2>1. ASSUME forced = i, Budget > 0 PROVE FALSE
      <3>1. i # 0 /\ cands[i].est \in Nat
        BY <1>2, ChunkType DEF TypeOK, Candidate
      <3> QED
        BY <1>2, <1>3, <2>1, <3>1 DEF ForcedFirst
    <2>2. ASSUME forced \in Pending, forced # 0, forced # i PROVE FALSE
      BY <1>2, <1>3, <2>2 DEF ForcedFirst, Drop, IsNext, Before, Pending, Candidate
    <2> QED
      BY <1>1, <1>2, <1>3, <2>1, <2>2 DEF ForcedFirst
  <1>9. ForcedSet' /\ Untouched' /\ PlainTiers' /\ Finished'
    BY <1>1, <1>2 DEF ForcedSet, Untouched, PlainTiers, Finished
  <1>10. Honest' /\ Counted'
    <2>1. RealTokens(packed)' = RealTokens(packed)
      BY <1>1 DEF RealTokens, MapThenSumSet, MapThenFoldSet
    <2> QED
      BY <1>1, <2>1 DEF Honest, Counted
  <1> QED
    BY <1>4, <1>5, <1>6, <1>7, <1>8, <1>9, <1>10

\* Dropping everything below a tier that was cut short preserves it.
LEMMA BlockLowerInv == ASSUME NEW i \in Ranks PROVE IInv /\ BlockLower(i) => IInv'
  <1> SUFFICES ASSUME IInv, BlockLower(i) PROVE IInv'
    OBVIOUS
  <1> USE DEF IInv
  <1>1. UNCHANGED <<Ranks, Budget, AuthoritativeCandidates, cands, forced, packed, used, pc,
                    chunks, declaration, fixed>>
    BY DEF BlockLower, input, Ranks, Budget, AuthoritativeCandidates
  <1>2. cands \in [Ranks -> Candidate] /\ used \in Nat /\ Budget \in Nat /\ pc = "pack"
    BY DEF BlockLower, TypeOK
  <1>3. i \in Pending /\ dropped' = dropped \cup Pending /\ Pending' = {}
    BY <1>1 DEF BlockLower, IsNext, Pending
  <1>4. PICK t \in -1..(cands[i].tier - 1) : Overflowed(t) /\ Contributed(t)
    BY DEF BlockLower, Blocked, Cut
  <1>5. \A j \in Pending : cands[i].tier <= cands[j].tier
    BY <1>2 DEF BlockLower, IsNext, Before, Pending, Candidate
  <1>6. TypeOK'
    BY <1>1, <1>3 DEF TypeOK, Pending, Ranks
  <1>7. Ordered'
    BY <1>1, <1>3 DEF Ordered
  <1>8. PriorityKept'
    <2> SUFFICES ASSUME NEW k \in packed, NEW j \in dropped', cands[j].tier < cands[k].tier
                 PROVE  ~Contributed(cands[j].tier)
      BY <1>1 DEF PriorityKept, Contributed
    <2>1. k \in Ranks /\ j \in Ranks
      BY <1>3 DEF TypeOK, Pending
    <2>2. j \notin Pending
      BY <1>2, <2>1 DEF Ordered, Candidate
    <2> QED
      BY <1>3, <2>2 DEF PriorityKept
  <1>9. NoNeedlessDrop'
    <2> SUFFICES ASSUME NEW j \in dropped'
                 PROVE  \/ used + cands[j].est > Budget
                        \/ \E s \in -1..(cands[j].tier - 1) :
                              Overflowed(s)' /\ Contributed(s)'
      BY <1>1 DEF NoNeedlessDrop
    <2>1. \A s : Overflowed(s) /\ Contributed(s) => Overflowed(s)' /\ Contributed(s)'
      BY <1>1, <1>3 DEF Overflowed, Contributed
    <2>2. CASE j \in Pending
      <3>1. t \in -1..(cands[j].tier - 1)
        BY <1>2, <1>3, <1>5, <2>2 DEF Pending, Candidate
      <3> QED
        BY <1>4, <2>1, <3>1
    <2>3. CASE j \in dropped
      BY <2>1, <2>3 DEF NoNeedlessDrop
    <2> QED
      BY <1>3, <2>2, <2>3
  <1>10. ForcedFirst'
    <2>1. ASSUME forced \in Pending, forced # 0 PROVE FALSE
      BY <1>2, <1>4, <2>1 DEF ForcedFirst, Contributed
    <2> QED
      BY <1>1, <1>2, <1>3, <2>1 DEF ForcedFirst
  <1>11. ForcedSet' /\ Untouched' /\ PlainTiers' /\ Finished'
    BY <1>1, <1>2 DEF ForcedSet, Untouched, PlainTiers, Finished
  <1>12. Honest' /\ Counted'
    <2>1. RealTokens(packed)' = RealTokens(packed)
      BY <1>1 DEF RealTokens, MapThenSumSet, MapThenFoldSet
    <2> QED
      BY <1>1, <2>1 DEF Honest, Counted
  <1> QED
    BY <1>6, <1>7, <1>8, <1>9, <1>10, <1>11, <1>12

\* The end of the loop preserves it.
LEMMA FinishInv == IInv /\ Finish => IInv'
  <1> SUFFICES ASSUME IInv, Finish PROVE IInv'
    OBVIOUS
  <1> USE DEF IInv
  <1>1. UNCHANGED <<Ranks, Budget, AuthoritativeCandidates, Pending, cands, forced, packed,
                    dropped, used, chunks, declaration, fixed>>
    BY DEF Finish, input, Ranks, Budget, AuthoritativeCandidates, Pending
  <1>2. TypeOK'
    BY <1>1 DEF Finish, TypeOK, Ranks
  <1>3. Honest' /\ Counted'
    <2>1. RealTokens(packed)' = RealTokens(packed)
      BY <1>1 DEF RealTokens, MapThenSumSet, MapThenFoldSet
    <2> QED
      BY <1>1, <2>1 DEF Finish, Honest, Counted
  <1> QED
    BY <1>1, <1>2, <1>3 DEF Finish, Untouched, PlainTiers, Ordered, ForcedFirst, ForcedSet, Finished,
                      PriorityKept, NoNeedlessDrop, Contributed, Overflowed

\* A step that changes nothing preserves it.
LEMMA StutterInv == IInv /\ UNCHANGED vars => IInv'
  <1> SUFFICES ASSUME IInv, UNCHANGED vars PROVE IInv'
    OBVIOUS
  <1>1. UNCHANGED <<Ranks, Budget, AuthoritativeCandidates, Pending>>
    BY DEF vars, input, Ranks, Budget, AuthoritativeCandidates, Pending
  <1>2. Honest' /\ Counted'
    <2>1. RealTokens(packed)' = RealTokens(packed)
      BY DEF vars, RealTokens, MapThenSumSet, MapThenFoldSet
    <2> QED
      BY <1>1, <2>1 DEF vars, IInv, Honest, Counted
  <1> QED
    BY <1>1, <1>2 DEF vars, input, IInv, TypeOK, Untouched, PlainTiers, Ordered, ForcedFirst,
                ForcedSet, Finished, PriorityKept, NoNeedlessDrop, Contributed, Overflowed

\* The strengthened invariant holds in every reachable state.
LEMMA Invariance == Spec => []IInv
  <1>1. IInv /\ [Next]_vars => IInv'
    BY PrioritizeInv, EnforceInv, PackInv, DropInv, BlockLowerInv, FinishInv, StutterInv
    DEF Next
  <1> QED
    BY <1>1, InitInv, PTL DEF Spec

\* The locals of the packing are well typed for every retrieval and window.
THEOREM TypeCorrect == Spec => []TypeOK
  <1>1. IInv => TypeOK
    BY DEF IInv
  <1> QED
    BY <1>1, Invariance, PTL

\* For every retrieval, window and size, no lower tier is packed when a higher
\* one was cut short.
THEOREM KeepsPriority == Spec => []PriorityKept
  <1>1. IInv => PriorityKept
    BY DEF IInv
  <1> QED
    BY <1>1, Invariance, PTL

\* For every retrieval, window and size, a chunk is dropped only for want of
\* room or because a higher tier was cut short.
THEOREM DropsForWant == Spec => []NoNeedlessDrop
  <1>1. IInv => NoNeedlessDrop
    BY DEF IInv
  <1> QED
    BY <1>1, Invariance, PTL

\* For every retrieval and every positive budget, a question about declarations
\* keeps a section of a declaration file that was retrieved.
THEOREM KeepsDeclaration == Spec => []DeclarationKept
  <1>1. IInv => DeclarationKept
    BY DEF IInv, TypeOK, ForcedSet, ForcedFirst, Finished, DeclarationKept, Pending
  <1> QED
    BY <1>1, Invariance, PTL

\* For every retrieval, window and size, the prompt stays within the window
\* unless its fixed part does not, or the forced section was counted for less.
THEOREM KeepsWindow == Spec => []WindowKept
  <1>1. IInv => WindowKept
    <2> SUFFICES ASSUME IInv, pc = "done", fixed + Reserved + Margin <= Window,
                        forced = 0 \/ estimate_tokens(cands[forced].text) <= Budget
                 PROVE  fixed + Reserved + Margin + RealTokens(packed) <= Window
      BY DEF WindowKept
    <2>1. fixed \in Nat /\ used \in Nat
      BY SizesAssumption DEF IInv, TypeOK
    <2>2. Budget = Window - Reserved - Margin - fixed
      BY <2>1, SizesAssumption DEF Budget
    <2>3. RealTokens(packed) <= used /\ used <= Budget
      BY DEF IInv, Counted
    <2>4. RealTokens(packed) \in Nat
      <3>1. IsFiniteSet(packed)
        BY FiniteRanks, FS_Subset DEF IInv, TypeOK
      <3>2. \A j \in packed : estimate_tokens(cands[j].text) \in Nat
        BY EstimateType DEF IInv, TypeOK, Candidate
      <3> QED
        BY <3>1, <3>2, RealTokensType
    <2> QED
      BY <2>1, <2>2, <2>3, <2>4, SizesAssumption
  <1> QED
    BY <1>1, Invariance, PTL

=============================================================================
