----------------------------- MODULE StacksAndSums -----------------------------
(***************************************************************************)
(* Facts the proofs about several components rest on.                      *)
(*                                                                         *)
(* Sequences used as stacks: the free stack of reaped slots, the guards of *)
(* the interpreter, the extents, frames and windows of the JIT.            *)
(*                                                                         *)
(* Sums over finite sets: the bytes a budget carved out for its children,  *)
(* the bytes of an arena's chunks or live blocks. The sum is the library's *)
(* MapThenSumSet, which takes the elements one by one as CHOOSE gives      *)
(* them; the lemmas say that the order does not matter.  Their induction   *)
(* is over a set of sets (Descent, SetInduction), drawn from the           *)
(* well-foundedness of inclusion.                                          *)
(***************************************************************************)
EXTENDS Integers, SequencesExt, SequenceTheorems, FiniteSetTheorems,
        WellFoundedInduction, TLAPS

-------------------------------------------------------------------------------
(* Stacks.                                                                  *)

\* A stack cut at m keeps its first m elements.
LEMMA StackCut ==
    ASSUME NEW S, NEW s \in Seq(S), NEW d \in Nat, d <= Len(s)
    PROVE  /\ SubSeq(s, 1, d) \in Seq(S)
           /\ Len(SubSeq(s, 1, d)) = d
           /\ \A i \in 1..d : SubSeq(s, 1, d)[i] = s[i]
<1>1. d \in Int /\ \A i \in 1..d : s[i] \in S
  BY LenProperties, ElementOfSeq
<1>2. /\ SubSeq(s, 1, d) \in Seq(S)
      /\ Len(SubSeq(s, 1, d)) = IF 1 <= d THEN d - 1 + 1 ELSE 0
      /\ \A i \in 1..(d - 1 + 1) : SubSeq(s, 1, d)[i] = s[1 + i - 1]
  BY <1>1, SubSeqProperties
<1>3. d - 1 + 1 = d /\ \A i \in 1..d : 1 + i - 1 = i
  OBVIOUS
<1> QED BY <1>2, <1>3

\* A pop keeps the element type and every element but the last.
LEMMA StackPop ==
    ASSUME NEW S, NEW s \in Seq(S), s # <<>>
    PROVE  /\ Len(s) \in Nat \ {0}
           /\ Last(s) = s[Len(s)]
           /\ Last(s) \in S
           /\ Front(s) \in Seq(S)
           /\ Len(Front(s)) = Len(s) - 1
           /\ \A i \in 1..(Len(s) - 1) : Front(s)[i] = s[i]
<1>1. Len(s) \in Nat \ {0}
  BY EmptySeq
<1>2. Last(s) = s[Len(s)] /\ Last(s) \in S
  BY <1>1, ElementOfSeq DEF Last
<1> DEFINE m == Len(s) - 1
<1>3. m \in Nat /\ m <= Len(s)
  BY <1>1
<1> HIDE DEF m
<1>4. /\ SubSeq(s, 1, m) \in Seq(S) /\ Len(SubSeq(s, 1, m)) = m
      /\ \A i \in 1..m : SubSeq(s, 1, m)[i] = s[i]
  BY <1>3, StackCut
<1> QED BY <1>1, <1>2, <1>4 DEF Front, m

\* A push adds one element at the top.
LEMMA StackPush ==
    ASSUME NEW S, NEW s \in Seq(S), NEW x \in S
    PROVE  /\ Append(s, x) \in Seq(S)
           /\ Append(s, x) # <<>>
           /\ Len(s) \in Nat
           /\ Len(Append(s, x)) = Len(s) + 1
           /\ \A i \in 1..Len(s) : Append(s, x)[i] = s[i]
           /\ Append(s, x)[Len(s) + 1] = x
           /\ Last(Append(s, x)) = x
BY AppendProperties, LenProperties DEF Last

\* A stack over a smaller set is a stack over a larger one.
LEMMA StackWiden ==
    ASSUME NEW S, NEW T, S \subseteq T, NEW s \in Seq(S)
    PROVE  s \in Seq(T)
BY SeqMonotonic

NoDuplicates(s) == \A i, j \in 1..Len(s) : s[i] = s[j] => i = j

\* What the range holds is at some position.
LEMMA InStack ==
    ASSUME NEW S, NEW s \in Seq(S), NEW x
    PROVE  x \in ToSet(s) <=> \E i \in 1..Len(s) : s[i] = x
BY LenProperties DEF ToSet

\* A pop of a stack without duplicates removes its top from the range, and
\* nothing else.
LEMMA PopNoDuplicates ==
    ASSUME NEW S, NEW s \in Seq(S), s # <<>>, NoDuplicates(s)
    PROVE  /\ NoDuplicates(Front(s))
           /\ Last(s) \in ToSet(s)
           /\ Last(s) \notin ToSet(Front(s))
           /\ ToSet(Front(s)) \subseteq ToSet(s)
<1>1. /\ Len(s) \in Nat \ {0} /\ Last(s) = s[Len(s)]
      /\ Front(s) \in Seq(S) /\ Len(Front(s)) = Len(s) - 1
      /\ \A i \in 1..(Len(s) - 1) : Front(s)[i] = s[i]
  BY StackPop
<1>2. \A x : x \in ToSet(s) <=> \E i \in 1..Len(s) : s[i] = x
  BY InStack
<1>3. \A x : x \in ToSet(Front(s)) <=> \E i \in 1..(Len(s) - 1) : s[i] = x
  BY <1>1, InStack
<1>4. NoDuplicates(Front(s))
  BY <1>1 DEF NoDuplicates
<1>5. Last(s) \in ToSet(s) /\ Last(s) \notin ToSet(Front(s))
  BY <1>1, <1>2, <1>3 DEF NoDuplicates
<1>6. ToSet(Front(s)) \subseteq ToSet(s)
  BY <1>1, <1>2, <1>3
<1> QED BY <1>4, <1>5, <1>6

\* Pushing what the stack does not hold keeps it free of duplicates.
LEMMA PushNoDuplicates ==
    ASSUME NEW S, NEW s \in Seq(S), NEW x \in S, NoDuplicates(s), x \notin ToSet(s)
    PROVE  /\ NoDuplicates(Append(s, x))
           /\ \A y : y \in ToSet(Append(s, x)) <=> y \in ToSet(s) \/ y = x
<1>1. /\ Append(s, x) \in Seq(S) /\ Len(s) \in Nat
      /\ Len(Append(s, x)) = Len(s) + 1
      /\ \A i \in 1..Len(s) : Append(s, x)[i] = s[i]
      /\ Append(s, x)[Len(s) + 1] = x
  BY StackPush
<1>2. \A y : y \in ToSet(s) <=> \E i \in 1..Len(s) : s[i] = y
  BY InStack
<1>3. \A y : y \in ToSet(Append(s, x)) <=>
                 \E i \in 1..Len(Append(s, x)) : Append(s, x)[i] = y
  <2> DEFINE t == Append(s, x)
  <2>1. t \in Seq(S)
    BY <1>1
  <2> HIDE DEF t
  <2>2. \A y : y \in ToSet(t) <=> \E i \in 1..Len(t) : t[i] = y
    BY <2>1, InStack
  <2> QED BY <2>2 DEF t
<1> QED BY <1>1, <1>2, <1>3 DEF NoDuplicates

-------------------------------------------------------------------------------
(* Finite sets and division.                                                *)

\* Division with a remainder.
LEMMA Division ==
    ASSUME NEW m \in Nat, NEW u \in Nat \ {0}
    PROVE  m \div u \in Nat /\ m % u \in 0..(u - 1) /\ m = u * (m \div u) + (m % u)
OBVIOUS

\* Induction over the finite sets, for a set F of sets instead of a predicate, by
\* taking one element away, whichever.
LEMMA Descent ==
    ASSUME NEW S, IsFiniteSet(S), NEW F, {} \in F,
           \A s \in SUBSET S : s # {} => \E x \in s : s \ {x} \in F => s \in F
    PROVE  S \in F
<1> DEFINE Bad == {U \in FiniteSubsetsOf(S) : U \notin F}
<1>1. SUFFICES ASSUME S \notin F
               PROVE  FALSE
  OBVIOUS
<1>2. Bad # {} /\ Bad \subseteq FiniteSubsetsOf(S)
  BY <1>1 DEF FiniteSubsetsOf
<1>3. IsWellFoundedOn(StrictSubsetOrdering(S), FiniteSubsetsOf(S))
  BY FS_StrictSubsetOrderingWellFounded
<1> HIDE DEF Bad
<1>4. PICK U \in Bad : \A V \in Bad : <<V, U>> \notin StrictSubsetOrdering(S)
  BY <1>2, <1>3, WFMin
<1>5. U \in SUBSET S /\ IsFiniteSet(U) /\ U \notin F
  BY <1>4 DEF Bad, FiniteSubsetsOf
<1>6. PICK x \in U : U \ {x} \in F => U \in F
  BY <1>5
<1>7. PICK V : V = U \ {x}
  OBVIOUS
<1>8. IsFiniteSet(V) /\ V \in SUBSET S /\ V \notin F /\ V \subseteq U /\ V # U
  BY <1>5, <1>6, <1>7, FS_Subset
<1>9. <<V, U>> \in StrictSubsetOrdering(S) /\ V \in Bad
  BY <1>5, <1>8 DEF StrictSubsetOrdering, Bad, FiniteSubsetsOf
<1> QED BY <1>4, <1>9

\* Induction by adding one element.
LEMMA SetInduction ==
    ASSUME NEW S, IsFiniteSet(S), NEW F, {} \in F,
           \A U \in SUBSET S : \A x \in S : U \in F => U \cup {x} \in F
    PROVE  S \in F
<1>1. ASSUME NEW s \in SUBSET S, s # {}
      PROVE  \E x \in s : s \ {x} \in F => s \in F
  <2>1. PICK x \in s : TRUE
    BY <1>1
  <2>2. (s \ {x}) \cup {x} = s /\ s \ {x} \in SUBSET S
    OBVIOUS
  <2>3. s \ {x} \in F => s \in F
    BY <2>2
  <2> QED BY <2>3
<1> QED BY <1>1, Descent

\* A finite set of numbers has a largest.
LEMMA Largest ==
    ASSUME NEW S, IsFiniteSet(S), S \subseteq Nat, S # {}
    PROVE  Max(S) \in S /\ \A y \in S : Max(S) >= y
<1> DEFINE F == {U \in SUBSET S : U = {} \/ \E x \in U : \A y \in U : x >= y}
<1>1. {} \in F
  OBVIOUS
<1>2. ASSUME NEW U \in SUBSET S, NEW x \in S, U \in F
      PROVE  U \cup {x} \in F
  <2>1. CASE U = {}
    BY <2>1
  <2>2. CASE U # {}
    <3>1. PICK m \in U : \A y \in U : m >= y
      BY <1>2, <2>2
    <3>2. PICK n : n = IF m >= x THEN m ELSE x
      OBVIOUS
    <3>3. n \in U \cup {x} /\ \A y \in U \cup {x} : n >= y
      BY <3>1, <3>2
    <3> QED BY <3>3
  <2> QED BY <2>1, <2>2
<1> HIDE DEF F
<1>3. S \in F
  BY <1>1, <1>2, SetInduction
<1> QED BY <1>3 DEF F, Max

\* The largest of a set is the largest of every part that has it.
LEMMA LargestOfPart ==
    ASSUME NEW S, IsFiniteSet(S), S \subseteq Nat, NEW U \in SUBSET S, Max(S) \in U
    PROVE  Max(U) = Max(S)
<1>1. Max(S) \in Nat /\ \A y \in S : Max(S) >= y
  BY Largest
<1>2. IsFiniteSet(U) /\ U \subseteq Nat
  BY FS_Subset
<1>3. Max(U) \in U /\ \A y \in U : Max(U) >= y
  BY <1>2, Largest
<1>4. PICK m : m = Max(S)
  OBVIOUS
<1>5. PICK n : n = Max(U)
  OBVIOUS
<1>6. n \in Nat /\ m \in Nat /\ m >= n /\ n >= m
  BY <1>1, <1>2, <1>3, <1>4, <1>5
<1>7. m = n
  BY <1>6
<1> QED BY <1>4, <1>5, <1>7

-------------------------------------------------------------------------------
(* Sums.                                                                    *)

\* g sums e over every part of S, in whatever order.
Sums(g, e, S) ==
    /\ g \in [SUBSET S -> Int]
    /\ g[{}] = 0
    /\ \A U \in SUBSET S : \A x \in S \ U : g[U \cup {x}] = g[U] + e[x]

\* Such a function exists for every finite set.
LEMMA SumsExist ==
    ASSUME NEW S, IsFiniteSet(S), NEW e, \A x \in S : e[x] \in Int
    PROVE  \E g : Sums(g, e, S)
<1> DEFINE F == {U \in SUBSET S : \E g : Sums(g, e, U)}
<1>1. {} \in F
  <2> DEFINE g == [U \in SUBSET {} |-> 0]
  <2>1. Sums(g, e, {})
    BY DEF Sums
  <2> QED BY <2>1
<1>2. ASSUME NEW U \in SUBSET S, NEW x \in S, U \in F
      PROVE  U \cup {x} \in F
  <2>1. PICK g : Sums(g, e, U)
    BY <1>2
  <2>2. CASE x \in U
    <3>1. U \cup {x} = U
      BY <2>2
    <3> QED BY <3>1, <1>2
  <2>3. CASE x \notin U
    <3> DEFINE W == U \cup {x}
               h == [V \in SUBSET W |-> IF x \in V THEN g[V \ {x}] + e[x] ELSE g[V]]
    <3>1. h \in [SUBSET W -> Int]
      BY <2>1 DEF Sums
    <3>2. h[{}] = 0
      BY <2>1 DEF Sums
    <3>3. ASSUME NEW V \in SUBSET W, NEW y \in W \ V
          PROVE  h[V \cup {y}] = h[V] + e[y]
      <4>1. CASE y = x
        <5>1. V \in SUBSET U /\ (V \cup {y}) \ {x} = V
          BY <4>1, <3>3
        <5> QED BY <4>1, <5>1, <3>3
      <4>2. CASE y # x /\ x \in V
        <5>1. (V \cup {y}) \ {x} = (V \ {x}) \cup {y} /\ V \ {x} \in SUBSET U /\ y \in U \ (V \ {x})
          BY <4>2, <3>3
        <5>2. g[(V \ {x}) \cup {y}] = g[V \ {x}] + e[y]
          BY <5>1, <2>1 DEF Sums
        <5>3. g[V \ {x}] \in Int /\ e[x] \in Int /\ e[y] \in Int
          BY <5>1, <2>1, <1>2 DEF Sums
        <5>4. h[V \cup {y}] = g[(V \cup {y}) \ {x}] + e[x] /\ h[V] = g[V \ {x}] + e[x]
          BY <4>2, <3>3
        <5>5. g[(V \cup {y}) \ {x}] = g[V \ {x}] + e[y]
          BY <5>1, <5>2
        <5> DEFINE a == g[V \ {x}]
        <5>6. a \in Int /\ h[V] = a + e[x] /\ h[V \cup {y}] = (a + e[y]) + e[x]
          BY <5>3, <5>4, <5>5
        <5> HIDE DEF h, W, a
        <5> QED BY <5>3, <5>6
      <4>3. CASE y # x /\ x \notin V
        <5>1. V \in SUBSET U /\ y \in U \ V
          BY <4>3, <3>3
        <5>2. g[V \cup {y}] = g[V] + e[y]
          BY <5>1, <2>1 DEF Sums
        <5> QED BY <4>3, <5>1, <5>2, <3>3
      <4> QED BY <4>1, <4>2, <4>3
    <3> HIDE DEF h
    <3>4. Sums(h, e, W)
      BY <3>1, <3>2, <3>3 DEF Sums
    <3> QED BY <3>4, <1>2
  <2> QED BY <2>2, <2>3
<1> HIDE DEF F
<1>3. S \in F
  BY <1>1, <1>2, SetInduction
<1> QED BY <1>3 DEF F

\* The sum of e over S, as the models write it with the library's fold.
SumOf(e, S) == MapThenSumSet(LAMBDA x : e[x], S)

\* it sums e over the parts of S, one element after another, as the library's fold
\* takes them.
OneByOne(it, e, S) ==
    it = [s \in SUBSET S |-> IF s = {} THEN 0
                             ELSE e[CHOOSE x \in s : TRUE] + it[s \ {CHOOSE x \in s : TRUE}]]

\* A function that sums in whatever order sums in that one.
LEMMA SumsOneByOne ==
    ASSUME NEW S, NEW e, \A x \in S : e[x] \in Int, NEW g, Sums(g, e, S)
    PROVE  OneByOne(g, e, S)
<1> DEFINE P(s) == CHOOSE x \in s : TRUE
<1>1. \A s \in SUBSET S : s # {} => P(s) \in s
  OBVIOUS
<1>2. g = [s \in SUBSET S |-> g[s]]
  BY DEF Sums
<1>3. ASSUME NEW s \in SUBSET S
      PROVE  g[s] = IF s = {} THEN 0 ELSE e[P(s)] + g[s \ {P(s)}]
  <2>1. CASE s = {}
    BY <2>1 DEF Sums
  <2>2. CASE s # {}
    <3> DEFINE p == P(s)
    <3>1. p \in s
      BY <2>2, <1>1
    <3> HIDE DEF p
    <3>2. s \ {p} \in SUBSET S /\ p \in S \ (s \ {p}) /\ (s \ {p}) \cup {p} = s
      BY <3>1
    <3>3. g[(s \ {p}) \cup {p}] = g[s \ {p}] + e[p]
      BY <3>2 DEF Sums
    <3>4. g[s] = g[s \ {p}] + e[p] /\ g[s \ {p}] \in Int /\ e[p] \in Int
      BY <3>2, <3>3 DEF Sums
    <3>5. g[s] = e[p] + g[s \ {p}]
      BY <3>4
    <3> QED BY <2>2, <3>5 DEF p
  <2> QED BY <2>1, <2>2
<1>4. g = [s \in SUBSET S |-> IF s = {} THEN 0 ELSE e[P(s)] + g[s \ {P(s)}]]
  <2> HIDE DEF P
  <2> QED BY <1>2, <1>3
<1> QED BY <1>4 DEF OneByOne

\* And no other function does.
LEMMA OneByOneIsSums ==
    ASSUME NEW S, IsFiniteSet(S), NEW e, \A x \in S : e[x] \in Int,
           NEW g, Sums(g, e, S), NEW it, OneByOne(it, e, S)
    PROVE  it[S] = g[S]
<1> DEFINE P(s) == CHOOSE x \in s : TRUE
           F == {s \in SUBSET S : it[s] = g[s]}
           Bad == {s \in FiniteSubsetsOf(S) : s \notin F}
<1>1. \A s \in SUBSET S : s # {} => P(s) \in s
  OBVIOUS
<1>2. /\ it = [s \in SUBSET S |-> IF s = {} THEN 0 ELSE e[P(s)] + it[s \ {P(s)}]]
      /\ g = [s \in SUBSET S |-> IF s = {} THEN 0 ELSE e[P(s)] + g[s \ {P(s)}]]
  <2>1. OneByOne(it, e, S) /\ OneByOne(g, e, S)
    BY SumsOneByOne
  <2> QED BY <2>1 DEF OneByOne
<1> HIDE DEF P
<1>3. it[{}] = 0 /\ g[{}] = 0
  BY <1>2
<1>4. \A s \in SUBSET S : s # {} => /\ it[s] = e[P(s)] + it[s \ {P(s)}]
                                    /\ g[s] = e[P(s)] + g[s \ {P(s)}]
  BY <1>2
<1>5. SUFFICES ASSUME S \notin F
               PROVE  FALSE
  OBVIOUS
<1>6. Bad # {} /\ Bad \subseteq FiniteSubsetsOf(S)
  BY <1>5 DEF FiniteSubsetsOf
<1>7. IsWellFoundedOn(StrictSubsetOrdering(S), FiniteSubsetsOf(S))
  BY FS_StrictSubsetOrderingWellFounded
<1> HIDE DEF Bad
<1>8. PICK s \in Bad : \A t \in Bad : <<t, s>> \notin StrictSubsetOrdering(S)
  BY <1>6, <1>7, WFMin
<1>9. s \in SUBSET S /\ IsFiniteSet(s) /\ it[s] # g[s]
  BY <1>8 DEF Bad, FiniteSubsetsOf
<1>10. s # {}
  BY <1>9, <1>3
<1> DEFINE p == P(s)
           t == s \ {p}
<1>11. p \in s
  BY <1>10, <1>9, <1>1
<1>12. it[s] = e[p] + it[t] /\ g[s] = e[p] + g[t]
  BY <1>4, <1>9, <1>10
<1> HIDE DEF p
<1>13. t \in SUBSET S /\ t \subseteq s /\ t # s /\ IsFiniteSet(t)
  BY <1>9, <1>11, FS_Subset
<1> HIDE DEF t
<1>14. <<t, s>> \in StrictSubsetOrdering(S) /\ t \in FiniteSubsetsOf(S)
  BY <1>9, <1>13 DEF StrictSubsetOrdering, FiniteSubsetsOf
<1>15. it[t] = g[t]
  BY <1>8, <1>13, <1>14 DEF Bad
<1> QED BY <1>9, <1>12, <1>15

\* The library's sum is the value of that function, whatever element it picks first.
LEMMA SumIsSums ==
    ASSUME NEW S, IsFiniteSet(S), NEW e, \A x \in S : e[x] \in Int, NEW g, Sums(g, e, S)
    PROVE  SumOf(e, S) = g[S]
<1> DEFINE iter == CHOOSE it : OneByOne(it, e, S)
<1>1. SumOf(e, S) = iter[S]
  BY DEF SumOf, MapThenSumSet, MapThenFoldSet, OneByOne
<1>2. OneByOne(iter, e, S)
  BY SumsOneByOne
<1> QED BY <1>1, <1>2, OneByOneIsSums

\* A sum over nothing.
LEMMA SumEmpty ==
    ASSUME NEW e
    PROVE  SumOf(e, {}) = 0
<1>1. PICK g : Sums(g, e, {})
  BY FS_EmptySet, SumsExist
<1>2. SumOf(e, {}) = g[{}]
  BY <1>1, FS_EmptySet, SumIsSums
<1> QED BY <1>1, <1>2 DEF Sums

\* The function of SumsExist sums every part of its set.
LEMMA SumOfPart ==
    ASSUME NEW S, IsFiniteSet(S), NEW e, \A x \in S : e[x] \in Int,
           NEW g, Sums(g, e, S), NEW U \in SUBSET S
    PROVE  SumOf(e, U) = g[U]
<1> DEFINE h == [V \in SUBSET U |-> g[V]]
<1>1. h \in [SUBSET U -> Int] /\ h[{}] = 0
  BY DEF Sums
<1>2. ASSUME NEW V \in SUBSET U, NEW x \in U \ V
      PROVE  h[V \cup {x}] = h[V] + e[x]
  <2>1. V \in SUBSET S /\ x \in S \ V
    OBVIOUS
  <2>2. g[V \cup {x}] = g[V] + e[x]
    BY <2>1 DEF Sums
  <2> QED BY <2>2
<1>3. Sums(h, e, U) /\ h[U] = g[U]
  BY <1>1, <1>2 DEF Sums
<1> HIDE DEF h
<1>4. IsFiniteSet(U) /\ \A x \in U : e[x] \in Int
  BY FS_Subset
<1> QED BY <1>3, <1>4, SumIsSums

\* An element adds its own share, whenever it is added.
LEMMA SumAdd ==
    ASSUME NEW S, IsFiniteSet(S), NEW x, x \notin S,
           NEW e, \A y \in S \cup {x} : e[y] \in Int
    PROVE  /\ SumOf(e, S) \in Int
           /\ SumOf(e, S \cup {x}) = SumOf(e, S) + e[x]
<1> DEFINE W == S \cup {x}
<1>1. IsFiniteSet(W) /\ S \in SUBSET W /\ W \in SUBSET W /\ x \in W \ S
  BY FS_AddElement
<1>2. \A y \in W : e[y] \in Int
  OBVIOUS
<1> HIDE DEF W
<1>3. PICK g : Sums(g, e, W)
  BY <1>1, <1>2, SumsExist
<1>4. SumOf(e, S) = g[S] /\ SumOf(e, W) = g[W]
  BY <1>1, <1>2, <1>3, SumOfPart
<1>5. g[S] \in Int /\ g[S \cup {x}] = g[S] + e[x]
  BY <1>1, <1>3 DEF Sums
<1> QED BY <1>4, <1>5 DEF W

\* The same for the parts of a set, in one formula.
LEMMA SumGrows ==
    ASSUME NEW S, IsFiniteSet(S), NEW e, \A x \in S : e[x] \in Int
    PROVE  \A U \in SUBSET S : \A x \in S \ U :
               SumOf(e, U \cup {x}) = SumOf(e, U) + e[x]
<1>1. PICK g : Sums(g, e, S)
  BY SumsExist
<1>2. \A U \in SUBSET S : SumOf(e, U) = g[U]
  BY <1>1, SumOfPart
<1>3. \A U \in SUBSET S : \A x \in S \ U : U \cup {x} \in SUBSET S
  OBVIOUS
<1> QED BY <1>1, <1>2, <1>3 DEF Sums

\* And takes it along when it leaves.
LEMMA SumRemove ==
    ASSUME NEW S, IsFiniteSet(S), NEW x \in S,
           NEW e, \A y \in S : e[y] \in Int
    PROVE  /\ SumOf(e, S \ {x}) \in Int
           /\ SumOf(e, S) = SumOf(e, S \ {x}) + e[x]
<1> DEFINE U == S \ {x}
<1>1. IsFiniteSet(U) /\ x \notin U /\ U \cup {x} = S
  BY FS_Subset
<1>2. \A y \in U \cup {x} : e[y] \in Int
  BY <1>1
<1> HIDE DEF U
<1>3. SumOf(e, U) \in Int /\ SumOf(e, U \cup {x}) = SumOf(e, U) + e[x]
  BY <1>1, <1>2, SumAdd
<1> QED BY <1>1, <1>3 DEF U

\* A sum of integers is an integer.
LEMMA SumType ==
    ASSUME NEW S, IsFiniteSet(S), NEW e, \A x \in S : e[x] \in Int
    PROVE  SumOf(e, S) \in Int
<1>1. PICK g : Sums(g, e, S)
  BY SumsExist
<1>2. SumOf(e, S) = g[S]
  BY <1>1, SumIsSums
<1> QED BY <1>1, <1>2 DEF Sums

\* A sum looks at its addends only.
LEMMA SumSame ==
    ASSUME NEW S, IsFiniteSet(S), NEW d, NEW e,
           \A x \in S : d[x] \in Int /\ e[x] = d[x]
    PROVE  SumOf(e, S) = SumOf(d, S)
<1>1. PICK g : Sums(g, d, S)
  BY SumsExist
<1>2. Sums(g, e, S)
  BY <1>1 DEF Sums
<1> QED BY <1>1, <1>2, SumIsSums

\* Larger addends make a larger sum.
LEMMA SumMonotone ==
    ASSUME NEW S, IsFiniteSet(S), NEW d, NEW e,
           \A x \in S : d[x] \in Int /\ e[x] \in Int /\ d[x] <= e[x]
    PROVE  SumOf(d, S) <= SumOf(e, S)
<1>1. PICK g : Sums(g, d, S)
  BY SumsExist
<1>2. PICK h : Sums(h, e, S)
  BY SumsExist
<1> DEFINE F == {U \in SUBSET S : g[U] <= h[U]}
<1>3. {} \in F
  BY <1>1, <1>2 DEF Sums
<1>4. ASSUME NEW U \in SUBSET S, NEW x \in S, U \in F
      PROVE  U \cup {x} \in F
  <2>1. CASE x \in U
    <3>1. U \cup {x} = U
      BY <2>1
    <3> QED BY <1>4, <3>1
  <2>2. CASE x \notin U
    <3>1. g[U \cup {x}] = g[U] + d[x] /\ h[U \cup {x}] = h[U] + e[x]
      BY <1>1, <1>2, <2>2 DEF Sums
    <3>2. g[U] \in Int /\ h[U] \in Int /\ g[U] <= h[U] /\ d[x] <= e[x]
      BY <1>1, <1>2, <1>4 DEF Sums
    <3>3. g[U \cup {x}] <= h[U \cup {x}]
      BY <3>1, <3>2
    <3> QED BY <3>3
  <2> QED BY <2>1, <2>2
<1> HIDE DEF F
<1>5. S \in F
  BY <1>3, <1>4, SetInduction
<1> QED BY <1>1, <1>2, <1>5, SumIsSums DEF F

\* A sum of natural numbers is one, and no less than any addend.
LEMMA SumOfNats ==
    ASSUME NEW S, IsFiniteSet(S), NEW e, \A x \in S : e[x] \in Nat
    PROVE  /\ SumOf(e, S) \in Nat
           /\ \A x \in S : e[x] <= SumOf(e, S)
<1>1. PICK g : Sums(g, e, S)
  BY SumsExist
<1> DEFINE F == {U \in SUBSET S : g[U] \in Nat}
<1>2. {} \in F
  BY <1>1 DEF Sums
<1>3. ASSUME NEW U \in SUBSET S, NEW x \in S, U \in F
      PROVE  U \cup {x} \in F
  <2>1. CASE x \in U
    <3>1. U \cup {x} = U
      BY <2>1
    <3> QED BY <1>3, <3>1
  <2>2. CASE x \notin U
    BY <1>1, <1>3, <2>2 DEF Sums
  <2> QED BY <2>1, <2>2
<1>4. ASSUME NEW V \in SUBSET S
      PROVE  SumOf(e, V) \in Nat
  <2> DEFINE G == {U \in SUBSET V : g[U] \in Nat}
  <2>1. {} \in G /\ IsFiniteSet(V)
    BY <1>2, FS_Subset
  <2>2. \A U \in SUBSET V : \A x \in V : U \in G => U \cup {x} \in G
    BY <1>3
  <2> HIDE DEF G
  <2>3. V \in G
    BY <2>1, <2>2, SetInduction
  <2> QED BY <1>1, <2>3, SumOfPart DEF G
<1>5. ASSUME NEW x \in S
      PROVE  e[x] <= SumOf(e, S)
  <2>1. SumOf(e, S) = SumOf(e, S \ {x}) + e[x]
    BY SumRemove
  <2>2. SumOf(e, S \ {x}) \in Nat
    BY <1>4
  <2> QED BY <2>1, <2>2
<1> QED BY <1>4, <1>5

\* Addends that are 0 may be left out.
LEMMA SumOfSupport ==
    ASSUME NEW S, IsFiniteSet(S), NEW e, \A x \in S : e[x] \in Int,
           NEW V \in SUBSET S, \A x \in S \ V : e[x] = 0
    PROVE  SumOf(e, S) = SumOf(e, V)
<1>1. PICK g : Sums(g, e, S)
  BY SumsExist
<1> DEFINE F == {U \in SUBSET S : g[U] = g[U \cap V]}
<1>2. {} \in F
  OBVIOUS
<1>3. ASSUME NEW U \in SUBSET S, NEW x \in S, U \in F
      PROVE  U \cup {x} \in F
  <2>1. CASE x \in U
    <3>1. U \cup {x} = U
      BY <2>1
    <3> QED BY <1>3, <3>1
  <2>2. CASE x \notin U /\ x \in V
    <3>1. (U \cup {x}) \cap V = (U \cap V) \cup {x} /\ x \in S \ (U \cap V)
      BY <2>2
    <3>2. g[U \cup {x}] = g[U] + e[x] /\ g[(U \cap V) \cup {x}] = g[U \cap V] + e[x]
      BY <1>1, <2>2, <3>1 DEF Sums
    <3>3. g[U] = g[U \cap V] /\ g[(U \cup {x}) \cap V] = g[(U \cap V) \cup {x}]
      BY <1>3, <3>1
    <3>4. g[U \cup {x}] = g[(U \cup {x}) \cap V]
      BY <3>2, <3>3
    <3> QED BY <3>4
  <2>3. CASE x \notin U /\ x \notin V
    <3>1. (U \cup {x}) \cap V = U \cap V
      BY <2>3
    <3>2. g[U \cup {x}] = g[U] + e[x] /\ e[x] = 0 /\ g[U] \in Int
      BY <1>1, <2>3 DEF Sums
    <3>3. g[U] = g[U \cap V] /\ g[(U \cup {x}) \cap V] = g[U \cap V]
      BY <1>3, <3>1
    <3>4. g[U \cup {x}] = g[(U \cup {x}) \cap V]
      BY <3>2, <3>3
    <3> QED BY <3>4
  <2> QED BY <2>1, <2>2, <2>3
<1> HIDE DEF F
<1>4. S \in F
  BY <1>2, <1>3, SetInduction
<1>5. g[S] = g[V]
  <2>1. S \cap V = V
    OBVIOUS
  <2> QED BY <1>4, <2>1 DEF F
<1> QED BY <1>1, <1>5, SumOfPart

\* A sum is the same under other names for its addends.
LEMMA SumRenamed ==
    ASSUME NEW S, IsFiniteSet(S), NEW d, \A x \in S : d[x] \in Int,
           NEW T, NEW r \in [S -> T], NEW e,
           \A x, y \in S : r[x] = r[y] => x = y,
           \A y \in T : \E x \in S : r[x] = y,
           \A x \in S : e[r[x]] = d[x]
    PROVE  IsFiniteSet(T) /\ SumOf(e, T) = SumOf(d, S)
<1> DEFINE Names(U) == {r[x] : x \in U}
           F == {U \in SUBSET S : IsFiniteSet(Names(U)) /\ SumOf(e, Names(U)) = SumOf(d, U)}
<1>1. {} \in F
  <2>1. Names({}) = {}
    OBVIOUS
  <2> QED BY <2>1, FS_EmptySet, SumEmpty
<1>2. ASSUME NEW U \in SUBSET S, NEW x \in S, U \in F
      PROVE  U \cup {x} \in F
  <2>1. CASE x \in U
    <3>1. U \cup {x} = U
      BY <2>1
    <3> QED BY <1>2, <3>1
  <2>2. CASE x \notin U
    <3> DEFINE N == Names(U)
    <3>1. r[x] \notin N /\ Names(U \cup {x}) = N \cup {r[x]}
      BY <2>2
    <3>2. IsFiniteSet(N) /\ SumOf(e, N) = SumOf(d, U)
      BY <1>2
    <3>3. e[r[x]] = d[x] /\ \A y \in N \cup {r[x]} : e[y] \in Int
      OBVIOUS
    <3> HIDE DEF Names, N, F
    <3>5. SumOf(e, N \cup {r[x]}) = SumOf(e, N) + e[r[x]]
      BY <3>1, <3>2, <3>3, SumAdd
    <3>4. x \in S \ U
      BY <2>2
    <3>6. SumOf(d, U \cup {x}) = SumOf(d, U) + d[x]
      BY <3>4, SumGrows
    <3>7. IsFiniteSet(N \cup {r[x]})
      BY <3>2, FS_AddElement
    <3> QED BY <3>1, <3>2, <3>3, <3>5, <3>6, <3>7 DEF F
  <2> QED BY <2>1, <2>2
<1>3. Names(S) = T
  OBVIOUS
<1> HIDE DEF F
<1>4. S \in F
  BY <1>1, <1>2, SetInduction
<1> QED BY <1>3, <1>4 DEF F

\* Two sums over the same set add up addend by addend.
LEMMA SumPlus ==
    ASSUME NEW S, IsFiniteSet(S), NEW d, NEW e, NEW f,
           \A x \in S : d[x] \in Int /\ e[x] \in Int /\ f[x] = d[x] + e[x]
    PROVE  SumOf(f, S) = SumOf(d, S) + SumOf(e, S)
<1>1. PICK g : Sums(g, d, S)
  BY SumsExist
<1>2. PICK h : Sums(h, e, S)
  BY SumsExist
<1> DEFINE k == [U \in SUBSET S |-> g[U] + h[U]]
<1>3. k \in [SUBSET S -> Int] /\ k[{}] = 0
  BY <1>1, <1>2 DEF Sums
<1>4. ASSUME NEW U \in SUBSET S, NEW x \in S \ U
      PROVE  k[U \cup {x}] = k[U] + f[x]
  <2>1. g[U \cup {x}] = g[U] + d[x] /\ h[U \cup {x}] = h[U] + e[x]
    BY <1>1, <1>2 DEF Sums
  <2>2. /\ g[U] \in Int /\ h[U] \in Int /\ d[x] \in Int /\ e[x] \in Int /\ f[x] = d[x] + e[x]
        /\ k[U] = g[U] + h[U] /\ k[U \cup {x}] = g[U \cup {x}] + h[U \cup {x}]
    BY <1>1, <1>2 DEF Sums
  <2> HIDE DEF k
  <2> QED BY <2>1, <2>2
<1>5. Sums(k, f, S) /\ k[S] = g[S] + h[S]
  BY <1>3, <1>4 DEF Sums
<1> HIDE DEF k
<1>6. \A x \in S : f[x] \in Int
  OBVIOUS
<1> QED BY <1>1, <1>2, <1>5, <1>6, SumIsSums

\* One addend replaced: the sum moves by the difference.
LEMMA SumUpdate ==
    ASSUME NEW S, IsFiniteSet(S), NEW d, NEW e, NEW s \in S,
           \A x \in S : d[x] \in Int /\ e[x] \in Int,
           \A x \in S \ {s} : e[x] = d[x]
    PROVE  SumOf(e, S) = SumOf(d, S) - d[s] + e[s]
<1>1. SumOf(d, S \ {s}) \in Int /\ SumOf(d, S) = SumOf(d, S \ {s}) + d[s]
  BY SumRemove
<1>2. SumOf(e, S) = SumOf(e, S \ {s}) + e[s]
  BY SumRemove
<1>3. SumOf(e, S \ {s}) = SumOf(d, S \ {s})
  <2>1. IsFiniteSet(S \ {s}) /\ \A x \in S \ {s} : d[x] \in Int /\ e[x] = d[x]
    BY FS_Subset
  <2> QED BY <2>1, SumSame
<1>4. d[s] \in Int /\ e[s] \in Int
  OBVIOUS
<1> QED BY <1>1, <1>2, <1>3, <1>4

\* A part of a set of natural numbers sums up to no more than the whole.
LEMMA SumPart ==
    ASSUME NEW S, IsFiniteSet(S), NEW e, \A x \in S : e[x] \in Nat, NEW V \in SUBSET S
    PROVE  SumOf(e, V) <= SumOf(e, S)
<1> DEFINE f == [x \in S |-> IF x \in V THEN e[x] ELSE 0]
<1>1. /\ \A x \in S : f[x] \in Int /\ e[x] \in Int /\ f[x] <= e[x]
      /\ \A x \in S \ V : f[x] = 0
      /\ \A x \in V : f[x] \in Int /\ e[x] = f[x]
  OBVIOUS
<1>2. IsFiniteSet(V)
  BY FS_Subset
<1> HIDE DEF f
<1>3. SumOf(f, S) = SumOf(f, V)
  BY <1>1, SumOfSupport
<1>4. SumOf(e, V) = SumOf(f, V)
  BY <1>1, <1>2, SumSame
<1>5. SumOf(f, S) <= SumOf(e, S)
  BY <1>1, SumMonotone
<1> QED BY <1>3, <1>4, <1>5

===============================================================================
