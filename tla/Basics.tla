------------------------------- MODULE Basics -------------------------------
(***************************************************************************)
(* Lemmas the proofs of several components rest on: induction over the     *)
(* naturals and over a finite set, sequences, and sums over finite sets.   *)
(***************************************************************************)
EXTENDS Integers, Sequences, Functions, SequenceTheorems, FiniteSetTheorems,
        WellFoundedInduction, TLAPS

-----------------------------------------------------------------------------
\* Inductions are done by the first counterexample.

LEMMA LeastNatural ==
  ASSUME NEW S \in SUBSET Nat, S # {}
  PROVE  \E m \in S : \A k \in S : m <= k
<1> DEFINE R == OpToRel(<, Nat)
<1>1. IsWellFoundedOn(R, Nat)
  BY NatLessThanWellFounded
<1>2. \A k, m \in Nat : <<k, m>> \in R <=> k < m
  BY DEF OpToRel
<1> HIDE DEF R
<1>3. PICK m \in S : \A k \in S : ~(<<k, m>> \in R)
  BY <1>1, WFMin
<1>4. ASSUME NEW k \in S
      PROVE  m <= k
  <2>1. k \in Nat /\ m \in Nat
    OBVIOUS
  <2>2. ~(k < m)
    BY <1>2, <1>3, <2>1, Zenon
  <2> QED
    BY <2>1, <2>2
<1> QED
  BY <1>4

\* The same as an induction over a set of naturals.
LEMMA AllNaturals ==
  ASSUME NEW S, 0 \in S, \A n \in Nat : n \in S => n + 1 \in S
  PROVE  \A n \in Nat : n \in S
<1> DEFINE missing == {n \in Nat : n \notin S}
<1> SUFFICES ASSUME missing # {}
             PROVE  FALSE
  OBVIOUS
<1>1. PICK m \in missing : \A k \in missing : m <= k
  <2>1. missing \in SUBSET Nat
    OBVIOUS
  <2> HIDE DEF missing
  <2> QED
    BY <2>1, LeastNatural
<1>2. m \in Nat /\ m \notin S /\ m # 0
  OBVIOUS
<1>3. m - 1 \in Nat /\ m - 1 \notin missing
  BY <1>1, <1>2
<1>4. m - 1 \in S /\ (m - 1) + 1 = m
  BY <1>2, <1>3
<1> QED
  BY <1>2, <1>3, <1>4

LEMMA SmallerByOne ==
  ASSUME NEW S, IsFiniteSet(S), NEW x \in S, NEW n \in Nat, Cardinality(S) = n + 1
  PROVE  IsFiniteSet(S \ {x}) /\ Cardinality(S \ {x}) = n
<1>1. IsFiniteSet(S \ {x}) /\ Cardinality(S \ {x}) = Cardinality(S) - 1
  BY FS_RemoveElement
<1> QED
  BY <1>1

\* What holds of a set when it holds without any one of its elements holds of all.
LEMMA AllFinite ==
  ASSUME NEW S, IsFiniteSet(S), NEW P,
         \A T \in SUBSET S : (\A x \in T : T \ {x} \in P) => T \in P
  PROVE  \A T \in SUBSET S : T \in P
<1> DEFINE Good == {n \in Nat : \A T \in SUBSET S : Cardinality(T) = n => T \in P}
<1>1. \A T \in SUBSET S : IsFiniteSet(T) /\ Cardinality(T) \in Nat
  BY FS_Subset, FS_CardinalityType
<1>2. 0 \in Good
  <2>1. \A T \in SUBSET S : Cardinality(T) = 0 => T = {}
    BY <1>1, FS_EmptySet
  <2> QED
    BY <2>1
<1>3. ASSUME NEW n \in Nat, n \in Good
      PROVE  n + 1 \in Good
  <2> SUFFICES ASSUME NEW T \in SUBSET S, Cardinality(T) = n + 1
               PROVE  T \in P
    OBVIOUS
  <2>1. \A x \in T : Cardinality(T \ {x}) = n /\ T \ {x} \in SUBSET S
    BY <1>1, SmallerByOne
  <2> QED
    BY <1>3, <2>1
<1>4. \A n \in Nat : n \in Good
  <2> HIDE DEF Good
  <2> QED
    BY <1>2, <1>3, AllNaturals
<1> QED
  BY <1>1, <1>4

-----------------------------------------------------------------------------
\* Sequences whose elements have no named type, since hashes are terms.

IsSeq(s) == Len(s) \in Nat /\ s = [i \in 1..Len(s) |-> s[i]]

LEMMA SeqIs == ASSUME NEW S, NEW s \in Seq(S) PROVE IsSeq(s)
BY LenProperties DEF IsSeq

LEMMA FunctionIsSeq ==
  ASSUME NEW n \in Nat, NEW s, s = [i \in 1..n |-> s[i]]
  PROVE  IsSeq(s) /\ Len(s) = n
<1> DEFINE S == {s[i] : i \in 1..n}
<1>1. \A i \in 1..n : s[i] \in S
  OBVIOUS
<1> HIDE DEF S
<1>2. [i \in 1..n |-> s[i]] \in Seq(S)
  BY <1>1, IsASeq
<1>3. s \in Seq(S)
  BY <1>2
<1>4. DOMAIN s = 1..n /\ DOMAIN s = 1..Len(s) /\ Len(s) \in Nat
  BY <1>3, LenProperties
<1> QED
  BY <1>3, <1>4, SeqIs

LEMMA NoneIsSeq == IsSeq(<<>>) /\ Len(<<>>) = 0
BY DEF IsSeq

LEMMA OneIsSeq == ASSUME NEW x PROVE IsSeq(<<x>>) /\ Len(<<x>>) = 1 /\ <<x>>[1] = x
BY DEF IsSeq

LEMMA AppendIsSeq ==
  ASSUME NEW s, NEW x, IsSeq(s)
  PROVE  /\ IsSeq(Append(s, x))
         /\ Len(Append(s, x)) = Len(s) + 1
         /\ \A i \in 1..Len(s) : Append(s, x)[i] = s[i]
         /\ Append(s, x)[Len(s) + 1] = x
<1> DEFINE S == {s[i] : i \in 1..Len(s)} \cup {x}
<1>1. x \in S /\ \A i \in 1..Len(s) : s[i] \in S
  OBVIOUS
<1> HIDE DEF S
<1>2. [i \in 1..Len(s) |-> s[i]] \in Seq(S)
  BY <1>1, IsASeq DEF IsSeq
<1>3. s \in Seq(S)
  BY <1>2 DEF IsSeq
<1>4. /\ Append(s, x) \in Seq(S)
      /\ Len(Append(s, x)) = Len(s) + 1
      /\ \A i \in 1..Len(s) : Append(s, x)[i] = s[i]
      /\ Append(s, x)[Len(s) + 1] = x
  BY <1>1, <1>3, AppendProperties
<1> QED
  BY <1>4, SeqIs

LEMMA RangeOfAppend ==
  ASSUME NEW s, IsSeq(s), NEW x
  PROVE  Range(Append(s, x)) = Range(s) \cup {x}
<1>1. /\ DOMAIN s = 1 .. Len(s) /\ DOMAIN Append(s, x) = 1 .. (Len(s) + 1) /\ Len(s) \in Nat
      /\ \A i \in 1 .. Len(s) : Append(s, x)[i] = s[i]
      /\ Append(s, x)[Len(s) + 1] = x
  BY AppendIsSeq DEF IsSeq
<1>2. ASSUME NEW y \in Range(Append(s, x))
      PROVE  y \in Range(s) \cup {x}
  <2>1. PICK i \in 1 .. (Len(s) + 1) : y = Append(s, x)[i]
    BY <1>1 DEF Range
  <2>2. i \in 1 .. Len(s) \/ i = Len(s) + 1
    BY <1>1
  <2> QED
    BY <1>1, <2>1, <2>2 DEF Range
<1>3. ASSUME NEW y \in Range(s) \cup {x}
      PROVE  y \in Range(Append(s, x))
  <2>1. CASE y = x
    BY <1>1, <2>1 DEF Range
  <2>2. CASE y \in Range(s)
    <3>1. PICK i \in 1 .. Len(s) : y = s[i]
      BY <1>1, <2>2 DEF Range
    <3>2. i \in 1 .. (Len(s) + 1) /\ y = Append(s, x)[i]
      BY <1>1, <3>1
    <3> QED
      BY <1>1, <3>2 DEF Range
  <2> QED
    BY <2>1, <2>2
<1> QED
  BY <1>2, <1>3

-----------------------------------------------------------------------------
\* Sums over finite sets.

Pick(T) == CHOOSE x \in T : TRUE

SumsOver(f, D, g) == g = [T \in D |-> IF T = {} THEN 0 ELSE f[Pick(T)] + g[T \ {Pick(T)}]]

\* The sum is what the fold has of the set.
LEMMA FoldOf ==
  ASSUME NEW f, NEW S
  PROVE  SumFunctionOnSet(f, S) = (CHOOSE g : SumsOver(f, SUBSET S, g))[S]
BY DEF SumFunctionOnSet, FoldFunctionOnSet, MapThenFoldSet, SumsOver, Pick

SumsUpTo(f, S, k, g) == SumsOver(f, {T \in SUBSET S : Cardinality(T) <= k}, g)

LEMMA FoldAt ==
  ASSUME NEW f, NEW D, NEW g, SumsOver(f, D, g), NEW T \in D
  PROVE  /\ T = {} => g[T] = 0
         /\ T # {} => g[T] = f[Pick(T)] + g[T \ {Pick(T)}]
BY DEF SumsOver

LEMMA PickFacts ==
  ASSUME NEW T, T # {}
  PROVE  Pick(T) \in T
BY DEF Pick

LEMMA FoldToGiven ==
  ASSUME NEW f, NEW S, IsFiniteSet(S)
  PROVE  \A k \in Nat : \E g : SumsUpTo(f, S, k, g)
<1> DEFINE Up(k) == {T \in SUBSET S : Cardinality(T) <= k}
           Given == {k \in Nat : \E g : SumsUpTo(f, S, k, g)}
<1>1. \A T \in SUBSET S : IsFiniteSet(T) /\ Cardinality(T) \in Nat
  BY FS_Subset, FS_CardinalityType
<1>2. 0 \in Given
  <2> DEFINE g == [T \in Up(0) |-> 0]
  <2>1. \A T \in Up(0) : T = {}
    BY <1>1, FS_EmptySet
  <2>2. SumsOver(f, Up(0), g)
    <3>1. g = [T \in Up(0) |-> IF T = {} THEN 0 ELSE f[Pick(T)] + g[T \ {Pick(T)}]]
      BY <2>1
    <3> QED
      BY <3>1 DEF SumsOver
  <2> QED
    BY <2>2 DEF SumsUpTo
<1>3. ASSUME NEW k \in Nat, k \in Given
      PROVE  k + 1 \in Given
  <2>1. PICK g : SumsOver(f, Up(k), g)
    BY <1>3 DEF SumsUpTo
  <2> DEFINE h == [T \in Up(k + 1) |-> IF T = {} THEN 0 ELSE f[Pick(T)] + g[T \ {Pick(T)}]]
  <2>2. \A T \in Up(k) : T \in Up(k + 1) /\ h[T] = g[T]
    <3>1. \A T \in Up(k) : T \in Up(k + 1)
      BY <1>1
    <3>2. \A T \in Up(k) : g[T] = IF T = {} THEN 0 ELSE f[Pick(T)] + g[T \ {Pick(T)}]
      <4> HIDE DEF Up
      <4> QED
        BY <2>1 DEF SumsOver
    <3> HIDE DEF Up
    <3> QED
      BY <3>1, <3>2
  <2>3. ASSUME NEW T \in Up(k + 1), T # {}
        PROVE  T \ {Pick(T)} \in Up(k)
    <3>1. Pick(T) \in T
      BY <2>3, PickFacts
    <3>2. Cardinality(T \ {Pick(T)}) = Cardinality(T) - 1
      BY <1>1, <3>1, FS_RemoveElement
    <3>3. Cardinality(T) - 1 <= k
      BY <1>1
    <3> QED
      BY <3>2, <3>3
  <2>4. SumsOver(f, Up(k + 1), h)
    <3> HIDE DEF Up
    <3>1. \A T \in Up(k + 1) : T # {} => h[T \ {Pick(T)}] = g[T \ {Pick(T)}]
      BY <2>2, <2>3
    <3>2. h = [T \in Up(k + 1) |-> IF T = {} THEN 0 ELSE f[Pick(T)] + h[T \ {Pick(T)}]]
      BY <3>1
    <3> QED
      BY <3>2 DEF SumsOver
  <2> HIDE DEF h
  <2> QED
    BY <2>4 DEF SumsUpTo
<1>4. \A k \in Nat : k \in Given
  <2> HIDE DEF Given
  <2> QED
    BY <1>2, <1>3, AllNaturals
<1> QED
  BY <1>4

LEMMA FoldGiven ==
  ASSUME NEW f, NEW S, IsFiniteSet(S)
  PROVE  \E g : SumsOver(f, SUBSET S, g)
<1>1. Cardinality(S) \in Nat
  BY FS_CardinalityType
<1>2. {T \in SUBSET S : Cardinality(T) <= Cardinality(S)} = SUBSET S
  BY FS_Subset
<1>3. PICK g : SumsUpTo(f, S, Cardinality(S), g)
  BY <1>1, FoldToGiven
<1> QED
  BY <1>2, <1>3 DEF SumsUpTo

\* A smaller set has the same fold.
LEMMA FoldsAgree ==
  ASSUME NEW f, NEW S, IsFiniteSet(S), NEW R \in SUBSET S, NEW g, NEW h,
         SumsOver(f, SUBSET S, g), SumsOver(f, SUBSET R, h)
  PROVE  \A T \in SUBSET R : g[T] = h[T]
<1> DEFINE Same == {k \in Nat : \A T \in SUBSET R : Cardinality(T) = k => g[T] = h[T]}
<1>1. \A T \in SUBSET R : T \in SUBSET S /\ IsFiniteSet(T) /\ Cardinality(T) \in Nat
  BY FS_Subset, FS_CardinalityType
<1>2. 0 \in Same
  <2>1. {} \in SUBSET S /\ {} \in SUBSET R
    OBVIOUS
  <2>2. g[{}] = 0 /\ h[{}] = 0
    BY <2>1 DEF SumsOver
  <2> QED
    BY <1>1, <2>2, FS_EmptySet
<1>3. ASSUME NEW k \in Nat, k \in Same
      PROVE  k + 1 \in Same
  <2> SUFFICES ASSUME NEW T \in SUBSET R, Cardinality(T) = k + 1
               PROVE  g[T] = h[T]
    OBVIOUS
  <2>1. k + 1 # 0
    OBVIOUS
  <2>2. T # {}
    BY <2>1, FS_EmptySet
  <2>3. Pick(T) \in T
    BY <2>2, PickFacts
  <2>4. Cardinality(T \ {Pick(T)}) = k
    BY <1>1, <2>3, SmallerByOne
  <2>5. g[T \ {Pick(T)}] = h[T \ {Pick(T)}]
    BY <1>3, <2>4
  <2> QED
    BY <1>1, <2>2, <2>5, FoldAt
<1>4. \A k \in Nat : k \in Same
  <2> HIDE DEF Same
  <2> QED
    BY <1>2, <1>3, AllNaturals
<1> QED
  BY <1>1, <1>4

LEMMA SumIsFold ==
  ASSUME NEW f, NEW S, IsFiniteSet(S), NEW g, SumsOver(f, SUBSET S, g)
  PROVE  \A T \in SUBSET S : SumFunctionOnSet(f, T) = g[T]
<1> SUFFICES ASSUME NEW T \in SUBSET S
             PROVE  SumFunctionOnSet(f, T) = g[T]
  OBVIOUS
<1> DEFINE h == CHOOSE x : SumsOver(f, SUBSET T, x)
<1>1. IsFiniteSet(T)
  BY FS_Subset
<1>2. \E x : SumsOver(f, SUBSET T, x)
  BY <1>1, FoldGiven
<1>3. SumsOver(f, SUBSET T, h)
  BY <1>2
<1>4. SumFunctionOnSet(f, T) = h[T]
  BY FoldOf
<1> HIDE DEF h
<1> QED
  BY <1>3, <1>4, FoldsAgree

LEMMA SumSteps ==
  ASSUME NEW f, NEW S, IsFiniteSet(S)
  PROVE  /\ SumFunctionOnSet(f, {}) = 0
         /\ \A T \in SUBSET S : T # {} =>
              SumFunctionOnSet(f, T) = f[Pick(T)] + SumFunctionOnSet(f, T \ {Pick(T)})
<1>1. PICK g : SumsOver(f, SUBSET S, g)
  BY FoldGiven
<1>2. \A T \in SUBSET S : SumFunctionOnSet(f, T) = g[T]
  BY <1>1, SumIsFold
<1>3. {} \in SUBSET S /\ \A T \in SUBSET S : T \ {Pick(T)} \in SUBSET S
  OBVIOUS
<1>4. g[{}] = 0 /\ \A T \in SUBSET S : T # {} => g[T] = f[Pick(T)] + g[T \ {Pick(T)}]
  BY <1>1, <1>3 DEF SumsOver
<1> QED
  BY <1>2, <1>3, <1>4

LEMMA SumNatural ==
  ASSUME NEW f, NEW S, IsFiniteSet(S), \A x \in S : f[x] \in Nat
  PROVE  \A T \in SUBSET S : SumFunctionOnSet(f, T) \in Nat
<1> DEFINE P == {T \in SUBSET S : SumFunctionOnSet(f, T) \in Nat}
<1>1. /\ SumFunctionOnSet(f, {}) = 0
      /\ \A T \in SUBSET S : T # {} =>
           SumFunctionOnSet(f, T) = f[Pick(T)] + SumFunctionOnSet(f, T \ {Pick(T)})
  BY SumSteps
<1>2. ASSUME NEW T \in SUBSET S, \A x \in T : T \ {x} \in P
      PROVE  T \in P
  <2>1. CASE T = {}
    BY <1>1, <2>1
  <2>2. CASE T # {}
    <3>1. Pick(T) \in T
      BY <2>2, PickFacts
    <3>2. f[Pick(T)] \in Nat /\ SumFunctionOnSet(f, T \ {Pick(T)}) \in Nat
      BY <1>2, <3>1
    <3> QED
      BY <1>1, <2>2, <3>2
  <2> QED
    BY <2>1, <2>2
<1>3. \A T \in SUBSET S : T \in P
  <2> HIDE DEF P
  <2> QED
    BY <1>2, AllFinite
<1> QED
  BY <1>3

\* Whatever the order.
LEMMA SumRemoves ==
  ASSUME NEW f, NEW S, IsFiniteSet(S), \A x \in S : f[x] \in Nat
  PROVE  \A T \in SUBSET S : \A x \in T :
           SumFunctionOnSet(f, T) = f[x] + SumFunctionOnSet(f, T \ {x})
<1> DEFINE P == {T \in SUBSET S : \A x \in T :
                   SumFunctionOnSet(f, T) = f[x] + SumFunctionOnSet(f, T \ {x})}
<1>1. \A T \in SUBSET S : T # {} =>
        SumFunctionOnSet(f, T) = f[Pick(T)] + SumFunctionOnSet(f, T \ {Pick(T)})
  BY SumSteps
<1>2. \A T \in SUBSET S : SumFunctionOnSet(f, T) \in Nat
  BY SumNatural
<1>3. ASSUME NEW T \in SUBSET S, \A x \in T : T \ {x} \in P
      PROVE  T \in P
  <2> SUFFICES ASSUME NEW x \in T
               PROVE  SumFunctionOnSet(f, T) = f[x] + SumFunctionOnSet(f, T \ {x})
    OBVIOUS
  <2>1. PICK p \in T : p = Pick(T)
    BY PickFacts
  <2>2. SumFunctionOnSet(f, T) = f[p] + SumFunctionOnSet(f, T \ {p})
    BY <1>1, <2>1
  <2>3. CASE x # p
    <3>1. SumFunctionOnSet(f, T \ {p}) = f[x] + SumFunctionOnSet(f, (T \ {p}) \ {x})
      BY <1>3, <2>3
    <3>2. (T \ {p}) \ {x} = (T \ {x}) \ {p} /\ (T \ {p}) \ {x} \in SUBSET S
      OBVIOUS
    <3>3. SumFunctionOnSet(f, T \ {x}) = f[p] + SumFunctionOnSet(f, (T \ {p}) \ {x})
      BY <1>3, <2>3, <3>2
    <3>4. f[x] \in Nat /\ f[p] \in Nat /\ SumFunctionOnSet(f, (T \ {p}) \ {x}) \in Nat
      BY <1>2, <3>2
    <3> QED
      BY <2>2, <3>1, <3>3, <3>4
  <2> QED
    BY <2>2, <2>3
<1>4. \A T \in SUBSET S : T \in P
  <2> HIDE DEF P
  <2> QED
    BY <1>3, AllFinite
<1> QED
  BY <1>4

\* Naturals by name, of finitely many names.
IsTally(f, S) == IsFiniteSet(S) /\ \A x \in S : f[x] \in Nat

LEMMA SumFacts ==
  ASSUME NEW f, NEW S, IsTally(f, S)
  PROVE  /\ SumFunctionOnSet(f, S) \in Nat
         /\ SumFunctionOnSet(f, {}) = 0
         /\ \A x \in S : SumFunctionOnSet(f, S) = f[x] + SumFunctionOnSet(f, S \ {x})
BY SumNatural, SumRemoves, SumSteps DEF IsTally

LEMMA TallyWithin ==
  ASSUME NEW f, NEW S, IsTally(f, S), NEW R \in SUBSET S
  PROVE  IsTally(f, R)
BY FS_Subset DEF IsTally

LEMMA SumAdds ==
  ASSUME NEW f, NEW S, IsTally(f, S), NEW x, x \notin S, f[x] \in Nat
  PROVE  /\ IsTally(f, S \cup {x})
         /\ SumFunctionOnSet(f, S \cup {x}) = f[x] + SumFunctionOnSet(f, S)
<1>1. IsTally(f, S \cup {x})
  BY FS_AddElement DEF IsTally
<1>2. (S \cup {x}) \ {x} = S
  OBVIOUS
<1> QED
  BY <1>1, <1>2, SumFacts

\* A tally read along an injection is the same, if it misses only zeros.
LEMMA SumAlong ==
  ASSUME NEW S, NEW T, NEW f, NEW g, NEW h \in [S -> T],
         IsTally(g, S), IsTally(f, T),
         \A x, y \in S : h[x] = h[y] => x = y,
         \A x \in S : g[x] = f[h[x]],
         \A y \in T : f[y] = 0 \/ \E x \in S : h[x] = y
  PROVE  SumFunctionOnSet(g, S) = SumFunctionOnSet(f, T)
<1> DEFINE Back(U) == {x \in S : h[x] \in U}
           P == {U \in SUBSET T : SumFunctionOnSet(g, Back(U)) = SumFunctionOnSet(f, U)}
<1>1. ASSUME NEW U \in SUBSET T, \A y \in U : U \ {y} \in P
      PROVE  U \in P
  <2>1. CASE U = {}
    <3>1. Back(U) = {}
      BY <2>1
    <3>2. SumFunctionOnSet(g, {}) = 0 /\ SumFunctionOnSet(f, {}) = 0
      BY SumFacts
    <3> QED
      BY <2>1, <3>1, <3>2
  <2>2. CASE U # {}
    <3>1. PICK y \in U : TRUE
      BY <2>2
    <3>2. SumFunctionOnSet(g, Back(U \ {y})) = SumFunctionOnSet(f, U \ {y})
      BY <1>1, <3>1
    <3>3. IsTally(f, U)
      BY TallyWithin
    <3>4. SumFunctionOnSet(f, U) = f[y] + SumFunctionOnSet(f, U \ {y})
      BY <3>1, <3>3, SumFacts
    <3>5. Back(U) \in SUBSET S
      OBVIOUS
    <3>6. IsTally(g, Back(U))
      <4> HIDE DEF Back
      <4> QED
        BY <3>5, TallyWithin
    <3>7. CASE \E x \in S : h[x] = y
      <4>1. PICK x \in S : h[x] = y
        BY <3>7
      <4>2. x \in Back(U) /\ Back(U \ {y}) = Back(U) \ {x}
        BY <3>1, <4>1
      <4>3. SumFunctionOnSet(g, Back(U)) = g[x] + SumFunctionOnSet(g, Back(U) \ {x})
        <5> HIDE DEF Back
        <5> QED
          BY <3>6, <4>2, SumFacts
      <4> HIDE DEF Back
      <4>4. SumFunctionOnSet(g, Back(U)) = f[y] + SumFunctionOnSet(f, U \ {y})
        BY <3>2, <4>1, <4>2, <4>3
      <4> QED
        BY <3>4, <4>4
    <3>8. CASE ~\E x \in S : h[x] = y
      <4>1. Back(U \ {y}) = Back(U)
        BY <3>8
      <4>2. f[y] = 0
        BY <3>1, <3>8
      <4>3. SumFunctionOnSet(f, U \ {y}) \in Nat
        <5>1. IsTally(f, U \ {y})
          BY TallyWithin
        <5> QED
          BY <5>1, SumFacts
      <4> HIDE DEF Back
      <4>4. SumFunctionOnSet(f, U) = SumFunctionOnSet(f, U \ {y})
        BY <3>4, <4>2, <4>3
      <4> QED
        BY <3>2, <4>1, <4>4
    <3> QED
      BY <3>7, <3>8
  <2> QED
    BY <2>1, <2>2
<1>2. T \in P
  <2>1. \A U \in SUBSET T : U \in P
    <3> HIDE DEF P
    <3> QED
      BY <1>1, AllFinite DEF IsTally
  <2> QED
    BY <2>1
<1>3. Back(T) = S
  OBVIOUS
<1> HIDE DEF Back
<1> QED
  BY <1>2, <1>3

LEMMA SumSame ==
  ASSUME NEW S, NEW f, NEW g, IsTally(f, S), \A x \in S : g[x] = f[x]
  PROVE  SumFunctionOnSet(g, S) = SumFunctionOnSet(f, S)
<1> DEFINE h == [x \in S |-> x]
<1>1. h \in [S -> S] /\ \A x \in S : h[x] = x
  OBVIOUS
<1>2. IsTally(g, S)
  BY DEF IsTally
<1> HIDE DEF h
<1> QED
  BY <1>1, <1>2, SumAlong

LEMMA SumWithin ==
  ASSUME NEW S, NEW f, IsTally(f, S), NEW R \in SUBSET S
  PROVE  SumFunctionOnSet(f, R) <= SumFunctionOnSet(f, S)
<1> DEFINE P == {T \in SUBSET S : SumFunctionOnSet(f, R \cap T) <= SumFunctionOnSet(f, T)}
<1>1. ASSUME NEW T \in SUBSET S, \A x \in T : T \ {x} \in P
      PROVE  T \in P
  <2>1. CASE R \cap T = {}
    <3>1. SumFunctionOnSet(f, {}) = 0 /\ SumFunctionOnSet(f, T) \in Nat
      BY TallyWithin, SumFacts
    <3> QED
      BY <2>1, <3>1
  <2>2. CASE R \cap T # {}
    <3>1. PICK x \in R \cap T : TRUE
      BY <2>2
    <3>2. R \cap (T \ {x}) = (R \cap T) \ {x}
      OBVIOUS
    <3>3. SumFunctionOnSet(f, (R \cap T) \ {x}) <= SumFunctionOnSet(f, T \ {x})
      BY <1>1, <3>1, <3>2
    <3>4. IsTally(f, T) /\ IsTally(f, R \cap T)
      BY TallyWithin
    <3>5. /\ SumFunctionOnSet(f, T) = f[x] + SumFunctionOnSet(f, T \ {x})
          /\ SumFunctionOnSet(f, R \cap T) = f[x] + SumFunctionOnSet(f, (R \cap T) \ {x})
      BY <3>1, <3>4, SumFacts
    <3>6. f[x] \in Nat
      BY <3>1 DEF IsTally
    <3>7. IsTally(f, T \ {x}) /\ IsTally(f, (R \cap T) \ {x})
      BY TallyWithin
    <3>8. SumFunctionOnSet(f, T \ {x}) \in Nat /\ SumFunctionOnSet(f, (R \cap T) \ {x}) \in Nat
      BY <3>7, SumFacts
    <3> QED
      BY <3>3, <3>5, <3>6, <3>8
  <2> QED
    BY <2>1, <2>2
<1>2. S \in P
  <2>1. \A T \in SUBSET S : T \in P
    <3> HIDE DEF P
    <3> QED
      BY <1>1, AllFinite DEF IsTally
  <2> QED
    BY <2>1
<1>3. R \cap S = R
  OBVIOUS
<1> QED
  BY <1>2, <1>3

LEMMA SumPlus ==
  ASSUME NEW S, NEW f, NEW g, NEW h, IsTally(f, S), IsTally(g, S),
         \A x \in S : h[x] = f[x] + g[x]
  PROVE  SumFunctionOnSet(h, S) = SumFunctionOnSet(f, S) + SumFunctionOnSet(g, S)
<1> DEFINE P == {T \in SUBSET S :
                   SumFunctionOnSet(h, T) = SumFunctionOnSet(f, T) + SumFunctionOnSet(g, T)}
<1>1. IsTally(h, S)
  BY DEF IsTally
<1>2. ASSUME NEW T \in SUBSET S, \A x \in T : T \ {x} \in P
      PROVE  T \in P
  <2>1. CASE T = {}
    <3>1. /\ SumFunctionOnSet(f, {}) = 0 /\ SumFunctionOnSet(g, {}) = 0
          /\ SumFunctionOnSet(h, {}) = 0
      BY <1>1, SumFacts
    <3> QED
      BY <2>1, <3>1
  <2>2. CASE T # {}
    <3>1. PICK x \in T : TRUE
      BY <2>2
    <3>2. SumFunctionOnSet(h, T \ {x}) =
            SumFunctionOnSet(f, T \ {x}) + SumFunctionOnSet(g, T \ {x})
      BY <1>2, <3>1
    <3>3. IsTally(f, T) /\ IsTally(g, T) /\ IsTally(h, T)
          /\ IsTally(f, T \ {x}) /\ IsTally(g, T \ {x})
      BY <1>1, TallyWithin
    <3>4. /\ SumFunctionOnSet(f, T) = f[x] + SumFunctionOnSet(f, T \ {x})
          /\ SumFunctionOnSet(g, T) = g[x] + SumFunctionOnSet(g, T \ {x})
          /\ SumFunctionOnSet(h, T) = h[x] + SumFunctionOnSet(h, T \ {x})
      BY <3>1, <3>3, SumFacts
    <3>5. f[x] \in Nat /\ g[x] \in Nat /\ h[x] = f[x] + g[x]
      BY <3>1 DEF IsTally
    <3>6. SumFunctionOnSet(f, T \ {x}) \in Nat /\ SumFunctionOnSet(g, T \ {x}) \in Nat
      BY <3>3, SumFacts
    <3> QED
      BY <3>2, <3>4, <3>5, <3>6
  <2> QED
    BY <2>1, <2>2
<1>3. \A T \in SUBSET S : T \in P
  <2> HIDE DEF P
  <2> QED
    BY <1>2, AllFinite DEF IsTally
<1> QED
  BY <1>3

LEMMA SumDisjoint ==
  ASSUME NEW f, NEW S, NEW R, IsTally(f, S \cup R), S \cap R = {}
  PROVE  SumFunctionOnSet(f, S \cup R) = SumFunctionOnSet(f, S) + SumFunctionOnSet(f, R)
<1> DEFINE P == {T \in SUBSET R :
                   SumFunctionOnSet(f, S \cup T) = SumFunctionOnSet(f, S) + SumFunctionOnSet(f, T)}
<1>1. IsTally(f, S) /\ IsTally(f, R)
  BY TallyWithin
<1>2. ASSUME NEW T \in SUBSET R, \A x \in T : T \ {x} \in P
      PROVE  T \in P
  <2>1. CASE T = {}
    <3>1. SumFunctionOnSet(f, {}) = 0 /\ SumFunctionOnSet(f, S) \in Nat /\ S \cup {} = S
      BY <1>1, SumFacts
    <3> QED
      BY <2>1, <3>1
  <2>2. CASE T # {}
    <3>1. PICK x \in T : TRUE
      BY <2>2
    <3>2. S \cup (T \ {x}) = (S \cup T) \ {x} /\ x \in S \cup T
      BY <3>1
    <3>3. SumFunctionOnSet(f, (S \cup T) \ {x}) =
            SumFunctionOnSet(f, S) + SumFunctionOnSet(f, T \ {x})
      BY <1>2, <3>1, <3>2
    <3>4. IsTally(f, T) /\ IsTally(f, S \cup T) /\ IsTally(f, T \ {x})
      BY TallyWithin
    <3>5. /\ SumFunctionOnSet(f, T) = f[x] + SumFunctionOnSet(f, T \ {x})
          /\ SumFunctionOnSet(f, S \cup T) = f[x] + SumFunctionOnSet(f, (S \cup T) \ {x})
      BY <3>1, <3>2, <3>4, SumFacts
    <3>6. f[x] \in Nat
      BY <3>1, <1>1 DEF IsTally
    <3>7. SumFunctionOnSet(f, T \ {x}) \in Nat /\ SumFunctionOnSet(f, S) \in Nat
      BY <1>1, <3>4, SumFacts
    <3> QED
      BY <3>3, <3>5, <3>6, <3>7
  <2> QED
    BY <2>1, <2>2
<1>3. \A T \in SUBSET R : T \in P
  <2> HIDE DEF P
  <2> QED
    BY <1>1, <1>2, AllFinite DEF IsTally
<1> QED
  BY <1>3

\* How the sums of the model are written.
LEMMA SumOf ==
  ASSUME NEW S, NEW f, f = [x \in S |-> f[x]]
  PROVE  SumFunction(f) = SumFunctionOnSet(f, S)
BY DEF SumFunction
=============================================================================
