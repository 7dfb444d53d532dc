--------------------------- MODULE SetSumsProofs ---------------------------
(***************************************************************************)
(* What SumOver computes, for every finite set: the facts the proofs about *)
(* wallets and ledgers rest on.                                            *)
(*                                                                         *)
(* SumOver is a fold, that is, a recursive function over subsets.  Its     *)
(* recursion equation and everything after it is proved by induction on    *)
(* cardinality, and induction itself (SetInduction) is stated for a SET of *)
(* naturals, so that it can be cited without instantiating an operator.    *)
(***************************************************************************)
EXTENDS SetSums, FiniteSetTheorems, WellFoundedInduction, TLAPS

\* A set of naturals that holds 0 and the successor of each of its elements
\* holds every natural.
LEMMA SetInduction ==
  ASSUME NEW P \in SUBSET Nat, 0 \in P, \A n \in P : n + 1 \in P
  PROVE  P = Nat
<1> DEFINE R == {ss \in Nat \X Nat : ss[1] < ss[2]}
           T == Nat \ P
<1>1. IsWellFoundedOn(R, Nat)
  BY NatLessThanWellFounded, Zenon DEF OpToRel
<1>2. ASSUME T # {} PROVE FALSE
  <2>1. PICK x \in T : \A y \in T : <<y, x>> \notin R
    <3> HIDE DEF R
    <3>1. T \subseteq Nat
      OBVIOUS
    <3> QED BY <1>1, <1>2, <3>1, WFMin, Zenon
  <2>2. \A y \in T : ~(y < x)
    BY <2>1
  <2>3. x # 0 /\ x - 1 \in Nat /\ x - 1 < x
    OBVIOUS
  <2>4. x - 1 \in P
    BY <2>2, <2>3
  <2> QED BY <2>4
<1> QED BY <1>2

-----------------------------------------------------------------------------
(* The recursion equation.                                                 *)

Pick(s) == CHOOSE x \in s : TRUE

Unfold(f, g, s) == IF s = {} THEN 0 ELSE f[Pick(s)] + g[s \ {Pick(s)}]

\* g sums f over each subset of S with at most n elements.
UpTo(S, n) == {s \in SUBSET S : Cardinality(s) <= n}
SumsUpTo(f, g, S, n) == g = [s \in UpTo(S, n) |-> Unfold(f, g, s)]
Sums(f, g, S) == g = [s \in SUBSET S |-> Unfold(f, g, s)]

\* SumOver, with the fold of the library unfolded.
LEMMA SumIsFold ==
  ASSUME NEW f, NEW S
  PROVE  SumOver(f, S) = (CHOOSE g : Sums(f, g, S))[S]
BY Zenon DEF SumOver, FoldFunctionOnSet, MapThenFoldSet, Unfold, Pick, Sums

\* Pick returns an element of a nonempty set.
LEMMA PickInSet == \A s : s # {} => Pick(s) \in s
BY DEF Pick

\* Removing an element lowers the cardinality by one.
LEMMA CardinalityWithout ==
  ASSUME NEW S, IsFiniteSet(S), NEW x \in S
  PROVE  /\ IsFiniteSet(S \ {x})
         /\ Cardinality(S \ {x}) \in Nat
         /\ Cardinality(S) \in Nat
         /\ Cardinality(S \ {x}) = Cardinality(S) - 1
         /\ S \ {x} \in SUBSET S
BY FS_RemoveElement, FS_CardinalityType

\* The recursion that defines the sum has a solution.
LEMMA SumsExist ==
  ASSUME NEW f, NEW S, IsFiniteSet(S)
  PROVE  \E g : Sums(f, g, S)
<1> DEFINE P == {n \in Nat : \E g : SumsUpTo(f, g, S, n)}
<1>1. 0 \in P
  <2> DEFINE g == [s \in UpTo(S, 0) |-> 0]
  <2>1. \A s \in UpTo(S, 0) : s = {}
    BY FS_EmptySet, FS_Subset, FS_CardinalityType DEF UpTo
  <2>2. SumsUpTo(f, g, S, 0)
    BY <2>1 DEF SumsUpTo, Unfold
  <2> QED BY <2>2
<1>2. ASSUME NEW n \in P PROVE n + 1 \in P
  <2>1. PICK g : SumsUpTo(f, g, S, n)
    OBVIOUS
  <2> DEFINE h == [s \in UpTo(S, n + 1) |-> Unfold(f, g, s)]
  <2>2. ASSUME NEW s \in UpTo(S, n + 1) PROVE Unfold(f, g, s) = Unfold(f, h, s)
    <3>1. CASE s = {}
      BY <3>1 DEF Unfold
    <3>2. CASE s # {}
      <4> DEFINE t == s \ {Pick(s)}
      <4>1. IsFiniteSet(s) /\ Pick(s) \in s
        BY <3>2, FS_Subset, PickInSet DEF UpTo
      <4>2. t \in UpTo(S, n) /\ t \in UpTo(S, n + 1)
        BY <4>1, CardinalityWithout DEF UpTo
      <4>3. g[t] = Unfold(f, g, t)
        BY <2>1, <4>2 DEF SumsUpTo
      <4>4. h[t] = Unfold(f, g, t)
        BY <4>2
      <4> QED BY <3>2, <4>3, <4>4 DEF Unfold
    <3> QED BY <3>1, <3>2
  <2>3. SumsUpTo(f, h, S, n + 1)
    BY <2>2 DEF SumsUpTo
  <2> QED BY <2>3
<1>3. Cardinality(S) \in P
  <2> HIDE DEF P
  <2>1. P \in SUBSET Nat
    BY DEF P
  <2> QED BY <1>1, <1>2, <2>1, SetInduction, FS_CardinalityType
<1>4. UpTo(S, Cardinality(S)) = SUBSET S
  BY FS_Subset DEF UpTo
<1> QED BY <1>3, <1>4 DEF SumsUpTo, Sums

\* It has only one.
LEMMA SumsUnique ==
  ASSUME NEW f, NEW S, IsFiniteSet(S), NEW T \in SUBSET S,
         NEW g, Sums(f, g, S), NEW h, Sums(f, h, T)
  PROVE  g[T] = h[T]
<1> DEFINE P == {n \in Nat : \A s \in UpTo(T, n) : g[s] = h[s]}
<1>0. \A s \in SUBSET T : g[s] = Unfold(f, g, s) /\ h[s] = Unfold(f, h, s)
  BY DEF Sums
<1>1. 0 \in P
  <2>1. \A s \in UpTo(T, 0) : s = {}
    BY FS_EmptySet, FS_Subset, FS_CardinalityType DEF UpTo
  <2> QED BY <1>0, <2>1 DEF Unfold, UpTo
<1>2. ASSUME NEW n \in P PROVE n + 1 \in P
  <2>1. ASSUME NEW s \in UpTo(T, n + 1), s # {} PROVE g[s] = h[s]
    <3> DEFINE t == s \ {Pick(s)}
    <3>1. IsFiniteSet(s) /\ Pick(s) \in s
      BY <2>1, FS_Subset, PickInSet DEF UpTo
    <3>2. t \in UpTo(T, n)
      BY <3>1, CardinalityWithout DEF UpTo
    <3>3. g[t] = h[t]
      BY <3>2
    <3> QED BY <1>0, <2>1, <3>3 DEF Unfold, UpTo
  <2>2. ASSUME NEW s \in UpTo(T, n + 1), s = {} PROVE g[s] = h[s]
    BY <1>0, <2>2 DEF Unfold
  <2> QED BY <2>1, <2>2
<1>3. P = Nat
  <2> HIDE DEF P
  <2>1. P \in SUBSET Nat
    BY DEF P
  <2> QED BY <1>1, <1>2, <2>1, SetInduction
<1>4. Cardinality(T) \in Nat
  BY FS_Subset, FS_CardinalityType
<1>5. T \in UpTo(T, Cardinality(T))
  BY <1>4 DEF UpTo
<1> QED BY <1>3, <1>4, <1>5

\* The sum over the empty set is 0.
LEMMA SumEmpty == \A f : SumOver(f, {}) = 0
<1> SUFFICES ASSUME NEW f PROVE SumOver(f, {}) = 0
  OBVIOUS
<1>1. \E g : Sums(f, g, {})
  BY SumsExist, FS_EmptySet
<1> DEFINE g == CHOOSE g : Sums(f, g, {})
<1>2. Sums(f, g, {})
  BY <1>1
<1> QED BY <1>2, SumIsFold DEF Sums, Unfold

\* The recursion equation of SumOver.
LEMMA SumPick ==
  ASSUME NEW f, NEW S, IsFiniteSet(S), S # {}
  PROVE  SumOver(f, S) = f[Pick(S)] + SumOver(f, S \ {Pick(S)})
<1> DEFINE T == S \ {Pick(S)}
           g == CHOOSE g : Sums(f, g, S)
           h == CHOOSE h : Sums(f, h, T)
<1>1. T \in SUBSET S /\ IsFiniteSet(T)
  BY FS_Subset
<1>2. Sums(f, g, S) /\ Sums(f, h, T)
  BY <1>1, SumsExist
<1>3. g[T] = h[T]
  <2> HIDE DEF g, h, T
  <2> QED BY <1>1, <1>2, SumsUnique
<1>4. SumOver(f, S) = g[S] /\ SumOver(f, T) = h[T]
  BY SumIsFold
<1>5. g[S] = Unfold(f, g, S)
  <2> HIDE DEF g
  <2> QED BY <1>2 DEF Sums
<1> QED BY <1>3, <1>4, <1>5 DEF Unfold

-----------------------------------------------------------------------------
(* Algebra of sums.                                                        *)

\* Induction on the size of the subsets of a finite set.
LEMMA SubsetInduction ==
  ASSUME NEW S, IsFiniteSet(S), NEW Q \in SUBSET SUBSET S, {} \in Q,
         \A s \in SUBSET S : s # {} /\ (\A x \in s : s \ {x} \in Q) => s \in Q
  PROVE  Q = SUBSET S
<1> DEFINE P == {n \in Nat : UpTo(S, n) \subseteq Q}
<1>1. 0 \in P
  BY FS_EmptySet, FS_Subset, FS_CardinalityType DEF UpTo
<1>2. ASSUME NEW n \in P PROVE n + 1 \in P
  <2>1. ASSUME NEW s \in UpTo(S, n + 1), s # {} PROVE s \in Q
    <3>1. ASSUME NEW x \in s PROVE s \ {x} \in UpTo(S, n)
      BY FS_Subset, CardinalityWithout DEF UpTo
    <3> QED BY <2>1, <3>1 DEF UpTo
  <2>2. UpTo(S, n + 1) \subseteq Q
    BY <2>1
  <2> QED BY <2>2
<1>3. P = Nat
  <2> HIDE DEF P
  <2>1. P \in SUBSET Nat
    BY DEF P
  <2> QED BY <1>1, <1>2, <2>1, SetInduction
<1>4. ASSUME NEW s \in SUBSET S PROVE s \in Q
  <2>1. Cardinality(s) \in Nat
    BY FS_Subset, FS_CardinalityType
  <2> QED BY <1>3, <2>1 DEF UpTo
<1> QED BY <1>4

\* Some element may be taken out of a sum first, the same for every function.
LEMMA SumStep ==
  ASSUME NEW S, IsFiniteSet(S), NEW s \in SUBSET S, s # {}
  PROVE  \E x \in s : \A f : SumOver(f, s) = f[x] + SumOver(f, s \ {x})
<1>1. IsFiniteSet(s) /\ Pick(s) \in s
  BY FS_Subset, PickInSet
<1>2. \A f : SumOver(f, s) = f[Pick(s)] + SumOver(f, s \ {Pick(s)})
  BY <1>1, SumPick
<1> QED BY <1>1, <1>2, Zenon

\* A sum of integers is an integer.
LEMMA SumInt ==
  ASSUME NEW f, NEW S, IsFiniteSet(S), \A x \in S : f[x] \in Int
  PROVE  SumOver(f, S) \in Int
<1> DEFINE Q == {s \in SUBSET S : SumOver(f, s) \in Int}
<1>1. {} \in Q
  BY SumEmpty
<1>2. ASSUME NEW s \in SUBSET S, s # {}, \A x \in s : s \ {x} \in Q PROVE s \in Q
  <2>1. PICK x \in s : \A F : SumOver(F, s) = F[x] + SumOver(F, s \ {x})
    BY <1>2, SumStep
  <2>2. s \ {x} \in Q
    BY <1>2
  <2> QED BY <2>1, <2>2
<1>3. Q = SUBSET S
  <2> HIDE DEF Q
  <2>1. Q \in SUBSET SUBSET S
    BY DEF Q
  <2> QED BY <1>1, <1>2, <2>1, SubsetInduction
<1> QED BY <1>3

\* A sum of naturals is a natural.
LEMMA SumNat ==
  ASSUME NEW f, NEW S, IsFiniteSet(S), \A x \in S : f[x] \in Nat
  PROVE  SumOver(f, S) \in Nat
<1> DEFINE Q == {s \in SUBSET S : SumOver(f, s) \in Nat}
<1>1. {} \in Q
  BY SumEmpty
<1>2. ASSUME NEW s \in SUBSET S, s # {}, \A x \in s : s \ {x} \in Q PROVE s \in Q
  <2>1. PICK x \in s : \A F : SumOver(F, s) = F[x] + SumOver(F, s \ {x})
    BY <1>2, SumStep
  <2>2. s \ {x} \in Q
    BY <1>2
  <2> QED BY <2>1, <2>2
<1>3. Q = SUBSET S
  <2> HIDE DEF Q
  <2>1. Q \in SUBSET SUBSET S
    BY DEF Q
  <2> QED BY <1>1, <1>2, <2>1, SubsetInduction
<1> QED BY <1>3

\* Functions that agree on S have the same sum over S.
LEMMA SumCongruence ==
  ASSUME NEW f, NEW g, NEW S, IsFiniteSet(S), \A x \in S : f[x] = g[x]
  PROVE  SumOver(f, S) = SumOver(g, S)
<1> DEFINE Q == {s \in SUBSET S : SumOver(f, s) = SumOver(g, s)}
<1>1. {} \in Q
  BY SumEmpty
<1>2. ASSUME NEW s \in SUBSET S, s # {}, \A x \in s : s \ {x} \in Q PROVE s \in Q
  <2>1. PICK x \in s : \A F : SumOver(F, s) = F[x] + SumOver(F, s \ {x})
    BY <1>2, SumStep
  <2>2. s \ {x} \in Q
    BY <1>2
  <2> QED BY <2>1, <2>2
<1>3. Q = SUBSET S
  <2> HIDE DEF Q
  <2>1. Q \in SUBSET SUBSET S
    BY DEF Q
  <2> QED BY <1>1, <1>2, <2>1, SubsetInduction
<1> QED BY <1>3

\* Any element may be taken out of a sum first.
LEMMA SumRemove ==
  ASSUME NEW f, NEW S, IsFiniteSet(S), \A x \in S : f[x] \in Int, NEW y \in S
  PROVE  SumOver(f, S) = f[y] + SumOver(f, S \ {y})
<1> DEFINE Q == {s \in SUBSET S : \A z \in s : SumOver(f, s) = f[z] + SumOver(f, s \ {z})}
<1>1. {} \in Q
  OBVIOUS
<1>2. ASSUME NEW s \in SUBSET S, s # {}, \A x \in s : s \ {x} \in Q,
             NEW z \in s
      PROVE  SumOver(f, s) = f[z] + SumOver(f, s \ {z})
  <2>2. PICK x \in s : \A F : SumOver(F, s) = F[x] + SumOver(F, s \ {x})
    BY <1>2, SumStep
  <2> DEFINE rest == (s \ {x}) \ {z}
  <2>1. rest \in SUBSET S /\ IsFiniteSet(rest)
    BY FS_Subset
  <2>3. CASE x = z
    BY <2>2, <2>3
  <2>4. CASE x # z
    <3>1. SumOver(f, s \ {x}) = f[z] + SumOver(f, rest)
      <4>1. s \ {x} \in Q /\ z \in s \ {x}
        BY <1>2, <2>4
      <4> QED BY <4>1
    <3>2. (s \ {z}) \ {x} = rest
      OBVIOUS
    <3>3. SumOver(f, s \ {z}) = f[x] + SumOver(f, rest)
      <4>1. s \ {z} \in Q /\ x \in s \ {z}
        BY <1>2, <2>4
      <4> QED BY <3>2, <4>1
    <3>4. SumOver(f, rest) \in Int /\ f[x] \in Int /\ f[z] \in Int
      <4>1. \A a \in rest : f[a] \in Int
        BY <2>1
      <4> QED BY <2>1, <4>1, SumInt
    <3>5. SumOver(f, s) = f[x] + SumOver(f, s \ {x})
      BY <2>2
    <3> HIDE DEF rest
    <3> QED BY <3>1, <3>3, <3>4, <3>5
  <2> QED BY <2>3, <2>4
<1>3. Q = SUBSET S
  <2>1. \A s \in SUBSET S : s # {} /\ (\A x \in s : s \ {x} \in Q) => s \in Q
    BY <1>2
  <2> HIDE DEF Q
  <2>2. Q \in SUBSET SUBSET S
    BY DEF Q
  <2> QED BY <1>1, <2>1, <2>2, SubsetInduction
<1> QED BY <1>3

\* A new element adds its value.
LEMMA SumAdd ==
  ASSUME NEW f, NEW S, IsFiniteSet(S), NEW y, y \notin S,
         \A x \in S \cup {y} : f[x] \in Int
  PROVE  SumOver(f, S \cup {y}) = f[y] + SumOver(f, S)
<1>1. IsFiniteSet(S \cup {y})
  BY FS_AddElement
<1>2. (S \cup {y}) \ {y} = S
  OBVIOUS
<1>3. SumOver(f, S \cup {y}) = f[y] + SumOver(f, (S \cup {y}) \ {y})
  BY <1>1, SumRemove
<1> QED BY <1>2, <1>3

\* The sum of a pointwise sum is the sum of the sums.
LEMMA SumPlus ==
  ASSUME NEW f, NEW g, NEW h, NEW S, IsFiniteSet(S),
         \A x \in S : f[x] \in Int /\ g[x] \in Int /\ h[x] = f[x] + g[x]
  PROVE  SumOver(h, S) = SumOver(f, S) + SumOver(g, S)
<1> DEFINE Q == {s \in SUBSET S : SumOver(h, s) = SumOver(f, s) + SumOver(g, s)}
<1>1. {} \in Q
  BY SumEmpty
<1>2. ASSUME NEW s \in SUBSET S, s # {}, \A x \in s : s \ {x} \in Q PROVE s \in Q
  <2>1. PICK x \in s : \A F : SumOver(F, s) = F[x] + SumOver(F, s \ {x})
    BY <1>2, SumStep
  <2> DEFINE t == s \ {x}
  <2>2. /\ SumOver(f, s) = f[x] + SumOver(f, t)
        /\ SumOver(g, s) = g[x] + SumOver(g, t)
        /\ SumOver(h, s) = h[x] + SumOver(h, t)
    BY <2>1
  <2>3. SumOver(f, t) \in Int /\ SumOver(g, t) \in Int
    <3>1. t \in SUBSET S /\ IsFiniteSet(t)
      BY FS_Subset
    <3>2. \A y \in t : f[y] \in Int /\ g[y] \in Int
      OBVIOUS
    <3> HIDE DEF t
    <3> QED BY <3>1, <3>2, SumInt
  <2>4. SumOver(h, t) = SumOver(f, t) + SumOver(g, t)
    <3>1. t \in Q
      BY <1>2
    <3> QED BY <3>1
  <2>5. f[x] \in Int /\ g[x] \in Int /\ h[x] = f[x] + g[x]
    OBVIOUS
  <2>6. SumOver(h, s) = SumOver(f, s) + SumOver(g, s)
    <3> HIDE DEF t
    <3> QED BY <2>2, <2>3, <2>4, <2>5
  <2> QED BY <2>6
<1>3. Q = SUBSET S
  <2> HIDE DEF Q
  <2>1. Q \in SUBSET SUBSET S
    BY DEF Q
  <2> QED BY <1>1, <1>2, <2>1, SubsetInduction
<1> QED BY <1>3

\* Elements of value 0 may be left out.
LEMMA SumZeros ==
  ASSUME NEW f, NEW S, IsFiniteSet(S), NEW T \in SUBSET S,
         \A x \in S : f[x] \in Int, \A x \in S \ T : f[x] = 0
  PROVE  SumOver(f, S) = SumOver(f, T)
<1> DEFINE Q == {s \in SUBSET S : SumOver(f, s) = SumOver(f, s \cap T)}
<1>1. {} \in Q
  BY SumEmpty
<1>2. ASSUME NEW s \in SUBSET S, s # {}, \A x \in s : s \ {x} \in Q PROVE s \in Q
  <2>1. PICK x \in s : \A F : SumOver(F, s) = F[x] + SumOver(F, s \ {x})
    BY <1>2, SumStep
  <2> DEFINE t == s \ {x}
             r == s \cap T
  <2>2. SumOver(f, s) = f[x] + SumOver(f, t \cap T)
    <3>1. t \in Q
      BY <1>2
    <3> QED BY <2>1, <3>1
  <2>3. IsFiniteSet(r) /\ \A y \in r : f[y] \in Int
    BY FS_Subset
  <2>4. CASE x \in T
    <3>1. x \in r /\ r \ {x} = t \cap T
      BY <2>4
    <3>2. SumOver(f, r) = f[x] + SumOver(f, r \ {x})
      <4> HIDE DEF r, t
      <4> QED BY <2>3, <3>1, SumRemove
    <3> QED BY <2>2, <3>1, <3>2
  <2>5. CASE x \notin T
    <3>1. r = t \cap T /\ f[x] = 0
      BY <2>5
    <3>2. SumOver(f, r) \in Int
      <4> HIDE DEF r
      <4> QED BY <2>3, SumInt
    <3>3. SumOver(f, t \cap T) = SumOver(f, r)
      BY <3>1
    <3>4. SumOver(f, s) = SumOver(f, r)
      <4> HIDE DEF r, t
      <4> QED BY <2>2, <3>1, <3>2, <3>3
    <3> QED BY <3>4
  <2> QED BY <2>4, <2>5
<1>3. Q = SUBSET S
  <2> HIDE DEF Q
  <2>1. Q \in SUBSET SUBSET S
    BY DEF Q
  <2> QED BY <1>1, <1>2, <2>1, SubsetInduction
<1>4. S \cap T = T
  OBVIOUS
<1> QED BY <1>3, <1>4

-----------------------------------------------------------------------------
(* Numbers and images.                                                     *)

\* A nonempty set of natural numbers has a least element.
LEMMA LeastNumber ==
  ASSUME NEW T \in SUBSET Nat, T # {}
  PROVE  \E m \in T : \A k \in T : m <= k
<1>. DEFINE R == {ss \in Nat \X Nat : ss[1] < ss[2]}
<1>1. IsWellFoundedOn(R, Nat)
  BY NatLessThanWellFounded, Zenon DEF OpToRel
<1>2. \A x, y \in Nat : <<y, x>> \in R <=> y < x
  OBVIOUS
<1>. HIDE DEF R
<1>3. PICK x \in T : \A y \in T : ~ (<<y, x>> \in R)
  BY <1>1, WFMin
<1>4. \A k \in T : ~ (k < x)
  <2>. TAKE k \in T
  <2>1. k \in Nat /\ x \in Nat
    OBVIOUS
  <2>. QED BY <1>2, <1>3, <2>1, Zenon
<1>. QED BY <1>4

\* Of finitely many numbers one is the greatest.
LEMMA GreatestValue ==
  ASSUME NEW S, IsFiniteSet(S), S # {}, NEW f, \A x \in S : f[x] \in Nat
  PROVE  \E m \in S : \A x \in S : f[x] <= f[m]
<1>. DEFINE Q == {s \in SUBSET S : s = {} \/ \E m \in s : \A x \in s : f[x] <= f[m]}
<1>1. ASSUME NEW s \in SUBSET S, s # {}, \A x \in s : s \ {x} \in Q PROVE s \in Q
  <2>1. PICK x \in s : TRUE
    BY <1>1
  <2>. DEFINE r == s \ {x}
  <2>2. r = {} \/ \E k \in r : \A c \in r : f[c] <= f[k]
    BY <1>1
  <2>3. CASE r = {}
    <3>1. s = {x} /\ f[x] \in Nat
      BY <2>3
    <3>. QED BY <3>1
  <2>4. CASE \E k \in r : \A c \in r : f[c] <= f[k]
    <3>1. PICK k \in r : \A c \in r : f[c] <= f[k]
      BY <2>4
    <3>2. \A c \in s : f[c] \in Nat
      OBVIOUS
    <3>3. CASE f[x] <= f[k]
      <4>1. \A c \in s : f[c] <= f[k]
        BY <3>1, <3>3
      <4>. QED BY <4>1
    <3>4. CASE ~ (f[x] <= f[k])
      <4>1. \A c \in s : f[c] <= f[x]
        BY <3>1, <3>2, <3>4
      <4>. QED BY <4>1
    <3>. QED BY <3>3, <3>4
  <2>. QED BY <2>2, <2>3, <2>4
<1>2. Q = SUBSET S
  <2>1. {} \in Q /\ Q \in SUBSET SUBSET S
    OBVIOUS
  <2>. HIDE DEF Q
  <2>. QED BY <1>1, <2>1, SubsetInduction
<1>. QED BY <1>2

\* An image is no larger than its set, and as large if no two elements have the same.
LEMMA ImageSize ==
  ASSUME NEW S, IsFiniteSet(S), NEW f, DOMAIN f = S, f = [x \in S |-> f[x]]
  PROVE  /\ IsFiniteSet({f[x] : x \in S}) /\ Cardinality({f[x] : x \in S}) <= Cardinality(S)
         /\ (\A x, y \in S : f[x] = f[y] => x = y) => Cardinality({f[x] : x \in S}) = Cardinality(S)
<1>. DEFINE T == {f[x] : x \in S}
<1>1. f \in [S -> T]
  OBVIOUS
<1>2. f \in Surjection(S, T)
  BY <1>1 DEF Surjection
<1>3. (\A x, y \in S : f[x] = f[y] => x = y) => f \in Injection(S, T)
  BY <1>1 DEF Injection, IsInjective
<1>. HIDE DEF T
<1>4. IsFiniteSet(T) /\ Cardinality(T) <= Cardinality(S)
      /\ (Cardinality(T) = Cardinality(S) <=> f \in Injection(S, T))
  BY <1>2, FS_Surjection
<1>. QED BY <1>3, <1>4 DEF T

=============================================================================
