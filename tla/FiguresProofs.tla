--------------------------- MODULE FiguresProofs ---------------------------
(***************************************************************************)
(* Why the advisor's figures are sound, whatever was recorded: what a sum  *)
(* over a set of transactions is, what the calendar is, what division does *)
(* to money, and then each part of FiguresSound from those.                *)
(***************************************************************************)
EXTENDS Figures, FiniteSetTheorems, TLAPS

-----------------------------------------------------------------------------
(* Induction over finite sets, with a set in place of a predicate.         *)

\* What holds of a set as soon as it holds of every smaller one.
LEMMA StrongSetInduction ==
    ASSUME NEW S, IsFiniteSet(S), NEW Good,
           \A A \in SUBSET S : (\A B \in SUBSET A : B # A => B \in Good) => A \in Good
    PROVE  S \in Good
<1> DEFINE Bad == {A \in SUBSET S : A \notin Good}
<1>1. SUFFICES ASSUME Bad # {} PROVE FALSE
  OBVIOUS
<1>2. IsWellFoundedOn(StrictSubsetOrdering(S), SUBSET S)
  BY FS_StrictSubsetOrderingWellFounded, FS_FiniteSubsetsOfFinite
<1>3. Bad \subseteq SUBSET S
  OBVIOUS
<1>4. PICK A \in Bad : \A B \in Bad : <<B, A>> \notin StrictSubsetOrdering(S)
  <2> HIDE DEF Bad
  <2>1. QED
    BY <1>1, <1>2, <1>3, WFMin
<1>5. ASSUME NEW B \in SUBSET A, B # A PROVE B \in Good
  <2>1. <<B, A>> \in StrictSubsetOrdering(S)
    BY <1>4, <1>5 DEF StrictSubsetOrdering
  <2>2. QED
    BY <1>4, <2>1
<1>6. QED
  BY <1>4, <1>5

LEMMA SetInduction ==
    ASSUME NEW S, IsFiniteSet(S), NEW Good, {} \in Good,
           \A A \in SUBSET S : \A x \in S \ A : A \in Good => A \cup {x} \in Good
    PROVE  S \in Good
<1>1. ASSUME NEW A \in SUBSET S, \A B \in SUBSET A : B # A => B \in Good PROVE A \in Good
  <2>1. CASE A # {}
    <3>1. PICK x \in A : TRUE
      BY <2>1
    <3>2. A \ {x} \in Good /\ x \in S \ (A \ {x}) /\ (A \ {x}) \cup {x} = A
      BY <1>1, <3>1
    <3>3. QED
      BY <3>2
  <2>2. QED
    BY <2>1
<1>2. QED
  BY <1>1, StrongSetInduction

-----------------------------------------------------------------------------
(* Sums. SumFunction is a fold, and so it is recursive over subsets: first *)
(* that the recursion has a solution, then what is added is immaterial.    *)

Chosen(s) == CHOOSE x \in s : TRUE

\* F sums f over every subset of S.
Sums(F, f, S) ==
    F = [s \in SUBSET S |-> IF s = {} THEN 0 ELSE f[Chosen(s)] + F[s \ {Chosen(s)}]]

LEMMA SumFunctionDef ==
    ASSUME NEW f PROVE SumFunction(f) = (CHOOSE F : Sums(F, f, DOMAIN f))[DOMAIN f]
BY DEF SumFunction, SumFunctionOnSet, FoldFunctionOnSet, MapThenFoldSet, Sums, Chosen

LEMMA ChosenIn == ASSUME NEW s, s # {} PROVE Chosen(s) \in s
BY DEF Chosen

LEMMA SumsAt ==
    ASSUME NEW S, NEW f, NEW F, Sums(F, f, S)
    PROVE  /\ F[{}] = 0
           /\ \A A \in SUBSET S : A # {} => F[A] = f[Chosen(A)] + F[A \ {Chosen(A)}]
BY DEF Sums

LEMMA SumsAgree ==
    ASSUME NEW S, IsFiniteSet(S), NEW T, NEW f, NEW h, NEW F, NEW H,
           Sums(F, f, S), Sums(H, h, T), S \subseteq T, \A x \in S : f[x] = h[x]
    PROVE  F[S] = H[S]
<1> DEFINE Good == {A \in SUBSET S : F[A] = H[A]}
<1>1. ASSUME NEW A \in SUBSET S, \A B \in SUBSET A : B # A => B \in Good PROVE A \in Good
  <2>1. CASE A = {}
    BY <2>1, SumsAt
  <2>2. CASE A # {}
    <3>1. Chosen(A) \in A /\ A \in SUBSET T
      BY <2>2, ChosenIn
    <3>2. F[A \ {Chosen(A)}] = H[A \ {Chosen(A)}] /\ f[Chosen(A)] = h[Chosen(A)]
      BY <1>1, <3>1
    <3>3. F[A] = f[Chosen(A)] + F[A \ {Chosen(A)}]
      BY <2>2, SumsAt
    <3>4. H[A] = h[Chosen(A)] + H[A \ {Chosen(A)}]
      <4>1. \A B \in SUBSET T : B # {} => H[B] = h[Chosen(B)] + H[B \ {Chosen(B)}]
        BY Sums(H, h, T) DEF Sums
      <4>2. QED
        BY <2>2, <3>1, <4>1
    <3>5. QED
      BY <3>2, <3>3, <3>4
  <2>3. QED
    BY <2>1, <2>2
<1>2. S \in Good
  <2> HIDE DEF Good
  <2>1. QED
    BY <1>1, StrongSetInduction
<1>3. QED
  BY <1>2

LEMMA SumsExist ==
    ASSUME NEW S, IsFiniteSet(S), NEW f
    PROVE  \E F : Sums(F, f, S)
<1> DEFINE Good == {A \in SUBSET S : \E F : Sums(F, f, A)}
<1>1. ASSUME NEW A \in SUBSET S, \A B \in SUBSET A : B # A => B \in Good PROVE A \in Good
  <2> DEFINE V(s) == (CHOOSE F : Sums(F, f, s))[s]
             N(s) == IF s = {} THEN 0 ELSE f[Chosen(s)] + V(s \ {Chosen(s)})
             H    == [s \in SUBSET A |-> N(s)]
  <2>1. ASSUME NEW s \in SUBSET A, s # A PROVE Sums(CHOOSE F : Sums(F, f, s), f, s)
    BY <1>1, <2>1
  <2>2. ASSUME NEW s \in SUBSET A, s # A, s # {} PROVE V(s) = f[Chosen(s)] + V(s \ {Chosen(s)})
    <3> DEFINE t == s \ {Chosen(s)}
               F == CHOOSE P : Sums(P, f, s)
               E == CHOOSE P : Sums(P, f, t)
    <3>1. Chosen(s) \in s
      BY <2>2, ChosenIn
    <3>2. t \in SUBSET A /\ t # A /\ t \subseteq s
      BY <3>1
    <3>3. IsFiniteSet(t)
      BY <3>2, FS_Subset
    <3>4. Sums(F, f, s) /\ Sums(E, f, t)
      BY <2>1, <2>2, <3>2
    <3>5. F[s] = f[Chosen(s)] + F[t]
      <4> HIDE DEF F
      <4>1. QED
        BY <2>2, <3>4, SumsAt
    <3>6. E[t] = F[t]
      <4> HIDE DEF F, E, t
      <4>1. QED
        BY <3>2, <3>3, <3>4, SumsAgree
    <3>7. QED
      BY <3>5, <3>6
  <2>3. V({}) = 0 \/ A = {}
    <3>1. CASE A # {}
      <4>1. Sums(CHOOSE F : Sums(F, f, {}), f, {})
        BY <2>1, <3>1
      <4>2. QED
        BY <4>1, SumsAt
    <3>2. QED
      BY <3>1
  <2>4. ASSUME NEW s \in SUBSET A, s # {} PROVE V(s \ {Chosen(s)}) = H[s \ {Chosen(s)}]
    <3> DEFINE t == s \ {Chosen(s)}
    <3>1. t \in SUBSET A /\ t # A /\ A # {}
      BY <2>4, ChosenIn
    <3>2. V(t) = N(t)
      <4> HIDE DEF V, t
      <4>1. QED
        BY <2>2, <2>3, <3>1
    <3>3. H[t] = N(t)
      <4> HIDE DEF N, t
      <4>1. QED
        BY <3>1
    <3>4. QED
      BY <3>2, <3>3
  <2>5. H = [s \in SUBSET A |-> IF s = {} THEN 0 ELSE f[Chosen(s)] + H[s \ {Chosen(s)}]]
    <3>1. \A s \in SUBSET A : N(s) = IF s = {} THEN 0 ELSE f[Chosen(s)] + H[s \ {Chosen(s)}]
      <4> HIDE DEF V, H
      <4>1. QED
        BY <2>4
    <3> HIDE DEF N
    <3>2. QED
      BY <3>1
  <2>6. Sums(H, f, A)
    <3> HIDE DEF H
    <3>1. QED
      BY <2>5 DEF Sums
  <2>7. QED
    BY <2>6
<1>2. S \in Good
  <2> HIDE DEF Good
  <2>1. QED
    BY <1>1, StrongSetInduction
<1>3. QED
  BY <1>2

\* The sum of f over A.
SumOver(f, A) == SumFunction([x \in A |-> f[x]])

LEMMA SumOfSums ==
    ASSUME NEW A, IsFiniteSet(A), NEW f, NEW F, NEW T, A \subseteq T, Sums(F, f, T)
    PROVE  SumOver(f, A) = F[A]
<1> DEFINE h == [x \in A |-> f[x]]
           H == CHOOSE P : Sums(P, h, A)
<1>1. SumOver(f, A) = H[A]
  <2>1. DOMAIN h = A
    OBVIOUS
  <2> HIDE DEF h
  <2>2. SumFunction(h) = H[A]
    BY <2>1, SumFunctionDef
  <2>3. QED
    BY <2>2 DEF SumOver, h
<1>2. Sums(H, h, A)
  BY SumsExist
<1>3. \A x \in A : h[x] = f[x]
  OBVIOUS
<1> HIDE DEF h, H
<1>4. QED
  BY <1>1, <1>2, <1>3, SumsAgree

LEMMA SumOfNone == ASSUME NEW f PROVE SumOver(f, {}) = 0
<1>1. PICK F : Sums(F, f, {})
  BY SumsExist, FS_EmptySet
<1>2. SumOver(f, {}) = F[{}]
  BY <1>1, SumOfSums, FS_EmptySet
<1>3. QED
  BY <1>1, <1>2, SumsAt

LEMMA SumOfChosen ==
    ASSUME NEW A, IsFiniteSet(A), A # {}, NEW f
    PROVE  SumOver(f, A) = f[Chosen(A)] + SumOver(f, A \ {Chosen(A)})
<1>1. PICK F : Sums(F, f, A)
  BY SumsExist
<1>2. IsFiniteSet(A \ {Chosen(A)})
  BY FS_Subset
<1>3. SumOver(f, A) = F[A] /\ SumOver(f, A \ {Chosen(A)}) = F[A \ {Chosen(A)}]
  BY <1>1, <1>2, SumOfSums
<1>4. QED
  BY <1>1, <1>3, SumsAt

LEMMA SumIsInt ==
    ASSUME NEW A, IsFiniteSet(A), NEW f, \A x \in A : f[x] \in Int
    PROVE  SumOver(f, A) \in Int
<1> DEFINE Good == {B \in SUBSET A : SumOver(f, B) \in Int}
<1>1. ASSUME NEW B \in SUBSET A, \A D \in SUBSET B : D # B => D \in Good PROVE B \in Good
  <2>1. CASE B = {}
    BY <2>1, SumOfNone
  <2>2. CASE B # {}
    <3>1. Chosen(B) \in B /\ IsFiniteSet(B)
      BY <2>2, ChosenIn, FS_Subset
    <3>2. SumOver(f, B \ {Chosen(B)}) \in Int
      BY <1>1, <3>1
    <3>3. SumOver(f, B) = f[Chosen(B)] + SumOver(f, B \ {Chosen(B)})
      BY <2>2, <3>1, SumOfChosen
    <3>4. QED
      BY <3>1, <3>2, <3>3
  <2>3. QED
    BY <2>1, <2>2
<1>2. A \in Good
  <2> HIDE DEF Good
  <2>1. QED
    BY <1>1, StrongSetInduction
<1>3. QED
  BY <1>2

\* Any element can be taken out, not only the chosen one.
LEMMA SumWithout ==
    ASSUME NEW A, IsFiniteSet(A), NEW f, \A x \in A : f[x] \in Int, NEW e \in A
    PROVE  SumOver(f, A) = f[e] + SumOver(f, A \ {e})
<1> DEFINE Good == {B \in SUBSET A : \A x \in B : SumOver(f, B) = f[x] + SumOver(f, B \ {x})}
<1>1. ASSUME NEW B \in SUBSET A, \A D \in SUBSET B : D # B => D \in Good PROVE B \in Good
  <2>1. ASSUME NEW x \in B PROVE SumOver(f, B) = f[x] + SumOver(f, B \ {x})
    <3> DEFINE k == Chosen(B)
               D == (B \ {k}) \ {x}
    <3>1. k \in B /\ IsFiniteSet(B) /\ IsFiniteSet(D)
      BY ChosenIn, FS_Subset
    <3>2. SumOver(f, B) = f[k] + SumOver(f, B \ {k})
      BY <3>1, SumOfChosen
    <3>3. CASE x # k
      <4>1. B \ {k} \in Good /\ x \in B \ {k} /\ B \ {x} \in Good /\ k \in B \ {x}
        BY <1>1, <3>1, <3>3
      <4>2. SumOver(f, B \ {k}) = f[x] + SumOver(f, D)
        BY <4>1
      <4>3. (B \ {x}) \ {k} = D
        OBVIOUS
      <4>4. SumOver(f, B \ {x}) = f[k] + SumOver(f, D)
        BY <4>1, <4>3
      <4>5. SumOver(f, D) \in Int /\ f[x] \in Int /\ f[k] \in Int
        BY <3>1, SumIsInt
      <4>6. QED
        BY <3>2, <4>2, <4>4, <4>5
    <3>4. QED
      BY <3>2, <3>3
  <2>2. QED
    BY <2>1
<1>2. A \in Good
  <2> HIDE DEF Good
  <2>1. QED
    BY <1>1, StrongSetInduction
<1>3. QED
  BY <1>2

LEMMA SumWith ==
    ASSUME NEW A, IsFiniteSet(A), NEW f, NEW e, e \notin A,
           \A x \in A \cup {e} : f[x] \in Int
    PROVE  SumOver(f, A \cup {e}) = f[e] + SumOver(f, A)
<1>1. IsFiniteSet(A \cup {e}) /\ (A \cup {e}) \ {e} = A
  BY FS_AddElement
<1>2. SumOver(f, A \cup {e}) = f[e] + SumOver(f, (A \cup {e}) \ {e})
  BY <1>1, SumWithout
<1>3. QED
  BY <1>1, <1>2

LEMMA SumOfUnion ==
    ASSUME NEW A, IsFiniteSet(A), NEW B, IsFiniteSet(B), A \cap B = {},
           NEW f, \A x \in A \cup B : f[x] \in Int
    PROVE  SumOver(f, A \cup B) = SumOver(f, A) + SumOver(f, B)
<1> DEFINE Good == {D \in SUBSET B : SumOver(f, A \cup D) = SumOver(f, A) + SumOver(f, D)}
<1>0. SumOver(f, A) \in Int
  BY SumIsInt
<1>1. {} \in Good
  <2>1. A \cup {} = A
    OBVIOUS
  <2>2. QED
    BY <1>0, <2>1, SumOfNone
<1>2. ASSUME NEW D \in SUBSET B, NEW x \in B \ D, D \in Good PROVE D \cup {x} \in Good
  <2>1. IsFiniteSet(D) /\ IsFiniteSet(A \cup D)
    BY FS_Subset, FS_Union
  <2>2. SumOver(f, D) \in Int /\ f[x] \in Int
    BY <2>1, SumIsInt
  <2>3. SumOver(f, D \cup {x}) = f[x] + SumOver(f, D)
    BY <2>1, SumWith
  <2>4. SumOver(f, (A \cup D) \cup {x}) = f[x] + SumOver(f, A \cup D)
    BY <2>1, SumWith
  <2>5. A \cup (D \cup {x}) = (A \cup D) \cup {x} /\ D \cup {x} \in SUBSET B
    OBVIOUS
  <2>6. SumOver(f, A \cup D) = SumOver(f, A) + SumOver(f, D)
    BY <1>2
  <2>7. SumOver(f, (A \cup D) \cup {x}) = SumOver(f, A) + SumOver(f, D \cup {x})
    BY <1>0, <2>2, <2>3, <2>4, <2>6
  <2>8. QED
    BY <2>5, <2>7
<1>3. B \in Good
  <2> HIDE DEF Good
  <2>1. QED
    BY <1>1, <1>2, SetInduction
<1>4. QED
  BY <1>3

LEMMA Distributes ==
    \A x, y, z \in Int : /\ (x + y) * z = x * z + y * z
                         /\ (x + 1) * z = x * z + z
                         /\ x * z \in Int
OBVIOUS

\* A sum lies between as many of the least as of the greatest of what is added.
LEMMA SumBounds ==
    ASSUME NEW A, IsFiniteSet(A), NEW f, NEW lo \in Int, NEW hi \in Int,
           \A x \in A : f[x] \in Int /\ lo <= f[x] /\ f[x] <= hi
    PROVE  Cardinality(A) * lo <= SumOver(f, A) /\ SumOver(f, A) <= Cardinality(A) * hi
<1> DEFINE Good == {B \in SUBSET A : /\ Cardinality(B) * lo <= SumOver(f, B)
                                     /\ SumOver(f, B) <= Cardinality(B) * hi}
<1>1. {} \in Good
  BY SumOfNone, FS_EmptySet
<1>2. ASSUME NEW B \in SUBSET A, NEW x \in A \ B, B \in Good PROVE B \cup {x} \in Good
  <2>1. IsFiniteSet(B)
    BY FS_Subset
  <2>2. Cardinality(B) \in Nat /\ Cardinality(B \cup {x}) = Cardinality(B) + 1
    BY <2>1, FS_AddElement, FS_CardinalityType
  <2>3. SumOver(f, B \cup {x}) = f[x] + SumOver(f, B) /\ SumOver(f, B) \in Int
    BY <2>1, SumWith, SumIsInt
  <2> DEFINE n == Cardinality(B)
  <2>4. (n + 1) * lo = n * lo + lo /\ (n + 1) * hi = n * hi + hi
        /\ n * lo \in Int /\ n * hi \in Int
    <3>1. n \in Int
      BY <2>2
    <3> HIDE DEF n
    <3>2. QED
      BY <3>1, Distributes
  <2>5. /\ (n + 1) * lo <= SumOver(f, B \cup {x})
        /\ SumOver(f, B \cup {x}) <= (n + 1) * hi
    <3>1. n * lo <= SumOver(f, B) /\ SumOver(f, B) <= n * hi /\ lo <= f[x] /\ f[x] <= hi
      BY <1>2
    <3> HIDE DEF n
    <3>2. QED
      BY <2>3, <2>4, <3>1
  <2>6. QED
    BY <2>2, <2>5
<1>3. A \in Good
  <2> HIDE DEF Good
  <2>1. QED
    BY <1>1, <1>2, SetInduction
<1>4. QED
  BY <1>3

LEMMA SumScaled ==
    ASSUME NEW A, IsFiniteSet(A), NEW f, NEW h, NEW k \in Int,
           \A x \in A : f[x] \in Int /\ h[x] = f[x] * k
    PROVE  SumOver(h, A) = SumOver(f, A) * k
<1> DEFINE Good == {B \in SUBSET A : SumOver(h, B) = SumOver(f, B) * k}
<1>1. {} \in Good
  BY SumOfNone
<1>2. ASSUME NEW B \in SUBSET A, NEW x \in A \ B, B \in Good PROVE B \cup {x} \in Good
  <2>1. IsFiniteSet(B) /\ \A y \in B \cup {x} : f[y] \in Int /\ h[y] \in Int
    BY FS_Subset
  <2>2. SumOver(f, B \cup {x}) = f[x] + SumOver(f, B) /\ SumOver(h, B \cup {x}) = h[x] + SumOver(h, B)
    BY <2>1, SumWith
  <2>3. SumOver(f, B) \in Int /\ f[x] \in Int /\ h[x] = f[x] * k
    BY <2>1, SumIsInt
  <2>4. SumOver(h, B) = SumOver(f, B) * k
    BY <1>2
  <2>5. (f[x] + SumOver(f, B)) * k = f[x] * k + SumOver(f, B) * k
    BY <2>3, Distributes
  <2>6. QED
    BY <2>2, <2>3, <2>4, <2>5
<1>3. A \in Good
  <2> HIDE DEF Good
  <2>1. QED
    BY <1>1, <1>2, SetInduction
<1>4. QED
  BY <1>3

LEMMA ImageIsFinite ==
    ASSUME NEW A, IsFiniteSet(A), NEW f
    PROVE  IsFiniteSet({f[x] : x \in A}) /\ Cardinality({f[x] : x \in A}) <= Cardinality(A)
<1> DEFINE h == [x \in A |-> f[x]]
<1>1. h \in Surjection(A, {f[x] : x \in A})
  BY DEF Surjection
<1>2. QED
  BY <1>1, FS_Surjection

\* The parts of a set, each under a name, add up to the whole.
LEMMA SumByName ==
    ASSUME NEW A, IsFiniteSet(A), NEW f, \A x \in A : f[x] \in Int, NEW name
    PROVE  SumOver([n \in {name[x] : x \in A} |-> SumOver(f, {x \in A : name[x] = n})],
                   {name[x] : x \in A}) = SumOver(f, A)
<1> DEFINE N == {name[x] : x \in A}
           part(n) == {x \in A : name[x] = n}
           p == [n \in N |-> SumOver(f, part(n))]
           Good == {M \in SUBSET N : SumOver(p, M) = SumOver(f, {x \in A : name[x] \in M})}
<1>0. IsFiniteSet(N) /\ \A n \in N : p[n] \in Int
  <2>1. IsFiniteSet(N)
    BY ImageIsFinite
  <2>2. ASSUME NEW n \in N PROVE p[n] \in Int
    <3>1. IsFiniteSet(part(n)) /\ p[n] = SumOver(f, part(n))
      BY FS_Subset
    <3>2. QED
      BY <3>1, SumIsInt
  <2>3. QED
    BY <2>1, <2>2
<1>1. {} \in Good
  <2>1. {x \in A : name[x] \in {}} = {}
    OBVIOUS
  <2>2. QED
    BY <2>1, SumOfNone
<1>2. ASSUME NEW M \in SUBSET N, NEW n \in N \ M, M \in Good PROVE M \cup {n} \in Good
  <2> DEFINE B == {x \in A : name[x] \in M}
  <2>1. IsFiniteSet(M) /\ IsFiniteSet(B) /\ IsFiniteSet(part(n))
    BY <1>0, FS_Subset
  <2>2. B \cap part(n) = {} /\ {x \in A : name[x] \in M \cup {n}} = B \cup part(n)
    OBVIOUS
  <2>3. SumOver(f, B \cup part(n)) = SumOver(f, B) + SumOver(f, part(n))
    BY <2>1, <2>2, SumOfUnion
  <2>4. SumOver(p, M \cup {n}) = p[n] + SumOver(p, M)
    <3> HIDE DEF p
    <3>1. QED
      BY <1>0, <2>1, SumWith
  <2>5. p[n] = SumOver(f, part(n)) /\ p[n] \in Int
    BY <1>0
  <2>6. SumOver(p, M) = SumOver(f, B) /\ SumOver(f, B) \in Int
    BY <1>2, <2>1, SumIsInt
  <2>7. SumOver(p, M \cup {n}) = SumOver(f, B \cup part(n))
    <3> HIDE DEF p, part, B
    <3>1. QED
      BY <2>3, <2>4, <2>5, <2>6
  <2>8. SumOver(p, M \cup {n}) = SumOver(f, {x \in A : name[x] \in M \cup {n}})
    BY <2>2, <2>7
  <2>9. QED
    BY <2>8
<1>3. N \in Good
  <2> HIDE DEF Good, N
  <2>1. QED
    BY <1>0, <1>1, <1>2, SetInduction
<1>4. {x \in A : name[x] \in N} = A
  OBVIOUS
<1>5. QED
  BY <1>3, <1>4

-----------------------------------------------------------------------------
(* The calendar: its months are where Month finds them.                    *)

\* The days before each month of a common year.
Before == <<0, 31, 59, 90, 120, 151, 181, 212, 243, 273, 304, 334>>

LEMMA BeforeIs ==
    /\ Before[1] = 0 /\ Before[2] = 31 /\ Before[3] = 59 /\ Before[4] = 90
    /\ Before[5] = 120 /\ Before[6] = 151 /\ Before[7] = 181 /\ Before[8] = 212
    /\ Before[9] = 243 /\ Before[10] = 273 /\ Before[11] = 304 /\ Before[12] = 334
BY DEF Before

LeapDay(y, k) == IF y % 4 = 3 /\ k >= 2 THEN 1 ELSE 0

\* Month k of year y, both from 0 on.
IsMonth(m, y, k) == y \in Int /\ k \in 0..11 /\ m = 12 * y + k + 1

LEMMA FirstOf ==
    ASSUME NEW m, NEW y, NEW k, IsMonth(m, y, k)
    PROVE  First(m) = 365 * y + y \div 4 + LeapDay(y, k) + Before[k + 1]
<1>1. (m - 1) \div 12 = y /\ (m - 1) % 12 = k
  BY DEF IsMonth
<1>2. QED
  BY <1>1 DEF First, Before, LeapDay

LEMMA MonthOfYear ==
    ASSUME NEW m \in Int
    PROVE  IsMonth(m, (m - 1) \div 12, (m - 1) % 12)
BY DEF IsMonth

LEMMA FirstOfYear ==
    ASSUME NEW y \in Int
    PROVE  First(12 * y + 1) = 365 * y + y \div 4
<1>1. IsMonth(12 * y + 1, y, 0)
  BY DEF IsMonth
<1>2. First(12 * y + 1) = 365 * y + y \div 4 + LeapDay(y, 0) + Before[0 + 1]
  BY <1>1, FirstOf
<1>3. QED
  BY <1>2, BeforeIs DEF LeapDay

\* The first days of months are close to evenly spread.
LEMMA FirstAbout ==
    ASSUME NEW m \in Int
    PROVE  First(m) \in Int /\ 48 * First(m) - 1461 * (m - 1) \in -135..39
<1>1. PICK y, k : IsMonth(m, y, k)
  BY MonthOfYear
<1>2. First(m) = 365 * y + y \div 4 + LeapDay(y, k) + Before[k + 1]
  BY <1>1, FirstOf
<1>3. QED
  BY <1>1, <1>2, BeforeIs DEF LeapDay, IsMonth

LEMMA MonthLength ==
    ASSUME NEW m \in Int
    PROVE  Length(m) \in 28..31
<1>1. PICK y, k : IsMonth(m, y, k)
  BY MonthOfYear
<1>2. First(m) = 365 * y + y \div 4 + LeapDay(y, k) + Before[k + 1]
  BY <1>1, FirstOf
<1>3. CASE k < 11
  <2>1. IsMonth(m + 1, y, k + 1)
    BY <1>1, <1>3 DEF IsMonth
  <2>2. First(m + 1) = 365 * y + y \div 4 + LeapDay(y, k + 1) + Before[k + 1 + 1]
    BY <2>1, FirstOf
  <2>3. QED
    BY <1>1, <1>2, <1>3, <2>2, BeforeIs DEF Length, LeapDay, IsMonth
<1>4. CASE k = 11
  <2>1. y + 1 \in Int /\ m + 1 = 12 * (y + 1) + 1
    BY <1>1, <1>4 DEF IsMonth
  <2>2. First(m + 1) = 365 * (y + 1) + (y + 1) \div 4
    BY <2>1, FirstOfYear
  <2>3. QED
    BY <1>1, <1>2, <1>4, <2>2, BeforeIs DEF Length, LeapDay, IsMonth
<1>5. QED
  BY <1>1, <1>3, <1>4 DEF IsMonth

LEMMA FirstIncreases ==
    ASSUME NEW m \in Int, NEW n \in Int, m < n
    PROVE  First(m + 1) <= First(n) /\ First(m) < First(n)
<1>1. First(m) \in Int /\ First(n) \in Int /\ First(m + 1) \in Int /\ m + 1 \in Int
  BY FirstAbout
<1>2. First(m) < First(m + 1)
  BY <1>1, MonthLength DEF Length
<1>3. CASE n >= m + 3
  BY <1>1, <1>2, <1>3, FirstAbout
<1>4. CASE n = m + 2
  BY <1>1, <1>2, <1>4, MonthLength DEF Length
<1>5. QED
  BY <1>1, <1>2, <1>3, <1>4

InMonth(day, m) == First(m) < day /\ day <= First(m + 1)

LEMMA YearOf ==
    ASSUME NEW day \in Int
    PROVE  /\ Year(day) \in Int
           /\ First(12 * Year(day) + 1) < day /\ day <= First(12 * Year(day) + 13)
<1> DEFINE y == Year(day)
<1>1. y \in Int /\ y + 1 \in Int
  BY DEF Year
<1>2. 365 * y + y \div 4 < day /\ day <= 365 * (y + 1) + (y + 1) \div 4
  BY DEF Year
<1>3. First(12 * y + 1) = 365 * y + y \div 4 /\ First(12 * (y + 1) + 1) = 365 * (y + 1) + (y + 1) \div 4
  BY <1>1, FirstOfYear
<1>4. 12 * (y + 1) + 1 = 12 * y + 13
  BY <1>1
<1>5. QED
  BY <1>1, <1>2, <1>3, <1>4

LEMMA MonthOf ==
    ASSUME NEW day \in Int
    PROVE  Month(day) \in Int /\ InMonth(day, Month(day))
<1> DEFINE b == 12 * Year(day)
<1>1. b \in Int /\ First(b + 1) < day /\ day <= First(b + 13)
  BY YearOf
<1>2. \A m \in b + 1..b + 13 : First(m) \in Int
  BY <1>1, FirstAbout
<1>3. \E m \in b + 1..b + 12 : First(m) < day /\ day <= First(m + 1)
  <2> HIDE DEF b
  <2>1. SUFFICES ASSUME \A m \in b + 1..b + 12 : First(m) < day => First(m + 1) < day PROVE FALSE
    BY <1>1, <1>2
  <2>2. First(b + 2) < day
    BY <1>1, <2>1
  <2>3. First(b + 3) < day
    BY <1>1, <2>1, <2>2
  <2>4. First(b + 4) < day
    BY <1>1, <2>1, <2>3
  <2>5. First(b + 5) < day
    BY <1>1, <2>1, <2>4
  <2>6. First(b + 6) < day
    BY <1>1, <2>1, <2>5
  <2>7. First(b + 7) < day
    BY <1>1, <2>1, <2>6
  <2>8. First(b + 8) < day
    BY <1>1, <2>1, <2>7
  <2>9. First(b + 9) < day
    BY <1>1, <2>1, <2>8
  <2>10. First(b + 10) < day
    BY <1>1, <2>1, <2>9
  <2>11. First(b + 11) < day
    BY <1>1, <2>1, <2>10
  <2>12. First(b + 12) < day
    BY <1>1, <2>1, <2>11
  <2>13. First(b + 13) < day
    BY <1>1, <2>1, <2>12
  <2>14. QED
    BY <1>1, <1>2, <2>13
<1>4. QED
  BY <1>1, <1>3 DEF Month, Months, InMonth

LEMMA MonthIs ==
    ASSUME NEW day \in Int, NEW m \in Int, InMonth(day, m)
    PROVE  Month(day) = m
<1>1. Month(day) \in Int /\ InMonth(day, Month(day)) /\ First(m) \in Int /\ First(m + 1) \in Int
      /\ First(Month(day)) \in Int /\ First(Month(day) + 1) \in Int
  BY MonthOf, FirstAbout
<1>2. CASE Month(day) < m
  BY <1>1, <1>2, FirstIncreases DEF InMonth
<1>3. CASE m < Month(day)
  BY <1>1, <1>3, FirstIncreases DEF InMonth
<1>4. QED
  BY <1>1, <1>2, <1>3

LEMMA DayOfMonth ==
    ASSUME NEW day \in Int
    PROVE  DayOf(day) \in 1..31 /\ DayOf(day) <= Length(Month(day)) /\ day = Date(Month(day), DayOf(day))
<1>1. Month(day) \in Int /\ InMonth(day, Month(day))
  BY MonthOf
<1>2. First(Month(day)) \in Int /\ First(Month(day) + 1) \in Int /\ Length(Month(day)) \in 28..31
  BY <1>1, FirstAbout, MonthLength
<1>3. QED
  BY <1>1, <1>2 DEF DayOf, InMonth, Date, Length

-----------------------------------------------------------------------------
(* Division, and what becomes of it in another currency.                   *)

LEMMA DivBounds ==
    ASSUME NEW x \in Int, NEW y \in Nat \ {0}
    PROVE  x \div y \in Int /\ (x \div y) * y <= x /\ x < (x \div y) * y + y
OBVIOUS

LEMMA TimesPositive ==
    ASSUME NEW x \in Int, NEW y \in Int, NEW r \in Nat \ {0}
    PROVE  /\ x * r \in Int
           /\ x < y <=> x * r < y * r
           /\ x <= y <=> x * r <= y * r
           /\ x = y <=> x * r = y * r
OBVIOUS

LEMMA DivIs ==
    ASSUME NEW x \in Int, NEW y \in Nat \ {0}, NEW q \in Int, q * y <= x, x < q * y + y
    PROVE  x \div y = q
<1> DEFINE p == x \div y
<1>1. p \in Int /\ p * y <= x /\ x < p * y + y
  BY DivBounds
<1> HIDE DEF p
<1>2. (p + 1) * y = p * y + y /\ (q + 1) * y = q * y + y /\ p * y \in Int /\ q * y \in Int
  BY <1>1
<1>3. p * y < (q + 1) * y /\ q * y < (p + 1) * y
  BY <1>1, <1>2
<1>4. p < q + 1 /\ q < p + 1
  BY <1>1, <1>3, TimesPositive
<1>5. QED
  BY <1>1, <1>4 DEF p

LEMMA DivScaled ==
    ASSUME NEW x \in Int, NEW y \in Nat \ {0}, NEW r \in Nat \ {0}
    PROVE  (x * r) \div (y * r) = x \div y
<1> DEFINE q == x \div y
<1>1. q \in Int /\ q * y <= x /\ x < q * y + y
  BY DivBounds
<1> HIDE DEF q
<1>2. q * y \in Int /\ y * r \in Nat \ {0} /\ x * r \in Int /\ q * y + y \in Int
  BY <1>1
<1>3. (q * y) * r <= x * r /\ x * r < (q * y + y) * r
  BY <1>1, <1>2, TimesPositive
<1>4. (q * y) * r = q * (y * r) /\ (q * y + y) * r = q * (y * r) + y * r
  BY <1>1
<1>5. QED
  BY <1>1, <1>2, <1>3, <1>4, DivIs DEF q

-----------------------------------------------------------------------------
(* Money: what is summed is sound, whichever transactions are picked.      *)

Ledger(S) == IsFiniteSet(S) /\ S \subseteq UNION Batches

LEMMA LedgerPart == ASSUME NEW S, Ledger(S), NEW A, A \subseteq S PROVE Ledger(A)
BY FS_Subset DEF Ledger

LEMMA LedgerUnion == ASSUME NEW A, Ledger(A), NEW B, Ledger(B) PROVE Ledger(A \cup B)
BY FS_Union DEF Ledger

LEMMA LedgerParts ==
    ASSUME NEW S, Ledger(S)
    PROVE  /\ Ledger(Income(S)) /\ Ledger(Expense(S)) /\ Ledger(Real(S))
           /\ \A c : Ledger(Of(S, c))
           /\ \A from : Ledger(Since(S, from))
BY LedgerPart DEF Income, Expense, Real, Of, Since

LEMMA Recorded ==
    ASSUME NEW tx \in UNION Batches
    PROVE  /\ tx.amount \in Int /\ tx.at \in Int /\ Day(tx) \in Int
           /\ tx.currency \in DOMAIN Rate => \A c \in DOMAIN Rate :
                (tx.amount * Rate[tx.currency]) % Rate[c] = 0
<1>1. tx.amount \in Int /\ tx.at \in Int
  BY BatchesAssumption
<1>2. QED
  BY <1>1, ExactAssumption DEF Day

\* What the transactions that were ever recorded are worth in a currency.
InCurrency(to) == [tx \in UNION Batches |-> convert(tx.amount, tx.currency, to)]

LEMMA ConvertedIsInt ==
    ASSUME NEW tx \in UNION Batches, NEW to
    PROVE  InCurrency(to)[tx] \in Int
<1>1. tx.amount \in Int
  BY Recorded
<1>2. CASE tx.currency = to \/ ~({tx.currency, to} \subseteq DOMAIN Rate)
  BY <1>1, <1>2 DEF InCurrency, convert
<1>3. CASE ~(tx.currency = to \/ ~({tx.currency, to} \subseteq DOMAIN Rate))
  <2>1. Rate[tx.currency] \in Nat \ {0} /\ Rate[to] \in Nat \ {0}
    BY <1>3, RateAssumption
  <2>2. (tx.amount * Rate[tx.currency]) \div Rate[to] \in Int
    BY <1>1, <2>1, DivBounds
  <2>3. QED
    BY <1>3, <2>2 DEF InCurrency, convert
<1>4. QED
  BY <1>2, <1>3

LEMMA TotalIsSum ==
    ASSUME NEW S, Ledger(S), NEW to
    PROVE  Total(S, to) = SumOver(InCurrency(to), S) /\ IsFiniteSet(S)
           /\ \A tx \in S : InCurrency(to)[tx] \in Int
<1>1. \A tx \in S : InCurrency(to)[tx] = convert(tx.amount, tx.currency, to)
  BY DEF InCurrency, Ledger
<1>2. [tx \in S |-> InCurrency(to)[tx]] = [tx \in S |-> convert(tx.amount, tx.currency, to)]
  BY <1>1
<1>3. QED
  BY <1>2, ConvertedIsInt DEF Total, SumOver, Ledger

LEMMA TotalIsInt == ASSUME NEW S, Ledger(S), NEW to PROVE Total(S, to) \in Int
BY TotalIsSum, SumIsInt

LEMMA TotalOfUnion ==
    ASSUME NEW A, Ledger(A), NEW B, Ledger(B), A \cap B = {}, NEW to
    PROVE  Total(A \cup B, to) = Total(A, to) + Total(B, to)
<1>1. Ledger(A \cup B)
  BY LedgerUnion
<1>2. \A tx \in A \cup B : InCurrency(to)[tx] \in Int
  BY <1>1, TotalIsSum
<1>3. QED
  BY <1>1, <1>2, TotalIsSum, SumOfUnion

\* Of transactions that all have a rate: what they are worth where 1 is the rate.
Worth(S) == SumOver([tx \in UNION Batches |-> tx.amount * Rate[tx.currency]], S)

Rated(S) == \A tx \in S : tx.currency \in DOMAIN Rate

LEMMA ConvertedIsExact ==
    ASSUME NEW tx \in UNION Batches, tx.currency \in DOMAIN Rate, NEW to \in DOMAIN Rate
    PROVE  InCurrency(to)[tx] * Rate[to] = tx.amount * Rate[tx.currency]
<1>1. tx.amount \in Int /\ Rate[tx.currency] \in Nat \ {0} /\ Rate[to] \in Nat \ {0}
      /\ (tx.amount * Rate[tx.currency]) % Rate[to] = 0
  BY Recorded, RateAssumption
<1>2. InCurrency(to)[tx] = IF tx.currency = to THEN tx.amount
                           ELSE (tx.amount * Rate[tx.currency]) \div Rate[to]
  BY DEF InCurrency, convert
<1>3. \A x \in Int : \A y \in Nat \ {0} : x % y = 0 => (x \div y) * y = x
  OBVIOUS
<1>4. tx.amount * Rate[tx.currency] \in Int
  BY <1>1
<1>5. QED
  BY <1>1, <1>2, <1>3, <1>4

LEMMA TotalIsWorth ==
    ASSUME NEW S, Ledger(S), Rated(S), NEW to \in DOMAIN Rate
    PROVE  Total(S, to) * Rate[to] = Worth(S)
<1> DEFINE w == [tx \in UNION Batches |-> tx.amount * Rate[tx.currency]]
<1>1. \A tx \in S : InCurrency(to)[tx] \in Int /\ w[tx] = InCurrency(to)[tx] * Rate[to]
  BY TotalIsSum, ConvertedIsExact DEF Ledger, Rated
<1>2. Rate[to] \in Int
  BY RateAssumption
<1> HIDE DEF w
<1>3. SumOver(w, S) = SumOver(InCurrency(to), S) * Rate[to]
  BY <1>1, <1>2, TotalIsSum, SumScaled
<1>4. QED
  BY <1>3, TotalIsSum DEF Worth, w

-----------------------------------------------------------------------------
(* The greatest and the least of a finite set of numbers.                  *)

LEMMA MaxIs ==
    ASSUME NEW S, IsFiniteSet(S), S # {}, S \subseteq Int
    PROVE  Max(S) \in S /\ \A y \in S : Max(S) >= y
<1> DEFINE Good == {A \in SUBSET S : A # {} => \E x \in A : \A y \in A : x >= y}
<1>1. ASSUME NEW A \in SUBSET S, NEW x \in S \ A, A \in Good PROVE A \cup {x} \in Good
  <2>1. CASE A = {}
    BY <2>1
  <2>2. CASE A # {}
    <3>1. PICK m \in A : \A y \in A : m >= y
      BY <1>1, <2>2
    <3>2. m \in Int /\ x \in Int /\ \A y \in A : y \in Int
      OBVIOUS
    <3>3. CASE x >= m
      BY <3>1, <3>2, <3>3
    <3>4. CASE ~(x >= m)
      BY <3>1, <3>2, <3>4
    <3>5. QED
      BY <3>3, <3>4
  <2>3. QED
    BY <2>1, <2>2
<1>2. {} \in Good
  OBVIOUS
<1>3. S \in Good
  <2> HIDE DEF Good
  <2>1. QED
    BY <1>1, <1>2, SetInduction
<1>4. QED
  BY <1>3 DEF Max

LEMMA MinIs ==
    ASSUME NEW S, IsFiniteSet(S), S # {}, S \subseteq Int
    PROVE  Min(S) \in S /\ \A y \in S : Min(S) <= y
<1> DEFINE h == [y \in S |-> -y]
           N == {h[y] : y \in S}
<1>1. \A y \in S : h[y] = -y
  OBVIOUS
<1> HIDE DEF h
<1>2. IsFiniteSet(N) /\ N # {} /\ N \subseteq Int
  <2>1. IsFiniteSet(N)
    BY ImageIsFinite
  <2>2. PICK y \in S : TRUE
    OBVIOUS
  <2>3. h[y] \in N
    OBVIOUS
  <2>4. \A z \in S : h[z] \in Int
    BY <1>1
  <2>5. QED
    BY <2>1, <2>3, <2>4
<1>3. Max(N) \in N /\ \A y \in N : Max(N) >= y
  <2> HIDE DEF N
  <2>1. QED
    BY <1>2, MaxIs
<1>4. PICK x \in S : h[x] = Max(N)
  BY <1>3
<1>5. \A y \in S : -x >= -y
  BY <1>1, <1>3, <1>4
<1>6. \A y \in S : x <= y
  BY <1>5
<1>7. QED
  BY <1>6 DEF Min

LEMMA CategoriesFinite == ASSUME NEW S, Ledger(S) PROVE IsFiniteSet(CategoriesOf(S))
<1> DEFINE h == [tx \in S |-> tx.category]
<1>1. CategoriesOf(S) = {h[tx] : tx \in S}
  BY DEF CategoriesOf
<1> HIDE DEF h
<1>2. IsFiniteSet({h[tx] : tx \in S})
  BY ImageIsFinite DEF Ledger
<1>3. QED
  BY <1>1, <1>2

\* The greatest of the categories' figures, if any is positive.
LEMMA GreatestIs ==
    ASSUME NEW S, Ledger(S), NEW f, \A c \in CategoriesOf(S) : f[c] \in Int
    PROVE  LET C == {0} \cup {f[c] : c \in CategoriesOf(S)} IN
           C \subseteq Int /\ Max(C) \in C /\ \A y \in C : Max(C) >= y
<1> DEFINE C == {0} \cup {f[c] : c \in CategoriesOf(S)}
<1>1. IsFiniteSet({f[c] : c \in CategoriesOf(S)})
  BY CategoriesFinite, ImageIsFinite
<1>2. IsFiniteSet(C) /\ C # {} /\ C \subseteq Int
  <2>1. IsFiniteSet(C)
    BY <1>1, FS_Union, FS_Singleton
  <2>2. QED
    BY <2>1
<1> HIDE DEF C
<1>3. Max(C) \in C /\ \A y \in C : Max(C) >= y
  BY <1>2, MaxIs
<1>4. QED
  BY <1>2, <1>3 DEF C

-----------------------------------------------------------------------------
(* The score.                                                              *)

LEMMA ClampScore ==
    ASSUME NEW n \in Int, NEW d \in Nat \ {0}
    PROVE  /\ clampScore(n, d) \in 0..100
           /\ n >= 100 * d => clampScore(n, d) = 100
           /\ n <= 0 => clampScore(n, d) = 0
<1> DEFINE q == (2 * n + d) \div (2 * d)
<1>1. q \in Int /\ q * (2 * d) <= 2 * n + d /\ 2 * n + d < q * (2 * d) + 2 * d
  <2>1. 2 * n + d \in Int /\ 2 * d \in Nat \ {0}
    OBVIOUS
  <2>2. QED
    BY <2>1, DivBounds
<1> HIDE DEF q
<1>2. ASSUME 0 <= n, n <= 100 * d PROVE q \in 0..100
  <2>1. 0 * (2 * d) < (q + 1) * (2 * d) /\ q * (2 * d) < 101 * (2 * d)
    BY <1>1, <1>2
  <2>2. 0 < q + 1 /\ q < 101
    BY <1>1, <2>1, TimesPositive
  <2>3. QED
    BY <1>1, <2>2
<1>3. n = 100 * d => q = 100
  <2>1. ASSUME n = 100 * d PROVE 100 * (2 * d) < (q + 1) * (2 * d)
    BY <1>1, <2>1
  <2>2. ASSUME n = 100 * d PROVE 100 < q + 1
    BY <1>1, <2>1, <2>2, TimesPositive
  <2>3. QED
    BY <1>1, <1>2, <2>2
<1>4. n = 0 => q = 0
  <2>1. ASSUME n = 0 PROVE q * (2 * d) < 1 * (2 * d)
    BY <1>1, <2>1
  <2>2. ASSUME n = 0 PROVE q < 1
    BY <1>1, <2>1, <2>2, TimesPositive
  <2>3. QED
    BY <1>1, <1>2, <2>2
<1>5. QED
  BY <1>2, <1>3, <1>4 DEF clampScore, q

LEMMA ClampScaled ==
    ASSUME NEW n \in Int, NEW d \in Nat \ {0}, NEW r \in Nat \ {0}
    PROVE  clampScore(n * r, d * r) = clampScore(n, d)
<1>1. n < 0 <=> n * r < 0 * r
  BY TimesPositive
<1>2. n > 100 * d <=> n * r > (100 * d) * r
  BY TimesPositive
<1>3. (2 * n + d) * r = 2 * (n * r) + d * r /\ (2 * d) * r = 2 * (d * r)
      /\ (100 * d) * r = 100 * (d * r) /\ 0 * r = 0
  OBVIOUS
<1>4. ((2 * n + d) * r) \div ((2 * d) * r) = (2 * n + d) \div (2 * d)
  BY DivScaled
<1>5. QED
  BY <1>1, <1>2, <1>3, <1>4 DEF clampScore

\* The parts of the score, of sums that are known.
Savings(income, expense) ==
    IF income > 0 THEN clampScore(500 * (income - expense), income) ELSE 0
Spread(expense, top) ==
    IF expense > 0 THEN clampScore(150 * expense - 200 * top, expense) ELSE clampScore(150, 1)
Score(savings, balance, consistency, days) ==
    [ savings |-> savings, balance |-> balance, consistency |-> consistency, days |-> days,
      total |-> (2 * (4 * savings + 3 * balance + 3 * consistency) + 10) \div 20 ]

Window == Since(txs, moment - scoreWindow)

LEMMA ScoreIs ==
    ASSUME NEW base
    PROVE  FinancialScore(txs, base) =
             Score(Savings(Total(Income(Window), base), Total(Expense(Window), base)),
                   Spread(Total(Expense(Window), base), TopCategory(Expense(Window), base)),
                   clampScore(5 * Cardinality(Days(Window)), 1), Cardinality(Days(Window)))
BY DEF FinancialScore, Score, Savings, Spread, Window

LEMMA SavingsScaled ==
    ASSUME NEW income \in Int, NEW expense \in Int, NEW r \in Nat \ {0}
    PROVE  Savings(income * r, expense * r) = Savings(income, expense)
<1>1. income > 0 <=> income * r > 0
  BY TimesPositive
<1>2. 500 * (income * r - expense * r) = (500 * (income - expense)) * r
  OBVIOUS
<1>3. CASE income > 0
  <2>1. 500 * (income - expense) \in Int /\ income \in Nat \ {0}
    BY <1>3
  <2>2. clampScore((500 * (income - expense)) * r, income * r)
          = clampScore(500 * (income - expense), income)
    BY <2>1, ClampScaled
  <2>3. QED
    BY <1>1, <1>2, <1>3, <2>2 DEF Savings
<1>4. QED
  BY <1>1, <1>3 DEF Savings

LEMMA SpreadScaled ==
    ASSUME NEW expense \in Int, NEW top \in Int, NEW r \in Nat \ {0}
    PROVE  Spread(expense * r, top * r) = Spread(expense, top)
<1>1. expense > 0 <=> expense * r > 0
  BY TimesPositive
<1>2. 150 * (expense * r) - 200 * (top * r) = (150 * expense - 200 * top) * r
  OBVIOUS
<1>3. CASE expense > 0
  <2>1. 150 * expense - 200 * top \in Int /\ expense \in Nat \ {0}
    BY <1>3
  <2>2. clampScore((150 * expense - 200 * top) * r, expense * r)
          = clampScore(150 * expense - 200 * top, expense)
    BY <2>1, ClampScaled
  <2>3. QED
    BY <1>1, <1>2, <1>3, <2>2 DEF Spread
<1>4. QED
  BY <1>1, <1>3 DEF Spread

LEMMA TopIsInt ==
    ASSUME NEW S, Ledger(S), NEW base
    PROVE  TopCategory(S, base) \in Int
<1> DEFINE f == [c \in CategoriesOf(S) |-> Total(Of(S, c), base)]
<1>1. \A c \in CategoriesOf(S) : f[c] \in Int
  BY LedgerParts, TotalIsInt
<1>2. TopCategory(S, base) = Max({0} \cup {f[c] : c \in CategoriesOf(S)})
  BY DEF TopCategory
<1> HIDE DEF f
<1>3. QED
  BY <1>1, <1>2, GreatestIs

TopWorth(S) == Max({0} \cup {Worth(Of(S, c)) : c \in CategoriesOf(S)})

LEMMA TopIsWorth ==
    ASSUME NEW S, Ledger(S), Rated(S), NEW base \in DOMAIN Rate
    PROVE  TopCategory(S, base) * Rate[base] = TopWorth(S)
<1> DEFINE f == [c \in CategoriesOf(S) |-> Total(Of(S, c), base)]
           w == [c \in CategoriesOf(S) |-> Worth(Of(S, c))]
           F == {0} \cup {f[c] : c \in CategoriesOf(S)}
           W == {0} \cup {w[c] : c \in CategoriesOf(S)}
           r == Rate[base]
<1>1. r \in Nat \ {0}
  BY RateAssumption
<1>2. \A c \in CategoriesOf(S) : f[c] \in Int /\ w[c] = f[c] * r
  <2>1. ASSUME NEW c \in CategoriesOf(S) PROVE Ledger(Of(S, c)) /\ Rated(Of(S, c))
    BY LedgerParts DEF Rated, Of
  <2>2. QED
    BY <2>1, TotalIsInt, TotalIsWorth
<1>3. TopCategory(S, base) = Max(F) /\ TopWorth(S) = Max(W)
  BY DEF TopCategory, TopWorth
<1> HIDE DEF f, w, r
<1>4. \A c \in CategoriesOf(S) : w[c] \in Int
  BY <1>1, <1>2
<1>5. F \subseteq Int /\ Max(F) \in F /\ \A y \in F : Max(F) >= y
  BY <1>2, GreatestIs
<1>6. W \subseteq Int /\ Max(W) \in W /\ \A y \in W : Max(W) >= y
  BY <1>4, GreatestIs
<1>7. \A x \in F : x * r \in W
  BY <1>1, <1>2
<1>8. \A y \in W : \E x \in F : y = x * r
  BY <1>1, <1>2
<1> HIDE DEF F, W
<1>9. PICK x \in F : Max(W) = x * r
  BY <1>6, <1>8
<1>10. Max(W) >= Max(F) * r /\ Max(F) >= x /\ Max(F) \in Int /\ x \in Int
  BY <1>5, <1>6, <1>7
<1>11. x * r <= Max(F) * r /\ x * r \in Int /\ Max(F) * r \in Int
  BY <1>1, <1>10, TimesPositive
<1>12. QED
  BY <1>3, <1>9, <1>10, <1>11 DEF r

\* What is known of the transactions whenever figures are asked for.
LedgerInv == Ledger(txs) /\ moment \in Int

\* Instants and days: what is listed is of today or before, and a midnight parts days.
LEMMA DaysAre ==
    ASSUME LedgerInv
    PROVE  /\ today \in Int
           /\ \A tx \in txs : tx.at \in Int /\ Day(tx) \in Int
           /\ \A tx \in Real(txs) : tx \in txs /\ tx.at <= moment /\ Day(tx) <= today
           /\ \A tx \in txs : \A day \in Int : tx.at >= Midnight(day) <=> Day(tx) >= day
<1>1. moment \in Int /\ \A tx \in txs : tx.at \in Int /\ Day(tx) \in Int
  BY Recorded DEF LedgerInv, Ledger
<1>2. \A tx \in Real(txs) : tx \in txs /\ tx.at <= moment
  BY DEF Real
<1>3. ASSUME NEW t \in Int, NEW u \in Int, t <= u PROVE t \div 24 <= u \div 24
  BY <1>3
<1>4. ASSUME NEW t \in Int, NEW day \in Int PROVE t >= 24 * day <=> t \div 24 >= day
  OBVIOUS
<1>5. QED
  BY <1>1, <1>2, <1>3, <1>4 DEF today, Day, Midnight, Hours

\* What is listed from so many times 24 hours ago on is what is that young.
LEMMA WindowOfDays ==
    ASSUME LedgerInv, NEW n \in Nat
    PROVE  Since(txs, moment - Hours(n)) = LastDays(n)
<1>1. ASSUME NEW tx \in Real(txs) PROVE tx.at >= moment - 24 * n <=> moment - tx.at \in 0..24 * n
  <2>1. tx.at \in Int /\ tx.at <= moment /\ moment \in Int
    BY DaysAre DEF LedgerInv
  <2>2. QED
    BY <2>1
<1>2. QED
  BY <1>1 DEF Since, LastDays, Hours

LEMMA WindowIs ==
    ASSUME LedgerInv
    PROVE  /\ Ledger(Window) /\ Window \subseteq txs
           /\ Ledger(Income(Window)) /\ Ledger(Expense(Window))
           /\ IsFiniteSet(Days(Window)) /\ Cardinality(Days(Window)) \in Nat
           /\ Window = LastDays(30)
<1>1. Ledger(Window) /\ Window \subseteq txs
  BY LedgerParts DEF LedgerInv, Window, Since, Real
<1> DEFINE h == [tx \in Window |-> Day(tx)]
<1>2. Days(Window) = {h[tx] : tx \in Window}
  BY DEF Days
<1> HIDE DEF h
<1>3. IsFiniteSet({h[tx] : tx \in Window})
  BY <1>1, ImageIsFinite DEF Ledger
<1>4. Window = LastDays(30)
  BY WindowOfDays DEF Window, scoreWindow
<1>5. QED
  BY <1>1, <1>2, <1>3, <1>4, LedgerParts, FS_CardinalityType

\* The dates of the last thirty days are all in the window, and one more at most.
LEMMA WindowDates ==
    ASSUME LedgerInv
    PROVE  LET D == Days(Real(txs)) \cap today - 29..today
               n == Cardinality(Days(Window)) IN
           Cardinality(D) \in Nat /\ Cardinality(D) <= n /\ n <= Cardinality(D) + 1
<1> DEFINE D == Days(Real(txs)) \cap today - 29..today
           n == Cardinality(Days(Window))
<1>1. moment \in Int /\ today \in Int
  BY DaysAre DEF LedgerInv
<1>2. ASSUME NEW tx \in Real(txs)
      PROVE  /\ Day(tx) \in Int /\ Day(tx) <= today
             /\ Day(tx) >= today - 29 => tx \in Window
             /\ tx \in Window => Day(tx) >= today - 30
  <2>1. tx.at \in Int /\ Day(tx) \in Int /\ Day(tx) <= today
    BY DaysAre
  <2>2. Day(tx) >= today - 29 => tx.at >= moment - 24 * 30
    BY <1>1, <2>1 DEF Day, today
  <2>3. tx.at >= moment - 24 * 30 => Day(tx) >= today - 30
    BY <1>1, <2>1 DEF Day, today
  <2>4. QED
    BY <2>1, <2>2, <2>3 DEF Window, Since, scoreWindow, Hours
<1>3. Window \subseteq Real(txs)
  BY DEF Window, Since
<1>4. D \subseteq Days(Window) /\ Days(Window) \subseteq D \cup {today - 30}
  <2>1. ASSUME NEW tx \in Real(txs), Day(tx) \in today - 29..today PROVE Day(tx) \in Days(Window)
    BY <1>1, <1>2, <2>1 DEF Days
  <2>2. ASSUME NEW tx \in Window PROVE Day(tx) \in D \cup {today - 30}
    BY <1>1, <1>2, <1>3 DEF Days
  <2>3. QED
    BY <2>1, <2>2 DEF Days
<1>5. IsFiniteSet(Days(Window))
  BY WindowIs
<1> HIDE DEF D
<1>6. IsFiniteSet(D) /\ Cardinality(D) <= n
  BY <1>4, <1>5, FS_Subset
<1>7. Cardinality(D) \in Nat
  BY <1>6, FS_CardinalityType
<1>8. IsFiniteSet(D \cup {today - 30}) /\ Cardinality(D \cup {today - 30}) <= Cardinality(D) + 1
  BY <1>6, <1>7, FS_AddElement
<1>9. n <= Cardinality(D) + 1
  <2>1. n <= Cardinality(D \cup {today - 30})
    BY <1>4, <1>8, FS_Subset
  <2>2. n \in Nat /\ Cardinality(D \cup {today - 30}) \in Nat
    BY <1>5, <1>8, FS_CardinalityType
  <2>3. QED
    BY <1>7, <1>8, <2>1, <2>2
<1>10. QED
  BY <1>6, <1>7, <1>9 DEF D

\* The score is a number out of 100, and its full and its empty marks are where the
\* comment puts them.
LEMMA ScoreInRange ==
    ASSUME LedgerInv, NEW base
    PROVE  LET s == FinancialScore(txs, base)
               income  == Total(Income(Window), base)
               expense == Total(Expense(Window), base)
               top     == TopCategory(Expense(Window), base) IN
           /\ {s.savings, s.balance, s.consistency, s.total} \subseteq 0..100
           /\ income > 0 => /\ 5 * (income - expense) >= income => s.savings = 100
                            /\ income <= expense => s.savings = 0
           /\ expense > 0 => /\ 4 * top <= expense => s.balance = 100
                             /\ 4 * top >= 3 * expense => s.balance = 0
           /\ LET dates == Cardinality(Days(Real(txs)) \cap today - 29..today) IN
              /\ dates >= 20 => s.consistency = 100
              /\ s.consistency = 100 => dates >= 19
<1> DEFINE s == FinancialScore(txs, base)
           income  == Total(Income(Window), base)
           expense == Total(Expense(Window), base)
           top     == TopCategory(Expense(Window), base)
           days    == Cardinality(Days(Window))
           dates   == Cardinality(Days(Real(txs)) \cap today - 29..today)
<1>1. income \in Int /\ expense \in Int /\ top \in Int /\ days \in Nat
  BY WindowIs, TotalIsInt, TopIsInt
<1>2. s = Score(Savings(income, expense), Spread(expense, top), clampScore(5 * days, 1), days)
  BY ScoreIs
<1>0. dates \in Nat /\ dates <= days /\ days <= dates + 1
  BY WindowDates
<1> HIDE DEF s, income, expense, top, days, dates
<1>3. /\ Savings(income, expense) \in 0..100
      /\ income > 0 => /\ 5 * (income - expense) >= income => Savings(income, expense) = 100
                       /\ income <= expense => Savings(income, expense) = 0
  <2>1. CASE income > 0
    <3>1. 500 * (income - expense) \in Int /\ income \in Nat \ {0}
      BY <1>1, <2>1
    <3>2. /\ clampScore(500 * (income - expense), income) \in 0..100
          /\ 500 * (income - expense) >= 100 * income =>
                clampScore(500 * (income - expense), income) = 100
          /\ 500 * (income - expense) <= 0 => clampScore(500 * (income - expense), income) = 0
      BY <3>1, ClampScore
    <3>3. QED
      BY <1>1, <2>1, <3>2 DEF Savings
  <2>2. QED
    BY <1>1, <2>1 DEF Savings
<1>4. /\ Spread(expense, top) \in 0..100
      /\ expense > 0 => /\ 4 * top <= expense => Spread(expense, top) = 100
                        /\ 4 * top >= 3 * expense => Spread(expense, top) = 0
  <2>1. CASE expense > 0
    <3>1. 150 * expense - 200 * top \in Int /\ expense \in Nat \ {0}
      BY <1>1, <2>1
    <3>2. /\ clampScore(150 * expense - 200 * top, expense) \in 0..100
          /\ 150 * expense - 200 * top >= 100 * expense =>
                clampScore(150 * expense - 200 * top, expense) = 100
          /\ 150 * expense - 200 * top <= 0 =>
                clampScore(150 * expense - 200 * top, expense) = 0
      BY <3>1, ClampScore
    <3>3. QED
      BY <1>1, <2>1, <3>2 DEF Spread
  <2>2. QED
    BY <1>1, <2>1, ClampScore DEF Spread
<1>5. /\ clampScore(5 * days, 1) \in 0..100
      /\ dates >= 20 => clampScore(5 * days, 1) = 100
      /\ clampScore(5 * days, 1) = 100 => dates >= 19
  <2>1. 5 * days \in Int
    BY <1>1
  <2>2. clampScore(5 * days, 1) \in 0..100 /\ (5 * days >= 100 * 1 => clampScore(5 * days, 1) = 100)
    BY <2>1, ClampScore
  <2>3. days < 20 => clampScore(5 * days, 1) < 100
    BY <1>1 DEF clampScore
  <2>4. QED
    BY <1>0, <1>1, <2>2, <2>3
<1>6. /\ s.savings = Savings(income, expense) /\ s.balance = Spread(expense, top)
      /\ s.consistency = clampScore(5 * days, 1)
      /\ s.total = (2 * (4 * s.savings + 3 * s.balance + 3 * s.consistency) + 10) \div 20
  BY <1>2 DEF Score
<1>7. s.total \in 0..100
  <2> DEFINE a == s.savings
             b == s.balance
             c == s.consistency
  <2>1. a \in 0..100 /\ b \in 0..100 /\ c \in 0..100
    BY <1>3, <1>4, <1>5, <1>6
  <2>2. s.total = (2 * (4 * a + 3 * b + 3 * c) + 10) \div 20
    BY <1>6
  <2> HIDE DEF a, b, c
  <2>3. (2 * (4 * a + 3 * b + 3 * c) + 10) \div 20 \in 0..100
    BY <2>1
  <2>4. QED
    BY <2>2, <2>3
<1>8. QED
  BY <1>3, <1>4, <1>5, <1>6, <1>7 DEF s, income, expense, top, dates

\* In another currency every sum is another, and the score the same.
LEMMA ScoreOfWorth ==
    ASSUME LedgerInv, Rated(txs), NEW base \in DOMAIN Rate
    PROVE  FinancialScore(txs, base) =
             Score(Savings(Worth(Income(Window)), Worth(Expense(Window))),
                   Spread(Worth(Expense(Window)), TopWorth(Expense(Window))),
                   clampScore(5 * Cardinality(Days(Window)), 1), Cardinality(Days(Window)))
<1> DEFINE income  == Total(Income(Window), base)
           expense == Total(Expense(Window), base)
           top     == TopCategory(Expense(Window), base)
           r == Rate[base]
           consistency == clampScore(5 * Cardinality(Days(Window)), 1)
<1>1. income \in Int /\ expense \in Int /\ top \in Int /\ r \in Nat \ {0}
  BY WindowIs, TotalIsInt, TopIsInt, RateAssumption
<1>2. Rated(Income(Window)) /\ Rated(Expense(Window))
  BY WindowIs DEF Rated, Income, Expense
<1>3. /\ income * r = Worth(Income(Window)) /\ expense * r = Worth(Expense(Window))
      /\ top * r = TopWorth(Expense(Window))
  BY <1>2, WindowIs, TotalIsWorth, TopIsWorth
<1>4. FinancialScore(txs, base) =
        Score(Savings(income, expense), Spread(expense, top), consistency, Cardinality(Days(Window)))
  BY ScoreIs
<1> HIDE DEF income, expense, top, r, consistency
<1>5. Savings(income * r, expense * r) = Savings(income, expense)
      /\ Spread(expense * r, top * r) = Spread(expense, top)
  BY <1>1, SavingsScaled, SpreadScaled
<1>6. FinancialScore(txs, base) =
        Score(Savings(Worth(Income(Window)), Worth(Expense(Window))),
              Spread(Worth(Expense(Window)), TopWorth(Expense(Window))), consistency,
              Cardinality(Days(Window)))
  BY <1>3, <1>4, <1>5
<1>7. QED
  BY <1>6 DEF consistency

\* The score is as documented, in whatever currency it is asked for.
LEMMA ScoreHolds == ASSUME LedgerInv PROVE ScoreAsDocumented
<1> SUFFICES ASSUME NEW base \in Bases
    PROVE  LET s == FinancialScore(txs, base)
               W == LastDays(30)
               income  == Total(Income(W), base)
               expense == Total(Expense(W), base)
               top     == TopCategory(Expense(W), base)
               dates   == Cardinality(Days(Real(txs)) \cap today - 29..today) IN
      /\ {s.savings, s.balance, s.consistency, s.total} \subseteq 0..100
      /\ income > 0 => /\ 5 * (income - expense) >= income => s.savings = 100
                       /\ income <= expense => s.savings = 0
      /\ expense > 0 => /\ 4 * top <= expense => s.balance = 100
                        /\ 4 * top >= 3 * expense => s.balance = 0
      /\ dates >= 20 => s.consistency = 100
      /\ s.consistency = 100 => dates >= 19
      /\ {tx.currency : tx \in txs} \subseteq Bases =>
            \A b \in Bases : s = FinancialScore(txs, b)
  BY DEF ScoreAsDocumented
<1>1. {tx.currency : tx \in txs} \subseteq Bases =>
         \A b \in Bases : FinancialScore(txs, base) = FinancialScore(txs, b)
  <2> SUFFICES ASSUME {tx.currency : tx \in txs} \subseteq Bases, NEW b \in Bases
               PROVE  FinancialScore(txs, base) = FinancialScore(txs, b)
    OBVIOUS
  <2>1. Rated(txs)
    BY DEF Rated, Bases
  <2>2. QED
    BY <2>1, ScoreOfWorth DEF Bases
<1>2. Window = LastDays(30)
  BY WindowIs
<1>3. QED
  BY <1>1, <1>2, ScoreInRange

-----------------------------------------------------------------------------
(* Windows that begin with a month hold whole months.                      *)

\* A day on or after the first of a month lies in that month or later.
LEMMA MonthsFrom ==
    ASSUME NEW day \in Int, NEW m \in Int
    PROVE  day >= First(m) + 1 <=> Month(day) >= m
<1>1. Month(day) \in Int /\ InMonth(day, Month(day)) /\ First(m) \in Int
      /\ First(Month(day)) \in Int /\ First(Month(day) + 1) \in Int
  BY MonthOf, FirstAbout
<1>2. CASE Month(day) < m
  <2>1. First(Month(day) + 1) <= First(m)
    BY <1>1, <1>2, FirstIncreases
  <2>2. QED
    BY <1>1, <1>2, <2>1 DEF InMonth
<1>3. CASE Month(day) = m
  BY <1>1, <1>3 DEF InMonth
<1>4. CASE Month(day) > m
  <2>1. First(m) < First(Month(day))
    BY <1>1, <1>4, FirstIncreases
  <2>2. QED
    BY <1>1, <1>4, <2>1 DEF InMonth
<1>5. QED
  BY <1>1, <1>2, <1>3, <1>4

\* Months are added to the first of a month without running over.
LEMMA FirstDayOf ==
    ASSUME NEW m \in Int
    PROVE  Month(Date(m, 1)) = m /\ DayOf(Date(m, 1)) = 1
           /\ \A n \in Int : AddMonths(Date(m, 1), n) = First(m + n) + 1
<1>1. First(m) \in Int /\ First(m + 1) \in Int /\ First(m) < First(m + 1)
  BY FirstAbout, FirstIncreases
<1>2. Date(m, 1) = First(m) + 1 /\ Date(m, 1) \in Int /\ InMonth(Date(m, 1), m)
  BY <1>1 DEF Date, InMonth
<1>3. Month(Date(m, 1)) = m
  BY <1>2, MonthIs
<1>4. DayOf(Date(m, 1)) = 1
  BY <1>1, <1>2, <1>3 DEF DayOf
<1>5. QED
  BY <1>3, <1>4 DEF AddMonths, Date

\* What the user did from the month that is so many months from this one on.
InMonths(from, to) == {tx \in Real(txs) : Month(Day(tx)) \in Month(today) + from..Month(today) + to}

\* What is listed from the first of a month on is what its months hold: nothing
\* later than now is listed.
LEMMA WindowOfMonths ==
    ASSUME LedgerInv
    PROVE  /\ startOfThisMonth \in Int /\ Month(today) \in Int
           /\ Since(txs, Midnight(startOfThisMonth)) = InMonths(0, 0)
           /\ \A n \in Int : n <= 0 =>
                Since(txs, Midnight(AddMonths(startOfThisMonth, n))) = InMonths(n, 0)
           /\ \A tx \in Real(txs) :
                /\ Month(Day(tx)) \in Int /\ Month(Day(tx)) <= Month(today)
                /\ tx.at < Midnight(startOfThisMonth) <=> Month(Day(tx)) < Month(today)
<1> DEFINE M == Month(today)
<1>1. M \in Int /\ today \in Int /\ InMonth(today, M)
  BY DaysAre, MonthOf
<1>2. First(M) \in Int /\ First(M + 1) \in Int /\ startOfThisMonth = First(M) + 1
      /\ \A n \in Int : AddMonths(startOfThisMonth, n) = First(M + n) + 1
  <2>1. First(M) \in Int /\ First(M + 1) \in Int /\ startOfThisMonth = Date(M, 1)
    BY <1>1, FirstAbout DEF startOfThisMonth
  <2>2. startOfThisMonth = First(M) + 1
    BY <2>1 DEF Date
  <2>3. QED
    BY <1>1, <2>1, <2>2, FirstDayOf
<1>3. \A tx \in Real(txs) : /\ tx.at \in Int /\ Day(tx) \in Int /\ Month(Day(tx)) \in Int
                            /\ Day(tx) <= today
  BY DaysAre, MonthOf
<1> HIDE DEF M
<1>4. ASSUME NEW tx \in Real(txs), NEW m \in Int
      PROVE  tx.at >= Midnight(First(m) + 1) <=> Month(Day(tx)) >= m
  <2>1. First(m) + 1 \in Int
    BY FirstAbout
  <2>2. tx.at >= Midnight(First(m) + 1) <=> Day(tx) >= First(m) + 1
    BY <2>1, DaysAre
  <2>3. QED
    BY <1>3, <2>2, MonthsFrom
<1>5. ASSUME NEW tx \in Real(txs) PROVE Month(Day(tx)) <= M
  <2>1. Day(tx) <= First(M + 1)
    BY <1>1, <1>2, <1>3 DEF InMonth
  <2>2. ~(Day(tx) >= First(M + 1) + 1) /\ M + 1 \in Int
    BY <1>1, <1>2, <1>3, <2>1
  <2>3. ~(Month(Day(tx)) >= M + 1)
    BY <1>3, <2>2, MonthsFrom
  <2>4. QED
    BY <1>1, <1>3, <2>3
<1>6. ASSUME NEW n \in Int, n <= 0
      PROVE  Since(txs, Midnight(First(M + n) + 1)) = InMonths(n, 0)
  <2>1. M + n \in Int
    BY <1>1
  <2>2. \A tx \in Real(txs) :
          tx.at >= Midnight(First(M + n) + 1) <=> Month(Day(tx)) \in M + n..M + 0
    BY <1>1, <1>6, <1>3, <1>4, <1>5, <2>1
  <2>3. QED
    BY <2>2 DEF InMonths, Since, M
<1>7. M + 0 = M
  BY <1>1
<1>8. Since(txs, Midnight(First(M) + 1)) = InMonths(0, 0)
  BY <1>6, <1>7
<1>9. \A tx \in Real(txs) : tx.at < Midnight(startOfThisMonth) <=> Month(Day(tx)) < M
  <2>1. Midnight(First(M) + 1) \in Int
    BY <1>2 DEF Midnight, Hours
  <2>2. QED
    BY <1>1, <1>2, <1>3, <1>4, <2>1
<1>10. QED
  BY <1>1, <1>2, <1>3, <1>5, <1>6, <1>8, <1>9 DEF M

\* What the user did in one month.
InTheMonth(m) == {tx \in Real(txs) : Month(Day(tx)) = m}

\* This month and the last, as the summary takes them.
LEMMA MonthsIn ==
    ASSUME LedgerInv
    PROVE  /\ InMonths(0, 0) = InTheMonth(Month(today))
           /\ InMonths(-1, 0) \ InMonths(0, 0) = InTheMonth(Month(today) - 1)
           /\ \A m : Ledger(InTheMonth(m)) /\ InTheMonth(m) \subseteq txs
<1>1. Month(today) \in Int /\ \A tx \in Real(txs) : Month(Day(tx)) \in Int /\ Month(Day(tx)) <= Month(today)
  BY WindowOfMonths
<1>2. ASSUME NEW m PROVE Ledger(InTheMonth(m)) /\ InTheMonth(m) \subseteq txs
  <2>1. InTheMonth(m) \subseteq txs
    BY DEF InTheMonth, Real
  <2>2. QED
    BY <2>1, LedgerPart DEF LedgerInv
<1>3. \A tx \in Real(txs) :
        /\ Month(Day(tx)) \in Month(today) + 0..Month(today) + 0 <=> Month(Day(tx)) = Month(today)
        /\ (Month(Day(tx)) \in Month(today) + (-1)..Month(today) + 0
              /\ Month(Day(tx)) \notin Month(today) + 0..Month(today) + 0)
             <=> Month(Day(tx)) = Month(today) - 1
  BY <1>1
<1>4. InMonths(0, 0) = InTheMonth(Month(today))
  BY <1>3 DEF InMonths, InTheMonth
<1>5. InMonths(-1, 0) \ InMonths(0, 0) = InTheMonth(Month(today) - 1)
  <2> DEFINE A == Month(today) + (-1)..Month(today) + 0
             B == Month(today) + 0..Month(today) + 0
             m == Month(today) - 1
  <2>1. \A tx \in Real(txs) : (Month(Day(tx)) \in A /\ Month(Day(tx)) \notin B) <=> Month(Day(tx)) = m
    BY <1>3
  <2> HIDE DEF A, B, m
  <2>2. {tx \in Real(txs) : Month(Day(tx)) \in A} \ {tx \in Real(txs) : Month(Day(tx)) \in B}
          = {tx \in Real(txs) : Month(Day(tx)) = m}
    BY <2>1
  <2>3. QED
    BY <2>2 DEF InMonths, InTheMonth, A, B, m
<1>6. QED
  BY <1>2, <1>4, <1>5

\* The categories, by name, add up to the whole.
LEMMA ByNameAddsUp ==
    ASSUME NEW S, Ledger(S), NEW base
    PROVE  SumFunction(ByName(S, base)) = Total(S, base)
<1> DEFINE f == InCurrency(base)
           name == [tx \in UNION Batches |-> Name[tx.category]]
           N == {name[tx] : tx \in S}
           p == [n \in N |-> SumOver(f, {tx \in S : name[tx] = n})]
<1>1. IsFiniteSet(S) /\ (\A tx \in S : f[tx] \in Int) /\ Total(S, base) = SumOver(f, S)
  BY TotalIsSum
<1>2. \A tx \in S : name[tx] = Name[tx.category]
  BY DEF Ledger
<1>3. {Name[c] : c \in CategoriesOf(S)} = N
  <2> HIDE DEF name
  <2>1. {Name[tx.category] : tx \in S} = N
    BY <1>2
  <2>2. {Name[c] : c \in CategoriesOf(S)} = {Name[tx.category] : tx \in S}
    BY DEF CategoriesOf
  <2>3. QED
    BY <2>1, <2>2
<1>4. ASSUME NEW n PROVE Total({tx \in S : Name[tx.category] = n}, base) = SumOver(f, {tx \in S : name[tx] = n})
  <2>1. {tx \in S : Name[tx.category] = n} = {tx \in S : name[tx] = n}
    BY <1>2
  <2>2. Ledger({tx \in S : name[tx] = n})
    BY LedgerPart
  <2>3. QED
    BY <2>1, <2>2, TotalIsSum
<1>5. ByName(S, base) = p
  BY <1>3, <1>4 DEF ByName
<1>6. SumOver(p, N) = SumFunction(p)
  <2>1. [n \in N |-> p[n]] = p
    OBVIOUS
  <2> HIDE DEF p
  <2>2. QED
    BY <2>1 DEF SumOver
<1>7. SumOver(p, N) = SumOver(f, S)
  <2> HIDE DEF f, name
  <2>1. QED
    BY <1>1, SumByName
<1>8. QED
  BY <1>1, <1>5, <1>6, <1>7

\* What the model is told adds up, and its months are calendar months.
LEMMA SummaryHolds == ASSUME LedgerInv PROVE SummaryAddsUp
<1> SUFFICES ASSUME NEW base \in Bases
    PROVE  LET s == buildSummary(txs, base)
               In(m) == {tx \in Real(txs) : Month(Day(tx)) = m} IN
           /\ SumFunction(s.top) = s.expense /\ SumFunction(s.topIncome) = s.income
           /\ s.income - s.expense = Balance(In(Month(today)), base)
           /\ s.lastIncome - s.lastExpense = Balance(In(Month(today) - 1), base)
  BY DEF SummaryAddsUp
<1> DEFINE s == buildSummary(txs, base)
           this == InTheMonth(Month(today))
           last == InTheMonth(Month(today) - 1)
<1>1. /\ Since(txs, Midnight(startOfThisMonth)) = this
      /\ Since(txs, Midnight(AddMonths(startOfThisMonth, -1)))
           \ Since(txs, Midnight(startOfThisMonth)) = last
  <2>1. -1 \in Int /\ -1 <= 0
    OBVIOUS
  <2>2. QED
    BY <2>1, WindowOfMonths, MonthsIn
<1>2. Ledger(Income(this)) /\ Ledger(Expense(this))
  BY MonthsIn, LedgerParts
<1>3. /\ s.income = Total(Income(this), base) /\ s.expense = Total(Expense(this), base)
      /\ s.lastIncome = Total(Income(last), base) /\ s.lastExpense = Total(Expense(last), base)
      /\ s.top = ByName(Expense(this), base) /\ s.topIncome = ByName(Income(this), base)
  BY <1>1 DEF buildSummary
<1> HIDE DEF s
<1>4. SumFunction(s.top) = s.expense /\ SumFunction(s.topIncome) = s.income
  BY <1>2, <1>3, ByNameAddsUp
<1>5. s.income - s.expense = Balance(this, base) /\ s.lastIncome - s.lastExpense = Balance(last, base)
  BY <1>3 DEF Balance
<1>6. QED
  BY <1>4, <1>5 DEF s, InTheMonth

-----------------------------------------------------------------------------
(* The pace: the months before are three calendar months, apart.           *)

LEMMA TotalOfNone == ASSUME NEW base PROVE Total({}, base) = 0
<1>1. Ledger({})
  BY FS_EmptySet DEF Ledger
<1>2. QED
  BY <1>1, TotalIsSum, SumOfNone

\* What was spent on a category in one month.
SpentIn(m, c) == Expense({tx \in Real(txs) : Month(Day(tx)) = m /\ tx.category = c})

LEMMA SpentApart ==
    ASSUME LedgerInv, NEW c
    PROVE  /\ \A m : Ledger(SpentIn(m, c))
           /\ \A m, n : m # n => SpentIn(m, c) \cap SpentIn(n, c) = {}
<1>1. ASSUME NEW m PROVE Ledger(SpentIn(m, c))
  <2>1. SpentIn(m, c) \subseteq txs
    BY DEF SpentIn, Expense, Real
  <2>2. QED
    BY <2>1, LedgerPart DEF LedgerInv
<1>2. QED
  BY <1>1 DEF SpentIn, Expense

PaceWindow  == Expense(Since(txs, Midnight(AddMonths(startOfThisMonth, -paceHistoryMonths))))
PaceHistory == {tx \in PaceWindow : tx.at < Midnight(startOfThisMonth)}

\* The history of a category is its three months before, and the rest is this one.
LEMMA PaceMonths ==
    ASSUME LedgerInv, NEW c
    PROVE  LET M == Month(today) IN
           /\ Of(PaceHistory, c) = (SpentIn(M - 1, c) \cup SpentIn(M - 2, c)) \cup SpentIn(M - 3, c)
           /\ Of(PaceWindow \ PaceHistory, c) = SpentIn(M, c)
<1> DEFINE M == Month(today)
           A == M + (-3)..M + 0
<1>1. /\ Since(txs, Midnight(AddMonths(startOfThisMonth, -paceHistoryMonths))) = InMonths(-3, 0)
      /\ \A tx \in Real(txs) : Month(Day(tx)) \in Int /\ Month(Day(tx)) <= M
                         /\ (tx.at < Midnight(startOfThisMonth) <=> Month(Day(tx)) < M)
      /\ M \in Int
  <2>1. -3 \in Int /\ -3 <= 0
    OBVIOUS
  <2>2. QED
    BY <2>1, WindowOfMonths DEF paceHistoryMonths
<1>2. \A tx \in Real(txs) :
        /\ (Month(Day(tx)) \in A /\ tx.at < Midnight(startOfThisMonth))
             <=> Month(Day(tx)) = M - 1 \/ Month(Day(tx)) = M - 2 \/ Month(Day(tx)) = M - 3
        /\ (Month(Day(tx)) \in A /\ ~(tx.at < Midnight(startOfThisMonth))) <=> Month(Day(tx)) = M
  BY <1>1
<1>3. \A tx : tx \in PaceWindow <=> /\ tx \in Real(txs) /\ Month(Day(tx)) \in A
                                    /\ tx.type # "income"
  BY <1>1 DEF PaceWindow, InMonths, Expense, Income
<1> HIDE DEF A
<1>4. \A m, tx : tx \in SpentIn(m, c) <=> /\ tx \in Real(txs) /\ Month(Day(tx)) = m
                                          /\ tx.category = c /\ tx.type # "income"
  BY DEF SpentIn, Expense, Income
<1> HIDE DEF M
<1>5. Of(PaceHistory, c) = (SpentIn(M - 1, c) \cup SpentIn(M - 2, c)) \cup SpentIn(M - 3, c)
  BY <1>2, <1>3, <1>4 DEF Of, PaceHistory
<1>6. Of(PaceWindow \ PaceHistory, c) = SpentIn(M, c)
  BY <1>2, <1>3, <1>4 DEF Of, PaceHistory
<1>7. QED
  BY <1>5, <1>6 DEF M

LEMMA PaceTotals ==
    ASSUME LedgerInv, NEW c, NEW base
    PROVE  LET M == Month(today)
               spent(m) == Total(SpentIn(m, c), base) IN
           /\ Total(Of(PaceHistory, c), base) = spent(M - 1) + spent(M - 2) + spent(M - 3)
           /\ Total(Of(PaceWindow \ PaceHistory, c), base) = spent(M)
           /\ \A m : spent(m) \in Int
<1> DEFINE M == Month(today)
           A == SpentIn(M - 1, c)
           B == SpentIn(M - 2, c)
           D == SpentIn(M - 3, c)
<1>1. M \in Int
  BY WindowOfMonths
<1>2. Ledger(A) /\ Ledger(B) /\ Ledger(D) /\ A \cap B = {} /\ A \cap D = {} /\ B \cap D = {}
  <2>1. M - 1 # M - 2 /\ M - 1 # M - 3 /\ M - 2 # M - 3
    BY <1>1
  <2> HIDE DEF M
  <2>2. QED
    BY <2>1, SpentApart
<1>3. Of(PaceHistory, c) = (A \cup B) \cup D /\ Of(PaceWindow \ PaceHistory, c) = SpentIn(M, c)
  BY PaceMonths
<1> HIDE DEF A, B, D
<1>4. Total(A \cup B, base) = Total(A, base) + Total(B, base)
  BY <1>2, TotalOfUnion
<1>5. Ledger(A \cup B) /\ (A \cup B) \cap D = {}
  BY <1>2, LedgerUnion
<1>6. Total((A \cup B) \cup D, base) = Total(A \cup B, base) + Total(D, base)
  BY <1>2, <1>5, TotalOfUnion
<1>7. \A m : Total(SpentIn(m, c), base) \in Int
  BY SpentApart, TotalIsInt
<1>8. QED
  BY <1>3, <1>4, <1>6, <1>7 DEF A, B, D

\* A category is over pace when the month will end above the months before.
LEMMA PaceHolds == ASSUME LedgerInv PROVE PaceAsDocumented
<1> DEFINE M == Month(today)
<1> SUFFICES ASSUME NEW base \in Bases, NEW c \in CategoriesOf(Real(txs))
    PROVE  LET In(m, e) == Total(Expense({tx \in Real(txs) : Month(Day(tx)) = m /\ tx.category = e}), base)
               P == BudgetPace(txs, base)
               months == In(M - 1, c) + In(M - 2, c) + In(M - 3, c) IN
           /\ c \in DOMAIN P <=> months # 0
           /\ months > 0 => (P[c].pace[1] > P[c].pace[2] <=>
                              3 * In(M, c) * Length(M) > months * DayOf(today))
  BY DEF PaceAsDocumented
<1> DEFINE P == BudgetPace(txs, base)
           spent(m) == Total(SpentIn(m, c), base)
           now    == spent(M)
           months == spent(M - 1) + spent(M - 2) + spent(M - 3)
<1>1. /\ Total(Of(PaceHistory, c), base) = months
      /\ Total(Of(PaceWindow \ PaceHistory, c), base) = now
      /\ months \in Int /\ now \in Int
  BY PaceTotals
<1>2. DOMAIN P = {e \in CategoriesOf(PaceHistory) : Total(Of(PaceHistory, e), base) # 0}
  BY DEF BudgetPace, PaceHistory, PaceWindow
<1>3. \A e \in DOMAIN P : P[e].pace = <<Total(Of(PaceWindow \ PaceHistory, e), base) * 3 * Length(M),
                                       Total(Of(PaceHistory, e), base) * DayOf(today)>>
  BY DEF BudgetPace, PaceHistory, PaceWindow, paceHistoryMonths
<1>4. Length(M) \in Int /\ DayOf(today) \in Int
  BY WindowOfMonths, DaysAre, MonthLength, DayOfMonth
<1> HIDE DEF months, now, M, P
<1>5. months # 0 => c \in CategoriesOf(PaceHistory)
  <2>1. c \notin CategoriesOf(PaceHistory) => Of(PaceHistory, c) = {}
    BY DEF CategoriesOf, Of
  <2>2. QED
    BY <1>1, <2>1, TotalOfNone
<1>6. c \in DOMAIN P <=> months # 0
  BY <1>1, <1>2, <1>5
<1>7. ASSUME months > 0 PROVE P[c].pace[1] > P[c].pace[2] <=> 3 * now * Length(M) > months * DayOf(today)
  <2>1. P[c].pace = <<now * 3 * Length(M), months * DayOf(today)>>
    <3>1. months # 0
      BY <1>7
    <3>2. c \in DOMAIN P
      BY <1>6, <3>1
    <3>3. QED
      BY <1>1, <1>3, <3>2, Zenon
  <2>2. now * 3 * Length(M) = 3 * now * Length(M)
    <3>1. now * 3 = 3 * now
      BY <1>1
    <3>2. QED
      BY <3>1
  <2>3. QED
    BY <2>1, <2>2
<1>8. QED
  BY <1>6, <1>7 DEF P, months, now, SpentIn, M

-----------------------------------------------------------------------------
(* The runway: the usual day is one of a month, and the forecast exact.    *)

\* The average of days of the month, cut to a whole one, is a day of a month.
LEMMA TypicalDay ==
    ASSUME NEW S, Ledger(S), Cardinality(S) >= 1
    PROVE  SumFunction([tx \in S |-> DayOf(Day(tx))]) \div Cardinality(S) \in 1..31
<1> DEFINE h == [tx \in UNION Batches |-> DayOf(Day(tx))]
           n == Cardinality(S)
           s == SumOver(h, S)
           q == s \div n
<1>1. \A tx \in S : h[tx] = DayOf(Day(tx)) /\ h[tx] \in Int /\ 1 <= h[tx] /\ h[tx] <= 31
  BY Recorded, DayOfMonth DEF Ledger
<1>2. SumFunction([tx \in S |-> DayOf(Day(tx))]) = s
  <2> HIDE DEF h
  <2>1. [tx \in S |-> DayOf(Day(tx))] = [tx \in S |-> h[tx]]
    BY <1>1
  <2>2. QED
    BY <2>1 DEF SumOver
<1> HIDE DEF h
<1>3. n \in Nat \ {0} /\ s \in Int /\ n * 1 <= s /\ s <= n * 31
  <2>1. IsFiniteSet(S) /\ n \in Nat \ {0}
    BY FS_CardinalityType DEF Ledger
  <2>2. QED
    BY <1>1, <2>1, SumIsInt, SumBounds
<1> HIDE DEF n, s
<1>4. q \in Int /\ q * n <= s /\ s < q * n + n
  BY <1>3, DivBounds
<1> HIDE DEF q
<1>5. q * n <= 31 * n /\ 1 * n < (q + 1) * n
  BY <1>3, <1>4
<1>6. q <= 31 /\ 1 < q + 1
  <2>1. 31 \in Int /\ 1 \in Int /\ q + 1 \in Int
    BY <1>4
  <2>2. QED
    BY <1>3, <1>4, <1>5, <2>1, TimesPositive
<1>7. q \in 1..31
  BY <1>4, <1>6
<1>8. QED
  BY <1>2, <1>7 DEF q, n, s

\* The next payday is after today and not more than a month of 31 days away.
LEMMA PaydayAhead ==
    ASSUME today \in Int, NEW d \in 1..31
    PROVE  NextPayday(d) \in today + 1..today + 31
<1> DEFINE M == Month(today)
           candidate == Date(M, d)
<1>1. M \in Int /\ InMonth(today, M)
  BY MonthOf
<1>2. First(M) \in Int /\ First(M + 1) \in Int /\ First(M + 1) = First(M) + Length(M)
      /\ Length(M) \in 28..31
  BY <1>1, FirstAbout, MonthLength DEF Length
<1>3. candidate = First(M) + d /\ candidate \in Int
  BY <1>2 DEF Date
<1> HIDE DEF M, candidate
<1>4. CASE candidate > today
  BY <1>1, <1>2, <1>3, <1>4 DEF NextPayday, candidate, M, InMonth
<1>5. CASE ~(candidate > today)
  <2>1. InMonth(candidate, M)
    BY <1>1, <1>2, <1>3, <1>5 DEF InMonth
  <2>2. Month(candidate) = M
    BY <1>1, <1>3, <2>1, MonthIs
  <2>3. DayOf(candidate) = d
    BY <1>2, <1>3, <2>2 DEF DayOf
  <2>4. AddMonths(candidate, 1) = First(M + 1) + d
    BY <2>2, <2>3 DEF AddMonths, Date
  <2>5. NextPayday(d) = First(M + 1) + d
    BY <1>5, <2>4 DEF NextPayday, candidate, M
  <2>6. QED
    BY <1>1, <1>2, <1>3, <1>5, <2>5 DEF InMonth
<1>6. QED
  BY <1>4, <1>5

\* The days the balance lasts, cut to whole days, reach as far as it does.
LEMMA CutReaches ==
    ASSUME NEW z \in Int, NEW burn \in Nat \ {0}, NEW k \in Nat \ {0}
    PROVE  Cut(z, burn) \in Int /\ (Cut(z, burn) >= k <=> z >= burn * k)
<1>1. k * burn = burn * k /\ burn * k \in Nat \ {0}
  OBVIOUS
<1>2. CASE z >= 0
  <2> DEFINE q == z \div burn
  <2>1. q \in Int /\ q * burn <= z /\ z < q * burn + burn
    BY DivBounds
  <2>2. Cut(z, burn) = q
    BY <1>2 DEF Cut
  <2> HIDE DEF q
  <2>3. q * burn + burn = (q + 1) * burn /\ q * burn \in Int /\ q + 1 \in Int
    BY <2>1
  <2>4. CASE q >= k
    <3>1. k * burn <= q * burn
      BY <2>1, <2>4, TimesPositive
    <3>2. QED
      BY <1>1, <2>1, <2>2, <2>3, <2>4, <3>1
  <2>5. CASE ~(q >= k)
    <3>1. q + 1 <= k
      BY <2>1, <2>5
    <3>2. (q + 1) * burn <= k * burn
      BY <2>3, <3>1, TimesPositive
    <3>3. QED
      BY <1>1, <2>1, <2>2, <2>3, <2>5, <3>2
  <2>6. QED
    BY <2>4, <2>5
<1>3. CASE z < 0
  <2> DEFINE q == (-z) \div burn
  <2>1. q \in Int /\ -z < q * burn + burn
    BY DivBounds
  <2>2. Cut(z, burn) = -q
    BY <1>3 DEF Cut
  <2> HIDE DEF q
  <2>3. 0 * burn < (q + 1) * burn
    BY <1>3, <2>1
  <2>4. 0 < q + 1
    BY <2>1, <2>3, TimesPositive
  <2>5. QED
    BY <1>1, <1>3, <2>1, <2>2, <2>4
<1>4. QED
  BY <1>2, <1>3

\* The next payday is ahead, and the forecast says what the balance allows.
LEMMA RunwayHolds == ASSUME LedgerInv PROVE RunwayHonest
<1> DEFINE S == Real(txs)
<1>0. ASSUME NEW base \in Bases PROVE Burn(S, base) = Total(Expense(LastDays(30)), base)
  <2>1. {tx \in Expense(S) : tx.at >= moment - runwayBurnWindow} = Expense(Window)
    BY DEF Expense, Income, Window, Since, scoreWindow, runwayBurnWindow
  <2>2. QED
    BY <2>1, WindowIs DEF Burn
<1> SUFFICES ASSUME NEW base \in Bases, NEW f \in Runway(txs, base), f.payday # None
    PROVE  /\ today < f.payday /\ f.payday <= today + 31
           /\ Burn(S, base) > 0 =>
                (f.makeIt <=> 30 * Balance(S, base) >= Burn(S, base) * (f.payday - today))
  BY <1>0 DEF RunwayHonest
<1>1. Ledger(S) /\ today \in Int
  BY LedgerParts, DaysAre DEF LedgerInv
<1>2. f.payday \in Paydays(S, base) /\ f.makeIt = WillMakeIt(S, base, f.payday)
  BY DEF Runway
<1>3. PICK c : f.payday = Payday(S, c)
  BY <1>2 DEF Paydays
<1>4. f.payday \in today + 1..today + 31
  <2> DEFINE paid == Of(Income(S), c)
             n == Cardinality(paid)
             d == SumFunction([tx \in paid |-> DayOf(Day(tx))]) \div n
  <2>1. Ledger(paid)
    BY <1>1, LedgerParts
  <2>2. ~(n < 2) /\ f.payday = NextPayday(d)
    BY <1>3 DEF Payday
  <2>3. n >= 1
    BY <2>1, <2>2, FS_CardinalityType DEF Ledger
  <2> HIDE DEF paid
  <2>4. d \in 1..31
    BY <2>1, <2>3, TypicalDay
  <2>5. QED
    BY <1>1, <2>2, <2>4, PaydayAhead
<1>5. ASSUME Burn(S, base) > 0
      PROVE  f.makeIt <=> 30 * Balance(S, base) >= Burn(S, base) * (f.payday - today)
  <2> DEFINE z == 30 * Balance(S, base)
             burn == Burn(S, base)
             k == f.payday - today
  <2>1. z \in Int /\ burn \in Nat \ {0} /\ k \in Nat \ {0}
    <3>1. Balance(S, base) \in Int
      BY <1>1, LedgerParts, TotalIsInt DEF Balance
    <3>2. Ledger({tx \in Expense(S) : tx.at >= moment - runwayBurnWindow})
      BY <1>1, LedgerParts, LedgerPart
    <3>3. burn \in Int
      BY <3>2, TotalIsInt DEF Burn
    <3>4. QED
      BY <1>1, <1>4, <1>5, <3>1, <3>3
  <2>2. f.makeIt <=> ~(today + Cut(z, burn) < f.payday)
    BY <1>2, <1>5 DEF WillMakeIt, ProjectedZeroDate
  <2> HIDE DEF z, burn
  <2>3. Cut(z, burn) \in Int /\ (Cut(z, burn) >= k <=> z >= burn * k)
    BY <2>1, CutReaches
  <2>4. f.makeIt <=> Cut(z, burn) >= k
    BY <1>1, <1>4, <2>2, <2>3
  <2>5. QED
    BY <2>3, <2>4 DEF z, burn
<1>6. QED
  BY <1>1, <1>4, <1>5

-----------------------------------------------------------------------------
(* Subscriptions: what is charged monthly has the right interval.          *)

\* What one note was charged for: finitely many amounts and times.
LEMMA ChargesAre ==
    ASSUME LedgerInv, NEW note
    PROVE  LET C == Charges(txs, note)
               sum == SumFunction([tx \in C |-> tx.amount]) IN
           /\ IsFiniteSet(C) /\ Cardinality(C) \in Nat /\ sum \in Int
           /\ \A tx \in C : tx.amount \in Int /\ tx.at \in Int /\ Day(tx) \in Int /\ Month(Day(tx)) \in Int
           /\ \A a \in Int : (\A tx \in C : tx.amount = a) => sum = Cardinality(C) * a
           /\ C # {} => /\ Max(Times(C)) \in Times(C) /\ \A y \in Times(C) : Max(Times(C)) >= y
                        /\ Min(Times(C)) \in Times(C) /\ \A y \in Times(C) : Min(Times(C)) <= y
<1> DEFINE C == Charges(txs, note)
           h == [tx \in C |-> tx.amount]
           d == [tx \in C |-> tx.at]
           sum == SumFunction(h)
<1>1. Ledger(C)
  <2>1. C \subseteq txs
    BY DEF Charges, Expense, Since, Real
  <2>2. QED
    BY <2>1, LedgerPart DEF LedgerInv
<1>2. IsFiniteSet(C) /\ Cardinality(C) \in Nat
      /\ \A tx \in C : tx.amount \in Int /\ tx.at \in Int /\ Day(tx) \in Int /\ Month(Day(tx)) \in Int
  BY <1>1, Recorded, MonthOf, FS_CardinalityType DEF Ledger
<1>3. /\ \A tx \in C : h[tx] = tx.amount
      /\ sum = SumOver(h, C)
      /\ Times(C) = {d[tx] : tx \in C}
  <2>1. [tx \in C |-> h[tx]] = h
    OBVIOUS
  <2>2. QED
    BY <2>1 DEF SumOver, Times
<1>4. C # {} => /\ Max(Times(C)) \in Times(C) /\ \A y \in Times(C) : Max(Times(C)) >= y
                /\ Min(Times(C)) \in Times(C) /\ \A y \in Times(C) : Min(Times(C)) <= y
  <2>1. Times(C) \subseteq Int /\ (C # {} => Times(C) # {})
    BY <1>2 DEF Times
  <2>2. IsFiniteSet(Times(C))
    <3> HIDE DEF C, d
    <3>1. QED
      BY <1>2, <1>3, ImageIsFinite
  <2>3. QED
    BY <2>1, <2>2, MaxIs, MinIs
<1> HIDE DEF C, h
<1>5. SumOver(h, C) \in Int
  BY <1>2, <1>3, SumIsInt
<1>6. ASSUME NEW a \in Int, \A tx \in C : tx.amount = a PROVE SumOver(h, C) = Cardinality(C) * a
  <2>1. \A tx \in C : h[tx] \in Int /\ a <= h[tx] /\ h[tx] <= a
    BY <1>3, <1>6
  <2>2. Cardinality(C) * a <= SumOver(h, C) /\ SumOver(h, C) <= Cardinality(C) * a
    BY <1>2, <2>1, SumBounds
  <2>3. Cardinality(C) * a \in Int
    BY <1>2
  <2>4. QED
    BY <1>5, <2>2, <2>3
<1>7. QED
  BY <1>2, <1>3, <1>4, <1>5, <1>6 DEF C, h

\* From a day of one month to that day of a later one.
LEMMA MonthsApart ==
    ASSUME NEW m \in Int, NEW k \in Nat, k >= 1
    PROVE  First(m + k) - First(m) \in 20 * k + 1..40 * k - 1
<1>1. m + k \in Int
  OBVIOUS
<1>2. /\ First(m) \in Int /\ 48 * First(m) - 1461 * (m - 1) \in -135..39
      /\ First(m + k) \in Int /\ 48 * First(m + k) - 1461 * (m + k - 1) \in -135..39
  BY <1>1, FirstAbout
<1>3. QED
  BY <1>2

\* A charge on one day of the month, in each of some months in a row.
LEMMA SpanOfMonths ==
    ASSUME LedgerInv, NEW note, NEW d \in Int, Cardinality(Charges(txs, note)) >= 3,
           \A tx \in Charges(txs, note) : DayOf(Day(tx)) = d,
           LET C == Charges(txs, note)
               months == {Month(Day(tx)) : tx \in C} IN
           Cardinality(C) = Cardinality(months) /\ months = Min(months)..Max(months)
    PROVE  LET C == Charges(txs, note)
               n == Cardinality(C) IN
           Max(Times(C)) - Min(Times(C)) \in Hours(20 * (n - 1))..Hours(40 * (n - 1))
<1> DEFINE C == Charges(txs, note)
           n == Cardinality(C)
           mo == [tx \in C |-> Month(Day(tx))]
           months == {Month(Day(tx)) : tx \in C}
           from == Min(months)
           to   == Max(months)
<1>1. /\ IsFiniteSet(C) /\ n \in Nat /\ n >= 3 /\ C # {}
      /\ \A tx \in C : tx.at \in Int /\ Day(tx) \in Int /\ Month(Day(tx)) \in Int
      /\ Max(Times(C)) \in Times(C) /\ \A y \in Times(C) : Max(Times(C)) >= y
      /\ Min(Times(C)) \in Times(C) /\ \A y \in Times(C) : Min(Times(C)) <= y
  <2>1. IsFiniteSet(C) /\ n \in Nat /\ n >= 3
    BY ChargesAre
  <2>2. C # {}
    BY <2>1, FS_EmptySet
  <2>3. QED
    BY <2>1, <2>2, ChargesAre
<1>2. n = Cardinality(months) /\ months = from..to
  OBVIOUS
<1> HIDE DEF C, n
<1>3. IsFiniteSet(months) /\ months # {} /\ months \subseteq Int
  <2>1. months = {mo[tx] : tx \in C}
    OBVIOUS
  <2> HIDE DEF mo
  <2>2. IsFiniteSet({mo[tx] : tx \in C})
    BY <1>1, ImageIsFinite
  <2>3. months # {} /\ months \subseteq Int
    BY <1>1
  <2> HIDE DEF months
  <2>4. QED
    BY <2>1, <2>2, <2>3
<1>4. from \in months /\ to \in months /\ from \in Int /\ to \in Int
      /\ \A m \in months : m \in Int /\ from <= m /\ m <= to
  <2> HIDE DEF months
  <2>1. QED
    BY <1>3, MaxIs, MinIs
<1>5. to = from + (n - 1) /\ n - 1 \in Nat /\ n - 1 >= 1
  <2> HIDE DEF months, from, to
  <2>1. Cardinality(from..to) = IF from > to THEN 0 ELSE to - from + 1
    BY <1>4, FS_Interval
  <2>2. QED
    BY <1>1, <1>2, <1>4, <2>1
<1>6. \A tx \in C : Day(tx) = First(Month(Day(tx))) + d
  BY <1>1, DayOfMonth DEF C, Date
<1>7. PICK x \in C, y \in C : Month(Day(x)) = from /\ Month(Day(y)) = to
  <2> HIDE DEF from, to
  <2>1. QED
    BY <1>4
<1>8. \A m \in months : First(from) <= First(m) /\ First(m) <= First(to) /\ First(m) \in Int
  <2>1. ASSUME NEW m \in months PROVE First(from) <= First(m) /\ First(m) <= First(to) /\ First(m) \in Int
    <3>1. m \in Int /\ from <= m /\ m <= to /\ from \in Int /\ to \in Int
      BY <1>4
    <3> HIDE DEF months, from, to
    <3>2. First(m) \in Int /\ First(from) \in Int /\ First(to) \in Int
      BY <3>1, FirstAbout
    <3>3. (from = m \/ First(from) < First(m)) /\ (m = to \/ First(m) < First(to))
      BY <3>1, FirstIncreases
    <3>4. QED
      BY <3>2, <3>3
  <2>2. QED
    BY <2>1
<1> HIDE DEF from, to
<1>9. First(from) \in Int /\ First(to) \in Int /\ Times(C) \subseteq Int
  <2>1. First(from) \in Int /\ First(to) \in Int
    BY <1>4, <1>8
  <2>2. QED
    BY <1>1, <2>1 DEF Times
<1>10. ASSUME NEW tx \in C
       PROVE  24 * (First(from) + d) <= tx.at /\ tx.at <= 24 * (First(to) + d) + 23
  <2>1. Month(Day(tx)) \in months
    OBVIOUS
  <2>2. tx.at \in Int /\ 24 * Day(tx) <= tx.at /\ tx.at <= 24 * Day(tx) + 23
    BY <1>1 DEF Day
  <2> HIDE DEF months
  <2>3. First(from) + d <= Day(tx) /\ Day(tx) <= First(to) + d
    BY <1>6, <1>8, <1>9, <2>1
  <2>4. Day(tx) \in Int
    BY <1>1
  <2>5. QED
    BY <1>9, <2>2, <2>3, <2>4
<1>11. ASSUME NEW t \in Times(C)
       PROVE  24 * (First(from) + d) <= t /\ t <= 24 * (First(to) + d) + 23
  BY <1>10, <1>11 DEF Times
<1>12. Max(Times(C)) >= 24 * (First(to) + d) /\ Min(Times(C)) <= 24 * (First(from) + d) + 23
  <2>1. Day(x) = First(from) + d /\ Day(y) = First(to) + d /\ x.at \in Int /\ y.at \in Int
    BY <1>1, <1>6, <1>7
  <2>2. x.at <= 24 * (First(from) + d) + 23 /\ y.at >= 24 * (First(to) + d)
    BY <1>9, <2>1 DEF Day
  <2>3. x.at \in Times(C) /\ y.at \in Times(C)
    BY DEF Times
  <2>4. Max(Times(C)) >= y.at /\ Min(Times(C)) <= x.at /\ Max(Times(C)) \in Int /\ Min(Times(C)) \in Int
    BY <1>1, <1>9, <2>3
  <2>5. QED
    BY <1>9, <2>1, <2>2, <2>4
<1>13. First(to) - First(from) \in 20 * (n - 1) + 1..40 * (n - 1) - 1
  BY <1>4, <1>5, MonthsApart
<1> DEFINE hi == Max(Times(C))
           lo == Min(Times(C))
<1>14. /\ hi \in Int /\ lo \in Int
       /\ 24 * (First(from) + d) <= lo /\ lo <= 24 * (First(from) + d) + 23
       /\ 24 * (First(to) + d) <= hi /\ hi <= 24 * (First(to) + d) + 23
  BY <1>1, <1>9, <1>11, <1>12
<1> HIDE DEF hi, lo
<1>15. hi - lo \in 24 * (20 * (n - 1))..24 * (40 * (n - 1))
  BY <1>1, <1>9, <1>13, <1>14
<1>16. QED
  BY <1>15 DEF C, n, hi, lo, Hours

\* Each of two charges within a fifth of the average: one is half more at most.
LEMMA WithinAFifth ==
    ASSUME NEW n \in Nat \ {0}, NEW a \in Int, NEW b \in Int, NEW sum \in Int, sum # 0,
           5 * Abs(n * a - sum) <= Abs(sum), 5 * Abs(n * b - sum) <= Abs(sum)
    PROVE  2 * Abs(a) <= 3 * Abs(b)
<1> DEFINE p == n * a
           q == n * b
<1>1. p = a * n /\ q = b * n /\ p \in Int /\ q \in Int
  OBVIOUS
<1>2. 5 * Abs(p - sum) <= Abs(sum) /\ 5 * Abs(q - sum) <= Abs(sum)
  OBVIOUS
<1> HIDE DEF p, q
<1>3. CASE sum > 0
  <2>1. 2 * p <= 3 * q /\ 0 < p /\ 0 < q
    BY <1>1, <1>2, <1>3 DEF Abs
  <2>2. 0 * n < a * n /\ 0 * n < b * n /\ (2 * a) * n <= (3 * b) * n
    BY <1>1, <2>1
  <2>3. 0 < a /\ 0 < b /\ 2 * a <= 3 * b
    <3>1. 0 \in Int /\ 2 * a \in Int /\ 3 * b \in Int
      OBVIOUS
    <3>2. QED
      BY <2>2, <3>1, TimesPositive
  <2>4. QED
    BY <2>3 DEF Abs
<1>4. CASE sum < 0
  <2>1. 3 * q <= 2 * p /\ p < 0 /\ q < 0
    BY <1>1, <1>2, <1>4 DEF Abs
  <2>2. a * n < 0 * n /\ b * n < 0 * n /\ (3 * b) * n <= (2 * a) * n
    BY <1>1, <2>1
  <2>3. a < 0 /\ b < 0 /\ 3 * b <= 2 * a
    <3>1. 0 \in Int /\ 2 * a \in Int /\ 3 * b \in Int
      OBVIOUS
    <3>2. QED
      BY <2>2, <3>1, TimesPositive
  <2>4. QED
    BY <2>3 DEF Abs
<1>5. QED
  BY <1>3, <1>4

\* Monthly charges are found, and what is found is steady.
LEMMA SubscriptionsHold == ASSUME LedgerInv PROVE SubscriptionsFound
<1> SUFFICES ASSUME NEW note \in {tx.note : tx \in txs} \ {None}
    PROVE  LET C == {tx \in Expense(LastDays(180)) : tx.note = note}
               months == {Month(Day(tx)) : tx \in C} IN
           /\ (/\ Cardinality(C) = Cardinality(months) /\ Cardinality(C) >= 3
               /\ months = Min(months)..Max(months)
               /\ \A tx \in C : tx.amount # 0
               /\ Cardinality({<<DayOf(Day(tx)), tx.amount>> : tx \in C}) = 1)
                 => note \in DetectSubscriptions(txs)
           /\ note \in DetectSubscriptions(txs) =>
                 /\ Max(Times(C)) - Min(Times(C)) >= 24 * 40
                 /\ \A a, b \in C : 2 * Abs(a.amount) <= 3 * Abs(b.amount)
  BY DEF SubscriptionsFound
<1>0. {tx \in Expense(LastDays(180)) : tx.note = note} = Charges(txs, note)
  <2>1. Since(txs, moment - subscriptionWindow) = LastDays(180)
    BY WindowOfDays DEF subscriptionWindow
  <2>2. QED
    BY <2>1 DEF Charges
<1> DEFINE C == Charges(txs, note)
           n == Cardinality(C)
           sum == SumFunction([tx \in C |-> tx.amount])
           span == Max(Times(C)) - Min(Times(C))
           months == {Month(Day(tx)) : tx \in C}
           pairs == {<<DayOf(Day(tx)), tx.amount>> : tx \in C}
<1>1. note \in DetectSubscriptions(txs) <=>
        /\ n >= 3 /\ sum # 0 /\ span \in Hours(20 * (n - 1))..Hours(40 * (n - 1))
        /\ \A tx \in C : 5 * Abs(n * tx.amount - sum) <= Abs(sum)
  BY DEF DetectSubscriptions
<1>2. /\ IsFiniteSet(C) /\ n \in Nat /\ sum \in Int
      /\ \A tx \in C : tx.amount \in Int /\ Day(tx) \in Int
      /\ \A a \in Int : (\A tx \in C : tx.amount = a) => sum = n * a
  BY ChargesAre
<1>3. ASSUME n = Cardinality(months), n >= 3, months = Min(months)..Max(months),
             \A tx \in C : tx.amount # 0, Cardinality(pairs) = 1
      PROVE  note \in DetectSubscriptions(txs)
  <2>1. PICK x \in C : TRUE
    BY <1>2, <1>3, FS_EmptySet
  <2> DEFINE d == DayOf(Day(x))
             a == x.amount
             h == [tx \in C |-> <<DayOf(Day(tx)), tx.amount>>]
  <2>2. \A tx \in C : DayOf(Day(tx)) = d /\ tx.amount = a
    <3>1. IsFiniteSet(pairs)
      <4>1. pairs = {h[tx] : tx \in C}
        OBVIOUS
      <4> HIDE DEF h, C
      <4>2. IsFiniteSet({h[tx] : tx \in C})
        BY <1>2, ImageIsFinite
      <4> HIDE DEF pairs
      <4>3. QED
        BY <4>1, <4>2
    <3>2. PICK one : pairs = {one}
      <4> HIDE DEF pairs
      <4>1. QED
        BY <1>3, <3>1, FS_Singleton
    <3>3. \A tx \in C : <<DayOf(Day(tx)), tx.amount>> = one
      BY <3>2
    <3>4. QED
      BY <3>3
  <2>3. d \in Int /\ a \in Int /\ a # 0
    BY <1>2, <1>3, DayOfMonth
  <2>4. sum = n * a
    BY <1>2, <2>2, <2>3
  <2>5. span \in Hours(20 * (n - 1))..Hours(40 * (n - 1))
    BY <1>3, <2>2, <2>3, SpanOfMonths
  <2> HIDE DEF C, n, sum, span, a, d
  <2>6. sum # 0 /\ \A tx \in C : 5 * Abs(n * tx.amount - sum) <= Abs(sum)
    <3>1. n * a \in Int /\ n * a # 0
      BY <1>2, <1>3, <2>3
    <3>2. \A tx \in C : n * tx.amount - sum = 0
      BY <2>2, <2>4, <3>1
    <3>3. QED
      BY <2>4, <3>1, <3>2 DEF Abs
  <2>7. QED
    BY <1>1, <1>3, <2>5, <2>6
<1>4. ASSUME note \in DetectSubscriptions(txs)
      PROVE  span >= 24 * 40 /\ \A a, b \in C : 2 * Abs(a.amount) <= 3 * Abs(b.amount)
  <2> HIDE DEF C, n, sum, span
  <2>1. /\ n >= 3 /\ sum # 0 /\ span \in Hours(20 * (n - 1))..Hours(40 * (n - 1))
        /\ \A tx \in C : 5 * Abs(n * tx.amount - sum) <= Abs(sum)
    BY <1>1, <1>4
  <2>2. n \in Nat \ {0} /\ span >= 24 * 40
    BY <1>2, <2>1 DEF Hours
  <2>3. QED
    BY <1>2, <2>1, <2>2, WithinAFifth
<1>5. QED
  BY <1>0, <1>3, <1>4

-----------------------------------------------------------------------------
(* LedgerInv is inductive, and it is all the figures need.                 *)

\* Nothing is recorded at first.
LEMMA LedgerInvInit == Init => LedgerInv
BY FS_EmptySet, MomentsAssumption DEF Init, LedgerInv, Ledger

\* Recording a statement keeps the ledger finite and known.
LEMMA LedgerInvStep == LedgerInv /\ [Next]_vars => LedgerInv'
<1> SUFFICES ASSUME LedgerInv, [Next]_vars PROVE LedgerInv'
  OBVIOUS
<1>1. ASSUME NEW B \in Batches, Record(B) PROVE LedgerInv'
  <2>1. Ledger(B)
    BY BatchesAssumption DEF Ledger
  <2>2. Ledger(txs \cup B)
    BY <2>1, LedgerUnion DEF LedgerInv
  <2>3. QED
    BY <1>1, <2>2 DEF LedgerInv, Ledger, Record
<1>2. CASE UNCHANGED vars
  BY <1>2 DEF LedgerInv, Ledger, vars
<1>3. QED
  BY <1>1, <1>2 DEF Next

LEMMA LedgerInvHolds == Spec => []LedgerInv
BY LedgerInvInit, LedgerInvStep, PTL DEF Spec

\* Whatever is recorded, in whatever order and amounts, the advisor's figures are
\* what its comments and its readers take them for (internal/service/advisor): the
\* score as documented, a summary that adds up, subscriptions found and found
\* rightly, a payday ahead with an exact forecast, and a pace that compares whole
\* months.
THEOREM FiguresAlwaysSound == Spec => []FiguresSound
<1>1. LedgerInv => FiguresSound
  BY ScoreHolds, SummaryHolds, SubscriptionsHold, RunwayHolds, PaceHolds DEF FiguresSound
<1>2. QED
  BY <1>1, LedgerInvHolds, PTL

=============================================================================
