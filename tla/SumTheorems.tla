---------------------------- MODULE SumTheorems ----------------------------
(***************************************************************************)
(* What the models' sums are: SumFunctionOnSet(f, S) of Functions, the sum *)
(* of f[x] over a finite set S of whole numbers.                           *)
(*                                                                         *)
(* The community modules define a sum by a recursive function on the       *)
(* subsets of S that takes out one chosen element after the other.  The    *)
(* lemmas say that this function exists, that the order of the choices     *)
(* does not matter, and what proofs about the models need of it.           *)
(*                                                                         *)
(* Induction is by sets: a set of naturals that has 0 and is closed under  *)
(* successors has them all, because its complement would have a least      *)
(* member.  Stated so it takes no predicate as a parameter.                *)
(***************************************************************************)
EXTENDS Integers, Functions, FiniteSets, FiniteSetTheorems, WellFoundedInduction, TLAPS

-----------------------------------------------------------------------------
(* Induction *)

\* A set of natural numbers has a least member.
LEMMA LeastNatural ==
  ASSUME NEW T \in SUBSET Nat, T # {}
  PROVE  \E m \in T : \A k \in T : m <= k
<1> DEFINE R == {p \in Nat \X Nat : p[1] < p[2]}
<1>1. IsWellFoundedOn(R, Nat)
  BY NatLessThanWellFounded DEF OpToRel
<1>2. \A x, y \in Nat : (<<y, x>> \in R) <=> y < x
  OBVIOUS
<1> HIDE DEF R
<1>3. \E x \in T : \A y \in T : ~(<<y, x>> \in R)
  BY <1>1, WFMin
<1>4. PICK m \in T : \A k \in T : ~(<<k, m>> \in R)
  BY <1>3
<1>5. \A k \in T : ~(k < m)
  BY <1>2, <1>4
<1> QED BY <1>5

\* Induction over the natural numbers.
LEMMA NaturalSetInduction ==
  ASSUME NEW T \in SUBSET Nat, 0 \in T, \A n \in T : n + 1 \in T
  PROVE  T = Nat
<1> SUFFICES ASSUME Nat \ T # {} PROVE FALSE
  OBVIOUS
<1>1. PICK m \in Nat \ T : \A k \in Nat \ T : m <= k
  BY LeastNatural
<1>2. m # 0 /\ m - 1 \in Nat
  BY <1>1
<1>3. m - 1 \in T
  BY <1>1, <1>2
<1> QED BY <1>1, <1>2, <1>3

\* Induction over a finite set, one element at a time.
LEMMA FiniteSetInduction ==
  ASSUME NEW S, IsFiniteSet(S), NEW Good, {} \in Good,
         \A A \in SUBSET S, x \in S : A \in Good /\ x \notin A => A \cup {x} \in Good
  PROVE  S \in Good
<1> DEFINE T == {n \in Nat : \A A \in SUBSET S : Cardinality(A) = n => A \in Good}
<1>1. \A A \in SUBSET S : IsFiniteSet(A)
  BY FS_Subset
<1>2. 0 \in T
  BY <1>1, FS_EmptySet
<1>3. ASSUME NEW n \in T PROVE n + 1 \in T
  <2> SUFFICES ASSUME NEW A \in SUBSET S, Cardinality(A) = n + 1 PROVE A \in Good
    OBVIOUS
  <2>1. n \in Nat /\ A # {}
    BY FS_EmptySet
  <2>2. PICK x \in A : TRUE
    BY <2>1
  <2> DEFINE B == A \ {x}
  <2>3. Cardinality(B) = n
    <3>1. Cardinality(B) = Cardinality(A) - 1
      BY <1>1, FS_RemoveElement
    <3> QED BY <2>1, <3>1
  <2>4. B \in Good /\ x \notin B /\ x \in S /\ B \in SUBSET S
    BY <2>3
  <2>5. A = B \cup {x}
    OBVIOUS
  <2> HIDE DEF B
  <2> QED BY <2>4, <2>5
<1>4. T = Nat
  <2> HIDE DEF T
  <2>1. T \in SUBSET Nat BY DEF T
  <2> QED BY <1>2, <1>3, <2>1, NaturalSetInduction
<1>5. Cardinality(S) \in T
  BY <1>4, FS_CardinalityType
<1> QED BY <1>5

-----------------------------------------------------------------------------
(* The recursive function *)

Picked(s) == CHOOSE x \in s : TRUE

LEMMA PickedIsMember == ASSUME NEW s, s # {} PROVE Picked(s) \in s
BY DEF Picked

\* t is the table of the sums of f over the members of a set of sets.
Tabulates(t, f, Sets) ==
  t = [s \in Sets |-> IF s = {} THEN 0 ELSE f[Picked(s)] + t[s \ {Picked(s)}]]

\* The sum is an entry of a table, if there is one.
LEMMA SumIsTabulated ==
  ASSUME NEW f, NEW S
  PROVE  SumFunctionOnSet(f, S) = (CHOOSE t : Tabulates(t, f, SUBSET S))[S]
BY DEF SumFunctionOnSet, FoldFunctionOnSet, MapThenFoldSet, Tabulates, Picked

\* Tables exist: that of sets of n + 1 elements is read off that of n.
LEMMA TableExists ==
  ASSUME NEW f, NEW S, IsFiniteSet(S)
  PROVE  \E t : Tabulates(t, f, SUBSET S)
<1> DEFINE Small(n) == {s \in SUBSET S : Cardinality(s) <= n}
           Tabulated(n) == \E t : Tabulates(t, f, Small(n))
           T == {n \in Nat : Tabulated(n)}
<1>1. \A s \in SUBSET S : IsFiniteSet(s) /\ Cardinality(s) \in Nat
  BY FS_Subset, FS_CardinalityType
<1>2. 0 \in T
  <2>1. \A s \in Small(0) : s = {}
    BY <1>1, FS_EmptySet
  <2> DEFINE t == [s \in Small(0) |-> 0]
  <2>2. Tabulates(t, f, Small(0))
    BY <2>1 DEF Tabulates
  <2> QED BY <2>2
<1>3. ASSUME NEW n \in T PROVE n + 1 \in T
  <2>1. n \in Nat
    OBVIOUS
  <2>2. PICK t : Tabulates(t, f, Small(n))
    OBVIOUS
  <2> DEFINE u == [s \in Small(n + 1) |->
                     IF s = {} THEN 0 ELSE f[Picked(s)] + t[s \ {Picked(s)}]]
  <2>3. ASSUME NEW s \in Small(n + 1), s # {}
        PROVE  u[s \ {Picked(s)}] = t[s \ {Picked(s)}]
    <3> DEFINE r == s \ {Picked(s)}
    <3>1. r \in SUBSET S /\ Cardinality(r) = Cardinality(s) - 1
      BY <1>1, <2>3, PickedIsMember, FS_RemoveElement
    <3>2. r \in Small(n) /\ r \in Small(n + 1)
      BY <3>1, <2>1, <1>1
    <3> HIDE DEF r, Small
    <3>3. t[r] = IF r = {} THEN 0 ELSE f[Picked(r)] + t[r \ {Picked(r)}]
      BY <3>2, <2>2 DEF Tabulates
    <3>4. u[r] = IF r = {} THEN 0 ELSE f[Picked(r)] + t[r \ {Picked(r)}]
      BY <3>2
    <3> QED BY <3>3, <3>4 DEF r
  <2>4. Tabulates(u, f, Small(n + 1))
    <3> HIDE DEF Small
    <3> QED BY <2>3 DEF Tabulates
  <2>5. Tabulated(n + 1)
    <3> HIDE DEF u, Small
    <3> QED BY <2>4
  <2> HIDE DEF Tabulated
  <2> QED BY <2>1, <2>5
<1>4. T = Nat
  <2> HIDE DEF T
  <2>1. T \in SUBSET Nat BY DEF T
  <2> QED BY <1>2, <1>3, <2>1, NaturalSetInduction
<1>5. Cardinality(S) \in T
  BY <1>4, FS_CardinalityType
<1>6. Small(Cardinality(S)) = SUBSET S
  BY FS_Subset
<1> HIDE DEF Small
<1> QED BY <1>5, <1>6

\* Two tables agree where they both have entries.
LEMMA TablesAgree ==
  ASSUME NEW f, NEW g, NEW t, NEW u, NEW S, NEW R,
         IsFiniteSet(S), R \in SUBSET S, \A x \in R : f[x] = g[x],
         Tabulates(t, f, SUBSET S), Tabulates(u, g, SUBSET R)
  PROVE  t[R] = u[R]
<1> DEFINE T == {n \in Nat : \A s \in SUBSET R : Cardinality(s) = n => t[s] = u[s]}
<1>1. \A s \in SUBSET R : IsFiniteSet(s) /\ Cardinality(s) \in Nat
  BY FS_Subset, FS_CardinalityType
<1>2. ASSUME NEW s \in SUBSET R
      PROVE  /\ t[s] = IF s = {} THEN 0 ELSE f[Picked(s)] + t[s \ {Picked(s)}]
             /\ u[s] = IF s = {} THEN 0 ELSE g[Picked(s)] + u[s \ {Picked(s)}]
  BY DEF Tabulates
<1>3. 0 \in T
  BY <1>1, <1>2, FS_EmptySet
<1>4. ASSUME NEW n \in T PROVE n + 1 \in T
  <2> SUFFICES ASSUME NEW s \in SUBSET R, Cardinality(s) = n + 1 PROVE t[s] = u[s]
    OBVIOUS
  <2>1. n \in Nat /\ s # {}
    BY FS_EmptySet
  <2>2. Picked(s) \in s
    BY <2>1, PickedIsMember
  <2>3. Cardinality(s \ {Picked(s)}) = n
    <3>1. Cardinality(s \ {Picked(s)}) = Cardinality(s) - 1
      BY <1>1, <2>2, FS_RemoveElement
    <3> QED BY <2>1, <3>1
  <2>4. t[s \ {Picked(s)}] = u[s \ {Picked(s)}]
    BY <2>3
  <2>5. f[Picked(s)] = g[Picked(s)]
    BY <2>2
  <2> QED BY <1>2, <2>1, <2>4, <2>5
<1>5. T = Nat
  <2> HIDE DEF T
  <2>1. T \in SUBSET Nat BY DEF T
  <2> QED BY <1>3, <1>4, <2>1, NaturalSetInduction
<1>6. Cardinality(R) \in T
  BY <1>1, <1>5
<1> QED BY <1>6

\* A sum is an entry of a table.
LEMMA SumIsEntry ==
  ASSUME NEW f, NEW S, IsFiniteSet(S)
  PROVE  \E t : Tabulates(t, f, SUBSET S) /\ SumFunctionOnSet(f, S) = t[S]
<1> DEFINE t == CHOOSE v : Tabulates(v, f, SUBSET S)
<1>1. Tabulates(t, f, SUBSET S)
  <2>1. \E v : Tabulates(v, f, SUBSET S)
    BY TableExists
  <2> QED BY <2>1
<1>2. SumFunctionOnSet(f, S) = t[S]
  BY SumIsTabulated
<1> HIDE DEF t
<1> QED BY <1>1, <1>2

\* The equation a sum is defined by.
LEMMA SumEquation ==
  ASSUME NEW f, NEW S, IsFiniteSet(S)
  PROVE  SumFunctionOnSet(f, S) =
           IF S = {} THEN 0
           ELSE f[Picked(S)] + SumFunctionOnSet(f, S \ {Picked(S)})
<1>1. PICK R : R = S \ {Picked(S)}
  OBVIOUS
<1>2. IsFiniteSet(R) /\ R \in SUBSET S
  BY <1>1, FS_Subset
<1>3. PICK t : Tabulates(t, f, SUBSET S) /\ SumFunctionOnSet(f, S) = t[S]
  BY SumIsEntry
<1>4. PICK u : Tabulates(u, f, SUBSET R) /\ SumFunctionOnSet(f, R) = u[R]
  BY <1>2, SumIsEntry
<1>5. t[R] = u[R]
  <2>1. PICK g : g = f
    OBVIOUS
  <2>2. Tabulates(u, g, SUBSET R) /\ \A x \in R : f[x] = g[x]
    BY <1>4, <2>1
  <2> QED BY <1>2, <1>3, <2>2, TablesAgree
<1>6. t[S] = IF S = {} THEN 0 ELSE f[Picked(S)] + t[S \ {Picked(S)}]
  BY <1>3 DEF Tabulates
<1> QED BY <1>1, <1>3, <1>4, <1>5, <1>6

\* Only the summands matter.
LEMMA SumOfEqual ==
  ASSUME NEW f, NEW g, NEW S, IsFiniteSet(S), \A x \in S : f[x] = g[x]
  PROVE  SumFunctionOnSet(f, S) = SumFunctionOnSet(g, S)
<1>1. PICK t : Tabulates(t, f, SUBSET S) /\ SumFunctionOnSet(f, S) = t[S]
  BY SumIsEntry
<1>2. PICK u : Tabulates(u, g, SUBSET S) /\ SumFunctionOnSet(g, S) = u[S]
  BY SumIsEntry
<1>3. S \in SUBSET S
  OBVIOUS
<1>4. t[S] = u[S]
  BY <1>1, <1>2, <1>3, TablesAgree
<1> QED BY <1>1, <1>2, <1>4

\* The sum of whole numbers is one.
LEMMA SumType ==
  ASSUME NEW S, IsFiniteSet(S), NEW f, \A x \in S : f[x] \in Int
  PROVE  SumFunctionOnSet(f, S) \in Int
<1> DEFINE T == {n \in Nat : \A s \in SUBSET S :
                   Cardinality(s) = n => SumFunctionOnSet(f, s) \in Int}
<1>1. \A s \in SUBSET S : IsFiniteSet(s) /\ Cardinality(s) \in Nat
  BY FS_Subset, FS_CardinalityType
<1>2. 0 \in T
  <2> SUFFICES ASSUME NEW s \in SUBSET S, Cardinality(s) = 0
               PROVE  SumFunctionOnSet(f, s) \in Int
    OBVIOUS
  <2>1. s = {} /\ IsFiniteSet(s)
    BY <1>1, FS_EmptySet
  <2>2. SumFunctionOnSet(f, s) = 0
    BY <2>1, SumEquation
  <2> QED BY <2>2
<1>3. ASSUME NEW n \in T PROVE n + 1 \in T
  <2> SUFFICES ASSUME NEW s \in SUBSET S, Cardinality(s) = n + 1
               PROVE  SumFunctionOnSet(f, s) \in Int
    OBVIOUS
  <2>1. n \in Nat /\ s # {} /\ Picked(s) \in s /\ IsFiniteSet(s)
    BY <1>1, FS_EmptySet, PickedIsMember
  <2>2. Cardinality(s \ {Picked(s)}) = n
    <3>1. Cardinality(s \ {Picked(s)}) = Cardinality(s) - 1
      BY <2>1, FS_RemoveElement
    <3> QED BY <2>1, <3>1
  <2>3. SumFunctionOnSet(f, s \ {Picked(s)}) \in Int
    BY <2>2
  <2>4. f[Picked(s)] \in Int
    BY <2>1
  <2>5. SumFunctionOnSet(f, s) = f[Picked(s)] + SumFunctionOnSet(f, s \ {Picked(s)})
    BY <2>1, SumEquation
  <2> QED BY <2>3, <2>4, <2>5
<1>4. T = Nat
  <2> HIDE DEF T
  <2>1. T \in SUBSET Nat BY DEF T
  <2> QED BY <1>2, <1>3, <2>1, NaturalSetInduction
<1>5. Cardinality(S) \in T
  BY <1>1, <1>4
<1> QED BY <1>5

\* Any element may be taken out first.
LEMMA SumTakeOut ==
  ASSUME NEW S, IsFiniteSet(S), NEW f, \A x \in S : f[x] \in Int, NEW e \in S
  PROVE  SumFunctionOnSet(f, S) = f[e] + SumFunctionOnSet(f, S \ {e})
<1> DEFINE Sum(s) == SumFunctionOnSet(f, s)
           T == {n \in Nat : \A s \in SUBSET S :
                   Cardinality(s) = n => \A x \in s : Sum(s) = f[x] + Sum(s \ {x})}
<1>1. \A s \in SUBSET S : IsFiniteSet(s) /\ Cardinality(s) \in Nat
  BY FS_Subset, FS_CardinalityType
<1>2. \A s \in SUBSET S : Sum(s) \in Int
  BY <1>1, SumType
<1>3. 0 \in T
  BY <1>1, FS_EmptySet
<1>4. ASSUME NEW n \in T PROVE n + 1 \in T
  <2> SUFFICES ASSUME NEW s \in SUBSET S, Cardinality(s) = n + 1, NEW x \in s
               PROVE  Sum(s) = f[x] + Sum(s \ {x})
    OBVIOUS
  <2>1. PICK y : y = Picked(s)
    OBVIOUS
  <2>2. n \in Nat /\ s # {} /\ y \in s /\ IsFiniteSet(s)
    BY <1>1, <2>1, PickedIsMember
  <2>3. Sum(s) = f[y] + Sum(s \ {y})
    BY <2>1, <2>2, SumEquation
  <2>4. CASE x = y
    BY <2>3, <2>4
  <2>5. CASE x # y
    <3>1. /\ Cardinality(s \ {x}) = Cardinality(s) - 1
          /\ Cardinality(s \ {y}) = Cardinality(s) - 1
      BY <2>2, FS_RemoveElement
    <3>2. Cardinality(s \ {x}) = n /\ Cardinality(s \ {y}) = n
      BY <3>1, <2>2
    <3>3. Sum(s \ {y}) = f[x] + Sum((s \ {y}) \ {x})
      <4>1. x \in s \ {y} /\ s \ {y} \in SUBSET S
        BY <2>5
      <4> QED BY <4>1, <3>2
    <3>4. Sum(s \ {x}) = f[y] + Sum((s \ {x}) \ {y})
      <4>1. y \in s \ {x} /\ s \ {x} \in SUBSET S
        BY <2>2, <2>5
      <4> QED BY <4>1, <3>2
    <3>5. (s \ {y}) \ {x} = (s \ {x}) \ {y}
      OBVIOUS
    <3>6. f[x] \in Int /\ f[y] \in Int /\ Sum((s \ {x}) \ {y}) \in Int
      <4>1. (s \ {x}) \ {y} \in SUBSET S
        OBVIOUS
      <4> QED BY <4>1, <2>2, <1>2
    <3>7. PICK rest \in Int : rest = Sum((s \ {x}) \ {y})
      BY <3>6
    <3>8. Sum(s \ {y}) = f[x] + rest /\ Sum(s \ {x}) = f[y] + rest
      BY <3>3, <3>4, <3>5, <3>7
    <3> QED BY <2>3, <3>6, <3>8
  <2> QED BY <2>4, <2>5
<1>5. T = Nat
  <2> HIDE DEF T
  <2>1. T \in SUBSET Nat BY DEF T
  <2> QED BY <1>3, <1>4, <2>1, NaturalSetInduction
<1>6. Cardinality(S) \in T
  BY <1>1, <1>5
<1> QED BY <1>6

-----------------------------------------------------------------------------
(* What the proofs about the models cite *)

\* The sum over nothing.
LEMMA SumOfNothing == ASSUME NEW f PROVE SumFunctionOnSet(f, {}) = 0
BY SumEquation, FS_EmptySet

\* The sum over one more element.
LEMMA SumOfOneMore ==
  ASSUME NEW S, IsFiniteSet(S), NEW e, e \notin S,
         NEW f, \A x \in S \cup {e} : f[x] \in Int
  PROVE  SumFunctionOnSet(f, S \cup {e}) = f[e] + SumFunctionOnSet(f, S)
<1>1. PICK R : R = S \cup {e}
  OBVIOUS
<1>2. IsFiniteSet(R) /\ e \in R /\ R \ {e} = S
  BY <1>1, FS_AddElement
<1>3. \A x \in R : f[x] \in Int
  BY <1>1
<1>4. SumFunctionOnSet(f, R) = f[e] + SumFunctionOnSet(f, R \ {e})
  BY <1>2, <1>3, SumTakeOut
<1> QED BY <1>1, <1>2, <1>4

\* The sum over one element.
LEMMA SumOfOne ==
  ASSUME NEW e, NEW f, f[e] \in Int
  PROVE  SumFunctionOnSet(f, {e}) = f[e]
<1>1. IsFiniteSet({e}) /\ {e} \ {e} = {}
  BY FS_Singleton
<1>2. SumFunctionOnSet(f, {e}) = f[e] + SumFunctionOnSet(f, {e} \ {e})
  BY <1>1, SumTakeOut
<1> QED BY <1>1, <1>2, SumOfNothing

\* Summands are added up pairwise.
LEMMA SumOfSums ==
  ASSUME NEW S, IsFiniteSet(S), NEW f, NEW g, NEW h,
         \A x \in S : f[x] \in Int /\ g[x] \in Int /\ h[x] = f[x] + g[x]
  PROVE  SumFunctionOnSet(h, S) = SumFunctionOnSet(f, S) + SumFunctionOnSet(g, S)
<1> DEFINE Adds(A) == SumFunctionOnSet(h, A) = SumFunctionOnSet(f, A) + SumFunctionOnSet(g, A)
           Good == {A \in SUBSET S : Adds(A)}
<1>1. {} \in Good
  <2>1. Adds({})
    BY SumOfNothing
  <2> QED BY <2>1
<1>2. ASSUME NEW A \in SUBSET S, NEW x \in S, A \in Good, x \notin A
      PROVE  A \cup {x} \in Good
  <2>1. Adds(A) /\ IsFiniteSet(A)
    BY <1>2, FS_Subset
  <2>2. /\ \A y \in A \cup {x} : f[y] \in Int /\ g[y] \in Int /\ h[y] \in Int
        /\ h[x] = f[x] + g[x]
    BY <1>2
  <2>3. /\ SumFunctionOnSet(f, A) \in Int /\ SumFunctionOnSet(g, A) \in Int
        /\ f[x] \in Int /\ g[x] \in Int
    BY <2>1, <2>2, SumType
  <2>4. /\ SumFunctionOnSet(f, A \cup {x}) = f[x] + SumFunctionOnSet(f, A)
        /\ SumFunctionOnSet(g, A \cup {x}) = g[x] + SumFunctionOnSet(g, A)
        /\ SumFunctionOnSet(h, A \cup {x}) = h[x] + SumFunctionOnSet(h, A)
    BY <1>2, <2>1, <2>2, SumOfOneMore
  <2>5. Adds(A \cup {x})
    BY <2>1, <2>2, <2>3, <2>4
  <2> HIDE DEF Adds
  <2> QED BY <2>5
<1>3. S \in Good
  <2> HIDE DEF Good
  <2> QED BY <1>1, <1>2, FiniteSetInduction
<1> QED BY <1>3

\* A larger summand makes no smaller sum.
LEMMA SumIsMonotone ==
  ASSUME NEW S, IsFiniteSet(S), NEW f, NEW g,
         \A x \in S : f[x] \in Int /\ g[x] \in Int /\ f[x] <= g[x]
  PROVE  SumFunctionOnSet(f, S) <= SumFunctionOnSet(g, S)
<1> DEFINE Below(A) == SumFunctionOnSet(f, A) <= SumFunctionOnSet(g, A)
           Good == {A \in SUBSET S : Below(A)}
<1>1. {} \in Good
  <2>1. Below({})
    BY SumOfNothing
  <2> QED BY <2>1
<1>2. ASSUME NEW A \in SUBSET S, NEW x \in S, A \in Good, x \notin A
      PROVE  A \cup {x} \in Good
  <2>1. Below(A) /\ IsFiniteSet(A)
    BY <1>2, FS_Subset
  <2>2. \A y \in A \cup {x} : f[y] \in Int /\ g[y] \in Int /\ f[y] <= g[y]
    BY <1>2
  <2>3. /\ SumFunctionOnSet(f, A) \in Int /\ SumFunctionOnSet(g, A) \in Int
        /\ f[x] \in Int /\ g[x] \in Int /\ f[x] <= g[x]
    BY <2>1, <2>2, SumType
  <2>4. /\ SumFunctionOnSet(f, A \cup {x}) = f[x] + SumFunctionOnSet(f, A)
        /\ SumFunctionOnSet(g, A \cup {x}) = g[x] + SumFunctionOnSet(g, A)
    BY <1>2, <2>1, <2>2, SumOfOneMore
  <2>5. Below(A \cup {x})
    BY <2>1, <2>3, <2>4
  <2> HIDE DEF Below
  <2> QED BY <2>5
<1>3. S \in Good
  <2> HIDE DEF Good
  <2> QED BY <1>1, <1>2, FiniteSetInduction
<1> QED BY <1>3

\* Zeros add up to zero.
LEMMA SumOfZeros ==
  ASSUME NEW S, IsFiniteSet(S), NEW f, \A x \in S : f[x] = 0
  PROVE  SumFunctionOnSet(f, S) = 0
<1> DEFINE Good == {A \in SUBSET S : SumFunctionOnSet(f, A) = 0}
<1>1. {} \in Good
  BY SumOfNothing
<1>2. ASSUME NEW A \in SUBSET S, NEW x \in S, A \in Good, x \notin A
      PROVE  A \cup {x} \in Good
  <2>1. IsFiniteSet(A) /\ SumFunctionOnSet(f, A) = 0
    BY <1>2, FS_Subset
  <2>2. f[x] = 0 /\ \A y \in A \cup {x} : f[y] \in Int
    BY <1>2
  <2>3. SumFunctionOnSet(f, A \cup {x}) = f[x] + SumFunctionOnSet(f, A)
    BY <1>2, <2>1, <2>2, SumOfOneMore
  <2> QED BY <2>1, <2>2, <2>3
<1>3. S \in Good
  <2> HIDE DEF Good
  <2> QED BY <1>1, <1>2, FiniteSetInduction
<1> QED BY <1>3

\* Naturals add up to a natural.
LEMMA SumOfNaturals ==
  ASSUME NEW S, IsFiniteSet(S), NEW f, \A x \in S : f[x] \in Nat
  PROVE  SumFunctionOnSet(f, S) \in Nat
<1> DEFINE zero == [x \in S |-> 0]
<1>1. SumFunctionOnSet(zero, S) = 0
  BY SumOfZeros
<1>2. SumFunctionOnSet(zero, S) <= SumFunctionOnSet(f, S)
  BY SumIsMonotone
<1>3. SumFunctionOnSet(f, S) \in Int
  BY SumType
<1> QED BY <1>1, <1>2, <1>3

\* A summand that is alone in not being zero is the sum.
LEMMA SumOfLone ==
  ASSUME NEW S, IsFiniteSet(S), NEW e \in S,
         NEW f, f[e] \in Int, \A x \in S \ {e} : f[x] = 0
  PROVE  SumFunctionOnSet(f, S) = f[e]
<1>1. IsFiniteSet(S \ {e}) /\ \A x \in S : f[x] \in Int
  BY FS_Subset
<1>2. SumFunctionOnSet(f, S \ {e}) = 0
  BY <1>1, SumOfZeros
<1> QED BY <1>1, <1>2, SumTakeOut

=============================================================================
