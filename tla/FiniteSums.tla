----------------------------- MODULE FiniteSums -----------------------------
(***************************************************************************)
(* Facts about SumFunctionOnSet, the sum of a function over a finite set,  *)
(* that the proofs about accounts rest on.  Induction is over sets of      *)
(* numbers, with the least-element theorem of WellFoundedInduction.        *)
(***************************************************************************)
EXTENDS Integers, Functions, FiniteSets, FiniteSetTheorems, TLAPS

\* The order in which the sum takes the elements.
Pick(s) == CHOOSE x \in s : TRUE

\* g is the table of partial sums of f over the subsets of S.
IsTable(g, f, S) ==
    g = [s \in SUBSET S |-> IF s = {} THEN 0 ELSE f[Pick(s)] + g[s \ {Pick(s)}]]

LEMMA LeastElement ==
    ASSUME NEW U, U \subseteq Nat, U # {}
    PROVE  \E n \in U : \A m \in U : n <= m
  <1> DEFINE R == {ss \in Nat \X Nat : ss[1] < ss[2]}
  <1>1. IsWellFoundedOn(R, Nat)
    BY NatLessThanWellFounded, Zenon DEF OpToRel
  <1>2. \A m, n \in Nat : m < n => <<m, n>> \in R
    OBVIOUS
  <1> HIDE DEF R
  <1>3. PICK n \in U : \A m \in U : <<m, n>> \notin R
    BY <1>1, WFMin, Zenon
  <1>4. ASSUME NEW m \in U PROVE n <= m
    <2>1. m \in Nat /\ n \in Nat /\ ~(m < n)
      BY <1>2, <1>3, Zenon
    <2>2. QED
      BY <2>1
  <1>5. QED
    BY <1>4

\* A set of numbers that holds 0 and every successor holds all numbers.
LEMMA NatSetInduction ==
    ASSUME NEW T, 0 \in T, \A n \in Nat : n \in T => n + 1 \in T
    PROVE  \A n \in Nat : n \in T
  <1> DEFINE U == Nat \ T
  <1> SUFFICES ASSUME U # {} PROVE FALSE
    OBVIOUS
  <1>1. PICK n \in U : \A m \in U : n <= m
    BY LeastElement, Zenon
  <1>2. n - 1 \in Nat
    BY <1>1
  <1>3. n - 1 \in T
    BY <1>1, <1>2
  <1>4. QED
    BY <1>1, <1>2, <1>3

LEMMA SumIsTable ==
    ASSUME NEW f, NEW S
    PROVE  SumFunctionOnSet(f, S) = (CHOOSE g : IsTable(g, f, S))[S]
  BY Zenon DEF SumFunctionOnSet, FoldFunctionOnSet, MapThenFoldSet, IsTable, Pick

LEMMA PickRemoves ==
    ASSUME NEW S, IsFiniteSet(S), NEW s \in SUBSET S
    PROVE  /\ IsFiniteSet(s) /\ Cardinality(s) \in Nat /\ (Cardinality(s) = 0 <=> s = {})
           /\ Cardinality(s) <= Cardinality(S)
           /\ \A x \in s : /\ s \ {x} \in SUBSET S
                           /\ Cardinality(s \ {x}) \in Nat
                           /\ Cardinality(s \ {x}) = Cardinality(s) - 1
           /\ s # {} => Pick(s) \in s
  <1>1. IsFiniteSet(s) /\ Cardinality(s) <= Cardinality(S)
    BY FS_Subset
  <1>2. Cardinality(s) \in Nat
    BY <1>1, FS_CardinalityType
  <1>3. Cardinality(s) = 0 <=> s = {}
    BY <1>1, FS_EmptySet
  <1>4. ASSUME NEW x \in s
        PROVE  /\ s \ {x} \in SUBSET S
               /\ Cardinality(s \ {x}) \in Nat
               /\ Cardinality(s \ {x}) = Cardinality(s) - 1
    BY <1>1, FS_RemoveElement, FS_CardinalityType
  <1>5. s # {} => Pick(s) \in s
    BY DEF Pick
  <1>6. QED
    BY <1>1, <1>2, <1>3, <1>4, <1>5

LEMMA TableExists ==
    ASSUME NEW S, IsFiniteSet(S), NEW f, \A x \in S : f[x] \in Int
    PROVE  \E g \in [SUBSET S -> Int] : IsTable(g, f, S)
  <1> DEFINE Val(g, s) == IF s = {} THEN 0 ELSE f[Pick(s)] + g[s \ {Pick(s)}]
             D(k) == {s \in SUBSET S : Cardinality(s) <= k}
             T == {k \in Nat : \E g \in [SUBSET S -> Int] : \A s \in D(k) : g[s] = Val(g, s)}
  <1>0. ASSUME NEW s \in SUBSET S, s # {} PROVE f[Pick(s)] \in Int
    BY <1>0, PickRemoves
  <1>1. 0 \in T
    <2> DEFINE z == [s \in SUBSET S |-> 0]
    <2>1. z \in [SUBSET S -> Int]
      OBVIOUS
    <2>2. \A s \in D(0) : s = {}
      BY PickRemoves
    <2>3. \A s \in D(0) : z[s] = Val(z, s)
      BY <2>2
    <2>4. QED
      BY <2>1, <2>3
  <1>2. ASSUME NEW k \in Nat, k \in T PROVE k + 1 \in T
    <2>1. PICK g \in [SUBSET S -> Int] : \A s \in D(k) : g[s] = Val(g, s)
      BY <1>2
    <2> DEFINE h == [s \in SUBSET S |-> IF s \in D(k) THEN g[s] ELSE Val(g, s)]
    <2>2. ASSUME NEW s \in SUBSET S PROVE Val(g, s) \in Int
      BY <1>0, PickRemoves
    <2>3. h \in [SUBSET S -> Int]
      BY <2>2
    <2>4. ASSUME NEW s \in D(k + 1), s # {} PROVE s \ {Pick(s)} \in D(k)
      BY <2>4, PickRemoves
    <2>5. ASSUME NEW s \in D(k + 1) PROVE h[s] = Val(h, s)
      <3>1. h[s] = Val(g, s)
        BY <2>1
      <3>2. CASE s = {}
        BY <3>1, <3>2
      <3>3. CASE s # {}
        <4>1. s \ {Pick(s)} \in D(k)
          BY <2>4, <3>3
        <4>2. h[s \ {Pick(s)}] = g[s \ {Pick(s)}]
          BY <4>1
        <4>3. QED
          BY <3>1, <3>3, <4>2
      <3>4. QED
        BY <3>2, <3>3
    <2>6. \A s \in D(k + 1) : h[s] = Val(h, s)
      BY <2>5
    <2> HIDE DEF h, D, Val
    <2>7. QED
      BY <2>3, <2>6
  <1>3. Cardinality(S) \in T
    <2> HIDE DEF T
    <2>1. \A n \in Nat : n \in T
      BY <1>1, <1>2, NatSetInduction
    <2>2. QED
      BY <2>1, FS_CardinalityType
  <1>4. PICK g \in [SUBSET S -> Int] : \A s \in D(Cardinality(S)) : g[s] = Val(g, s)
    BY <1>3
  <1>5. \A s \in SUBSET S : g[s] = Val(g, s)
    BY <1>4, PickRemoves
  <1>6. IsTable(g, f, S)
    BY <1>5 DEF IsTable
  <1>7. QED
    BY <1>6

\* Two tables agree on the sets on which the summands agree.
LEMMA TablesAgree ==
    ASSUME NEW S1, IsFiniteSet(S1), NEW S2, NEW f1, NEW f2, NEW g, NEW h,
           IsTable(g, f1, S1), IsTable(h, f2, S2),
           NEW S \in SUBSET (S1 \cap S2), \A x \in S : f1[x] = f2[x]
    PROVE  g[S] = h[S]
  <1> DEFINE T == {k \in Nat : \A s \in SUBSET S : Cardinality(s) <= k => g[s] = h[s]}
  <1>0. IsFiniteSet(S) /\ S \subseteq S1 /\ S \subseteq S2
    BY FS_Subset
  <1>1. ASSUME NEW s \in SUBSET S
        PROVE  /\ g[s] = IF s = {} THEN 0 ELSE f1[Pick(s)] + g[s \ {Pick(s)}]
               /\ h[s] = IF s = {} THEN 0 ELSE f2[Pick(s)] + h[s \ {Pick(s)}]
    <2>1. s \in SUBSET S1 /\ s \in SUBSET S2
      BY <1>0
    <2>2. QED
      BY <2>1 DEF IsTable
  <1>2. 0 \in T
    <2> SUFFICES ASSUME NEW s \in SUBSET S, Cardinality(s) <= 0 PROVE g[s] = h[s]
      OBVIOUS
    <2>1. s = {}
      BY <1>0, PickRemoves
    <2>2. QED
      BY <1>1, <2>1
  <1>3. ASSUME NEW k \in Nat, k \in T PROVE k + 1 \in T
    <2> SUFFICES ASSUME NEW s \in SUBSET S, Cardinality(s) <= k + 1 PROVE g[s] = h[s]
      OBVIOUS
    <2>1. CASE s = {}
      BY <1>1, <2>1
    <2>2. CASE s # {}
      <3>1. /\ Pick(s) \in S /\ s \ {Pick(s)} \in SUBSET S
            /\ Cardinality(s \ {Pick(s)}) <= k
        BY <1>0, <2>2, PickRemoves
      <3>2. g[s \ {Pick(s)}] = h[s \ {Pick(s)}]
        BY <1>3, <3>1
      <3>3. QED
        BY <1>1, <2>2, <3>1, <3>2
    <2>3. QED
      BY <2>1, <2>2
  <1>4. Cardinality(S) \in T
    <2> HIDE DEF T
    <2>1. \A n \in Nat : n \in T
      BY <1>2, <1>3, NatSetInduction
    <2>2. QED
      BY <1>0, <2>1, FS_CardinalityType
  <1>5. QED
    BY <1>0, <1>4, FS_CardinalityType

LEMMA SumInTable ==
    ASSUME NEW S, IsFiniteSet(S), NEW f, \A x \in S : f[x] \in Int,
           NEW g, IsTable(g, f, S), NEW s \in SUBSET S
    PROVE  SumFunctionOnSet(f, s) = g[s]
  <1> DEFINE h == CHOOSE t : IsTable(t, f, s)
  <1>1. IsFiniteSet(s) /\ \A x \in s : f[x] \in Int
    BY FS_Subset
  <1>2. IsTable(h, f, s)
    BY <1>1, TableExists
  <1> HIDE DEF h
  <1>3. h[s] = g[s]
    <2>1. s \in SUBSET (s \cap S) /\ \A x \in s : f[x] = f[x]
      OBVIOUS
    <2>2. QED
      BY <1>1, <1>2, <2>1, TablesAgree
  <1>4. SumFunctionOnSet(f, s) = h[s]
    BY SumIsTable DEF h
  <1>5. QED
    BY <1>3, <1>4

-----------------------------------------------------------------------------
(* What the proofs about accounts cite. *)

\* The sum of nothing is 0, and every sum of integers is one.
LEMMA SumType ==
    ASSUME NEW S, IsFiniteSet(S), NEW f, \A x \in S : f[x] \in Int
    PROVE  SumFunctionOnSet(f, S) \in Int
  <1>1. PICK g \in [SUBSET S -> Int] : IsTable(g, f, S)
    BY TableExists
  <1>2. SumFunctionOnSet(f, S) = g[S]
    BY <1>1, SumInTable
  <1>3. QED
    BY <1>2

\* Every element can be taken out of a sum, not only the one picked first.
LEMMA SumTake ==
    ASSUME NEW S, IsFiniteSet(S), NEW f, \A x \in S : f[x] \in Int, NEW x \in S
    PROVE  SumFunctionOnSet(f, S) = f[x] + SumFunctionOnSet(f, S \ {x})
  <1>1. PICK g \in [SUBSET S -> Int] : IsTable(g, f, S)
    BY TableExists
  <1> DEFINE P(s) == \A y \in s : g[s] = f[y] + g[s \ {y}]
             T == {k \in Nat : \A s \in SUBSET S : Cardinality(s) <= k => P(s)}
  <1>2. ASSUME NEW s \in SUBSET S, s # {}
        PROVE  g[s] = f[Pick(s)] + g[s \ {Pick(s)}]
    BY <1>1, <1>2 DEF IsTable
  <1>3. 0 \in T
    <2> SUFFICES ASSUME NEW s \in SUBSET S, Cardinality(s) <= 0 PROVE P(s)
      OBVIOUS
    <2>1. s = {}
      BY PickRemoves
    <2>2. QED
      BY <2>1
  <1>4. ASSUME NEW k \in Nat, k \in T PROVE k + 1 \in T
    <2> SUFFICES ASSUME NEW s \in SUBSET S, Cardinality(s) <= k + 1, NEW y \in s
                 PROVE  g[s] = f[y] + g[s \ {y}]
      OBVIOUS
    <2> DEFINE c == Pick(s)
    <2>1. c \in s /\ s # {} /\ c \in S /\ y \in S
      BY PickRemoves
    <2>2. g[s] = f[c] + g[s \ {c}]
      BY <1>2, <2>1
    <2>3. CASE y = c
      BY <2>2, <2>3
    <2>4. CASE y # c
      <3> HIDE DEF c
      <3>1. /\ s \ {c} \in SUBSET S /\ Cardinality(s \ {c}) <= k
            /\ s \ {y} \in SUBSET S /\ Cardinality(s \ {y}) <= k
        BY <2>1, PickRemoves
      <3>2. P(s \ {c}) /\ P(s \ {y})
        BY <1>4, <3>1
      <3>3. y \in s \ {c} /\ c \in s \ {y} /\ (s \ {c}) \ {y} = (s \ {y}) \ {c}
        BY <2>1, <2>4
      <3>4. /\ g[s \ {c}] = f[y] + g[(s \ {c}) \ {y}]
            /\ g[s \ {y}] = f[c] + g[(s \ {c}) \ {y}]
        BY <3>2, <3>3
      <3>5. f[c] \in Int /\ f[y] \in Int /\ g[(s \ {c}) \ {y}] \in Int
        BY <2>1
      <3>6. QED
        BY <2>2, <3>4, <3>5
    <2>5. QED
      BY <2>3, <2>4
  <1>5. Cardinality(S) \in T
    <2> HIDE DEF T
    <2>1. \A n \in Nat : n \in T
      BY <1>3, <1>4, NatSetInduction
    <2>2. QED
      BY <2>1, FS_CardinalityType
  <1>6. P(S)
    BY <1>5, FS_CardinalityType
  <1>7. SumFunctionOnSet(f, S) = g[S] /\ SumFunctionOnSet(f, S \ {x}) = g[S \ {x}]
    BY <1>1, SumInTable
  <1>8. QED
    BY <1>6, <1>7

\* The sum depends on the summands alone.
LEMMA SumSame ==
    ASSUME NEW S, IsFiniteSet(S), NEW f, NEW h,
           \A x \in S : f[x] \in Int /\ h[x] = f[x]
    PROVE  SumFunctionOnSet(h, S) = SumFunctionOnSet(f, S)
  <1>1. PICK g \in [SUBSET S -> Int] : IsTable(g, f, S)
    BY TableExists
  <1>2. PICK k \in [SUBSET S -> Int] : IsTable(k, h, S)
    BY TableExists
  <1>3. SumFunctionOnSet(f, S) = g[S] /\ SumFunctionOnSet(h, S) = k[S]
    BY <1>1, <1>2, SumInTable
  <1>4. k[S] = g[S]
    <2>1. S \in SUBSET (S \cap S) /\ \A x \in S : h[x] = f[x]
      OBVIOUS
    <2>2. QED
      BY <1>1, <1>2, <2>1, TablesAgree
  <1>5. QED
    BY <1>3, <1>4

\* Changing one summand changes the sum by as much.
LEMMA SumChange ==
    ASSUME NEW S, IsFiniteSet(S), NEW f, NEW h, NEW x \in S,
           \A y \in S : f[y] \in Int /\ h[y] \in Int,
           \A y \in S \ {x} : h[y] = f[y]
    PROVE  SumFunctionOnSet(h, S) = SumFunctionOnSet(f, S) + h[x] - f[x]
  <1>1. IsFiniteSet(S \ {x})
    BY FS_RemoveElement
  <1>2. SumFunctionOnSet(h, S \ {x}) = SumFunctionOnSet(f, S \ {x})
    BY <1>1, SumSame
  <1>3. SumFunctionOnSet(f, S \ {x}) \in Int
    BY <1>1, SumType
  <1>4. /\ SumFunctionOnSet(f, S) = f[x] + SumFunctionOnSet(f, S \ {x})
        /\ SumFunctionOnSet(h, S) = h[x] + SumFunctionOnSet(h, S \ {x})
    BY SumTake
  <1>5. QED
    BY <1>2, <1>3, <1>4

\* Zeros add up to zero.
LEMMA SumZero ==
    ASSUME NEW S, IsFiniteSet(S), NEW f, \A x \in S : f[x] = 0
    PROVE  SumFunctionOnSet(f, S) = 0
  <1> DEFINE g == [s \in SUBSET S |-> 0]
  <1>1. IsTable(g, f, S)
    <2>1. ASSUME NEW s \in SUBSET S, s # {} PROVE f[Pick(s)] + g[s \ {Pick(s)}] = 0
      <3>1. Pick(s) \in S /\ s \ {Pick(s)} \in SUBSET S
        BY <2>1, PickRemoves
      <3>2. QED
        BY <3>1
    <2>2. QED
      BY <2>1 DEF IsTable
  <1>2. \A x \in S : f[x] \in Int
    OBVIOUS
  <1>3. SumFunctionOnSet(f, S) = g[S]
    <2> HIDE DEF g
    <2>1. QED
      BY <1>1, <1>2, SumInTable
  <1>4. QED
    BY <1>3

\* Summands that are not negative add up to at least each of them.
LEMMA SumBound ==
    ASSUME NEW S, IsFiniteSet(S), NEW f, \A x \in S : f[x] \in Nat
    PROVE  /\ SumFunctionOnSet(f, S) \in Nat
           /\ \A x \in S : f[x] <= SumFunctionOnSet(f, S)
  <1> DEFINE T == {k \in Nat : \A s \in SUBSET S :
                                 Cardinality(s) <= k => SumFunctionOnSet(f, s) \in Nat}
  <1>0. \A s \in SUBSET S : IsFiniteSet(s) /\ \A x \in s : f[x] \in Int
    BY FS_Subset
  <1>1. 0 \in T
    <2> SUFFICES ASSUME NEW s \in SUBSET S, Cardinality(s) <= 0
                 PROVE  SumFunctionOnSet(f, s) \in Nat
      OBVIOUS
    <2>1. s = {}
      BY PickRemoves
    <2>2. SumFunctionOnSet(f, s) = 0
      BY <1>0, <2>1, SumZero
    <2>3. QED
      BY <2>2
  <1>2. ASSUME NEW k \in Nat, k \in T PROVE k + 1 \in T
    <2> SUFFICES ASSUME NEW s \in SUBSET S, Cardinality(s) <= k + 1
                 PROVE  SumFunctionOnSet(f, s) \in Nat
      OBVIOUS
    <2>1. CASE s = {}
      BY <1>0, <2>1, SumZero
    <2>2. CASE s # {}
      <3>1. PICK x \in s : TRUE
        BY <2>2
      <3>2. s \ {x} \in SUBSET S /\ Cardinality(s \ {x}) <= k /\ f[x] \in Nat
        BY <3>1, PickRemoves
      <3>3. SumFunctionOnSet(f, s \ {x}) \in Nat
        BY <1>2, <3>2
      <3>4. SumFunctionOnSet(f, s) = f[x] + SumFunctionOnSet(f, s \ {x})
        BY <1>0, SumTake
      <3>5. QED
        BY <3>2, <3>3, <3>4
    <2>3. QED
      BY <2>1, <2>2
  <1>3. \A s \in SUBSET S : SumFunctionOnSet(f, s) \in Nat
    <2>1. Cardinality(S) \in T
      <3> HIDE DEF T
      <3>1. \A n \in Nat : n \in T
        BY <1>1, <1>2, NatSetInduction
      <3>2. QED
        BY <3>1, FS_CardinalityType
    <2>2. QED
      BY <2>1, PickRemoves
  <1>4. ASSUME NEW x \in S PROVE f[x] <= SumFunctionOnSet(f, S)
    <2>1. SumFunctionOnSet(f, S) = f[x] + SumFunctionOnSet(f, S \ {x})
      BY <1>0, SumTake
    <2>2. SumFunctionOnSet(f, S \ {x}) \in Nat
      BY <1>3
    <2>3. QED
      BY <2>1, <2>2
  <1>5. QED
    BY <1>3, <1>4
=============================================================================
