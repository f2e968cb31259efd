----------------------------- MODULE SumProofs -----------------------------
(***************************************************************************)
(* What SumFunction of the community modules does, for every finite set:   *)
(* it is unfolded from its definition, and induction goes over the set of  *)
(* the subsets for which a fact holds, since a predicate cannot be handed  *)
(* to a theorem.                                                           *)
(***************************************************************************)
EXTENDS FiniteSetsExt, FiniteSetTheorems, TLAPS

LEMMA NatMin ==
    ASSUME NEW T \in SUBSET Nat, T # {}
    PROVE  \E n \in T : \A m \in T : n <= m
<1>1. PICK n \in T : \A m \in T : <<m, n>> \notin OpToRel(<, Nat)
  BY NatLessThanWellFounded, WFMin
<1>2. ASSUME NEW m \in T PROVE n <= m
  <2> DEFINE Less == {ss \in Nat \X Nat : ss[1] < ss[2]}
  <2>1. <<m, n>> \notin Less
    BY <1>1, <1>2 DEF OpToRel
  <2>2. <<m, n>> \in Nat \X Nat /\ <<m, n>>[1] = m /\ <<m, n>>[2] = n
    BY <1>2
  <2>3. ~(m < n)
    BY <2>1, <2>2
  <2> QED
    BY <2>3, <1>2
<1> QED
  BY <1>1, <1>2

LEMMA OneLess ==
    ASSUME NEW T, IsFiniteSet(T), NEW x \in T, NEW n \in Nat, Cardinality(T) = n + 1
    PROVE  Cardinality(T \ {x}) = n
<1>1. Cardinality(T \ {x}) = Cardinality(T) - 1
  BY FS_RemoveElement
<1> QED
  BY <1>1

LEMMA NatSteps ==
    ASSUME NEW T, 0 \in T, \A n \in Nat : n \in T => n + 1 \in T
    PROVE  Nat \subseteq T
<1> DEFINE Out == Nat \ T
<1>1. SUFFICES ASSUME Out # {} PROVE FALSE
  OBVIOUS
<1>2. PICK n \in Out : \A m \in Out : n <= m
  BY <1>1, NatMin
<1>3. n # 0 /\ n - 1 \in Nat /\ n - 1 \in T
  BY <1>2
<1> QED
  BY <1>3

\* Induction over the subsets of a finite set.
LEMMA FiniteSteps ==
    ASSUME NEW S, IsFiniteSet(S), NEW Q,
           {} \in Q,
           \A T \in SUBSET S : T # {} /\ (\A x \in T : T \ {x} \in Q) => T \in Q
    PROVE  SUBSET S \subseteq Q
<1> DEFINE N == {n \in Nat : \A T \in SUBSET S : Cardinality(T) = n => T \in Q}
<1>0. \A T \in SUBSET S : IsFiniteSet(T)
  BY FS_Subset
<1>1. 0 \in N
  BY <1>0, FS_EmptySet
<1>2. ASSUME NEW n \in Nat, n \in N PROVE n + 1 \in N
  <2> SUFFICES ASSUME NEW T \in SUBSET S, Cardinality(T) = n + 1 PROVE T \in Q
    OBVIOUS
  <2>1. IsFiniteSet(T) /\ T # {}
    BY <1>0, FS_EmptySet
  <2>2. \A x \in T : Cardinality(T \ {x}) = n
    BY <2>1, OneLess
  <2> QED
    BY <1>2, <2>1, <2>2
<1>3. Nat \subseteq N
  <2> HIDE DEF N
  <2> QED BY <1>1, <1>2, NatSteps
<1> QED
  BY <1>0, <1>3, FS_CardinalityType

Pick(s) == CHOOSE x \in s : TRUE

SumsUp(f, S, g) ==
    g = [s \in SUBSET S |-> IF s = {} THEN 0 ELSE f[Pick(s)] + g[s \ {Pick(s)}]]

LEMMA SumUnfolded ==
    ASSUME NEW f, NEW S
    PROVE  SumFunctionOnSet(f, S) = (CHOOSE g : SumsUp(f, S, g))[S]
BY DEF SumFunctionOnSet, FoldFunctionOnSet, MapThenFoldSet, SumsUp, Pick

LEMMA PickIn == \A s : s # {} => Pick(s) \in s
BY DEF Pick

\* There is such a function on the subsets of a finite set, 
LEMMA SumsExist ==
    ASSUME NEW f, NEW S, IsFiniteSet(S)
    PROVE  \E g : SumsUp(f, S, g)
<1> DEFINE Small(n) == {s \in SUBSET S : Cardinality(s) <= n}
           Body(g, s) == IF s = {} THEN 0 ELSE f[Pick(s)] + g[s \ {Pick(s)}]
           N == {n \in Nat : \E g : g = [s \in Small(n) |-> Body(g, s)]}
<1>1. 0 \in N
  <2>1. \A s \in Small(0) : s = {}
    BY FS_Subset, FS_EmptySet, FS_CardinalityType
  <2>2. [s \in Small(0) |-> 0] = [s \in Small(0) |-> Body([x \in Small(0) |-> 0], s)]
    BY <2>1
  <2> QED
    BY <2>2
<1>2. ASSUME NEW n \in Nat, n \in N PROVE n + 1 \in N
  <2>1. PICK g : g = [s \in Small(n) |-> Body(g, s)]
    BY <1>2
  <2> DEFINE h == [s \in Small(n + 1) |-> Body(g, s)]
  <2>2. ASSUME NEW s \in Small(n + 1), s # {}
        PROVE  /\ s \ {Pick(s)} \in Small(n)
               /\ s \ {Pick(s)} \in Small(n + 1)
    <3>1. IsFiniteSet(s) /\ Pick(s) \in s
      BY <2>2, FS_Subset, PickIn
    <3>2. Cardinality(s \ {Pick(s)}) = Cardinality(s) - 1 /\ Cardinality(s) \in Nat
      BY <3>1, FS_RemoveElement, FS_CardinalityType
    <3> QED
      BY <3>2
  <2>3. ASSUME NEW s \in Small(n + 1) PROVE Body(g, s) = Body(h, s)
    <3>1. CASE s = {}
      BY <3>1
    <3>2. CASE s # {}
      <4>1. h[s \ {Pick(s)}] = Body(g, s \ {Pick(s)})
        BY <2>2, <3>2
      <4>2. g[s \ {Pick(s)}] = Body(g, s \ {Pick(s)})
        BY <2>1, <2>2, <3>2
      <4> QED
        BY <4>1, <4>2
    <3> QED
      BY <3>1, <3>2
  <2>4. h = [s \in Small(n + 1) |-> Body(h, s)]
    <3> HIDE DEF Body
    <3> QED BY <2>3
  <2> QED
    <3> HIDE DEF h, Body, Small
    <3> QED BY <2>4
<1>3. Cardinality(S) \in N
  <2>1. Nat \subseteq N
    <3> HIDE DEF N
    <3> QED BY <1>1, <1>2, NatSteps
  <2> QED
    BY <2>1, FS_CardinalityType
<1>4. PICK g : g = [s \in Small(Cardinality(S)) |-> Body(g, s)]
  BY <1>3
<1>5. Small(Cardinality(S)) = SUBSET S
  BY FS_Subset
<1>6. g = [s \in SUBSET S |-> Body(g, s)]
  BY <1>4, <1>5
<1> QED
  BY <1>6 DEF SumsUp

\* and it does not depend on the set.
LEMMA SumsAgree ==
    ASSUME NEW f, NEW S, IsFiniteSet(S), NEW T \in SUBSET S, NEW g, NEW h,
           SumsUp(f, S, g), SumsUp(f, T, h)
    PROVE  g[T] = h[T]
<1> DEFINE Q == {s \in SUBSET T : g[s] = h[s]}
<1>1. {} \in Q
  BY DEF SumsUp
<1>2. ASSUME NEW s \in SUBSET T, s # {}, \A x \in s : s \ {x} \in Q PROVE s \in Q
  BY <1>2, PickIn DEF SumsUp
<1>3. SUBSET T \subseteq Q
  <2> HIDE DEF Q
  <2> QED BY <1>1, <1>2, FS_Subset, FiniteSteps
<1> QED
  BY <1>3

LEMMA SumEmpty == \A f : SumFunctionOnSet(f, {}) = 0
<1> SUFFICES ASSUME NEW f PROVE SumFunctionOnSet(f, {}) = 0
  OBVIOUS
<1>1. PICK g : SumsUp(f, {}, g)
  BY SumsExist, FS_EmptySet
<1>2. SumsUp(f, {}, CHOOSE k : SumsUp(f, {}, k))
  BY <1>1
<1> QED
  BY <1>2, SumUnfolded DEF SumsUp

LEMMA SumPicks ==
    ASSUME NEW f, NEW S, IsFiniteSet(S)
    PROVE  \A T \in SUBSET S : T # {} =>
              /\ Pick(T) \in T
              /\ SumFunctionOnSet(f, T) = f[Pick(T)] + SumFunctionOnSet(f, T \ {Pick(T)})
<1> SUFFICES ASSUME NEW T \in SUBSET S, T # {}
             PROVE  /\ Pick(T) \in T
                    /\ SumFunctionOnSet(f, T) = f[Pick(T)] + SumFunctionOnSet(f, T \ {Pick(T)})
  OBVIOUS
<1> DEFINE R == T \ {Pick(T)}
           g == CHOOSE k : SumsUp(f, T, k)
           h == CHOOSE k : SumsUp(f, R, k)
<1>1. IsFiniteSet(T) /\ IsFiniteSet(R) /\ R \in SUBSET T
  BY FS_Subset
<1>2. SumsUp(f, T, g)
  BY <1>1, SumsExist
<1>3. SumsUp(f, R, h)
  BY <1>1, SumsExist
<1>4. g[R] = h[R]
  BY <1>1, <1>2, <1>3, SumsAgree
<1>5. g[T] = f[Pick(T)] + g[R]
  BY <1>2 DEF SumsUp
<1> QED
  BY <1>4, <1>5, SumUnfolded, PickIn

\* Equal summands have equal sums,
LEMMA SumAgree ==
    ASSUME NEW S, IsFiniteSet(S), NEW f, NEW g, \A x \in S : f[x] = g[x]
    PROVE  SumFunctionOnSet(f, S) = SumFunctionOnSet(g, S)
<1> DEFINE Q == {T \in SUBSET S : SumFunctionOnSet(f, T) = SumFunctionOnSet(g, T)}
<1>1. {} \in Q
  BY SumEmpty
<1>2. ASSUME NEW T \in SUBSET S, T # {}, \A x \in T : T \ {x} \in Q PROVE T \in Q
  <2>1. Pick(T) \in T /\ SumFunctionOnSet(f, T) = f[Pick(T)] + SumFunctionOnSet(f, T \ {Pick(T)})
    BY <1>2, SumPicks
  <2>2. SumFunctionOnSet(g, T) = g[Pick(T)] + SumFunctionOnSet(g, T \ {Pick(T)})
    BY <1>2, SumPicks
  <2> QED
    BY <1>2, <2>1, <2>2
<1>3. SUBSET S \subseteq Q
  <2> HIDE DEF Q
  <2> QED BY <1>1, <1>2, FiniteSteps
<1> QED
  BY <1>3

\* sums of integers are integers,
LEMMA SumInt ==
    ASSUME NEW S, IsFiniteSet(S), NEW f, \A x \in S : f[x] \in Int
    PROVE  SumFunctionOnSet(f, S) \in Int
<1> DEFINE Q == {T \in SUBSET S : SumFunctionOnSet(f, T) \in Int}
<1>1. {} \in Q
  BY SumEmpty
<1>2. ASSUME NEW T \in SUBSET S, T # {}, \A x \in T : T \ {x} \in Q PROVE T \in Q
  <2>1. Pick(T) \in T /\ SumFunctionOnSet(f, T) = f[Pick(T)] + SumFunctionOnSet(f, T \ {Pick(T)})
    BY <1>2, SumPicks
  <2> QED
    BY <1>2, <2>1
<1>3. SUBSET S \subseteq Q
  <2> HIDE DEF Q
  <2> QED BY <1>1, <1>2, FiniteSteps
<1> QED
  BY <1>3

\* and whichever summand is taken out first, the sum is the same.
LEMMA SumRemove ==
    ASSUME NEW S, IsFiniteSet(S), NEW f, \A x \in S : f[x] \in Int, NEW y \in S
    PROVE  SumFunctionOnSet(f, S) = f[y] + SumFunctionOnSet(f, S \ {y})
<1> DEFINE Sum(T) == SumFunctionOnSet(f, T)
           Q == {T \in SUBSET S : \A x \in T : Sum(T) = f[x] + Sum(T \ {x})}
<1>1. {} \in Q
  OBVIOUS
<1>2. ASSUME NEW T \in SUBSET S, T # {}, \A x \in T : T \ {x} \in Q PROVE T \in Q
  <2> SUFFICES ASSUME NEW x \in T PROVE Sum(T) = f[x] + Sum(T \ {x})
    OBVIOUS
  <2> DEFINE z == Pick(T)
  <2>1. z \in T /\ Sum(T) = f[z] + Sum(T \ {z})
    BY <1>2, SumPicks
  <2>2. CASE x # z
    <3>1. x \in T \ {z} /\ z \in T \ {x} /\ (T \ {z}) \ {x} = (T \ {x}) \ {z}
      BY <2>1, <2>2
    <3>2. Sum(T \ {z}) = f[x] + Sum((T \ {x}) \ {z})
      BY <1>2, <2>1, <3>1
    <3>3. Sum(T \ {x}) = f[z] + Sum((T \ {x}) \ {z})
      BY <1>2, <3>1
    <3>4. Sum((T \ {x}) \ {z}) \in Int /\ f[x] \in Int /\ f[z] \in Int
      BY <2>1, FS_Subset, SumInt
    <3> HIDE DEF Sum, z
    <3> QED
      BY <2>1, <3>2, <3>3, <3>4
  <2> QED
    BY <2>1, <2>2
<1>3. SUBSET S \subseteq Q
  <2> HIDE DEF Q
  <2> QED BY <1>1, <1>2, FiniteSteps
<1> QED
  BY <1>3

-----------------------------------------------------------------------------
(***************************************************************************)
(* What the proofs of the models cite.                                     *)
(***************************************************************************)

\* Only one summand differs.
LEMMA SumChange ==
    ASSUME NEW S, IsFiniteSet(S), NEW y \in S,
           NEW f, \A x \in S : f[x] \in Int, NEW g, g[y] \in Int,
           \A x \in S \ {y} : g[x] = f[x]
    PROVE  SumFunctionOnSet(g, S) = SumFunctionOnSet(f, S) - f[y] + g[y]
<1>1. IsFiniteSet(S \ {y})
  BY FS_Subset
<1>2. SumFunctionOnSet(g, S \ {y}) = SumFunctionOnSet(f, S \ {y})
  BY <1>1, SumAgree
<1>3. SumFunctionOnSet(f, S) = f[y] + SumFunctionOnSet(f, S \ {y})
  BY SumRemove
<1>4. SumFunctionOnSet(g, S) = g[y] + SumFunctionOnSet(g, S \ {y})
  <2>1. \A x \in S : g[x] \in Int
    OBVIOUS
  <2> QED
    BY <2>1, SumRemove
<1>5. SumFunctionOnSet(f, S \ {y}) \in Int
  BY <1>1, SumInt
<1> QED
  BY <1>2, <1>3, <1>4, <1>5

\* One summand more.
LEMMA SumAdd ==
    ASSUME NEW S, IsFiniteSet(S), NEW y, y \notin S,
           NEW f, NEW g, \A x \in S : g[x] = f[x] /\ f[x] \in Int, g[y] \in Int
    PROVE  SumFunctionOnSet(g, S \cup {y}) = SumFunctionOnSet(f, S) + g[y]
<1> DEFINE T == S \cup {y}
<1>1. IsFiniteSet(T) /\ y \in T /\ T \ {y} = S /\ \A x \in T : g[x] \in Int
  BY FS_AddElement
<1>2. SumFunctionOnSet(g, T) = g[y] + SumFunctionOnSet(g, S)
  BY <1>1, SumRemove
<1>3. SumFunctionOnSet(g, S) = SumFunctionOnSet(f, S) /\ SumFunctionOnSet(f, S) \in Int
  BY SumAgree, SumInt
<1> QED
  BY <1>2, <1>3

\* A sum of natural numbers is one, and none of them is more than it.
LEMMA SumNat ==
    ASSUME NEW S, IsFiniteSet(S), NEW f, \A x \in S : f[x] \in Nat
    PROVE  /\ SumFunctionOnSet(f, S) \in Nat
           /\ \A x \in S : f[x] <= SumFunctionOnSet(f, S)
<1> DEFINE Q == {T \in SUBSET S : SumFunctionOnSet(f, T) \in Nat}
<1>1. {} \in Q
  BY SumEmpty
<1>2. ASSUME NEW T \in SUBSET S, T # {}, \A x \in T : T \ {x} \in Q PROVE T \in Q
  <2>1. Pick(T) \in T /\ SumFunctionOnSet(f, T) = f[Pick(T)] + SumFunctionOnSet(f, T \ {Pick(T)})
    BY <1>2, SumPicks
  <2> QED
    BY <1>2, <2>1
<1>3. SUBSET S \subseteq Q
  <2> HIDE DEF Q
  <2> QED BY <1>1, <1>2, FiniteSteps
<1>4. ASSUME NEW x \in S PROVE f[x] <= SumFunctionOnSet(f, S)
  <2>1. SumFunctionOnSet(f, S) = f[x] + SumFunctionOnSet(f, S \ {x})
    BY SumRemove
  <2>2. SumFunctionOnSet(f, S \ {x}) \in Nat
    BY <1>3
  <2> QED
    BY <2>1, <2>2
<1> QED
  BY <1>3, <1>4

\* A sum of zeros is zero.
LEMMA SumZero ==
    ASSUME NEW S, IsFiniteSet(S), NEW f, \A x \in S : f[x] = 0
    PROVE  SumFunctionOnSet(f, S) = 0
<1> DEFINE Q == {T \in SUBSET S : SumFunctionOnSet(f, T) = 0}
<1>1. {} \in Q
  BY SumEmpty
<1>2. ASSUME NEW T \in SUBSET S, T # {}, \A x \in T : T \ {x} \in Q PROVE T \in Q
  <2>1. Pick(T) \in T /\ SumFunctionOnSet(f, T) = f[Pick(T)] + SumFunctionOnSet(f, T \ {Pick(T)})
    BY <1>2, SumPicks
  <2> QED
    BY <1>2, <2>1
<1>3. SUBSET S \subseteq Q
  <2> HIDE DEF Q
  <2> QED BY <1>1, <1>2, FiniteSteps
<1> QED
  BY <1>3

\* A sequence gets one more.
LEMMA SumGrows ==
    ASSUME NEW n \in Nat, NEW f, DOMAIN f = 1..n, \A i \in 1..n : f[i] \in Int,
           NEW g, DOMAIN g = 1..(n + 1), \A i \in 1..n : g[i] = f[i], g[n + 1] \in Int
    PROVE  SumFunction(g) = SumFunction(f) + g[n + 1]
<1>1. IsFiniteSet(1..n) /\ n + 1 \notin 1..n /\ 1..(n + 1) = (1..n) \cup {n + 1}
  <2>1. IsFiniteSet(1..n)
    BY FS_Interval
  <2>2. n + 1 \notin 1..n
    OBVIOUS
  <2>3. 1..(n + 1) = (1..n) \cup {n + 1}
    OBVIOUS
  <2> QED
    BY <2>1, <2>2, <2>3
<1>2. SumFunctionOnSet(g, (1..n) \cup {n + 1}) = SumFunctionOnSet(f, 1..n) + g[n + 1]
  BY <1>1, SumAdd
<1> QED
  BY <1>1, <1>2 DEF SumFunction
=============================================================================
