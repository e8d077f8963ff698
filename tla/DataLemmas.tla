---------------------------- MODULE DataLemmas -----------------------------
(***************************************************************************)
(* What a sum over a finite set is worth: SumFunctionOnSet of the          *)
(* community modules, whose recursive definition picks the elements in an  *)
(* order of its own.  An induction is made here by taking the smallest     *)
(* set, or the least number, for which a claim would fail.  And what lists *)
(* have at some of their places.                                           *)
(***************************************************************************)
EXTENDS Lists, Functions, FiniteSetsExt, FiniteSetTheorems, SequenceTheorems,
        WellFoundedInduction, TLAPS

-----------------------------------------------------------------------------
(* Least counterexamples.                                                  *)

\* Among finite sets there is a smallest one.
LEMMA Smallest ==
  ASSUME NEW S, IsFiniteSet(S), NEW T \in SUBSET SUBSET S, T # {}
  PROVE  \E U \in T : \A V \in T : V \subseteq U => V = U
<1>1. T \subseteq FiniteSubsetsOf(S)
  BY FS_FiniteSubsetsOfFinite
<1>2. PICK U \in T : \A V \in T : <<V, U>> \notin StrictSubsetOrdering(S)
  BY <1>1, FS_StrictSubsetOrderingWellFounded, WFMin
<1> QED
  BY <1>2 DEF StrictSubsetOrdering

\* Among natural numbers there is a least one.
LEMMA Least ==
  ASSUME NEW T \in SUBSET Nat, T # {}
  PROVE  \E m \in T : \A n \in T : m <= n
<1> DEFINE R == OpToRel(<, Nat)
<1>1. IsWellFoundedOn(R, Nat)
  BY NatLessThanWellFounded
<1>2. \A x, y \in Nat : x < y => <<x, y>> \in R
  BY DEF OpToRel
<1> HIDE DEF R
<1>3. PICK m \in T : \A n \in T : <<n, m>> \notin R
  BY <1>1, WFMin
<1>4. \A n \in T : ~(n < m)
  BY <1>2, <1>3
<1>5. m \in Nat /\ \A n \in T : n \in Nat
  OBVIOUS
<1> QED
  BY <1>4, <1>5

\* A finite set of integers has a greatest element.
LEMMA Greatest ==
  ASSUME NEW S, \A x \in S : x \in Int, IsFiniteSet(S), S # {}
  PROVE  \E m \in S : \A n \in S : m >= n
<1> DEFINE T == {t \in SUBSET S : t # {} /\ ~\E m \in t : \A n \in t : m >= n}
<1> SUFFICES ASSUME T # {} PROVE FALSE
  OBVIOUS
<1>1. PICK t \in T : \A v \in T : v \subseteq t => v = t
  <2>1. T \in SUBSET SUBSET S
    OBVIOUS
  <2> HIDE DEF T
  <2> QED
    BY <2>1, Smallest
<1>2. PICK x \in t : TRUE
  BY <1>1
<1>3. t \subseteq Int /\ t \ {x} \notin T
  BY <1>1, <1>2
<1>4. CASE t = {x}
  BY <1>1, <1>3, <1>4
<1>5. CASE t # {x}
  <2>1. PICK m \in t \ {x} : \A n \in t \ {x} : m >= n
    BY <1>1, <1>2, <1>3, <1>5
  <2>2. \E k \in t : \A n \in t : k >= n
    <3>1. CASE m >= x
      BY <2>1, <3>1
    <3>2. CASE ~(m >= x)
      <4>1. x \in Int /\ m \in Int /\ x >= m
        BY <1>2, <1>3, <2>1, <3>2
      <4>2. \A n \in t : x >= n
        BY <1>2, <1>3, <2>1, <4>1
      <4> QED
        BY <1>2, <4>2
    <3> QED
      BY <3>1, <3>2
  <2> QED
    BY <1>1, <2>2
<1> QED
  BY <1>4, <1>5

\* A function to the integers is greatest somewhere on a finite set, and takes finitely many
\* values there.
LEMMA GreatestAt ==
  ASSUME NEW D, IsFiniteSet(D), D # {}, NEW f, \A x \in D : f[x] \in Int
  PROVE  \E m \in D : \A n \in D : f[n] <= f[m]
<1> DEFINE V == {f[m] : m \in D}
           g == [x \in D |-> f[x]]
<1>1. g \in Surjection(D, V)
  BY DEF Surjection
<1>2. IsFiniteSet(V)
  <2> HIDE DEF V, g
  <2> QED
    BY <1>1, FS_Surjection
<1>3. V # {} /\ \A x \in V : x \in Int
  OBVIOUS
<1>4. PICK v \in V : \A x \in V : v >= x
  <2> HIDE DEF V
  <2> QED
    BY <1>2, <1>3, Greatest
<1>5. PICK m \in D : v = f[m]
  BY <1>4
<1>6. \A n \in D : f[n] \in V
  OBVIOUS
<1>7. \A n \in D : f[n] <= f[m]
  <2> HIDE DEF V
  <2> QED
    BY <1>3, <1>4, <1>5, <1>6
<1> QED
  BY <1>7

-----------------------------------------------------------------------------
(* The recursion.                                                          *)

\* The element a sum takes first, and the function that the library's definition iterates.
Picked(s) == CHOOSE x \in s : TRUE

Iterated(f, S) ==
  CHOOSE g : g = [s \in SUBSET S |-> IF s = {} THEN 0 ELSE f[Picked(s)] + g[s \ {Picked(s)}]]

\* g sums f over every subset of S.
Sums(f, S, g) ==
  \A s \in SUBSET S : g[s] = IF s = {} THEN 0 ELSE f[Picked(s)] + g[s \ {Picked(s)}]

LEMMA SumIterated ==
  ASSUME NEW f, NEW S
  PROVE  SumFunctionOnSet(f, S) = Iterated(f, S)[S]
BY DEF SumFunctionOnSet, FoldFunctionOnSet, MapThenFoldSet, Iterated, Picked

LEMMA PickedIn == \A s : s # {} => Picked(s) \in s
BY DEF Picked

\* f sends every element of S to an integer.
Summable(f, S) == IsFiniteSet(S) /\ \A x \in S : f[x] \in Int

\* Sums agree on the sets they share.
LEMMA SumsAgree ==
  ASSUME NEW S, IsFiniteSet(S), NEW f, NEW g, Sums(f, S, g),
         NEW R, NEW h, Sums(f, R, h), NEW s \in SUBSET S, s \subseteq R
  PROVE  g[s] = h[s]
<1> DEFINE T == {t \in SUBSET S : t \subseteq R /\ g[t] # h[t]}
<1> SUFFICES ASSUME T # {} PROVE FALSE
  OBVIOUS
<1>1. PICK t \in T : \A v \in T : v \subseteq t => v = t
  <2>1. T \in SUBSET SUBSET S
    OBVIOUS
  <2> HIDE DEF T
  <2> QED
    BY <2>1, Smallest
<1>2. t # {}
  BY DEF Sums
<1>3. Picked(t) \in t /\ t \ {Picked(t)} \notin T
  BY <1>1, <1>2, PickedIn
<1>4. g[t \ {Picked(t)}] = h[t \ {Picked(t)}]
  BY <1>3
<1> QED
  BY <1>2, <1>4 DEF Sums

LEMMA SumsExist ==
  ASSUME NEW S, NEW f, Summable(f, S)
  PROVE  \E g \in [SUBSET S -> Int] : Sums(f, S, g)
<1> DEFINE Eq(g, s) == g[s] = IF s = {} THEN 0 ELSE f[Picked(s)] + g[s \ {Picked(s)}]
           Upto(n) == {g \in [SUBSET S -> Int] :
                         \A s \in SUBSET S : Cardinality(s) <= n => Eq(g, s)}
           T == {n \in Nat : Upto(n) = {}}
<1>0. IsFiniteSet(S) /\ \A s \in SUBSET S : IsFiniteSet(s) /\ Cardinality(s) \in Nat
  BY FS_Subset, FS_CardinalityType DEF Summable
<1>1. T = {}
  <2> SUFFICES ASSUME T # {} PROVE FALSE
    OBVIOUS
  <2>1. PICK m \in T : \A n \in T : m <= n
    <3>1. T \in SUBSET Nat
      OBVIOUS
    <3> HIDE DEF T
    <3> QED
      BY <3>1, Least
  <2>2. m \in Nat /\ \A n \in Nat : n < m => Upto(n) # {}
    <3> HIDE DEF Upto
    <3>1. m \in Nat /\ \A n \in Nat : Upto(n) = {} => m <= n
      BY <2>1
    <3> QED
      BY <3>1
  <2>3. \A n : Upto(n) \subseteq [SUBSET S -> Int]
    OBVIOUS
  <2>4. \E g \in [SUBSET S -> Int] : m > 0 => g \in Upto(m - 1)
    <3> HIDE DEF Upto
    <3>1. CASE m = 0
      <4>1. [s \in SUBSET S |-> 0] \in [SUBSET S -> Int]
        OBVIOUS
      <4>2. ~(m > 0)
        BY <3>1
      <4> QED
        BY <4>1, <4>2
    <3>2. CASE m > 0
      <4>1. m - 1 \in Nat /\ m - 1 < m
        BY <2>2, <3>2
      <4>2. PICK g \in Upto(m - 1) : TRUE
        BY <2>2, <4>1
      <4> QED
        BY <2>3, <4>2
    <3>3. m = 0 \/ m > 0
      BY <2>2
    <3> QED
      BY <3>1, <3>2, <3>3
  <2>5. PICK g \in [SUBSET S -> Int] : m > 0 => g \in Upto(m - 1)
    <3> HIDE DEF Upto
    <3> QED
      BY <2>4
  <2> DEFINE h == [s \in SUBSET S |-> IF s = {} THEN 0 ELSE f[Picked(s)] + g[s \ {Picked(s)}]]
  <2>6. \A s \in SUBSET S : s # {} =>
          Picked(s) \in s /\ f[Picked(s)] \in Int /\ s \ {Picked(s)} \in SUBSET S
    BY PickedIn DEF Summable
  <2>7. h \in [SUBSET S -> Int]
    BY <2>6
  <2>8. ASSUME NEW s \in SUBSET S, Cardinality(s) <= m PROVE Eq(h, s)
    <3>1. CASE s = {}
      BY <3>1
    <3>2. CASE s # {}
      <4> DEFINE r == s \ {Picked(s)}
      <4>1. Cardinality(r) = Cardinality(s) - 1
        BY <1>0, <2>6, <3>2, FS_RemoveElement
      <4>2. r \in SUBSET S /\ Cardinality(r) \in Nat /\ m > 0 /\ Cardinality(r) <= m - 1
        BY <1>0, <2>6, <2>8, <3>2, <4>1
      <4>3. Eq(g, r)
        BY <2>5, <4>2
      <4>4. h[r] = g[r]
        BY <4>2, <4>3
      <4> QED
        BY <3>2, <4>4
    <3> QED
      BY <3>1, <3>2
  <2>9. h \in Upto(m)
    BY <2>7, <2>8
  <2> QED
    BY <2>9
<1>2. PICK g \in [SUBSET S -> Int] :
        \A s \in SUBSET S : Cardinality(s) <= Cardinality(S) => Eq(g, s)
  <2>1. Cardinality(S) \in Nat /\ Cardinality(S) \notin T
    BY <1>0, <1>1
  <2>2. Upto(Cardinality(S)) # {}
    BY <2>1
  <2> QED
    BY <2>2
<1>3. \A s \in SUBSET S : Cardinality(s) <= Cardinality(S)
  BY <1>0, FS_Subset
<1> QED
  BY <1>2, <1>3 DEF Sums

\* The library's sum is the value of such a function.
LEMMA SumAt ==
  ASSUME NEW S, NEW f, Summable(f, S), NEW g, Sums(f, S, g), NEW s \in SUBSET S
  PROVE  SumFunctionOnSet(f, s) = g[s]
<1>1. Summable(f, s)
  BY FS_Subset DEF Summable
<1>2. PICK k \in [SUBSET s -> Int] : Sums(f, s, k)
  BY <1>1, SumsExist
<1>3. k = [t \in SUBSET s |-> IF t = {} THEN 0 ELSE f[Picked(t)] + k[t \ {Picked(t)}]]
  BY <1>2 DEF Sums
<1> DEFINE h == Iterated(f, s)
<1>4. h = [t \in SUBSET s |-> IF t = {} THEN 0 ELSE f[Picked(t)] + h[t \ {Picked(t)}]]
  BY <1>3 DEF Iterated
<1> HIDE DEF h
<1>5. Sums(f, s, h)
  BY <1>4 DEF Sums
<1>6. h[s] = g[s]
  BY <1>1, <1>5, SumsAgree DEF Summable
<1> QED
  BY <1>6, SumIterated DEF h

-----------------------------------------------------------------------------
(* The laws of sums.                                                       *)

LEMMA SumEmpty == ASSUME NEW f PROVE SumFunctionOnSet(f, {}) = 0
<1>1. Summable(f, {})
  BY FS_EmptySet DEF Summable
<1>2. PICK g \in [SUBSET {} -> Int] : Sums(f, {}, g)
  BY <1>1, SumsExist
<1>3. g[{}] = 0
  BY <1>2 DEF Sums
<1> QED
  BY <1>1, <1>2, <1>3, SumAt

LEMMA SumInt ==
  ASSUME NEW S, NEW f, Summable(f, S)
  PROVE  SumFunctionOnSet(f, S) \in Int
<1>1. PICK g \in [SUBSET S -> Int] : Sums(f, S, g)
  BY SumsExist
<1> QED
  BY <1>1, SumAt

\* Any element may be taken first.
LEMMA SumsAny ==
  ASSUME NEW S, NEW f, Summable(f, S), NEW g \in [SUBSET S -> Int], Sums(f, S, g),
         NEW s \in SUBSET S, NEW x \in s
  PROVE  g[s] = f[x] + g[s \ {x}]
<1> DEFINE T == {t \in SUBSET S : \E y \in t : g[t] # f[y] + g[t \ {y}]}
<1>1. T = {}
  <2> SUFFICES ASSUME T # {} PROVE FALSE
    OBVIOUS
  <2>1. PICK t \in T : \A v \in T : v \subseteq t => v = t
    <3>1. T \in SUBSET SUBSET S
      OBVIOUS
    <3> HIDE DEF T
    <3> QED
      BY <3>1, Smallest DEF Summable
  <2>2. PICK y \in t : g[t] # f[y] + g[t \ {y}]
    BY <2>1
  <2> DEFINE p == Picked(t)
  <2>3. p \in t /\ g[t] = f[p] + g[t \ {p}]
    BY <2>1, <2>2, PickedIn DEF Sums
  <2> HIDE DEF p
  <2>4. p # y
    BY <2>2, <2>3
  <2>5. t \ {p} \notin T /\ t \ {y} \notin T
    BY <2>1, <2>2, <2>3
  <2>6. g[t \ {p}] = f[y] + g[(t \ {p}) \ {y}]
    BY <2>1, <2>2, <2>4, <2>5
  <2>7. g[t \ {y}] = f[p] + g[(t \ {y}) \ {p}]
    BY <2>1, <2>3, <2>4, <2>5
  <2>8. (t \ {p}) \ {y} = (t \ {y}) \ {p}
    OBVIOUS
  <2>9. f[p] \in Int /\ f[y] \in Int /\ g[(t \ {p}) \ {y}] \in Int
    BY <2>1, <2>2, <2>3 DEF Summable
  <2>10. g[t] = f[p] + (f[y] + g[(t \ {p}) \ {y}])
    BY <2>3, <2>6
  <2>11. g[t \ {y}] = f[p] + g[(t \ {p}) \ {y}]
    BY <2>7, <2>8
  <2>12. g[t] = f[y] + g[t \ {y}]
    BY <2>9, <2>10, <2>11
  <2> QED
    BY <2>2, <2>12
<1> QED
  BY <1>1

LEMMA SumRemove ==
  ASSUME NEW S, NEW f, Summable(f, S), NEW x \in S
  PROVE  SumFunctionOnSet(f, S) = f[x] + SumFunctionOnSet(f, S \ {x})
<1>1. PICK g \in [SUBSET S -> Int] : Sums(f, S, g)
  BY SumsExist
<1>2. S \in SUBSET S /\ S \ {x} \in SUBSET S
  OBVIOUS
<1>3. g[S] = f[x] + g[S \ {x}]
  BY <1>1, <1>2, SumsAny
<1> QED
  BY <1>1, <1>2, <1>3, SumAt

\* Sums of functions that agree on the set are equal.
LEMMA SumEqual ==
  ASSUME NEW S, NEW f, NEW h, Summable(f, S), \A x \in S : f[x] = h[x]
  PROVE  SumFunctionOnSet(f, S) = SumFunctionOnSet(h, S)
<1> DEFINE T == {t \in SUBSET S : SumFunctionOnSet(f, t) # SumFunctionOnSet(h, t)}
<1>1. T = {}
  <2> SUFFICES ASSUME T # {} PROVE FALSE
    OBVIOUS
  <2>1. PICK t \in T : \A v \in T : v \subseteq t => v = t
    <3>1. T \in SUBSET SUBSET S
      OBVIOUS
    <3> HIDE DEF T
    <3> QED
      BY <3>1, Smallest DEF Summable
  <2>2. Summable(f, t) /\ Summable(h, t)
    BY <2>1, FS_Subset DEF Summable
  <2>3. PICK x \in t : TRUE
    BY <2>1, SumEmpty
  <2>4. t \ {x} \notin T
    BY <2>1, <2>3
  <2>5. SumFunctionOnSet(f, t \ {x}) = SumFunctionOnSet(h, t \ {x})
    BY <2>1, <2>4
  <2> QED
    BY <2>1, <2>2, <2>3, <2>5, SumRemove
<1> QED
  BY <1>1

\* A sum over two disjoint sets.
LEMMA SumUnion ==
  ASSUME NEW A, NEW B, NEW f, Summable(f, A), Summable(f, B), A \cap B = {}
  PROVE  SumFunctionOnSet(f, A \cup B) = SumFunctionOnSet(f, A) + SumFunctionOnSet(f, B)
<1> DEFINE Sum(s) == SumFunctionOnSet(f, s)
           T == {t \in SUBSET A : Sum(t \cup B) # Sum(t) + Sum(B)}
<1>1. T = {}
  <2> SUFFICES ASSUME T # {} PROVE FALSE
    OBVIOUS
  <2>1. PICK t \in T : \A v \in T : v \subseteq t => v = t
    <3>1. T \in SUBSET SUBSET A
      OBVIOUS
    <3> HIDE DEF T
    <3> QED
      BY <3>1, Smallest DEF Summable
  <2>2. Summable(f, t) /\ Summable(f, t \cup B)
    BY <2>1, FS_Subset, FS_Union DEF Summable
  <2>3. Sum(B) \in Int
    BY SumInt
  <2>4. t # {}
    <3>1. Sum({} \cup B) = Sum({}) + Sum(B)
      BY <2>3, SumEmpty
    <3> QED
      BY <2>1, <3>1
  <2>5. PICK x \in t : TRUE
    BY <2>4
  <2>6. Summable(f, t \ {x}) /\ x \notin B /\ f[x] \in Int
    BY <2>1, <2>2, <2>5, FS_Subset DEF Summable
  <2>7. Sum((t \ {x}) \cup B) = Sum(t \ {x}) + Sum(B)
    <3>1. t \ {x} \notin T
      BY <2>1, <2>5
    <3> QED
      BY <2>1, <3>1
  <2>8. Sum(t) = f[x] + Sum(t \ {x}) /\ Sum(t \ {x}) \in Int
    BY <2>2, <2>5, <2>6, SumRemove, SumInt
  <2>9. Sum(t \cup B) = f[x] + Sum((t \ {x}) \cup B)
    <3>1. (t \cup B) \ {x} = (t \ {x}) \cup B
      BY <2>6
    <3> QED
      BY <2>2, <2>5, <3>1, SumRemove
  <2> QED
    BY <2>1, <2>3, <2>6, <2>7, <2>8, <2>9
<1> QED
  BY <1>1

\* A sum of natural numbers is one, and is zero only if all of them are.
LEMMA SumNat ==
  ASSUME NEW S, NEW f, IsFiniteSet(S), \A x \in S : f[x] \in Nat
  PROVE  /\ SumFunctionOnSet(f, S) \in Nat
         /\ SumFunctionOnSet(f, S) = 0 <=> \A x \in S : f[x] = 0
<1> DEFINE Sum(s) == SumFunctionOnSet(f, s)
           Claim(s) == Sum(s) \in Nat /\ (Sum(s) = 0 <=> \A x \in s : f[x] = 0)
           T == {t \in SUBSET S : ~Claim(t)}
<1>1. T = {}
  <2> SUFFICES ASSUME T # {} PROVE FALSE
    OBVIOUS
  <2>1. PICK t \in T : \A v \in T : v \subseteq t => v = t
    <3>1. T \in SUBSET SUBSET S
      OBVIOUS
    <3> HIDE DEF T
    <3> QED
      BY <3>1, Smallest
  <2>2. Summable(f, t)
    BY <2>1, FS_Subset DEF Summable
  <2>3. t # {}
    <3>1. Claim({})
      BY SumEmpty
    <3> QED
      BY <2>1, <3>1
  <2>4. PICK x \in t : TRUE
    BY <2>3
  <2>5. Claim(t \ {x})
    <3>1. t \ {x} \notin T
      BY <2>1, <2>4
    <3> QED
      BY <2>1, <3>1
  <2>6. Sum(t) = f[x] + Sum(t \ {x}) /\ f[x] \in Nat
    BY <2>1, <2>2, <2>4, SumRemove
  <2>7. Claim(t)
    BY <2>4, <2>5, <2>6
  <2> QED
    BY <2>1, <2>7
<1> QED
  BY <1>1

\* The sum of a combination is the combination of the sums.
LEMMA SumCombined ==
  ASSUME NEW S, NEW f, NEW g, NEW h, Summable(f, S), Summable(g, S),
         NEW a \in Int, NEW b \in Int, \A x \in S : h[x] = a * f[x] + b * g[x]
  PROVE  SumFunctionOnSet(h, S) = a * SumFunctionOnSet(f, S) + b * SumFunctionOnSet(g, S)
<1> DEFINE F(s) == SumFunctionOnSet(f, s)
           G(s) == SumFunctionOnSet(g, s)
           H(s) == SumFunctionOnSet(h, s)
           T == {t \in SUBSET S : H(t) # a * F(t) + b * G(t)}
<1>1. T = {}
  <2> SUFFICES ASSUME T # {} PROVE FALSE
    OBVIOUS
  <2>1. PICK t \in T : \A v \in T : v \subseteq t => v = t
    <3>1. T \in SUBSET SUBSET S
      OBVIOUS
    <3> HIDE DEF T
    <3> QED
      BY <3>1, Smallest DEF Summable
  <2>2. t # {}
    <3>1. H({}) = a * F({}) + b * G({})
      BY SumEmpty
    <3> QED
      BY <2>1, <3>1
  <2>3. PICK x \in t : TRUE
    BY <2>2
  <2>4. f[x] \in Int /\ g[x] \in Int /\ h[x] = a * f[x] + b * g[x]
    BY <2>1, <2>3 DEF Summable
  <2>5. Summable(f, t) /\ Summable(g, t)
    BY <2>1, FS_Subset DEF Summable
  <2>6. Summable(h, t)
    BY <2>1, <2>5 DEF Summable
  <2>7. Summable(f, t \ {x}) /\ Summable(g, t \ {x})
    BY <2>5, FS_Subset DEF Summable
  <2>8. H(t \ {x}) = a * F(t \ {x}) + b * G(t \ {x})
    <3>1. t \ {x} \notin T
      BY <2>1, <2>3
    <3> QED
      BY <2>1, <3>1
  <2>9. /\ H(t) = h[x] + H(t \ {x}) /\ F(t) = f[x] + F(t \ {x}) /\ G(t) = g[x] + G(t \ {x})
    BY <2>3, <2>5, <2>6, SumRemove
  <2>10. F(t \ {x}) \in Int /\ G(t \ {x}) \in Int
    BY <2>7, SumInt
  <2>11. /\ a * (f[x] + F(t \ {x})) = a * f[x] + a * F(t \ {x})
         /\ b * (g[x] + G(t \ {x})) = b * g[x] + b * G(t \ {x})
    BY <2>4, <2>10
  <2>12. /\ a * f[x] \in Int /\ a * F(t \ {x}) \in Int /\ b * g[x] \in Int
         /\ b * G(t \ {x}) \in Int
    BY <2>4, <2>10
  <2>13. H(t) = (a * f[x] + b * g[x]) + (a * F(t \ {x}) + b * G(t \ {x}))
    BY <2>4, <2>8, <2>9
  <2>14. H(t) = (a * f[x] + a * F(t \ {x})) + (b * g[x] + b * G(t \ {x}))
    BY <2>12, <2>13
  <2> QED
    BY <2>1, <2>9, <2>11, <2>14
<1> QED
  BY <1>1

\* A sum of so many numbers, none of which is beyond a limit.
LEMMA SumWithin ==
  ASSUME NEW S, NEW f, Summable(f, S), NEW c \in Nat, \A x \in S : -c <= f[x] /\ f[x] <= c
  PROVE  /\ -(c * Cardinality(S)) <= SumFunctionOnSet(f, S)
         /\ SumFunctionOnSet(f, S) <= c * Cardinality(S)
<1> DEFINE F(s) == SumFunctionOnSet(f, s)
           Claim(s) == -(c * Cardinality(s)) <= F(s) /\ F(s) <= c * Cardinality(s)
           T == {t \in SUBSET S : ~Claim(t)}
<1>1. T = {}
  <2> SUFFICES ASSUME T # {} PROVE FALSE
    OBVIOUS
  <2>1. PICK t \in T : \A v \in T : v \subseteq t => v = t
    <3>1. T \in SUBSET SUBSET S
      OBVIOUS
    <3> HIDE DEF T
    <3> QED
      BY <3>1, Smallest DEF Summable
  <2>2. t # {}
    <3>1. Claim({})
      BY SumEmpty, FS_EmptySet
    <3> QED
      BY <2>1, <3>1
  <2>3. PICK x \in t : TRUE
    BY <2>2
  <2>4. f[x] \in Int /\ -c <= f[x] /\ f[x] <= c
    BY <2>1, <2>3 DEF Summable
  <2>5. Summable(f, t) /\ Summable(f, t \ {x})
    BY <2>1, FS_Subset DEF Summable
  <2>6. Claim(t \ {x})
    <3>1. t \ {x} \notin T
      BY <2>1, <2>3
    <3> QED
      BY <2>1, <3>1
  <2>7. F(t) = f[x] + F(t \ {x}) /\ F(t \ {x}) \in Int
    BY <2>3, <2>5, SumRemove, SumInt
  <2>8. Cardinality(t \ {x}) = Cardinality(t) - 1 /\ Cardinality(t) \in Nat
    BY <2>3, <2>5, FS_RemoveElement, FS_CardinalityType DEF Summable
  <2>9. c * Cardinality(t) = c * (Cardinality(t) - 1) + c
    BY <2>8
  <2>10. c * (Cardinality(t) - 1) \in Int
    BY <2>8
  <2>11. Claim(t)
    BY <2>4, <2>6, <2>7, <2>8, <2>9, <2>10
  <2> QED
    BY <2>1, <2>11
<1> QED
  BY <1>1

\* A sum of ones counts.
LEMMA SumOnes ==
  ASSUME NEW S, IsFiniteSet(S), NEW f, \A x \in S : f[x] = 1
  PROVE  SumFunctionOnSet(f, S) = Cardinality(S)
<1> DEFINE T == {t \in SUBSET S : SumFunctionOnSet(f, t) # Cardinality(t)}
<1>1. T = {}
  <2> SUFFICES ASSUME T # {} PROVE FALSE
    OBVIOUS
  <2>1. PICK t \in T : \A v \in T : v \subseteq t => v = t
    <3>1. T \in SUBSET SUBSET S
      OBVIOUS
    <3> HIDE DEF T
    <3> QED
      BY <3>1, Smallest
  <2>2. Summable(f, t)
    BY <2>1, FS_Subset DEF Summable
  <2>3. PICK x \in t : TRUE
    BY <2>1, SumEmpty, FS_EmptySet
  <2>4. t \ {x} \notin T
    BY <2>1, <2>3
  <2>5. SumFunctionOnSet(f, t \ {x}) = Cardinality(t \ {x})
    BY <2>1, <2>4
  <2>6. Cardinality(t \ {x}) = Cardinality(t) - 1 /\ Cardinality(t) \in Nat
    BY <2>2, <2>3, FS_RemoveElement, FS_CardinalityType DEF Summable
  <2>7. SumFunctionOnSet(f, t) = 1 + SumFunctionOnSet(f, t \ {x})
    BY <2>1, <2>2, <2>3, SumRemove
  <2> QED
    BY <2>1, <2>5, <2>6, <2>7
<1> QED
  BY <1>1

\* A sum of more is more.
LEMMA SumMore ==
  ASSUME NEW S, IsFiniteSet(S), NEW f, NEW g,
         \A x \in S : f[x] \in Nat /\ g[x] \in Nat /\ f[x] <= g[x]
  PROVE  SumFunctionOnSet(f, S) <= SumFunctionOnSet(g, S)
<1> DEFINE h == [x \in S |-> g[x] - f[x]]
<1>1. Summable(f, S) /\ Summable(g, S) /\ \A x \in S : h[x] \in Nat /\ g[x] = 1 * f[x] + 1 * h[x]
  BY DEF Summable
<1> HIDE DEF h
<1>2. Summable(h, S)
  BY <1>1 DEF Summable
<1>3. SumFunctionOnSet(g, S) = 1 * SumFunctionOnSet(f, S) + 1 * SumFunctionOnSet(h, S)
  BY <1>1, <1>2, SumCombined
<1>4. /\ SumFunctionOnSet(f, S) \in Int /\ SumFunctionOnSet(g, S) \in Int
      /\ SumFunctionOnSet(h, S) \in Nat
  BY <1>1, <1>2, SumInt, SumNat DEF Summable
<1> QED
  BY <1>3, <1>4
\* A sum over one element is what it is there.
LEMMA SumSingle == ASSUME NEW f, NEW x, f[x] \in Int PROVE SumFunctionOnSet(f, {x}) = f[x]
<1>1. Summable(f, {x}) /\ {x} \ {x} = {}
  BY FS_Singleton DEF Summable
<1>2. SumFunctionOnSet(f, {x}) = f[x] + SumFunctionOnSet(f, {})
  BY <1>1, SumRemove
<1> QED
  BY <1>2, SumEmpty

\* Leaving out natural numbers makes no sum larger.
LEMMA SumPart ==
  ASSUME NEW S, IsFiniteSet(S), NEW f, \A x \in S : f[x] \in Nat, NEW R \in SUBSET S
  PROVE  SumFunctionOnSet(f, R) <= SumFunctionOnSet(f, S)
<1>1. /\ IsFiniteSet(R) /\ IsFiniteSet(S \ R) /\ Summable(f, R) /\ Summable(f, S \ R)
      /\ R \cap (S \ R) = {} /\ R \cup (S \ R) = S
  BY FS_Subset DEF Summable
<1>2. SumFunctionOnSet(f, S) = SumFunctionOnSet(f, R) + SumFunctionOnSet(f, S \ R)
  BY <1>1, SumUnion
<1>3. SumFunctionOnSet(f, R) \in Nat /\ SumFunctionOnSet(f, S \ R) \in Nat
  BY <1>1, SumNat
<1> QED
  BY <1>2, <1>3

\* A sum is that of the sums of its parts: c says to which part of T an element belongs.
PartedBy(S, f, T, c, h) ==
  /\ Summable(f, S) /\ IsFiniteSet(T) /\ \A x \in S : c[x] \in T
  /\ \A t \in T : h[t] = SumFunctionOnSet(f, {x \in S : c[x] = t})

LEMMA SumParts ==
  ASSUME NEW S, NEW f, NEW T, NEW c, NEW h, PartedBy(S, f, T, c, h)
  PROVE  SumFunctionOnSet(f, S) = SumFunctionOnSet(h, T)
<1> USE DEF PartedBy
<1> DEFINE Of(U) == {x \in S : c[x] \in U}
           F(s) == SumFunctionOnSet(f, s)
           H(U) == SumFunctionOnSet(h, U)
           Bad == {U \in SUBSET T : F(Of(U)) # H(U)}
<1>0. \A s \in SUBSET S : Summable(f, s)
  BY FS_Subset DEF Summable
<1>1. \A t \in T : h[t] = F({x \in S : c[x] = t}) /\ h[t] \in Int
  <2> SUFFICES ASSUME NEW t \in T PROVE h[t] = F({x \in S : c[x] = t}) /\ h[t] \in Int
    OBVIOUS
  <2>1. Summable(f, {x \in S : c[x] = t})
    BY <1>0
  <2> QED
    BY <2>1, SumInt
<1>2. Bad = {}
  <2> SUFFICES ASSUME Bad # {} PROVE FALSE
    OBVIOUS
  <2>1. PICK U \in Bad : \A V \in Bad : V \subseteq U => V = U
    <3>1. Bad \in SUBSET SUBSET T
      OBVIOUS
    <3> HIDE DEF Bad
    <3> QED
      BY <3>1, Smallest
  <2>2. U # {}
    <3>1. Of({}) = {}
      OBVIOUS
    <3>2. F(Of({})) = H({})
      BY <3>1, SumEmpty
    <3> QED
      BY <2>1, <3>2
  <2>3. PICK t \in U : TRUE
    BY <2>2
  <2> DEFINE V == U \ {t}
             A == {x \in S : c[x] = t}
  <2>4. F(Of(V)) = H(V)
    BY <2>1, <2>3
  <2>5. H(U) = h[t] + H(V)
    <3>1. Summable(h, U)
      BY <1>1, <2>1, FS_Subset DEF Summable
    <3> QED
      BY <2>3, <3>1, SumRemove
  <2>6. Of(U) = A \cup Of(V) /\ A \cap Of(V) = {} /\ A \in SUBSET S /\ Of(V) \in SUBSET S
    BY <2>3
  <2>7. F(Of(U)) = F(A) + F(Of(V))
    <3> HIDE DEF A, Of
    <3> QED
      BY <1>0, <2>6, SumUnion
  <2>8. F(A) = h[t]
    BY <1>1, <2>1, <2>3
  <2>9. F(Of(U)) # H(U)
    BY <2>1
  <2> HIDE DEF F, H, A, V, Of
  <2> QED
    BY <2>4, <2>5, <2>7, <2>8, <2>9
<1>3. T \notin Bad /\ Of(T) = S
  BY <1>2
<1> QED
  BY <1>3

\* The values of a function on a finite set are finitely many, and as many as the set has
\* elements if they are all different.
LEMMA ImageFinite ==
  ASSUME NEW S, IsFiniteSet(S), NEW f
  PROVE  /\ IsFiniteSet({f[x] : x \in S})
         /\ (\A x, y \in S : f[x] = f[y] => x = y) => Cardinality({f[x] : x \in S}) = Cardinality(S)
<1> DEFINE T == {f[x] : x \in S}
           g == [x \in S |-> f[x]]
<1>1. g \in Surjection(S, T)
  BY DEF Surjection
<1>2. (\A x, y \in S : f[x] = f[y] => x = y) => g \in Injection(S, T)
  BY DEF Injection, IsInjective
<1> HIDE DEF g, T
<1>3. IsFiniteSet(T) /\ (g \in Injection(S, T) => Cardinality(T) = Cardinality(S))
  BY <1>1, FS_Surjection
<1>4. T = {f[x] : x \in S}
  BY DEF T
<1> QED
  BY <1>2, <1>3, <1>4

-----------------------------------------------------------------------------
(* The least and the greatest.                                             *)

LEMMA MinIs ==
  ASSUME NEW S, \A x \in S : x \in Nat, S # {}
  PROVE  Min(S) \in S /\ \A x \in S : Min(S) <= x
<1>1. S \in SUBSET Nat
  OBVIOUS
<1>2. \E m \in S : \A n \in S : m <= n
  BY <1>1, Least
<1> QED
  BY <1>2 DEF Min

\* The greatest of some integers.
LEMMA MaxIs ==
  ASSUME NEW S, \A x \in S : x \in Int, IsFiniteSet(S), S # {}
  PROVE  Max(S) \in S /\ \A x \in S : x <= Max(S)
<1>1. \E m \in S : \A n \in S : m >= n
  BY Greatest
<1>2. Max(S) \in S /\ \A n \in S : Max(S) >= n
  BY <1>1 DEF Max
<1> QED
  BY <1>2

\* The lesser of two.
LEMMA MinOf ==
  ASSUME NEW a \in Nat, NEW b \in Nat
  PROVE  Min({a, b}) \in Nat /\ Min({a, b}) <= a /\ Min({a, b}) <= b
<1>1. Min({a, b}) = CHOOSE x \in {a, b} : \A y \in {a, b} : x <= y
  BY DEF Min
<1>2. \E x \in {a, b} : \A y \in {a, b} : x <= y
  OBVIOUS
<1> QED
  BY <1>1, <1>2

LEMMA LessOf ==
  ASSUME NEW a \in Int, NEW b \in Int
  PROVE  Min({a, b}) = IF a <= b THEN a ELSE b
<1>1. \E x \in {a, b} : \A y \in {a, b} : x <= y
  OBVIOUS
<1>2. Min({a, b}) \in {a, b} /\ \A y \in {a, b} : Min({a, b}) <= y
  BY <1>1 DEF Min
<1> QED
  BY <1>2

\* The greater of two.
LEMMA MaxOf ==
  ASSUME NEW a \in Int, NEW b \in Int
  PROVE  Max({a, b}) = IF a >= b THEN a ELSE b
<1>1. \E x \in {a, b} : \A y \in {a, b} : x >= y
  OBVIOUS
<1>2. Max({a, b}) \in {a, b} /\ \A y \in {a, b} : Max({a, b}) >= y
  BY <1>1 DEF Max
<1> QED
  BY <1>2

-----------------------------------------------------------------------------
(* Lists, and what they have at some of their places.                      *)

IsList(s) == \E n \in Nat : DOMAIN s = 1..n /\ s = [k \in 1..n |-> s[k]]

LEMMA ListIs ==
  ASSUME NEW s, IsList(s)
  PROVE  /\ Len(s) \in Nat /\ DOMAIN s = 1..Len(s)
         /\ \A S : (\A k \in DOMAIN s : s[k] \in S) => s \in Seq(S)
<1>1. PICK n \in Nat : DOMAIN s = 1..n /\ s = [k \in 1..n |-> s[k]]
  BY DEF IsList
<1>2. ASSUME NEW S, \A k \in DOMAIN s : s[k] \in S PROVE s \in Seq(S)
  <2>1. s \in [1..n -> S]
    BY <1>1, <1>2
  <2> QED
    BY <2>1, SeqDef
<1>3. s \in Seq(Range(s))
  BY <1>2 DEF Range
<1> QED
  BY <1>2, <1>3, LenProperties

LEMMA SeqIsList ==
  ASSUME NEW S, NEW s \in Seq(S)
  PROVE  IsList(s)
<1>1. Len(s) \in Nat /\ s \in [1..Len(s) -> S]
  BY LenProperties
<1>2. DOMAIN s = 1..Len(s) /\ s = [k \in 1..Len(s) |-> s[k]]
  BY <1>1
<1> QED
  BY <1>1, <1>2 DEF IsList

LEMMA EmptyList == IsList(<<>>) /\ Len(<<>>) = 0 /\ DOMAIN <<>> = {}
<1>1. <<>> \in Seq({}) /\ Len(<<>>) = 0
  BY EmptySeq
<1>2. DOMAIN <<>> = {}
  OBVIOUS
<1>3. IsList(<<>>)
  BY ONLY <1>1, SeqIsList
<1> QED
  BY <1>1, <1>2, <1>3

\* Two lists that agree everywhere are equal.
LEMMA ListsEqual ==
  ASSUME NEW s, NEW t, IsList(s), IsList(t), DOMAIN s = DOMAIN t, \A n \in DOMAIN s : s[n] = t[n]
  PROVE  s = t
<1>1. PICK m \in Nat : DOMAIN s = 1..m /\ s = [k \in 1..m |-> s[k]]
  BY DEF IsList
<1>2. PICK n \in Nat : DOMAIN t = 1..n /\ t = [k \in 1..n |-> t[k]]
  BY DEF IsList
<1>3. [k \in 1..m |-> s[k]] = [k \in 1..n |-> t[k]]
  BY <1>1, <1>2
<1> QED
  BY <1>1, <1>2, <1>3

\* A list r is s followed by t.
IsJoin(s, t, r) ==
  /\ IsList(r) /\ Len(r) = Len(s) + Len(t)
  /\ \A n \in DOMAIN s : n \in DOMAIN r /\ r[n] = s[n]
  /\ \A n \in DOMAIN t : Len(s) + n \in DOMAIN r /\ r[Len(s) + n] = t[n]
  /\ \A n \in DOMAIN r : n \in DOMAIN s \/ \E k \in DOMAIN t : n = Len(s) + k

LEMMA Joined ==
  ASSUME NEW s, NEW t, IsList(s), IsList(t)
  PROVE  IsJoin(s, t, s \o t)
<1> DEFINE S == Range(s) \cup Range(t)
<1>1. s \in Seq(S) /\ t \in Seq(S)
  <2>1. (\A k \in DOMAIN s : s[k] \in S) /\ (\A k \in DOMAIN t : t[k] \in S)
    BY DEF Range
  <2> QED
    BY <2>1, ListIs
<1> HIDE DEF S
<1>2. /\ s \o t \in Seq(S) /\ Len(s \o t) = Len(s) + Len(t)
      /\ \A i \in 1 .. Len(s) + Len(t) :
           (s \o t)[i] = IF i <= Len(s) THEN s[i] ELSE t[i - Len(s)]
  BY <1>1, ConcatProperties
<1>3. /\ Len(s) \in Nat /\ Len(t) \in Nat /\ DOMAIN s = 1..Len(s) /\ DOMAIN t = 1..Len(t)
      /\ DOMAIN (s \o t) = 1..Len(s) + Len(t)
  BY <1>1, <1>2, LenProperties
<1>4. IsList(s \o t)
  BY <1>2, SeqIsList
<1>5. ASSUME NEW n \in DOMAIN t
      PROVE  Len(s) + n \in DOMAIN (s \o t) /\ (s \o t)[Len(s) + n] = t[n]
  <2>1. Len(s) + n \in 1..Len(s) + Len(t) /\ ~(Len(s) + n <= Len(s)) /\ (Len(s) + n) - Len(s) = n
    BY <1>3
  <2> QED
    BY <1>2, <1>3, <2>1
<1>6. \A n \in DOMAIN s : n \in DOMAIN (s \o t) /\ (s \o t)[n] = s[n]
  BY <1>2, <1>3
<1>7. ASSUME NEW n \in DOMAIN (s \o t), n \notin DOMAIN s
      PROVE  \E k \in DOMAIN t : n = Len(s) + k
  <2>1. n - Len(s) \in 1..Len(t) /\ n = Len(s) + (n - Len(s))
    BY <1>3, <1>7
  <2> QED
    BY <1>3, <2>1
<1> QED
  BY <1>2, <1>4, <1>5, <1>6, <1>7 DEF IsJoin

LEMMA Appended ==
  ASSUME NEW s, IsList(s), NEW x
  PROVE  /\ IsList(Append(s, x))
         /\ \A n \in DOMAIN s : n \in DOMAIN Append(s, x) /\ Append(s, x)[n] = s[n]
<1> DEFINE S == Range(s) \cup {x}
<1>1. s \in Seq(S) /\ x \in S
  <2>1. \A k \in DOMAIN s : s[k] \in S
    BY DEF Range
  <2> QED
    BY <2>1, ListIs
<1> HIDE DEF S
<1>2. /\ Append(s, x) \in Seq(S) /\ Len(Append(s, x)) = Len(s) + 1
      /\ \A i \in 1..Len(s) : Append(s, x)[i] = s[i]
  BY <1>1, AppendProperties
<1>3. Len(s) \in Nat /\ DOMAIN s = 1..Len(s) /\ DOMAIN Append(s, x) = 1..Len(s) + 1
  BY <1>1, <1>2, LenProperties
<1>4. IsList(Append(s, x))
  BY <1>2, SeqIsList
<1> QED
  BY <1>2, <1>3, <1>4

\* A part of a list, from a place on.
LEMMA PartOf ==
  ASSUME NEW s, IsList(s), NEW m \in Nat, NEW n \in Nat, m + n <= Len(s),
         NEW a, a = m + 1, NEW b, b = m + n
  PROVE  /\ IsList(SubSeq(s, a, b)) /\ DOMAIN SubSeq(s, a, b) = 1..n
         /\ \A k \in 1..n : SubSeq(s, a, b)[k] = s[m + k]
<1>1. Len(s) \in Nat /\ DOMAIN s = 1..Len(s)
  BY ListIs
<1>2. a \in Int /\ b \in Int /\ \A i \in a..b : i \in 1..Len(s)
  BY <1>1
<1>3. \A i \in a..b : s[i] \in Range(s)
  BY <1>1, <1>2 DEF Range
<1>4. b - a + 1 = n /\ (a <= b \/ n = 0) /\ (n = 0 => ~(a <= b)) /\ \A i \in 1..n : a + i - 1 = m + i
  OBVIOUS
<1> DEFINE r == SubSeq(s, a, b)
<1>5. /\ r \in Seq(Range(s))
      /\ Len(r) = IF a <= b THEN b - a + 1 ELSE 0
      /\ \A i \in 1 .. b - a + 1 : r[i] = s[a + i - 1]
  BY ONLY <1>2, <1>3, SubSeqProperties
<1> HIDE DEF r
<1>6. Len(r) = n
  BY <1>4, <1>5
<1>7. \A k \in 1..n : r[k] = s[m + k]
  BY <1>4, <1>5
<1>8. DOMAIN r = 1..n
  BY <1>5, <1>6, LenProperties
<1> QED
  BY <1>5, <1>7, <1>8, SeqIsList DEF r

LEMMA FirstPart ==
  ASSUME NEW s, IsList(s), NEW n \in Nat, n <= Len(s)
  PROVE  /\ IsList(SubSeq(s, 1, n)) /\ DOMAIN SubSeq(s, 1, n) = 1..n
         /\ \A k \in 1..n : SubSeq(s, 1, n)[k] = s[k]
<1>0. Len(s) \in Nat /\ DOMAIN s = 1..Len(s)
  BY ListIs
<1>1. 1 \in Int /\ n \in Int /\ \A i \in 1..n : s[i] \in Range(s)
  BY <1>0 DEF Range
<1>2. /\ SubSeq(s, 1, n) \in Seq(Range(s))
      /\ Len(SubSeq(s, 1, n)) = IF 1 <= n THEN n - 1 + 1 ELSE 0
      /\ \A i \in 1 .. n - 1 + 1 : SubSeq(s, 1, n)[i] = s[1 + i - 1]
  BY <1>1, SubSeqProperties
<1>3. Len(SubSeq(s, 1, n)) = n /\ n - 1 + 1 = n /\ \A i \in 1..n : 1 + i - 1 = i
  BY <1>2
<1>4. DOMAIN SubSeq(s, 1, n) = 1..n
  BY <1>2, <1>3, LenProperties
<1>5. \A k \in 1..n : SubSeq(s, 1, n)[k] = s[k]
  BY <1>2, <1>3
<1> QED
  BY <1>2, <1>4, <1>5, SeqIsList

\* Lists of the same places are equally long.
LEMMA SameLength ==
  ASSUME NEW s, NEW t, IsList(s), IsList(t), DOMAIN s = DOMAIN t
  PROVE  Len(s) = Len(t)
<1>1. Len(s) \in Nat /\ Len(t) \in Nat /\ 1..Len(s) = 1..Len(t)
  BY ListIs
<1> QED
  BY <1>1

\* How many of the places come up to n.
UpTo(S, n) == {m \in S : m <= n}

LEMMA UpToCount ==
  ASSUME NEW S \in SUBSET Nat, IsFiniteSet(S)
  PROVE  /\ \A n : IsFiniteSet(UpTo(S, n)) /\ Cardinality(UpTo(S, n)) \in Nat
         /\ \A n : Cardinality(UpTo(S, n)) <= Cardinality(S)
         /\ \A n1, n2 \in S : n1 < n2 => Cardinality(UpTo(S, n1)) < Cardinality(UpTo(S, n2))
         /\ \A n \in S : Cardinality(UpTo(S, n)) \in 1..Cardinality(S)
<1>1. \A n : IsFiniteSet(UpTo(S, n)) /\ Cardinality(UpTo(S, n)) \in Nat
  BY FS_Subset, FS_CardinalityType DEF UpTo
<1>2. \A n : Cardinality(UpTo(S, n)) <= Cardinality(S)
  BY FS_Subset DEF UpTo
<1>3. ASSUME NEW n1 \in S, NEW n2 \in S, n1 < n2
      PROVE  Cardinality(UpTo(S, n1)) < Cardinality(UpTo(S, n2))
  <2>1. UpTo(S, n1) \subseteq UpTo(S, n2) /\ UpTo(S, n1) # UpTo(S, n2)
    <3>1. n1 \in Nat /\ n2 \in Nat /\ \A m \in S : m \in Nat
      OBVIOUS
    <3>2. \A m \in S : m <= n1 => m <= n2
      BY <1>3, <3>1
    <3>4. UpTo(S, n1) \subseteq UpTo(S, n2)
      BY <3>2 DEF UpTo
    <3>3. n2 \in UpTo(S, n2) /\ n2 \notin UpTo(S, n1)
      BY <1>3, <3>1 DEF UpTo
    <3> QED
      BY <3>3, <3>4
  <2>2. Cardinality(UpTo(S, n1)) <= Cardinality(UpTo(S, n2))
    BY <1>1, <2>1, FS_Subset
  <2>3. Cardinality(UpTo(S, n1)) # Cardinality(UpTo(S, n2))
    BY <1>1, <2>1, FS_Subset
  <2> QED
    BY <1>1, <2>2, <2>3
<1>4. ASSUME NEW n \in S PROVE Cardinality(UpTo(S, n)) \in 1..Cardinality(S)
  <2>1. n \in UpTo(S, n)
    BY DEF UpTo
  <2>2. Cardinality(UpTo(S, n)) # 0
    BY <1>1, <2>1, FS_EmptySet
  <2>3. Cardinality(S) \in Nat
    BY FS_CardinalityType
  <2> QED
    BY <1>1, <1>2, <2>2, <2>3
<1> QED
  BY <1>1, <1>2, <1>3, <1>4

\* The k-th place is one of them, and every one is the k-th for one k.
LEMMA PlaceIs ==
  ASSUME NEW S \in SUBSET Nat, IsFiniteSet(S)
  PROVE  /\ Cardinality(S) \in Nat
         /\ \A k \in 1..Cardinality(S) :
              PlaceIn(S, k) \in S /\ Cardinality(UpTo(S, PlaceIn(S, k))) = k
         /\ \A n \in S : /\ Cardinality(UpTo(S, n)) \in 1..Cardinality(S)
                         /\ PlaceIn(S, Cardinality(UpTo(S, n))) = n
<1>0. Cardinality(S) \in Nat
  BY FS_CardinalityType
<1> DEFINE c(n) == Cardinality(UpTo(S, n))
<1>1. ASSUME NEW k \in 1..Cardinality(S) PROVE \E n \in S : c(n) = k
  <2> DEFINE T == {n \in Nat : k <= c(n)}
  <2>1. \E n \in Nat : n \in T
    <3>1. S # {} /\ \A x \in S : x \in Int
      BY FS_EmptySet
    <3>2. PICK g \in S : \A x \in S : g >= x
      BY <3>1, Greatest
    <3>3. UpTo(S, g) = S
      BY <3>2 DEF UpTo
    <3> QED
      BY <3>3
  <2>2. PICK n \in T : \A x \in T : n <= x
    <3>1. T \in SUBSET Nat /\ T # {}
      BY <2>1
    <3> HIDE DEF T
    <3> QED
      BY <3>1, Least
  <2>3. n \in Nat /\ k <= c(n) /\ \A x \in Nat : x < n => ~(k <= c(x))
    BY <2>2
  <2> HIDE DEF T
  <2> DEFINE P == UpTo(S, n) \ {n}
  <2>4. P = {} \/ (n > 0 /\ n - 1 \in Nat /\ P = UpTo(S, n - 1))
    <3>0. \A m \in S : m \in Nat
      OBVIOUS
    <3>1. CASE n = 0
      <4>1. \A m \in S : m <= n => m = n
        BY <3>0, <3>1
      <4> QED
        BY <4>1 DEF UpTo
    <3>2. CASE n # 0
      <4>1. n > 0 /\ n - 1 \in Nat
        BY <2>3, <3>2
      <4>2. \A m \in S : m <= n /\ m # n <=> m <= n - 1
        BY <2>3, <3>0, <4>1
      <4>3. P = UpTo(S, n - 1)
        BY <4>2 DEF UpTo
      <4> QED
        BY <4>1, <4>3
    <3> QED
      BY <3>1, <3>2
  <2>5. ~(k <= Cardinality(P))
    <3>1. k \in Nat \ {0}
      BY <1>0
    <3>2. CASE P = {}
      BY <3>1, <3>2, FS_EmptySet
    <3>3. CASE n > 0 /\ n - 1 \in Nat /\ P = UpTo(S, n - 1)
      BY <2>3, <3>3
    <3> QED
      BY <2>4, <3>2, <3>3
  <2>6. n \in S
    <3>1. SUFFICES ASSUME n \notin S PROVE FALSE
      OBVIOUS
    <3>2. P = UpTo(S, n)
      BY <3>1 DEF UpTo
    <3> QED
      BY <2>3, <2>5, <3>2
  <2>7. Cardinality(P) = c(n) - 1
    <3>1. n \in UpTo(S, n)
      BY <2>6 DEF UpTo
    <3>2. IsFiniteSet(UpTo(S, n))
      BY UpToCount
    <3> QED
      BY <3>1, <3>2, FS_RemoveElement
  <2>8. c(n) \in Nat /\ k \in Nat
    BY <1>0, UpToCount
  <2> HIDE DEF P, c
  <2>9. c(n) = k
    BY <2>3, <2>5, <2>7, <2>8
  <2> QED
    BY <2>6, <2>9
<1>2. \A n1, n2 \in S : c(n1) = c(n2) => n1 = n2
  <2>1. \A n \in S : n \in Nat /\ c(n) \in Nat
    BY UpToCount
  <2>2. \A n1, n2 \in S : n1 < n2 => c(n1) < c(n2)
    BY UpToCount
  <2> HIDE DEF c
  <2>3. ASSUME NEW n1 \in S, NEW n2 \in S, c(n1) = c(n2) PROVE n1 = n2
    BY <2>1, <2>2, <2>3
  <2> QED
    BY <2>3
<1>3. \A k : PlaceIn(S, k) = CHOOSE n \in S : c(n) = k
  BY DEF PlaceIn, UpTo
<1>4. \A n \in S : c(n) \in 1..Cardinality(S)
  BY UpToCount
<1> HIDE DEF c
<1>5. \A k \in 1..Cardinality(S) : PlaceIn(S, k) \in S /\ c(PlaceIn(S, k)) = k
  BY <1>1, <1>3
<1>6. \A n \in S : PlaceIn(S, c(n)) = n
  BY <1>2, <1>4, <1>5
<1> QED
  BY <1>0, <1>4, <1>5, <1>6 DEF c

\* The elements at some places, by the place of each.
LEMMA ElementsAre ==
  ASSUME NEW list, NEW S
  PROVE  ElementsAt(list, S) = [k \in 1..Cardinality(S) |-> list[PlaceIn(S, k)]]
<1> DEFINE c(n) == Cardinality({m \in S : m <= n})
           ranked == {<<c(n), n>> : n \in S}
<1>1. \A k : \A n \in S : <<k, n>> \in ranked <=> c(n) = k
  OBVIOUS
<1>2. ElementsAt(list, S) = [k \in 1..Cardinality(S) |-> list[CHOOSE n \in S : <<k, n>> \in ranked]]
  BY DEF ElementsAt
<1>3. \A k : PlaceIn(S, k) = CHOOSE n \in S : c(n) = k
  BY DEF PlaceIn
<1> HIDE DEF ranked, c
<1>4. ASSUME NEW k PROVE (CHOOSE n \in S : <<k, n>> \in ranked) = PlaceIn(S, k)
  <2>1. \A n \in S : <<k, n>> \in ranked <=> c(n) = k
    BY <1>1
  <2>2. (CHOOSE n \in S : <<k, n>> \in ranked) = CHOOSE n \in S : c(n) = k
    BY <2>1
  <2> QED
    BY <1>3, <2>2
<1> DEFINE at(k) == CHOOSE n \in S : <<k, n>> \in ranked
<1>5. \A k : at(k) = PlaceIn(S, k)
  BY <1>4
<1>6. ElementsAt(list, S) = [k \in 1..Cardinality(S) |-> list[at(k)]]
  BY <1>2
<1> HIDE DEF at
<1> QED
  BY <1>5, <1>6

\* What is selected from a list are its elements at these places, each once.
LEMMA Selected ==
  ASSUME NEW list, IsList(list), NEW S \in SUBSET DOMAIN list
  PROVE  /\ IsList(ElementsAt(list, S))
         /\ \A k \in DOMAIN ElementsAt(list, S) :
              PlaceIn(S, k) \in S /\ ElementsAt(list, S)[k] = list[PlaceIn(S, k)]
         /\ \A n \in S : \E k \in DOMAIN ElementsAt(list, S) : PlaceIn(S, k) = n
         /\ \A k1, k2 \in DOMAIN ElementsAt(list, S) :
              PlaceIn(S, k1) = PlaceIn(S, k2) => k1 = k2
<1>1. S \in SUBSET Nat /\ IsFiniteSet(S)
  <2>1. Len(list) \in Nat /\ DOMAIN list = 1..Len(list)
    BY ListIs
  <2>2. IsFiniteSet(1..Len(list))
    BY <2>1, FS_Interval
  <2> QED
    BY <2>1, <2>2, FS_Subset
<1>2. Cardinality(S) \in Nat
  BY <1>1, PlaceIs
<1>3. DOMAIN ElementsAt(list, S) = 1..Cardinality(S) /\ IsList(ElementsAt(list, S))
  <2>1. DOMAIN ElementsAt(list, S) = 1..Cardinality(S)
    BY DEF ElementsAt
  <2>2. ElementsAt(list, S) = [k \in 1..Cardinality(S) |-> ElementsAt(list, S)[k]]
    BY DEF ElementsAt
  <2> QED
    BY <1>2, <2>1, <2>2 DEF IsList
<1>4. \A k \in 1..Cardinality(S) :
        /\ PlaceIn(S, k) \in S /\ Cardinality(UpTo(S, PlaceIn(S, k))) = k
        /\ ElementsAt(list, S)[k] = list[PlaceIn(S, k)]
  BY <1>1, PlaceIs, ElementsAre
<1>5. \A n \in S : /\ Cardinality(UpTo(S, n)) \in 1..Cardinality(S)
                   /\ PlaceIn(S, Cardinality(UpTo(S, n))) = n
  BY <1>1, PlaceIs
<1> QED
  BY <1>3, <1>4, <1>5

\* Places are in their order.
LEMMA PlacesGrow ==
  ASSUME NEW list, IsList(list), NEW S \in SUBSET DOMAIN list
  PROVE  /\ \A k \in DOMAIN ElementsAt(list, S) : PlaceIn(S, k) \in S
         /\ \A j, k \in DOMAIN ElementsAt(list, S) : j <= k <=> PlaceIn(S, j) <= PlaceIn(S, k)
<1>1. Len(list) \in Nat /\ DOMAIN list = 1..Len(list)
  BY ListIs
<1>2. S \in SUBSET Nat /\ IsFiniteSet(S)
  <2>1. IsFiniteSet(DOMAIN list)
    BY <1>1, FS_Interval
  <2> QED
    BY <1>1, <2>1, FS_Subset
<1>3. Cardinality(S) \in Nat /\ DOMAIN ElementsAt(list, S) = 1..Cardinality(S)
  BY <1>2, FS_CardinalityType DEF ElementsAt
<1>4. \A k \in 1..Cardinality(S) : PlaceIn(S, k) \in S /\ Cardinality(UpTo(S, PlaceIn(S, k))) = k
  BY <1>2, PlaceIs
<1>5. \A n1, n2 \in S : n1 < n2 => Cardinality(UpTo(S, n1)) < Cardinality(UpTo(S, n2))
  BY <1>2, UpToCount
<1>6. ASSUME NEW j \in 1..Cardinality(S), NEW k \in 1..Cardinality(S)
      PROVE  j <= k <=> PlaceIn(S, j) <= PlaceIn(S, k)
  <2> DEFINE p == PlaceIn(S, j)
             q == PlaceIn(S, k)
  <2>1. p \in S /\ q \in S /\ p \in Nat /\ q \in Nat
    BY <1>2, <1>4
  <2>2. (p < q => j < k) /\ (q < p => k < j)
    BY <1>4, <1>5, <2>1
  <2>3. p = q => j = k
    BY <1>4
  <2> QED
    BY <1>3, <2>1, <2>2, <2>3
<1> QED
  BY <1>3, <1>4, <1>6

\* All places of a list.
LEMMA AllSelected ==
  ASSUME NEW list, IsList(list)
  PROVE  ElementsAt(list, DOMAIN list) = list
<1> DEFINE S == DOMAIN list
<1>1. Len(list) \in Nat /\ S = 1..Len(list)
  BY ListIs
<1>2. S \in SUBSET Nat /\ IsFiniteSet(S) /\ Cardinality(S) = Len(list)
  <2>1. S \in SUBSET Nat
    BY <1>1
  <2>2. 1 \in Int /\ Len(list) \in Int
    BY <1>1
  <2>3. IsFiniteSet(1..Len(list)) /\ Cardinality(1..Len(list)) = IF 1 > Len(list) THEN 0 ELSE Len(list) - 1 + 1
    BY <2>2, FS_Interval
  <2> QED
    BY <1>1, <2>1, <2>3
<1>3. ASSUME NEW n \in S PROVE PlaceIn(S, n) = n
  <2>1. UpTo(S, n) = 1..n /\ n \in Nat
    BY <1>1 DEF UpTo
  <2>2. Cardinality(1..n) = n
    BY <2>1, FS_Interval
  <2> HIDE DEF S
  <2> QED
    BY <1>2, <2>1, <2>2, PlaceIs
<1>4. DOMAIN ElementsAt(list, S) = S
  BY <1>1, <1>2 DEF ElementsAt
<1>5. \A n \in S : ElementsAt(list, S)[n] = list[n]
  BY <1>1, <1>2, <1>3, ElementsAre
<1>6. IsList(ElementsAt(list, S))
  BY Selected
<1> HIDE DEF S
<1>7. S = DOMAIN list
  BY DEF S
<1> QED
  BY <1>4, <1>5, <1>6, <1>7, ListsEqual

\* The place in the list of the k-th of the sorted list.
SortedFrom(key, k) == CHOOSE n \in DOMAIN key : SortedPlace(key, n) = k

\* What comes no later than n.
NoLater(key, n) == {m \in DOMAIN key : key[m] < key[n] \/ (key[m] = key[n] /\ m <= n)}

\* Sorting is a permutation of the places.
LEMMA SortedPlaces ==
  ASSUME NEW N \in Nat, NEW key, DOMAIN key = 1..N, \A n \in 1..N : key[n] \in Int
  PROVE  /\ \A n \in 1..N : SortedPlace(key, n) \in 1..N
         /\ \A m, n \in 1..N : SortedPlace(key, m) <= SortedPlace(key, n) =>
              key[m] <= key[n] /\ (key[m] = key[n] => m <= n)
         /\ \A k \in 1..N : \E n \in 1..N : SortedPlace(key, n) = k
<1>0. \A n : SortedPlace(key, n) = Cardinality(NoLater(key, n))
  BY DEF SortedPlace, NoLater
<1>1. IsFiniteSet(1..N) /\ Cardinality(1..N) = N
  BY FS_Interval
<1>2. ASSUME NEW n \in 1..N
      PROVE  /\ n \in NoLater(key, n) /\ NoLater(key, n) \subseteq 1..N
             /\ IsFiniteSet(NoLater(key, n))
             /\ SortedPlace(key, n) \in 1..N
  <2>1. n \in NoLater(key, n) /\ NoLater(key, n) \subseteq 1..N
    BY DEF NoLater
  <2>2. IsFiniteSet(NoLater(key, n)) /\ Cardinality(NoLater(key, n)) <= N
    BY <1>1, <2>1, FS_Subset
  <2>3. Cardinality(NoLater(key, n)) \in Nat /\ Cardinality(NoLater(key, n)) # 0
    BY <2>1, <2>2, FS_CardinalityType, FS_EmptySet
  <2> QED
    BY <1>0, <2>1, <2>2, <2>3
<1>3. ASSUME NEW m \in 1..N, NEW n \in 1..N,
             key[n] < key[m] \/ (key[n] = key[m] /\ n < m)
      PROVE  SortedPlace(key, n) < SortedPlace(key, m)
  <2>1. NoLater(key, n) \subseteq NoLater(key, m)
    <3>1. ASSUME NEW x \in NoLater(key, n) PROVE x \in NoLater(key, m)
      <4>1. x \in 1..N /\ (key[x] < key[n] \/ (key[x] = key[n] /\ x <= n))
        BY <3>1 DEF NoLater
      <4>2. key[x] \in Int /\ key[n] \in Int /\ key[m] \in Int
        BY <4>1
      <4>3. key[x] < key[m] \/ (key[x] = key[m] /\ x <= m)
        BY <4>1, <4>2, <1>3
      <4> QED
        BY <4>1, <4>3 DEF NoLater
    <3> QED
      BY <3>1
  <2>2. m \in NoLater(key, m) /\ m \notin NoLater(key, n)
    <3>1. key[n] \in Int /\ key[m] \in Int
      OBVIOUS
    <3>2. ~(key[m] < key[n]) /\ ~(key[m] = key[n] /\ m <= n)
      BY <3>1, <1>3
    <3> QED
      BY <1>2, <3>2 DEF NoLater
  <2>3. IsFiniteSet(NoLater(key, m)) /\ NoLater(key, n) # NoLater(key, m)
    BY <1>2, <2>2
  <2>4. /\ Cardinality(NoLater(key, n)) <= Cardinality(NoLater(key, m))
        /\ Cardinality(NoLater(key, n)) # Cardinality(NoLater(key, m))
    BY <2>1, <2>3, FS_Subset
  <2> QED
    BY <1>0, <1>2, <2>4
<1>4. ASSUME NEW m \in 1..N, NEW n \in 1..N, SortedPlace(key, m) <= SortedPlace(key, n)
      PROVE  key[m] <= key[n] /\ (key[m] = key[n] => m <= n)
  <2>1. key[n] \in Int /\ key[m] \in Int /\ SortedPlace(key, m) \in Int /\ SortedPlace(key, n) \in Int
    BY <1>2
  <2>2. ~(key[n] < key[m] \/ (key[n] = key[m] /\ n < m))
    BY <1>3, <1>4, <2>1
  <2> QED
    BY <2>1, <2>2
<1>5. \A k \in 1..N : \E n \in 1..N : SortedPlace(key, n) = k
  <2> DEFINE f == [n \in 1..N |-> SortedPlace(key, n)]
  <2>1. f \in [1..N -> 1..N]
    BY <1>2
  <2>2. ASSUME NEW m \in 1..N, NEW n \in 1..N, f[m] = f[n] PROVE m = n
    <3>1. SortedPlace(key, m) = SortedPlace(key, n) /\ SortedPlace(key, m) \in Int
      BY <1>2, <2>2
    <3>2. key[m] <= key[n] /\ key[n] <= key[m] /\ (key[m] = key[n] => m <= n /\ n <= m)
      BY <1>4, <3>1
    <3> QED
      BY <3>2
  <2>3. f \in Injection(1..N, 1..N)
    BY <2>1, <2>2 DEF Injection, IsInjective
  <2>4. f \in Surjection(1..N, 1..N)
    <3> HIDE DEF f
    <3> QED
      BY <1>1, <2>3, FS_Injection
  <2>5. \A k \in 1..N : \E n \in 1..N : f[n] = k
    <3> HIDE DEF f
    <3> QED
      BY <2>4 DEF Surjection
  <2> QED
    BY <2>5
<1> QED
  BY <1>2, <1>4, <1>5

\* Whatever the keys are, the sorted list is as long.
LEMMA SortedList ==
  ASSUME NEW list, IsList(list), NEW key
  PROVE  IsList(SortedBy(list, key)) /\ DOMAIN SortedBy(list, key) = DOMAIN list
<1>1. PICK n \in Nat : DOMAIN list = 1..n
  BY DEF IsList
<1>2. DOMAIN SortedBy(list, key) = 1..n /\ SortedBy(list, key) = [k \in 1..n |-> SortedBy(list, key)[k]]
  BY <1>1 DEF SortedBy
<1> QED
  BY <1>1, <1>2 DEF IsList

\* The sorted list: which place each comes from, and that the keys do not fall.
LEMMA SortedIs ==
  ASSUME NEW list, IsList(list), NEW key, DOMAIN key = DOMAIN list,
         \A n \in DOMAIN list : key[n] \in Int
  PROVE  /\ IsList(SortedBy(list, key)) /\ DOMAIN SortedBy(list, key) = DOMAIN list
         /\ \A k \in DOMAIN list : /\ SortedFrom(key, k) \in DOMAIN list
                                   /\ SortedPlace(key, SortedFrom(key, k)) = k
                                   /\ SortedBy(list, key)[k] = list[SortedFrom(key, k)]
         /\ \A n \in DOMAIN list : /\ SortedPlace(key, n) \in DOMAIN list
                                   /\ SortedFrom(key, SortedPlace(key, n)) = n
         /\ \A k1, k2 \in DOMAIN list : k1 <= k2 =>
              /\ key[SortedFrom(key, k1)] <= key[SortedFrom(key, k2)]
              /\ key[SortedFrom(key, k1)] = key[SortedFrom(key, k2)] =>
                   SortedFrom(key, k1) <= SortedFrom(key, k2)
<1> DEFINE N == Len(list)
<1>0. N \in Nat /\ DOMAIN list = 1..N /\ DOMAIN key = 1..N
  BY ListIs
<1> HIDE DEF N
<1>1. /\ \A n \in 1..N : SortedPlace(key, n) \in 1..N
      /\ \A m, n \in 1..N : SortedPlace(key, m) <= SortedPlace(key, n) =>
           key[m] <= key[n] /\ (key[m] = key[n] => m <= n)
      /\ \A k \in 1..N : \E n \in 1..N : SortedPlace(key, n) = k
  BY <1>0, SortedPlaces
<1>2. \A k \in 1..N : SortedFrom(key, k) \in 1..N /\ SortedPlace(key, SortedFrom(key, k)) = k
  BY <1>0, <1>1 DEF SortedFrom
<1>3. ASSUME NEW n \in 1..N PROVE SortedFrom(key, SortedPlace(key, n)) = n
  <2> DEFINE m == SortedFrom(key, SortedPlace(key, n))
  <2>1. m \in 1..N /\ SortedPlace(key, m) = SortedPlace(key, n) /\ SortedPlace(key, n) \in Int
    BY <1>1, <1>2
  <2> HIDE DEF m
  <2>2. key[m] <= key[n] /\ key[n] <= key[m] /\ (key[m] = key[n] => m <= n) /\ (key[m] = key[n] => n <= m)
    BY <1>1, <2>1
  <2>3. key[m] \in Int /\ key[n] \in Int
    BY <1>0, <2>1
  <2>4. m = n
    BY <2>1, <2>2, <2>3
  <2> QED
    BY <2>4 DEF m
<1>4. /\ DOMAIN SortedBy(list, key) = 1..N
      /\ \A k \in 1..N : SortedBy(list, key)[k] = list[SortedFrom(key, k)]
      /\ SortedBy(list, key) = [k \in 1..N |-> SortedBy(list, key)[k]]
  BY <1>0 DEF SortedBy, SortedFrom
<1>5. IsList(SortedBy(list, key))
  BY <1>0, <1>4 DEF IsList
<1>6. ASSUME NEW k1 \in 1..N, NEW k2 \in 1..N, k1 <= k2
      PROVE  /\ key[SortedFrom(key, k1)] <= key[SortedFrom(key, k2)]
             /\ key[SortedFrom(key, k1)] = key[SortedFrom(key, k2)] =>
                  SortedFrom(key, k1) <= SortedFrom(key, k2)
  BY <1>1, <1>2, <1>6
<1> QED
  BY <1>0, <1>1, <1>2, <1>3, <1>4, <1>5, <1>6

\* Sorting some of a list, those whose keys are the least, gives the head of the sorted list.
LEMMA SortedHead ==
  ASSUME NEW list, IsList(list), NEW key, DOMAIN key = DOMAIN list,
         \A n \in DOMAIN list : key[n] \in Int,
         NEW S \in SUBSET DOMAIN list,
         \A n \in S : \A m \in DOMAIN list : key[m] <= key[n] => m \in S,
         NEW part, part = ElementsAt(list, S),
         NEW own, DOMAIN own = DOMAIN part, \A k \in DOMAIN part : own[k] = key[PlaceIn(S, k)]
  PROVE  \A k \in DOMAIN part :
           k \in DOMAIN list /\ SortedBy(part, own)[k] = SortedBy(list, key)[k]
<1>1. /\ IsList(part)
      /\ \A k \in DOMAIN part : PlaceIn(S, k) \in S /\ part[k] = list[PlaceIn(S, k)]
      /\ \A n \in S : \E k \in DOMAIN part : PlaceIn(S, k) = n
      /\ \A k1, k2 \in DOMAIN part : PlaceIn(S, k1) = PlaceIn(S, k2) => k1 = k2
  BY Selected
<1>2. \A j, k \in DOMAIN part : j <= k <=> PlaceIn(S, j) <= PlaceIn(S, k)
  BY PlacesGrow
<1>3. \A k \in DOMAIN part : own[k] \in Int
  BY <1>1
<1>4. /\ \A k \in DOMAIN part : /\ SortedFrom(own, k) \in DOMAIN part
                                /\ SortedPlace(own, SortedFrom(own, k)) = k
                                /\ SortedBy(part, own)[k] = part[SortedFrom(own, k)]
  BY <1>1, <1>3, SortedIs
<1>5. /\ \A k \in DOMAIN list : SortedBy(list, key)[k] = list[SortedFrom(key, k)]
      /\ \A n \in DOMAIN list : /\ SortedPlace(key, n) \in DOMAIN list
                                /\ SortedFrom(key, SortedPlace(key, n)) = n
  BY SortedIs
<1>6. ASSUME NEW j \in DOMAIN part PROVE SortedPlace(own, j) = SortedPlace(key, PlaceIn(S, j))
  <2> DEFINE n == PlaceIn(S, j)
             A == {i \in DOMAIN own : own[i] < own[j] \/ (own[i] = own[j] /\ i <= j)}
             B == {m \in DOMAIN key : key[m] < key[n] \/ (key[m] = key[n] /\ m <= n)}
             f == [i \in DOMAIN part |-> PlaceIn(S, i)]
  <2>1. n \in S /\ n \in DOMAIN list /\ own[j] = key[n]
    BY <1>1
  <2>2. \A i \in DOMAIN part : i \in A <=> f[i] \in B
    <3> SUFFICES ASSUME NEW i \in DOMAIN part PROVE i \in A <=> f[i] \in B
      OBVIOUS
    <3>1. f[i] \in DOMAIN list /\ own[i] = key[f[i]] /\ (i <= j <=> f[i] <= n)
      BY <1>1, <1>2
    <3> HIDE DEF f, n
    <3> QED
      BY <2>1, <3>1
  <2>3. B \subseteq S
    <3>1. ASSUME NEW m \in B PROVE m \in S
      <4>1. m \in DOMAIN list /\ key[m] \in Int /\ key[n] \in Int /\ (key[m] < key[n] \/ key[m] = key[n])
        BY <2>1
      <4>2. key[m] <= key[n]
        BY <4>1
      <4> QED
        BY <2>1, <4>1, <4>2
    <3> QED
      BY <3>1
  <2>4. B = {f[i] : i \in A}
    <3>1. A \subseteq DOMAIN part
      OBVIOUS
    <3>2. \A m \in B : \E i \in DOMAIN part : f[i] = m
      BY <1>1, <2>3
    <3> HIDE DEF A, B, f
    <3> QED
      BY <2>2, <3>1, <3>2
  <2>5. IsFiniteSet(A) /\ \A x, y \in A : f[x] = f[y] => x = y
    <3>1. Len(part) \in Nat /\ DOMAIN part = 1..Len(part)
      BY <1>1, ListIs
    <3>2. IsFiniteSet(DOMAIN part) /\ A \subseteq DOMAIN part
      BY <3>1, FS_Interval
    <3>3. \A x, y \in DOMAIN part : f[x] = f[y] => x = y
      BY <1>1
    <3> HIDE DEF A, f
    <3> QED
      BY <3>2, <3>3, FS_Subset
  <2>6. Cardinality(B) = Cardinality(A)
    <3> HIDE DEF A, B, f
    <3> QED
      BY <2>4, <2>5, ImageFinite
  <2>7. SortedPlace(own, j) = Cardinality(A) /\ SortedPlace(key, n) = Cardinality(B)
    BY DEF SortedPlace
  <2> QED
    BY <2>6, <2>7
<1> SUFFICES ASSUME NEW k \in DOMAIN part
             PROVE  k \in DOMAIN list /\ SortedBy(part, own)[k] = SortedBy(list, key)[k]
  OBVIOUS
<1> DEFINE j == SortedFrom(own, k)
           n == PlaceIn(S, j)
<1>7. j \in DOMAIN part /\ SortedPlace(own, j) = k /\ SortedBy(part, own)[k] = part[j]
  BY <1>4
<1>8. n \in DOMAIN list /\ part[j] = list[n] /\ SortedPlace(key, n) = k
  BY <1>1, <1>6, <1>7
<1> HIDE DEF n, j
<1>9. k \in DOMAIN list /\ SortedFrom(key, k) = n
  BY <1>5, <1>8
<1> QED
  BY <1>5, <1>7, <1>8, <1>9

\* The places of a list are finitely many.
LEMMA PlacesFinite ==
  ASSUME NEW list, IsList(list)
  PROVE  IsFiniteSet(DOMAIN list) /\ \A S \in SUBSET DOMAIN list : Cardinality(S) \in Int
<1>1. Len(list) \in Nat /\ DOMAIN list = 1..Len(list)
  BY ListIs
<1>2. IsFiniteSet(DOMAIN list)
  BY <1>1, FS_Interval
<1> QED
  BY <1>2, FS_Subset, FS_CardinalityType

\* How many come before an element, in an order.
LEMMA RankGrows ==
  ASSUME NEW D, IsFiniteSet(D), NEW R, NEW key,
         \A n \in D : key[n] = Cardinality({m \in D : <<m, n>> \in R}),
         \A n \in D : <<n, n>> \notin R,
         \A k, m, n \in D : <<k, m>> \in R /\ <<m, n>> \in R => <<k, n>> \in R
  PROVE  /\ \A n \in D : key[n] \in Int
         /\ \A m, n \in D : <<m, n>> \in R => key[m] < key[n]
<1> DEFINE B(n) == {m \in D : <<m, n>> \in R}
<1>1. \A n \in D : IsFiniteSet(B(n)) /\ Cardinality(B(n)) \in Nat
  BY FS_Subset, FS_CardinalityType
<1>3. \A n \in D : key[n] = Cardinality(B(n))
  OBVIOUS
<1>2. ASSUME NEW m \in D, NEW n \in D, <<m, n>> \in R PROVE Cardinality(B(m)) < Cardinality(B(n))
  <2>1. B(m) \subseteq B(n)
    BY <1>2
  <2>2. m \in B(n) /\ m \notin B(m)
    BY <1>2
  <2> HIDE DEF B
  <2> QED
    BY <1>1, <2>1, <2>2, FS_Subset
<1> HIDE DEF B
<1>4. \A n \in D : key[n] \in Int
  BY <1>1, <1>3
<1>5. \A m, n \in D : <<m, n>> \in R => key[m] < key[n]
  BY <1>2, <1>3
<1> QED
  BY <1>4, <1>5

-----------------------------------------------------------------------------
(* Sums over lists.                                                        *)

\* The same terms at other places.
LEMMA SumMoved ==
  ASSUME NEW S, NEW f, Summable(f, S), NEW T, IsFiniteSet(T), NEW b,
         \A t \in T : b[t] \in S, \A t, u \in T : b[t] = b[u] => t = u,
         \A s \in S : \E t \in T : b[t] = s,
         NEW g, \A t \in T : g[t] = f[b[t]]
  PROVE  SumFunctionOnSet(g, T) = SumFunctionOnSet(f, S)
<1>1. Summable(g, T)
  BY DEF Summable
<1>2. \A s \in S : f[s] = SumFunctionOnSet(g, {t \in T : b[t] = s})
  <2> SUFFICES ASSUME NEW s \in S PROVE f[s] = SumFunctionOnSet(g, {t \in T : b[t] = s})
    OBVIOUS
  <2>1. PICK t \in T : b[t] = s
    OBVIOUS
  <2>2. {u \in T : b[u] = s} = {t}
    BY <2>1
  <2>3. SumFunctionOnSet(g, {t}) = g[t]
    BY <1>1, <2>1, SumSingle DEF Summable
  <2> QED
    BY <2>1, <2>2, <2>3
<1>3. IsFiniteSet(S) /\ \A t \in T : b[t] \in S
  BY DEF Summable
<1>4. PartedBy(T, g, S, b, f)
  BY <1>1, <1>2, <1>3 DEF PartedBy
<1> QED
  BY <1>4, SumParts

\* One term more.
LEMMA SumNext ==
  ASSUME NEW n \in Nat, NEW f, \A k \in 1..(n + 1) : f[k] \in Int
  PROVE  SumFunctionOnSet(f, 1..(n + 1)) = SumFunctionOnSet(f, 1..n) + f[n + 1]
<1>1. Summable(f, 1..(n + 1))
  BY FS_Interval DEF Summable
<1>2. n + 1 \in 1..(n + 1) /\ (1..(n + 1)) \ {n + 1} = 1..n
  OBVIOUS
<1>3. Summable(f, 1..n)
  BY <1>1, <1>2, FS_Subset DEF Summable
<1>4. SumFunctionOnSet(f, 1..n) \in Int /\ f[n + 1] \in Int
  BY <1>1, <1>2, <1>3, SumInt DEF Summable
<1> QED
  BY <1>1, <1>2, <1>4, SumRemove

\* Terms that are zero may be left out.
LEMMA SumLess ==
  ASSUME NEW S, NEW f, Summable(f, S), NEW R \in SUBSET S, \A x \in S \ R : f[x] = 0
  PROVE  SumFunctionOnSet(f, S) = SumFunctionOnSet(f, R)
<1>1. Summable(f, R) /\ Summable(f, S \ R)
  BY FS_Subset DEF Summable
<1>2. SumFunctionOnSet(f, S) = SumFunctionOnSet(f, R) + SumFunctionOnSet(f, S \ R)
  <2>1. S = R \cup (S \ R) /\ R \cap (S \ R) = {}
    OBVIOUS
  <2> QED
    BY <1>1, <2>1, SumUnion
<1>3. SumFunctionOnSet(f, S \ R) = 0
  BY <1>1, SumNat DEF Summable
<1> QED
  BY <1>1, <1>2, <1>3, SumInt

\* A sum over some places of a list is a sum of the list that has these.
LEMMA SumSelected ==
  ASSUME NEW list, IsList(list), NEW S \in SUBSET DOMAIN list,
         NEW f, \A n \in S : f[n] \in Int,
         NEW g, \A k \in DOMAIN ElementsAt(list, S) : g[k] = f[PlaceIn(S, k)]
  PROVE  SumFunctionOnSet(g, DOMAIN ElementsAt(list, S)) = SumFunctionOnSet(f, S)
<1> DEFINE T == DOMAIN ElementsAt(list, S)
           b == [k \in T |-> PlaceIn(S, k)]
<1>1. /\ \A k \in T : PlaceIn(S, k) \in S
      /\ \A n \in S : \E k \in T : PlaceIn(S, k) = n
      /\ \A k1, k2 \in T : PlaceIn(S, k1) = PlaceIn(S, k2) => k1 = k2
      /\ IsList(ElementsAt(list, S))
  BY Selected
<1>2. IsFiniteSet(T) /\ IsFiniteSet(S)
  <2>1. Len(list) \in Nat /\ DOMAIN list = 1..Len(list)
    BY ListIs
  <2>2. IsFiniteSet(DOMAIN list)
    BY <2>1, FS_Interval
  <2>3. Len(ElementsAt(list, S)) \in Nat /\ T = 1..Len(ElementsAt(list, S))
    BY <1>1, ListIs
  <2> QED
    BY <2>2, <2>3, FS_Interval, FS_Subset
<1>3. \A k \in T : b[k] = PlaceIn(S, k)
  OBVIOUS
<1>4. Summable(f, S)
  BY <1>2 DEF Summable
<1>5. /\ \A k \in T : b[k] \in S /\ g[k] = f[b[k]]
      /\ \A n \in S : \E k \in T : b[k] = n
      /\ \A k1, k2 \in T : b[k1] = b[k2] => k1 = k2
  BY <1>1, <1>3
<1> HIDE DEF T, b
<1>6. SumFunctionOnSet(g, T) = SumFunctionOnSet(f, S)
  BY ONLY <1>2, <1>4, <1>5, SumMoved
<1> QED
  BY <1>6 DEF T

\* Sorting does not change a sum.
LEMMA SumSorted ==
  ASSUME NEW list, IsList(list), NEW key, DOMAIN key = DOMAIN list,
         \A n \in DOMAIN list : key[n] \in Int,
         NEW f, \A n \in DOMAIN list : f[n] \in Int,
         NEW g, \A k \in DOMAIN list : g[k] = f[SortedFrom(key, k)]
  PROVE  SumFunctionOnSet(g, DOMAIN list) = SumFunctionOnSet(f, DOMAIN list)
<1> DEFINE D == DOMAIN list
           b == [k \in D |-> SortedFrom(key, k)]
<1>1. /\ \A k \in D : SortedFrom(key, k) \in D /\ SortedPlace(key, SortedFrom(key, k)) = k
      /\ \A n \in D : SortedPlace(key, n) \in D /\ SortedFrom(key, SortedPlace(key, n)) = n
  BY SortedIs
<1>2. Summable(f, D) /\ IsFiniteSet(D)
  <2>1. Len(list) \in Nat /\ DOMAIN list = 1..Len(list)
    BY ListIs
  <2> QED
    BY <2>1, FS_Interval DEF Summable
<1>3. \A k \in D : b[k] = SortedFrom(key, k)
  OBVIOUS
<1>4. /\ \A k \in D : b[k] \in D /\ g[k] = f[b[k]]
      /\ \A n \in D : \E k \in D : b[k] = n
      /\ \A k1, k2 \in D : b[k1] = b[k2] => k1 = k2
  BY <1>1, <1>3
<1> HIDE DEF D, b
<1>5. SumFunctionOnSet(g, D) = SumFunctionOnSet(f, D)
  BY ONLY <1>2, <1>4, SumMoved
<1> QED
  BY <1>5 DEF D
=============================================================================
