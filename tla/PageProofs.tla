----------------------------- MODULE PageProofs ------------------------------
(***************************************************************************)
(* What the pages show.  The portfolio counts every campus once and shows  *)
(* everybody the same, for any number of plans, campuses, accounts and     *)
(* managers, and whatever the campaigns bring.  The command center accuses *)
(* no campaign of a day its account was not asked about, puts the worst    *)
(* first and tells the same on every page, for any number of campaigns and *)
(* accounts, whatever the API reports of them and in whichever order the   *)
(* accounts are synced.                                                    *)
(***************************************************************************)
EXTENDS Portfolio, CommandCenter, DataLemmas, SequenceTheorems

-----------------------------------------------------------------------------
(* The portfolio.                                                          *)

PortfolioSpec == PortfolioInit /\ [][PortfolioNext]_portfolioVars

StoredPlans ==
  [budget : Nat, leads : Nat, span : Nat \ {0}, words : {p.words : p \in Proposals},
   campus : DOMAIN RunsFor, account : Everything, made : Nat,
   owner : Users \cup {""}, manager : Users \cup {""}]

Brought == [campaign : DOMAIN HeldBy, day : Nat, clicks : Nat, cost : Nat, leads : Nat]

\* The inductive invariant: no plan is from the future, and finitely much was delivered.
PortfolioInv ==
  /\ stored \in Seq(StoredPlans)
  /\ \A n \in DOMAIN stored : stored[n].made <= date
  /\ date \in Nat
  /\ delivered \subseteq Brought /\ IsFiniteSet(delivered)

LEMMA PortfolioStarts == PortfolioInit => PortfolioInv
  BY FS_EmptySet DEF PortfolioInit, PortfolioInv

\* Every stored plan is one.
LEMMA StoredPlan ==
  ASSUME PortfolioInv, NEW n \in DOMAIN stored PROVE stored[n] \in StoredPlans
  BY DEF PortfolioInv

\* An edit of a plan leaves all the others, and when it was made.
LEMMA PlanEdited ==
  ASSUME PortfolioInv, NEW n \in DOMAIN stored, NEW q \in StoredPlans,
         q.made = stored[n].made, stored' = [stored EXCEPT ![n] = q],
         UNCHANGED <<delivered, date>>
  PROVE  PortfolioInv'
<1>1. stored' \in Seq(StoredPlans) /\ DOMAIN stored' = DOMAIN stored
  BY ExceptSeq DEF PortfolioInv
<1>2. \A k \in DOMAIN stored : stored'[k].made = stored[k].made
  OBVIOUS
<1> QED
  BY <1>1, <1>2 DEF PortfolioInv

LEMMA PortfolioKept == PortfolioInv /\ [PortfolioNext]_portfolioVars => PortfolioInv'
<1> SUFFICES ASSUME PortfolioInv, [PortfolioNext]_portfolioVars PROVE PortfolioInv'
  OBVIOUS
<1>1. ASSUME NEW campus \in DOMAIN RunsFor, NEW account \in Everything, Persist(campus, account)
      PROVE  PortfolioInv'
  <2>1. PICK p \in Proposals :
          stored' = Append(stored,
            [budget |-> p.budget, leads |-> p.leads, span |-> p.span, words |-> p.words,
             campus |-> campus, account |-> account, made |-> date, owner |-> "", manager |-> ""])
    BY <1>1 DEF Persist
  <2> DEFINE q == [budget |-> p.budget, leads |-> p.leads, span |-> p.span, words |-> p.words,
                   campus |-> campus, account |-> account, made |-> date, owner |-> "",
                   manager |-> ""]
  <2>2. q \in StoredPlans /\ q.made = date
    <3>1. p.budget \in Nat /\ p.leads \in Nat /\ p.span \in Nat \ {0} /\ date \in Nat
      BY PortfolioAssumption DEF PortfolioAssumption, PortfolioInv
    <3> QED
      BY <3>1 DEF StoredPlans
  <2>3. stored' = Append(stored, q)
    BY <2>1
  <2> HIDE DEF q
  <2>4. /\ stored \in Seq(StoredPlans) /\ stored' \in Seq(StoredPlans)
        /\ Len(stored') = Len(stored) + 1 /\ DOMAIN stored = 1..Len(stored)
        /\ DOMAIN stored' = 1..Len(stored') /\ Len(stored) \in Nat
    BY <2>2, <2>3 DEF PortfolioInv
  <2>5. \A n \in DOMAIN stored' : stored'[n] = IF n = Len(stored) + 1 THEN q ELSE stored[n]
    BY <2>2, <2>3, <2>4
  <2>6. UNCHANGED <<delivered, date>>
    BY <1>1 DEF Persist
  <2>7. \A n \in DOMAIN stored' : stored'[n].made <= date
    BY <2>2, <2>4, <2>5 DEF PortfolioInv
  <2> QED
    BY <2>4, <2>6, <2>7 DEF PortfolioInv
<1>2. ASSUME NEW n \in DOMAIN stored, NEW u \in Users \cup {""}, SetOwner(n, u)
      PROVE  PortfolioInv'
  <2> DEFINE q == [stored[n] EXCEPT !.owner = u, !.manager = IF u = "" THEN @ ELSE u]
  <2>1. stored[n] \in StoredPlans
    BY StoredPlan
  <2>2. q \in StoredPlans /\ q.made = stored[n].made
    BY <2>1 DEF StoredPlans
  <2>3. stored' = [stored EXCEPT ![n] = q] /\ UNCHANGED <<delivered, date>>
    BY <1>2 DEF SetOwner
  <2> HIDE DEF q
  <2> QED
    BY <2>2, <2>3, PlanEdited
<1>3. ASSUME NEW n \in DOMAIN stored, NEW u \in Users \cup {""}, SetManager(n, u)
      PROVE  PortfolioInv'
  <2> DEFINE q == [stored[n] EXCEPT !.manager = u]
  <2>1. stored[n] \in StoredPlans
    BY StoredPlan
  <2>2. q \in StoredPlans /\ q.made = stored[n].made
    BY <2>1 DEF StoredPlans
  <2>3. stored' = [stored EXCEPT ![n] = q] /\ UNCHANGED <<delivered, date>>
    BY <1>3 DEF SetManager
  <2> HIDE DEF q
  <2> QED
    BY <2>2, <2>3, PlanEdited
<1>4. ASSUME NEW n \in DOMAIN stored, NEW a \in Accounts, SetAccount(n, a)
      PROVE  PortfolioInv'
  <2> DEFINE q == [stored[n] EXCEPT !.account = a]
  <2>1. stored[n] \in StoredPlans
    BY StoredPlan
  <2>2. q \in StoredPlans /\ q.made = stored[n].made
    BY <2>1 DEF StoredPlans, Everything
  <2>3. stored' = [stored EXCEPT ![n] = q] /\ UNCHANGED <<delivered, date>>
    BY <1>4 DEF SetAccount
  <2> HIDE DEF q
  <2> QED
    BY <2>2, <2>3, PlanEdited
<1>5. CASE DayPasses
  <2>1. PICK campaign \in DOMAIN HeldBy, d \in Deliveries :
          delivered' = delivered \cup
            {[campaign |-> campaign, day |-> date, clicks |-> d.clicks, cost |-> d.cost,
              leads |-> d.leads]}
    BY <1>5 DEF DayPasses
  <2> DEFINE b == [campaign |-> campaign, day |-> date, clicks |-> d.clicks,
                   cost |-> d.cost, leads |-> d.leads]
  <2>2. b \in Brought
    <3>1. d \in [clicks : Nat, cost : Nat, leads : Nat] /\ date \in Nat
      BY PortfolioAssumption DEF PortfolioAssumption, PortfolioInv
    <3> QED
      BY <3>1 DEF Brought
  <2>3. delivered' = delivered \cup {b}
    BY <2>1
  <2> HIDE DEF b
  <2>4. delivered' \subseteq Brought /\ IsFiniteSet(delivered')
    BY <2>2, <2>3, FS_AddElement DEF PortfolioInv
  <2>5. date' = date + 1 /\ stored' = stored
    BY <1>5 DEF DayPasses
  <2>6. \A n \in DOMAIN stored' : stored'[n].made <= date'
    <3> SUFFICES ASSUME NEW n \in DOMAIN stored PROVE stored[n].made <= date + 1
      BY <2>5
    <3>1. stored[n] \in StoredPlans /\ stored[n].made <= date /\ date \in Nat
      BY StoredPlan DEF PortfolioInv
    <3>2. stored[n].made \in Nat
      BY <3>1 DEF StoredPlans
    <3> QED
      BY <3>1, <3>2
  <2> QED
    BY <2>4, <2>5, <2>6 DEF PortfolioInv
<1>6. CASE UNCHANGED portfolioVars
  BY <1>6 DEF portfolioVars, PortfolioInv
<1> QED
  BY <1>1, <1>2, <1>3, <1>4, <1>5, <1>6 DEF PortfolioNext
-----------------------------------------------------------------------------
(* Rounding.                                                               *)

\* What a quotient is, and what is left.
LEMMA Division ==
  ASSUME NEW n \in Nat, NEW d \in Nat \ {0}
  PROVE  /\ n \div d \in Nat /\ n % d \in 0..(d - 1)
         /\ n = d * (n \div d) + (n % d)
OBVIOUS

\* A quotient of no more than k is rounded to no more.
LEMMA RoundedMost ==
  ASSUME NEW n \in Nat, NEW d \in Nat \ {0}, NEW k \in Nat, n <= k * d
  PROVE  Rounded(n, d) \in Nat /\ Rounded(n, d) <= k
<1> DEFINE q == n \div d
           r == n % d
<1>1. q \in Nat /\ r \in 0..(d - 1) /\ n = d * q + r
  BY Division
<1>2. Rounded(n, d) = IF 2 * r > d \/ (2 * r = d /\ q % 2 = 1) THEN q + 1 ELSE q
  BY DEF Rounded
<1> HIDE DEF q, r
<1>3. q <= k /\ (r > 0 => q < k)
  <2>1. ASSUME q > k PROVE FALSE
    <3>1. d * (q - k) >= d /\ d * (q - k) = d * q - k * d
      BY <1>1, <2>1
    <3> QED
      BY <1>1, <3>1
  <2>2. ASSUME r > 0, q = k PROVE FALSE
    BY <1>1, <2>2
  <2> QED
    BY <1>1, <2>1, <2>2
<1> QED
  BY <1>1, <1>2, <1>3

\* A quotient of no less than k is rounded to no less.
LEMMA RoundedLeast ==
  ASSUME NEW n \in Nat, NEW d \in Nat \ {0}, NEW k \in Nat, n >= k * d
  PROVE  Rounded(n, d) >= k /\ Rounded(n, d) \in Int
<1> DEFINE q == n \div d
           r == n % d
<1>1. q \in Nat /\ r \in 0..(d - 1) /\ n = d * q + r
  BY Division
<1>2. Rounded(n, d) = q + 1 \/ Rounded(n, d) = q
  BY DEF Rounded
<1> HIDE DEF q, r
<1>3. ASSUME q < k PROVE FALSE
  <2>1. d * (k - q) >= d /\ d * (k - q) = k * d - d * q
    BY <1>1, <1>3
  <2> QED
    BY <1>1, <2>1
<1> QED
  BY <1>1, <1>2, <1>3

\* Rounding keeps the order of quotients.
LEMMA RoundedGrows ==
  ASSUME NEW m \in Nat, NEW d \in Nat \ {0}, NEW n \in Nat, NEW e \in Nat \ {0}, m * e <= n * d
  PROVE  Rounded(m, d) \in Nat /\ Rounded(m, d) <= Rounded(n, e)
<1> DEFINE p == m \div d
           q == n \div e
           r == m % d
           s == n % e
           Rm == Rounded(m, d)
           Rn == Rounded(n, e)
<1>1. p \in Nat /\ r \in 0..(d - 1) /\ m = d * p + r
  BY Division
<1>2. q \in Nat /\ s \in 0..(e - 1) /\ n = e * q + s
  BY Division
<1>3. Rm = IF 2 * r > d \/ (2 * r = d /\ p % 2 = 1) THEN p + 1 ELSE p
  BY DEF Rounded
<1>4. Rn = IF 2 * s > e \/ (2 * s = e /\ q % 2 = 1) THEN q + 1 ELSE q
  BY DEF Rounded
<1> HIDE DEF p, q, r, s, Rm, Rn
<1>5. Rm \in {p, p + 1} /\ Rn \in {q, q + 1} /\ Rm \in Nat /\ Rn \in Nat
  BY <1>1, <1>2, <1>3, <1>4
<1> DEFINE de == d * e
           dep == de * p
           deq == de * q
           re == r * e
           sd == s * d
<1>6. de \in Nat /\ dep \in Nat /\ deq \in Nat /\ re \in Nat /\ sd \in Nat
  BY <1>1, <1>2
<1>7. m * e = dep + re /\ n * d = deq + sd
  BY <1>1, <1>2
<1>8. sd < de
  <2>1. s <= e - 1 /\ s \in Nat
    BY <1>2
  <2>2. s * d <= (e - 1) * d
    BY <2>1
  <2>3. (e - 1) * d = d * e - d
    OBVIOUS
  <2> QED
    BY <2>1, <2>2, <2>3
<1>9. q + 1 <= p => dep >= deq + de
  <2> SUFFICES ASSUME q + 1 <= p PROVE dep >= deq + de
    OBVIOUS
  <2>1. de * p >= de * (q + 1)
    <3> HIDE DEF de
    <3> QED
      BY <1>1, <1>2, <1>6
  <2>2. de * (q + 1) = de * q + de
    <3> HIDE DEF de
    <3> QED
      BY <1>2, <1>6
  <2> QED
    BY <2>1, <2>2
<1>10. p = q => dep = deq
  OBVIOUS
<1>11. 2 * r >= d => 2 * re >= de
  <2> SUFFICES ASSUME 2 * r >= d PROVE 2 * re >= de
    OBVIOUS
  <2>1. (2 * r) * e >= d * e
    BY <1>1
  <2>2. (2 * r) * e = 2 * (r * e)
    BY <1>1
  <2> QED
    BY <2>1, <2>2
<1>12. 2 * s <= e => 2 * sd <= de
  <2> SUFFICES ASSUME 2 * s <= e PROVE 2 * sd <= de
    OBVIOUS
  <2>1. (2 * s) * d <= e * d
    BY <1>2
  <2>2. (2 * s) * d = 2 * (s * d) /\ e * d = d * e
    BY <1>2
  <2> QED
    BY <2>1, <2>2
<1>13. 2 * r > d => 2 * re > de
  <2> SUFFICES ASSUME 2 * r > d PROVE 2 * re > de
    OBVIOUS
  <2>1. (2 * r) * e > d * e
    BY <1>1
  <2>2. (2 * r) * e = 2 * (r * e)
    BY <1>1
  <2> QED
    BY <2>1, <2>2
<1>14. 2 * s < e => 2 * sd < de
  <2> SUFFICES ASSUME 2 * s < e PROVE 2 * sd < de
    OBVIOUS
  <2>1. (2 * s) * d < e * d
    BY <1>2
  <2>2. (2 * s) * d = 2 * (s * d) /\ e * d = d * e
    BY <1>2
  <2> QED
    BY <2>1, <2>2
<1>15. dep + re <= deq + sd
  BY <1>7
<1> HIDE DEF de, dep, deq, re, sd
<1>16. p <= q
  BY <1>1, <1>2, <1>6, <1>8, <1>9, <1>15
<1>17. CASE p < q
  BY <1>1, <1>2, <1>5, <1>17 DEF Rm, Rn
<1>18. CASE p = q
  <2> SUFFICES ASSUME ~(Rm <= Rn) PROVE FALSE
    BY <1>5 DEF Rm, Rn
  <2>1. Rm = p + 1 /\ Rn = q
    BY <1>1, <1>2, <1>5, <1>18
  <2>2. 2 * r >= d /\ 2 * s <= e
    BY <1>1, <1>2, <1>3, <1>4, <2>1
  <2>3. re <= sd
    BY <1>6, <1>10, <1>15, <1>18
  <2>4. 2 * re = de /\ 2 * sd = de
    BY <1>6, <1>11, <1>12, <2>2, <2>3
  <2>5. 2 * r = d /\ 2 * s = e
    BY <1>1, <1>2, <1>6, <1>13, <1>14, <2>2, <2>4
  <2>6. p % 2 = 1
    BY <1>1, <1>3, <2>1, <2>5
  <2>7. Rn = q + 1
    BY <1>4, <1>18, <2>5, <2>6
  <2> QED
    BY <1>2, <2>1, <2>7
<1> QED
  BY <1>1, <1>2, <1>5, <1>16, <1>17, <1>18 DEF Rm, Rn

\* A share of a whole is no more than the whole.
LEMMA RoundedShare ==
  ASSUME NEW whole \in Nat, NEW span \in Nat \ {0}, NEW some \in Nat, some <= span
  PROVE  Rounded(whole * some, span) \in Nat /\ Rounded(whole * some, span) <= whole
<1>1. whole * some \in Nat /\ whole * some <= whole * span
  OBVIOUS
<1> QED
  BY <1>1, RoundedMost

\* What is beyond the whole is more than a hundred percent of it.
LEMMA PercentBeyond ==
  ASSUME NEW part \in Nat, NEW whole \in Nat \ {0}, part >= whole
  PROVE  Percent(part, whole) >= 100 /\ Percent(part, whole) \in Int
<1>1. 100 * part \in Nat /\ 100 * part >= 100 * whole
  OBVIOUS
<1> QED
  BY <1>1, RoundedLeast DEF Percent

-----------------------------------------------------------------------------
(* Sums over rows.                                                         *)

\* A sum of a field.
LEMMA FieldSum ==
  ASSUME NEW S, IsFiniteSet(S), NEW field, \A x \in S : x[field] \in Nat
  PROVE  /\ SumOver(S, field) = SumFunctionOnSet([x \in S |-> x[field]], S)
         /\ SumOver(S, field) \in Nat
         /\ \A R \in SUBSET S : SumOver(R, field) <= SumOver(S, field)
         /\ \A R \in SUBSET S :
              SumOver(R, field) = SumFunctionOnSet([x \in S |-> x[field]], R)
<1> DEFINE f == [x \in S |-> x[field]]
<1>1. \A R \in SUBSET S : SumOver(R, field) = SumFunctionOnSet(f, R)
  <2> SUFFICES ASSUME NEW R \in SUBSET S PROVE SumOver(R, field) = SumFunctionOnSet(f, R)
    OBVIOUS
  <2> DEFINE g == [x \in R |-> x[field]]
  <2>1. SumOver(R, field) = SumFunctionOnSet(g, R)
    BY DEF SumOver, Total
  <2>2. \A x \in R : g[x] = f[x] /\ g[x] \in Int
    OBVIOUS
  <2> HIDE DEF f, g
  <2>3. Summable(g, R)
    BY <2>2, FS_Subset DEF Summable
  <2> QED
    BY <2>1, <2>2, <2>3, SumEqual
<1>2. \A x \in S : f[x] \in Nat
  OBVIOUS
<1>3. S \in SUBSET S
  OBVIOUS
<1>4. SumOver(S, field) = SumFunctionOnSet(f, S)
  BY <1>1, <1>3
<1>5. f = [x \in S |-> x[field]]
  OBVIOUS
<1> HIDE DEF f
<1>6. SumFunctionOnSet(f, S) \in Nat
  BY <1>2, SumNat
<1>7. \A R \in SUBSET S : SumFunctionOnSet(f, R) <= SumFunctionOnSet(f, S)
  BY <1>2, SumPart
<1> QED
  BY <1>1, <1>4, <1>5, <1>6, <1>7

\* A field of all rows sums up to the sums of its classes.
LEMMA ClassSum ==
  ASSUME NEW S, IsFiniteSet(S), NEW field, \A x \in S : x[field] \in Nat,
         NEW T, IsFiniteSet(T), NEW c, \A x \in S : c[x] \in T,
         NEW h, h = [t \in T |-> SumOver({x \in S : c[x] = t}, field)]
  PROVE  SumOver(S, field) = Total(h)
<1> DEFINE f == [x \in S |-> x[field]]
<1>1. Summable(f, S)
  BY DEF Summable
<1>2. /\ SumOver(S, field) = SumFunctionOnSet(f, S)
      /\ \A R \in SUBSET S : SumOver(R, field) = SumFunctionOnSet(f, R)
  BY FieldSum
<1> HIDE DEF f
<1>3. \A t \in T : h[t] = SumFunctionOnSet(f, {x \in S : c[x] = t})
  <2> SUFFICES ASSUME NEW t \in T
               PROVE  h[t] = SumFunctionOnSet(f, {x \in S : c[x] = t})
    OBVIOUS
  <2>1. {x \in S : c[x] = t} \in SUBSET S
    OBVIOUS
  <2> QED
    BY <1>2, <2>1
<1>4. IsFiniteSet(T) /\ \A x \in S : c[x] \in T
  OBVIOUS
<1>5. SumFunctionOnSet(f, S) = SumFunctionOnSet(h, T)
  BY ONLY <1>1, <1>3, <1>4, SumParts DEF PartedBy
<1>6. Total(h) = SumFunctionOnSet(h, T)
  BY DEF Total
<1> QED
  BY <1>2, <1>5, <1>6

\* There are as many rows as there are in all classes.
LEMMA ClassCount ==
  ASSUME NEW S, IsFiniteSet(S), NEW T, IsFiniteSet(T), NEW c, \A x \in S : c[x] \in T,
         NEW h, h = [t \in T |-> Cardinality({x \in S : c[x] = t})]
  PROVE  Cardinality(S) = Total(h)
<1> DEFINE one == [x \in S |-> 1]
<1>1. Summable(one, S) /\ \A x \in S : one[x] = 1
  BY DEF Summable
<1> HIDE DEF one
<1>2. SumFunctionOnSet(one, S) = Cardinality(S)
  BY <1>1, SumOnes
<1>3. \A t \in T : h[t] = SumFunctionOnSet(one, {x \in S : c[x] = t})
  <2> SUFFICES ASSUME NEW t \in T
               PROVE  h[t] = SumFunctionOnSet(one, {x \in S : c[x] = t})
    OBVIOUS
  <2> DEFINE R == {x \in S : c[x] = t}
  <2>1. R \in SUBSET S /\ h[t] = Cardinality(R)
    OBVIOUS
  <2> HIDE DEF R
  <2>2. IsFiniteSet(R) /\ \A x \in R : one[x] = 1
    BY <1>1, <2>1, FS_Subset
  <2>3. SumFunctionOnSet(one, R) = Cardinality(R)
    BY <2>2, SumOnes
  <2> QED
    BY <2>1, <2>3 DEF R
<1>4. SumFunctionOnSet(one, S) = SumFunctionOnSet(h, T)
  BY <1>1, <1>3, SumParts DEF PartedBy
<1>5. Total(h) = SumFunctionOnSet(h, T)
  BY DEF Total
<1> QED
  BY <1>2, <1>4, <1>5

-----------------------------------------------------------------------------
(* The rows of the portfolio.                                              *)

\* There is one newest plan of each campus.
LEMMA Newest ==
  ASSUME PortfolioInv
  PROVE  /\ IsFiniteSet(NewestPlans)
         /\ \A p \in NewestPlans : p \in StoredPlans /\ p.made <= date
         /\ \A p, q \in NewestPlans : p.campus = q.campus => p = q
<1> DEFINE N == {n \in DOMAIN stored :
                   \A m \in DOMAIN stored : stored[m].campus = stored[n].campus => m <= n}
<1>1. NewestPlans = {stored[n] : n \in N}
  BY DEF NewestPlans
<1>2. N \subseteq 1..Len(stored) /\ Len(stored) \in Nat /\ DOMAIN stored = 1..Len(stored)
  BY LenProperties DEF PortfolioInv
<1>3. IsFiniteSet(N)
  <2> HIDE DEF N
  <2>1. IsFiniteSet(1..Len(stored))
    BY <1>2, FS_Interval
  <2> QED
    BY <1>2, <2>1, FS_Subset
<1>4. IsFiniteSet({stored[n] : n \in N})
  <2> HIDE DEF N
  <2> QED
    BY <1>3, ImageFinite
<1>5. \A m, n \in N : stored[m].campus = stored[n].campus => m = n
  BY <1>2
<1>6. \A n \in N : stored[n] \in StoredPlans /\ stored[n].made <= date
  BY StoredPlan DEF PortfolioInv
<1> HIDE DEF N
<1> QED
  BY <1>1, <1>4, <1>5, <1>6

\* What campaigns brought is finitely many days with natural figures.
LEMMA DaysBrought ==
  ASSUME PortfolioInv, NEW S \in SUBSET delivered
  PROVE  /\ IsFiniteSet(S)
         /\ \A d \in S : d.leads \in Nat /\ d.clicks \in Nat /\ d.cost \in Nat /\ d.day \in Nat
<1>1. IsFiniteSet(S)
  BY FS_Subset DEF PortfolioInv
<1>2. \A d \in S : d \in Brought
  BY DEF PortfolioInv
<1> QED
  BY <1>1, <1>2 DEF Brought

\* The account that is inferred exists.
LEMMA InferredHolds ==
  ASSUME NEW campus \in DOMAIN RunsFor PROVE Inferred(campus) \in Everything
<1> DEFINE held == [a \in Accounts |-> Cardinality({c \in RunsFor[campus] : HeldBy[c] = a})]
<1>1. CASE RunsFor[campus] = {}
  BY <1>1 DEF Inferred, Everything
<1>2. CASE RunsFor[campus] # {}
  <2>1. /\ IsFiniteSet(RunsFor[campus]) /\ IsFiniteSet(Accounts) /\ Accounts # {}
    BY <1>2, PortfolioAssumption DEF PortfolioAssumption
  <2>2. \A a \in Accounts : held[a] \in Nat
    <3> SUFFICES ASSUME NEW a \in Accounts
                 PROVE  Cardinality({c \in RunsFor[campus] : HeldBy[c] = a}) \in Nat
      OBVIOUS
    <3> DEFINE own == {c \in RunsFor[campus] : HeldBy[c] = a}
    <3>1. own \in SUBSET RunsFor[campus]
      OBVIOUS
    <3> HIDE DEF own
    <3>2. Cardinality(own) \in Nat
      BY <2>1, <3>1, FS_Subset, FS_CardinalityType
    <3> QED
      BY <3>2 DEF own
  <2>3. Inferred(campus) = CHOOSE a \in Accounts : \A b \in Accounts : held[b] <= held[a]
    BY <1>2 DEF Inferred
  <2> HIDE DEF held
  <2>4. \E a \in Accounts : \A b \in Accounts : held[b] <= held[a]
    BY <2>1, <2>2, GreatestAt
  <2> QED
    BY <2>3, <2>4 DEF Everything
<1> QED
  BY <1>1, <1>2

\* What the row of a plan is.
LEMMA RowOf ==
  ASSUME PortfolioInv, NEW p \in NewestPlans, NEW r, r = CampaignRow(p)
  PROVE  /\ r.campus = p.campus /\ r.manager = p.manager /\ r.since = p.made
         /\ r.campus \in DOMAIN RunsFor /\ r.manager \in Users \cup {""}
         /\ r.account \in Everything /\ r.since \in Nat
         /\ p.account # "" => r.account = p.account
         /\ r.budget \in Nat
         /\ r.clicks = SumOver(Achieved(p.campus, p.made), "clicks")
         /\ r.spend = SumOver(Achieved(p.campus, p.made), "cost")
         /\ r.clicks \in Nat /\ r.spend \in Nat
         /\ r.actual > r.target => r.status \in {"on_track", "no_data"}
<1> DEFINE done     == Achieved(p.campus, p.made)
           leads    == SumOver(done, "leads")
           clicks   == SumOver(done, "clicks")
           spend    == SumOver(done, "cost")
           expected == Rounded(p.leads * Min({date - p.made, p.span}), p.span)
           status   == IF leads = 0 THEN "tracking_pending" ELSE StatusFromPace(leads, expected)
           account  == ResolveAccount(p)
<1>1. p \in StoredPlans /\ p.made <= date /\ date \in Nat
  BY Newest DEF PortfolioInv
<1>2. /\ p.campus \in DOMAIN RunsFor /\ p.manager \in Users \cup {""} /\ p.made \in Nat
      /\ p.budget \in Nat /\ p.leads \in Nat /\ p.span \in Nat \ {0} /\ p.account \in Everything
  BY <1>1 DEF StoredPlans
<1>3. r = [campus |-> p.campus, manager |-> p.manager, owner |-> p.owner, account |-> account,
           since |-> p.made, budget |-> p.budget, target |-> p.leads, expected |-> expected,
           actual |-> leads, clicks |-> clicks, spend |-> spend, status |-> status]
  BY DEF CampaignRow
<1>4. done \in SUBSET delivered
  BY DEF Achieved
<1>5. /\ IsFiniteSet(done)
      /\ \A d \in done : d["leads"] \in Nat /\ d["clicks"] \in Nat /\ d["cost"] \in Nat
  <2> HIDE DEF done
  <2> QED
    BY <1>4, DaysBrought
<1>6. leads \in Nat /\ clicks \in Nat /\ spend \in Nat
  <2> HIDE DEF done
  <2> QED
    BY <1>5, FieldSum
<1>7. account \in Everything /\ (p.account # "" => account = p.account)
  BY <1>2, InferredHolds DEF ResolveAccount
<1>8. ASSUME leads > p.leads PROVE status \in {"on_track", "no_data"}
  <2> DEFINE some == Min({date - p.made, p.span})
  <2>1. some \in Nat /\ some <= p.span
    <3>1. \A m \in Nat : m <= date => date - m \in Nat
      BY <1>1
    <3>2. date - p.made \in Nat
      BY <1>1, <1>2, <3>1
    <3>3. p.span \in Nat
      BY <1>2
    <3> QED
      BY <3>2, <3>3, MinOf
  <2> HIDE DEF some, leads
  <2>2. expected \in Nat /\ expected <= p.leads
    BY <1>2, <2>1, RoundedShare DEF some
  <2> HIDE DEF expected
  <2>3. leads \in Nat /\ leads > p.leads /\ p.leads \in Nat
    BY <1>2, <1>6, <1>8
  <2>4. expected # 0 => Percent(leads, expected) >= 100 /\ Percent(leads, expected) \in Int
    <3> SUFFICES ASSUME expected # 0
                 PROVE  Percent(leads, expected) >= 100 /\ Percent(leads, expected) \in Int
      OBVIOUS
    <3>1. expected \in Nat \ {0} /\ leads >= expected
      BY <2>2, <2>3
    <3> QED
      BY <2>3, <3>1, PercentBeyond
  <2>5. status = IF leads = 0 THEN "tracking_pending" ELSE StatusFromPace(leads, expected)
    BY DEF leads, expected
  <2> HIDE DEF status
  <2> QED
    BY <2>3, <2>4, <2>5 DEF StatusFromPace
<1> HIDE DEF done, leads, clicks, spend, expected, status, account
<1>9. /\ r.campus = p.campus /\ r.manager = p.manager /\ r.since = p.made /\ r.account = account
      /\ r.budget = p.budget /\ r.clicks = clicks /\ r.spend = spend /\ r.actual = leads
      /\ r.target = p.leads /\ r.status = status
  BY <1>3
<1> QED
  BY <1>2, <1>6, <1>7, <1>8, <1>9 DEF clicks, spend, done
-----------------------------------------------------------------------------
(* The views.                                                              *)

\* The parts of a portfolio, of which no two rows are about the same campus.
LEMMA Visible ==
  ASSUME PortfolioInv, NEW scope, NEW v, v = BuildPortfolio(scope), NEW R, R = v.rows
  PROVE  /\ v.managers = ByManager(R) /\ v.totals = CampaignTotals(R)
         /\ v.accounts = AccountBudgets(R)
         /\ R = {r \in {CampaignRow(p) : p \in NewestPlans} : r.account \in scope}
         /\ IsFiniteSet(R)
         /\ \A r, s \in R : r.campus = s.campus => r = s
         /\ \A r \in R : /\ r.budget \in Nat /\ r.clicks \in Nat /\ r.spend \in Nat
                         /\ r.account \in Everything /\ r.campus \in DOMAIN RunsFor
<1> DEFINE row == [p \in NewestPlans |-> CampaignRow(p)]
           All == {row[p] : p \in NewestPlans}
<1>1. All = {CampaignRow(p) : p \in NewestPlans}
  OBVIOUS
<1>2. IsFiniteSet(All)
  <2> HIDE DEF row
  <2> QED
    BY Newest, ImageFinite
<1>3. \A p \in NewestPlans :
        /\ row[p].campus = p.campus /\ row[p].budget \in Nat /\ row[p].clicks \in Nat
        /\ row[p].spend \in Nat /\ row[p].account \in Everything
        /\ row[p].campus \in DOMAIN RunsFor
  BY RowOf
<1> HIDE DEF row
<1>4. \A r, s \in All : r.campus = s.campus => r = s
  BY <1>3, Newest
<1>5. \A r \in All : /\ r.budget \in Nat /\ r.clicks \in Nat /\ r.spend \in Nat
                     /\ r.account \in Everything /\ r.campus \in DOMAIN RunsFor
  BY <1>3
<1>6. /\ v.managers = ByManager(R) /\ v.totals = CampaignTotals(R)
      /\ v.accounts = AccountBudgets(R)
      /\ R = {r \in {CampaignRow(p) : p \in NewestPlans} : r.account \in scope}
  BY DEF BuildPortfolio
<1>7. R \in SUBSET All
  BY <1>1, <1>6
<1> HIDE DEF All
<1>8. IsFiniteSet(R)
  BY <1>2, <1>7, FS_Subset
<1> QED
  BY <1>4, <1>5, <1>6, <1>7, <1>8

\* The totals of some rows.
LEMMA TotalsOf ==
  ASSUME NEW S
  PROVE  /\ CampaignTotals(S).campaigns = Cardinality(S)
         /\ CampaignTotals(S).budget = SumOver(S, "budget")
         /\ DOMAIN CampaignTotals(S).statuses = {"on_track", "off_track", "tracking_pending"}
         /\ \A t \in {"on_track", "off_track", "tracking_pending"} :
              CampaignTotals(S).statuses[t] = Cardinality({r \in S : r.status = t})
<1> DEFINE statuses == [t \in {"on_track", "off_track", "tracking_pending"} |->
                          Cardinality({r \in S : r.status = t})]
           budget == SumOver(S, "budget")
           target == SumOver(S, "target")
           expected == SumOver(S, "expected")
           actual == SumOver(S, "actual")
           spend == SumOver(S, "spend")
<1>1. CampaignTotals(S) =
        [campaigns |-> Cardinality(S), budget |-> budget, target |-> target,
         expected |-> expected, actual |-> actual, spend |-> spend, statuses |-> statuses]
  BY DEF CampaignTotals
<1> HIDE DEF budget, target, expected, actual, spend
<1>2. CampaignTotals(S).statuses = statuses
  <2> HIDE DEF statuses
  <2> QED
    BY <1>1
<1> QED
  BY <1>1, <1>2 DEF budget

\* What the account of a name is shown with.
LEMMA AccountOf ==
  ASSUME NEW R, NEW t, t \in {TitleOf(r) : r \in R}
  PROVE  /\ AccountBudgets(R)[t].allotted = SumOver({x \in R : TitleOf(x) = t}, "budget")
         /\ AccountBudgets(R)[t].campaigns = Cardinality({x \in R : TitleOf(x) = t})
         /\ AccountBudgets(R)[t].spent =
              Total([a \in {x.account : x \in {x \in R : TitleOf(x) = t}} \ {""} |-> SpendBy(a)])
<1> DEFINE own == {x \in R : TitleOf(x) = t}
           allotted == SumOver(own, "budget")
           spent    == Total([a \in {x.account : x \in own} \ {""} |-> SpendBy(a)])
<1>1. AccountBudgets(R)[t] = [campaigns |-> Cardinality(own), allotted |-> allotted,
                              spent |-> spent, status |-> BudgetStatus(allotted, spent)]
  BY DEF AccountBudgets
<1> HIDE DEF allotted, spent
<1>2. /\ AccountBudgets(R)[t].allotted = allotted /\ AccountBudgets(R)[t].spent = spent
      /\ AccountBudgets(R)[t].campaigns = Cardinality(own)
  BY <1>1
<1> QED
  BY <1>2 DEF allotted, spent

\* Every view counts every visible campus, once.
LEMMA CountsHold ==
  ASSUME PortfolioInv, NEW scope PROVE CountsOnce(BuildPortfolio(scope))
<1> DEFINE v == BuildPortfolio(scope)
           R == v.rows
           campus == [r \in R |-> r.campus]
           manager == [r \in R |-> r.manager]
           title == [r \in R |-> TitleOf(r)]
           Ms == {manager[r] : r \in R}
           Ts == {title[r] : r \in R}
<1>1. /\ v.managers = ByManager(R) /\ v.totals = CampaignTotals(R)
      /\ v.accounts = AccountBudgets(R) /\ IsFiniteSet(R)
      /\ \A r, s \in R : r.campus = s.campus => r = s
      /\ \A r \in R : r["budget"] \in Nat
  BY Visible
<1>2. /\ {r.campus : r \in R} = {campus[r] : r \in R}
      /\ Ms = {r.manager : r \in R} /\ Ts = {TitleOf(r) : r \in R}
      /\ \A r \in R : campus[r] = r.campus /\ manager[r] = r.manager /\ title[r] = TitleOf(r)
      /\ \A r \in R : manager[r] \in Ms /\ title[r] \in Ts
  OBVIOUS
<1> HIDE DEF v, R, campus, manager, title
<1>3. v.totals.campaigns = Cardinality({r.campus : r \in R})
  <2>1. \A r, s \in R : campus[r] = campus[s] => r = s
    BY <1>1, <1>2
  <2>2. Cardinality({campus[r] : r \in R}) = Cardinality(R)
    BY <1>1, <2>1, ImageFinite
  <2> QED
    BY <1>1, <1>2, <2>2, TotalsOf
<1>4. IsFiniteSet(Ms) /\ IsFiniteSet(Ts)
  BY <1>1, ImageFinite
<1> HIDE DEF Ms, Ts
<1>5. DOMAIN v.managers = Ms /\ DOMAIN v.accounts = Ts
  BY <1>1, <1>2 DEF ByManager, AccountBudgets
<1>6. ASSUME NEW m \in Ms
      PROVE  v.managers[m] = CampaignTotals({r \in R : manager[r] = m})
  <2>1. v.managers[m] = CampaignTotals({r \in R : r.manager = m})
    BY <1>1, <1>2, <1>6 DEF ByManager
  <2>2. {r \in R : r.manager = m} = {r \in R : manager[r] = m}
    BY <1>2
  <2> QED
    BY <2>1, <2>2
<1>7. ASSUME NEW t \in Ts
      PROVE  /\ v.accounts[t].allotted = SumOver({r \in R : title[r] = t}, "budget")
             /\ v.accounts[t].campaigns = Cardinality({r \in R : title[r] = t})
  <2>1. /\ v.accounts[t].allotted = SumOver({x \in R : TitleOf(x) = t}, "budget")
        /\ v.accounts[t].campaigns = Cardinality({x \in R : TitleOf(x) = t})
    <3>1. t \in {TitleOf(r) : r \in R}
      BY <1>2, <1>7
    <3>2. /\ AccountBudgets(R)[t].allotted = SumOver({x \in R : TitleOf(x) = t}, "budget")
          /\ AccountBudgets(R)[t].campaigns = Cardinality({x \in R : TitleOf(x) = t})
      BY ONLY <3>1, AccountOf
    <3> QED
      BY <1>1, <3>2
  <2>2. {r \in R : TitleOf(r) = t} = {r \in R : title[r] = t}
    BY <1>2
  <2> QED
    BY <2>1, <2>2
<1>8. ASSUME NEW s \in DOMAIN v.totals.statuses
      PROVE  v.totals.statuses[s] = Total([m \in DOMAIN v.managers |-> v.managers[m].statuses[s]])
  <2> DEFINE Q == {r \in R : r.status = s}
             h == [m \in Ms |-> Cardinality({r \in Q : manager[r] = m})]
  <2>1. s \in {"on_track", "off_track", "tracking_pending"} /\ v.totals.statuses[s] = Cardinality(Q)
    <3>1. s \in DOMAIN CampaignTotals(R).statuses
      BY <1>1, <1>8
    <3>2. s \in {"on_track", "off_track", "tracking_pending"}
      BY <3>1, TotalsOf
    <3> HIDE DEF Q
    <3>3. CampaignTotals(R).statuses[s] = Cardinality(Q)
      BY <3>2, TotalsOf DEF Q
    <3> QED
      BY <1>1, <3>2, <3>3
  <2>2. IsFiniteSet(Q) /\ \A r \in Q : manager[r] \in Ms
    BY <1>1, <1>2, FS_Subset
  <2>3. [m \in DOMAIN v.managers |-> v.managers[m].statuses[s]] = h
    <3>1. ASSUME NEW m \in Ms PROVE v.managers[m].statuses[s] = h[m]
      <4>1. {r \in {r \in R : manager[r] = m} : r.status = s} = {r \in Q : manager[r] = m}
        OBVIOUS
      <4>2. CampaignTotals({r \in R : manager[r] = m}).statuses[s] =
              Cardinality({r \in {r \in R : manager[r] = m} : r.status = s})
        BY <2>1, TotalsOf
      <4> QED
        BY <1>6, <4>1, <4>2
    <3>2. h = [m \in Ms |-> h[m]]
      OBVIOUS
    <3> HIDE DEF h
    <3> QED
      BY <1>5, <3>1, <3>2
  <2>4. Cardinality(Q) = Total(h)
    <3> HIDE DEF Q
    <3> QED
      BY <1>4, <2>2, ClassCount
  <2> QED
    BY <2>1, <2>3, <2>4
<1>9. v.totals.budget = Total([m \in DOMAIN v.managers |-> v.managers[m].budget])
  <2> DEFINE h == [m \in Ms |-> SumOver({r \in R : manager[r] = m}, "budget")]
  <2>1. [m \in DOMAIN v.managers |-> v.managers[m].budget] = h
    <3>1. ASSUME NEW m \in Ms PROVE v.managers[m].budget = h[m]
      BY <1>6, <3>1, TotalsOf
    <3>2. h = [m \in Ms |-> h[m]]
      OBVIOUS
    <3> HIDE DEF h
    <3> QED
      BY <1>5, <3>1, <3>2
  <2>2. SumOver(R, "budget") = Total(h)
    <3>1. IsFiniteSet(R) /\ \A r \in R : r["budget"] \in Nat
      BY <1>1
    <3>2. /\ \A r \in R : manager[r] \in Ms
          /\ \A r \in R : title[r] \in Ts
      BY <1>2
    <3> QED
      BY <1>4, <3>1, <3>2, ClassSum
  <2> QED
    BY <1>1, <2>1, <2>2, TotalsOf
<1>10. v.totals.budget = Total([t \in DOMAIN v.accounts |-> v.accounts[t].allotted])
  <2> DEFINE h == [t \in Ts |-> SumOver({r \in R : title[r] = t}, "budget")]
  <2>1. [t \in DOMAIN v.accounts |-> v.accounts[t].allotted] = h
    BY <1>5, <1>7
  <2>2. SumOver(R, "budget") = Total(h)
    <3>1. IsFiniteSet(R) /\ \A r \in R : r["budget"] \in Nat
      BY <1>1
    <3>2. /\ \A r \in R : manager[r] \in Ms
          /\ \A r \in R : title[r] \in Ts
      BY <1>2
    <3> QED
      BY <1>4, <3>1, <3>2, ClassSum
  <2> QED
    BY <1>1, <2>1, <2>2, TotalsOf
<1>11. v.totals.campaigns = Total([t \in DOMAIN v.accounts |-> v.accounts[t].campaigns])
  <2> DEFINE h == [t \in Ts |-> Cardinality({r \in R : title[r] = t})]
  <2>1. [t \in DOMAIN v.accounts |-> v.accounts[t].campaigns] = h
    BY <1>5, <1>7
  <2>2. Cardinality(R) = Total(h)
    BY <1>1, <1>2, <1>4, ClassCount
  <2> QED
    BY <1>1, <2>1, <2>2, TotalsOf
<1> QED
  BY <1>3, <1>8, <1>9, <1>10, <1>11 DEF CountsOnce, v, R

\* The spend of a plan is part of the spend of its account.
LEMMA SpendHolds ==
  ASSUME PortfolioInv, NEW scope PROVE SpendWithinAccount(BuildPortfolio(scope))
<1> DEFINE v == BuildPortfolio(scope)
           R == v.rows
<1>1. /\ v.accounts = AccountBudgets(R)
      /\ R = {r \in {CampaignRow(p) : p \in NewestPlans} : r.account \in scope}
      /\ IsFiniteSet(R) /\ \A r \in R : r.account \in Everything
  BY Visible
<1> HIDE DEF v, R
<1> SUFFICES ASSUME NEW r \in R
             PROVE  /\ (\A c \in RunsFor[r.campus] : HeldBy[c] = r.account) /\ r.account # ""
                         /\ r.since >= date - Trailing
                         => r.spend <= v.accounts[TitleOf(r)].spent
                    /\ r.actual > r.target => r.status \in {"on_track", "no_data"}
  BY DEF SpendWithinAccount, v, R
<1>2. PICK p \in NewestPlans : r = CampaignRow(p)
  BY <1>1
<1>3. r.actual > r.target => r.status \in {"on_track", "no_data"}
  BY <1>2, RowOf
<1>4. ASSUME \A c \in RunsFor[r.campus] : HeldBy[c] = r.account, r.account # "",
             r.since >= date - Trailing
      PROVE  r.spend <= v.accounts[TitleOf(r)].spent
  <2> DEFINE a    == r.account
             Own  == {x \in R : TitleOf(x) = TitleOf(r)}
             As   == {x.account : x \in Own} \ {""}
             paid == [b \in As |-> SpendBy(b)]
             All(b) == {d \in delivered : HeldBy[d.campaign] = b /\ d.day >= date - Trailing}
             done == Achieved(p.campus, p.made)
  <2>1. r.campus = p.campus /\ r.since = p.made /\ r.spend = SumOver(done, "cost")
        /\ p.made \in Nat
    BY <1>2, RowOf
  <2>2. v.accounts[TitleOf(r)].spent = Total(paid)
    <3>1. TitleOf(r) \in {TitleOf(x) : x \in R}
      OBVIOUS
    <3>2. AccountBudgets(R)[TitleOf(r)].spent =
            Total([b \in {x.account : x \in {x \in R : TitleOf(x) = TitleOf(r)}} \ {""} |->
                     SpendBy(b)])
      BY ONLY <3>1, AccountOf
    <3> QED
      BY <1>1, <3>2
  <2>3. \A b : /\ SpendBy(b) = SumOver(All(b), "cost") /\ IsFiniteSet(All(b))
               /\ \A d \in All(b) : d["cost"] \in Nat
    <3> SUFFICES ASSUME NEW b
                 PROVE  /\ SpendBy(b) = SumOver(All(b), "cost") /\ IsFiniteSet(All(b))
                        /\ \A d \in All(b) : d["cost"] \in Nat
      OBVIOUS
    <3>1. SpendBy(b) = SumOver(All(b), "cost") /\ All(b) \in SUBSET delivered
      BY DEF SpendBy
    <3> HIDE DEF All
    <3> QED
      BY <3>1, DaysBrought
  <2>4. done \in SUBSET All(a)
    <3> SUFFICES ASSUME NEW d \in done
                 PROVE  d \in delivered /\ HeldBy[d.campaign] = a /\ d.day >= date - Trailing
      OBVIOUS
    <3>1. d \in delivered /\ d.campaign \in RunsFor[p.campus] /\ d.day \in p.made..date
      BY DEF Achieved
    <3>2. HeldBy[d.campaign] = a
      BY <1>4, <2>1, <3>1
    <3>3. date \in Nat /\ Trailing \in Nat /\ p.made >= date - Trailing
      BY <1>4, <2>1, PortfolioAssumption DEF PortfolioInv, PortfolioAssumption
    <3> QED
      BY <2>1, <3>1, <3>2, <3>3
  <2>5. r.spend <= SpendBy(a)
    <3> HIDE DEF All, done, a
    <3> QED
      BY <2>1, <2>3, <2>4, FieldSum
  <2>6. IsFiniteSet(As) /\ a \in As
    <3> DEFINE account == [x \in R |-> x.account]
               Bs == {account[x] : x \in R}
    <3>1. As \in SUBSET Bs /\ a \in As
      BY <1>4
    <3>2. IsFiniteSet(Bs)
      <4> HIDE DEF account
      <4> QED
        BY <1>1, ImageFinite
    <3> HIDE DEF As, Bs
    <3> QED
      BY <3>1, <3>2, FS_Subset
  <2>7. \A b \in As : paid[b] = SpendBy(b)
    OBVIOUS
  <2>8. \A b : SpendBy(b) \in Nat
    <3> SUFFICES ASSUME NEW b PROVE SpendBy(b) \in Nat
      OBVIOUS
    <3> HIDE DEF All
    <3> QED
      BY <2>3, FieldSum
  <2>9. Total(paid) = SumFunctionOnSet(paid, As)
    BY DEF Total
  <2> HIDE DEF paid, As, a
  <2>10. SumFunctionOnSet(paid, {a}) <= SumFunctionOnSet(paid, As)
    BY <2>6, <2>7, <2>8, SumPart
  <2>11. SumFunctionOnSet(paid, {a}) = SpendBy(a)
    <3>1. paid[a] = SpendBy(a) /\ paid[a] \in Int
      BY <2>6, <2>7, <2>8
    <3> QED
      BY <3>1, SumSingle
  <2>12. r.spend \in Nat /\ SumFunctionOnSet(paid, As) \in Nat /\ SpendBy(a) \in Nat
    BY <1>2, <2>6, <2>7, <2>8, RowOf, SumNat
  <2> QED
    BY <2>2, <2>5, <2>9, <2>10, <2>11, <2>12
<1> QED
  BY <1>3, <1>4
\* The scopes people have.
PeoplesScopes == {Everything} \cup {Allowed(u) : u \in Users}

LEMMA ScopeIs ==
  ASSUME NEW scope \in PeoplesScopes
  PROVE  scope = Everything \/ "" \notin scope
  BY DEF PeoplesScopes, Allowed

\* A plan that is audited is shown.
LEMMA AuditedShown ==
  ASSUME PortfolioInv, NEW scope \in PeoplesScopes, NEW p \in NewestPlans,
         scope = Everything \/ p.account \in scope
  PROVE  CampaignRow(p) \in BuildPortfolio(scope).rows
<1> DEFINE r == CampaignRow(p)
<1>1. r.account \in Everything /\ (p.account # "" => r.account = p.account)
  BY RowOf
<1>2. r.account \in scope
  BY <1>1, ScopeIs
<1>3. BuildPortfolio(scope).rows = {x \in {CampaignRow(q) : q \in NewestPlans} : x.account \in scope}
  BY Visible
<1> HIDE DEF r
<1>4. r \in {CampaignRow(q) : q \in NewestPlans}
  BY DEF r
<1> QED
  BY <1>2, <1>3, <1>4 DEF r

\* An audit counts every click that the row counts.
LEMMA AuditedClicks ==
  ASSUME PortfolioInv, NEW p \in NewestPlans
  PROVE  /\ CampaignAudit(p).clicks \in Nat /\ CampaignRow(p).clicks \in Nat
         /\ CampaignRow(p).clicks <= CampaignAudit(p).clicks
<1> DEFINE part == Achieved(p.campus, p.made)
           all  == Achieved(p.campus, 0)
           clicks == SumOver(all, "clicks")
<1>1. p.made \in Nat /\ date \in Nat
  BY Newest DEF StoredPlans, PortfolioInv
<1>2. part \in SUBSET all
  <2> SUFFICES ASSUME NEW d \in part PROVE d \in all
    OBVIOUS
  <2>1. d \in delivered /\ d.campaign \in RunsFor[p.campus] /\ d.day \in p.made..date
    BY DEF Achieved
  <2>2. d.day \in 0..date
    BY <1>1, <2>1
  <2> QED
    BY <2>1, <2>2 DEF Achieved
<1>3. IsFiniteSet(all) /\ \A d \in all : d["clicks"] \in Nat
  <2>1. all \in SUBSET delivered
    BY DEF Achieved
  <2> HIDE DEF all
  <2> QED
    BY <2>1, DaysBrought
<1>4. CampaignAudit(p).clicks = clicks
  BY DEF CampaignAudit
<1>5. CampaignRow(p).clicks = SumOver(part, "clicks") /\ CampaignRow(p).clicks \in Nat
  BY RowOf
<1> HIDE DEF part, all
<1>6. SumOver(all, "clicks") \in Nat /\ SumOver(part, "clicks") <= SumOver(all, "clicks")
  BY <1>2, <1>3, FieldSum
<1> QED
  BY <1>4, <1>5, <1>6

\* The audit of a manager is about plans that the portfolio shows, and has no fewer clicks.
LEMMA AuditHolds ==
  ASSUME PortfolioInv, NEW scope \in PeoplesScopes, NEW v, v = BuildPortfolio(scope),
         NEW audit, audit = ManagerAudit(scope), NEW m \in DOMAIN audit
  PROVE  /\ audit[m].campuses \subseteq {r.campus : r \in v.rows}
         /\ audit[m].clicks >=
              SumOver({r \in v.rows : r.campus \in audit[m].campuses}, "clicks")
<1> DEFINE gens == {p \in NewestPlans :
                      p.manager # "" /\ (scope = Everything \/ p.account \in scope)}
           own  == {p \in gens : p.manager = m}
           all  == [p \in own |-> CampaignAudit(p).clicks]
           some == [p \in own |-> CampaignRow(p).clicks]
           row  == [p \in own |-> CampaignRow(p)]
           S    == {r \in v.rows : r.campus \in audit[m].campuses}
           seen == [r \in S |-> r.clicks]
<1>1. audit[m].campuses = {p.campus : p \in own} /\ audit[m].clicks = Total(all)
  <2>1. m \in {p.manager : p \in gens}
    BY DEF ManagerAudit
  <2> DEFINE rated == {p \in own : DOMAIN p.words # {}}
             adopted == [p \in rated |->
                           Percent(CampaignAudit(p).used, CampaignAudit(p).recommended)]
             adoption == IF rated = {} THEN 0 ELSE Rounded(Total(adopted), Cardinality(rated))
  <2>2. audit[m] = [campuses |-> {p.campus : p \in own}, adoption |-> adoption,
                    clicks |-> Total(all)]
    BY <2>1 DEF ManagerAudit
  <2> HIDE DEF adoption, all, own
  <2> QED
    BY <2>2
<1>2. own \in SUBSET NewestPlans /\ IsFiniteSet(own)
  <2>1. own \in SUBSET NewestPlans
    OBVIOUS
  <2> HIDE DEF own
  <2> QED
    BY <2>1, Newest, FS_Subset
<1>3. \A p \in own : CampaignRow(p) \in v.rows
  BY AuditedShown
<1>4. \A p \in own : /\ all[p] \in Nat /\ some[p] \in Nat /\ some[p] <= all[p]
                     /\ row[p] = CampaignRow(p) /\ some[p] = row[p].clicks
  BY <1>2, AuditedClicks
<1>5. \A p \in own : row[p].campus = p.campus
  BY <1>2, RowOf
<1>6. Total(all) = SumFunctionOnSet(all, own)
  BY DEF Total
<1> HIDE DEF own, all, some, row
<1>7. /\ v.rows = {r \in {CampaignRow(p) : p \in NewestPlans} : r.account \in scope}
      /\ IsFiniteSet(v.rows) /\ \A r, s \in v.rows : r.campus = s.campus => r = s
      /\ \A r \in v.rows : r["clicks"] \in Nat
  BY Visible
<1>8. audit[m].campuses \subseteq {r.campus : r \in v.rows}
  BY <1>1, <1>3, <1>4, <1>5
<1>9. /\ \A p \in own : row[p] \in S
      /\ \A r \in S : \E p \in own : r = row[p]
      /\ \A p, q \in own : row[p] = row[q] => p = q
  <2>1. \A p \in own : row[p] \in S
    BY <1>1, <1>3, <1>4, <1>5
  <2>2. ASSUME NEW r \in S PROVE \E p \in own : r = row[p]
    <3>1. PICK p \in own : r.campus = p.campus
      BY <1>1
    <3> QED
      BY <1>3, <1>4, <1>5, <1>7, <3>1
  <2>3. \A p, q \in own : row[p] = row[q] => p = q
    BY <1>2, <1>5, Newest
  <2> QED
    BY <2>1, <2>2, <2>3
<1>10. /\ IsFiniteSet(S) /\ \A r \in S : r["clicks"] \in Nat
       /\ \A r \in S : seen[r] = r.clicks
  <2>1. S \in SUBSET v.rows /\ \A r \in S : seen[r] = r.clicks
    OBVIOUS
  <2> HIDE DEF S, seen
  <2> QED
    BY <1>7, <2>1, FS_Subset
<1>11. SumOver(S, "clicks") = SumFunctionOnSet(seen, S)
  <2> HIDE DEF S
  <2> QED
    BY <1>10, FieldSum
<1> HIDE DEF S, seen
<1>12. \A r \in S : seen[r] = SumFunctionOnSet(some, {p \in own : row[p] = r})
  <2> SUFFICES ASSUME NEW r \in S
               PROVE  seen[r] = SumFunctionOnSet(some, {p \in own : row[p] = r})
    OBVIOUS
  <2>1. PICK p \in own : r = row[p]
    BY <1>9
  <2>2. {q \in own : row[q] = r} = {p}
    BY <1>9, <2>1
  <2>3. some[p] \in Int /\ some[p] = seen[r]
    BY <1>4, <1>10, <2>1
  <2>4. SumFunctionOnSet(some, {p}) = some[p]
    BY <2>3, SumSingle
  <2> QED
    BY <2>2, <2>3, <2>4
<1>13. SumFunctionOnSet(some, own) = SumFunctionOnSet(seen, S)
  <2>1. Summable(some, own)
    BY <1>2, <1>4 DEF Summable
  <2>2. IsFiniteSet(S) /\ \A p \in own : row[p] \in S
    BY <1>9, <1>10
  <2>3. PartedBy(own, some, S, row, seen)
    BY ONLY <1>12, <2>1, <2>2 DEF PartedBy
  <2> QED
    BY <2>3, SumParts
<1>14. SumFunctionOnSet(some, own) <= SumFunctionOnSet(all, own)
  BY <1>2, <1>4, SumMore
<1>15. /\ SumFunctionOnSet(some, own) \in Nat /\ SumFunctionOnSet(all, own) \in Nat
  BY <1>2, <1>4, SumNat
<1> QED
  BY <1>1, <1>6, <1>8, <1>11, <1>13, <1>14, <1>15 DEF S

\* Who owns the newest plan of a campus sees it.
LEMMA OwnersHold == ASSUME PortfolioInv PROVE OwnersSee
<1> SUFFICES ASSUME NEW p \in NewestPlans, p.owner # "", p.account # ""
             PROVE  CampaignRow(p) \in BuildPortfolio(Allowed(p.owner)).rows
  BY DEF OwnersSee
<1>1. \E n \in DOMAIN stored : p = stored[n]
  BY DEF NewestPlans
<1>2. p.account \in Allowed(p.owner)
  BY <1>1 DEF Allowed
<1>3. p.owner \in Users
  BY Newest DEF StoredPlans
<1>4. Allowed(p.owner) \in PeoplesScopes
  BY <1>3 DEF PeoplesScopes
<1> QED
  BY <1>2, <1>4, AuditedShown

\* An account is shown to everybody with the same figures, if all that have its name are.
LEMMA AccountsHold ==
  ASSUME PortfolioInv, NEW scope, NEW v, v = BuildPortfolio(scope),
         NEW whole, whole = BuildPortfolio(Everything), NEW t \in DOMAIN v.accounts,
         {r.account : r \in {r \in whole.rows : TitleOf(r) = t}} \subseteq scope
  PROVE  v.accounts[t] = whole.accounts[t]
<1> DEFINE All == {CampaignRow(p) : p \in NewestPlans}
<1>1. /\ v.rows = {r \in All : r.account \in scope} /\ v.accounts = AccountBudgets(v.rows)
      /\ whole.rows = {r \in All : r.account \in Everything}
      /\ whole.accounts = AccountBudgets(whole.rows)
      /\ \A r \in v.rows : r.account \in Everything
  BY Visible
<1> HIDE DEF All
<1>2. {r \in v.rows : TitleOf(r) = t} = {r \in whole.rows : TitleOf(r) = t}
  BY <1>1
<1>3. t \in {TitleOf(r) : r \in v.rows} /\ t \in {TitleOf(r) : r \in whole.rows}
  <2>1. t \in {TitleOf(r) : r \in v.rows}
    BY <1>1 DEF AccountBudgets
  <2> QED
    BY <1>2, <2>1
<1> DEFINE Told(own) ==
             [campaigns |-> Cardinality(own), allotted |-> SumOver(own, "budget"),
              spent |-> Total([a \in {r.account : r \in own} \ {""} |-> SpendBy(a)]),
              status |-> BudgetStatus(SumOver(own, "budget"),
                           Total([a \in {r.account : r \in own} \ {""} |-> SpendBy(a)]))]
<1>4. ASSUME NEW R, t \in {TitleOf(r) : r \in R}
      PROVE  AccountBudgets(R)[t] = Told({r \in R : TitleOf(r) = t})
  BY <1>4 DEF AccountBudgets
<1> HIDE DEF Told
<1> QED
  BY <1>1, <1>2, <1>3, <1>4

\* The whole property holds of every such state.
LEMMA PortfolioHolds == ASSUME PortfolioInv PROVE PortfolioConsistent
<1>1. OwnersSee
  BY OwnersHold
<1>2. ASSUME NEW scope \in PeoplesScopes, NEW v, v = BuildPortfolio(scope),
             NEW whole, whole = BuildPortfolio(Everything), NEW audit, audit = ManagerAudit(scope)
      PROVE  /\ CountsOnce(v) /\ SpendWithinAccount(v)
             /\ v.rows \subseteq whole.rows
             /\ \A t \in DOMAIN v.accounts :
                  {r.account : r \in {r \in whole.rows : TitleOf(r) = t}} \subseteq scope
                    => v.accounts[t] = whole.accounts[t]
             /\ \A m \in DOMAIN audit :
                  /\ audit[m].campuses \subseteq {r.campus : r \in v.rows}
                  /\ audit[m].clicks >=
                       SumOver({r \in v.rows : r.campus \in audit[m].campuses}, "clicks")
  <2>1. CountsOnce(v) /\ SpendWithinAccount(v)
    BY <1>2, CountsHold, SpendHolds
  <2>2. v.rows \subseteq whole.rows
    <3> DEFINE All == {CampaignRow(p) : p \in NewestPlans}
    <3>1. /\ v.rows = {r \in All : r.account \in scope}
          /\ whole.rows = {r \in All : r.account \in Everything}
          /\ \A r \in v.rows : r.account \in Everything
      BY <1>2, Visible
    <3> HIDE DEF All
    <3> QED
      BY <3>1
  <2>3. ASSUME NEW t \in DOMAIN v.accounts,
               {r.account : r \in {r \in whole.rows : TitleOf(r) = t}} \subseteq scope
        PROVE  v.accounts[t] = whole.accounts[t]
    BY <1>2, <2>3, AccountsHold
  <2>4. ASSUME NEW m \in DOMAIN audit
        PROVE  /\ audit[m].campuses \subseteq {r.campus : r \in v.rows}
               /\ audit[m].clicks >=
                    SumOver({r \in v.rows : r.campus \in audit[m].campuses}, "clicks")
    BY <1>2, <2>4, AuditHolds
  <2> QED
    BY <2>1, <2>2, <2>3, <2>4
<1> QED
  BY <1>1, <1>2 DEF PortfolioConsistent, PeoplesScopes

\* However plans are made again, handed over and moved between accounts, for any numbers of
\* campuses, accounts, people and days: the portfolio counts every campus once in each
\* view, shows a manager what it shows an admin, and the audit of the same person covers
\* no other plan and no fewer clicks.
THEOREM PortfolioSound == PortfolioSpec => []PortfolioConsistent
<1>1. PortfolioInv => PortfolioConsistent
  BY PortfolioHolds
<1> QED
  BY <1>1, PortfolioStarts, PortfolioKept, PTL DEF PortfolioSpec
-----------------------------------------------------------------------------
(* The command center.                                                     *)

\* What counts and totals are the sums of.
Sums4 == {"impr", "clicks", "cost", "conv"}

\* What a snapshot of each kind says.
HasFigures(kind, r) ==
  /\ kind # "budgets" => \A f \in Sums4 : r[f] \in Nat
  /\ kind = "campaigns" => r.budget \in Nat
  /\ kind = "keywords" => r.quality \in Nat \cup {Unknown}
  /\ kind = "budgets" => r.amount \in Nat /\ r.spend \in Nat

\* The snapshots of a kind: one of each listed thing and day, of days that have been.
IsTable(kind, S) ==
  /\ IsFiniteSet(S)
  /\ \A r \in S : r.of \in ToSet(Listed[kind]) /\ r.day \in 1..today /\ HasFigures(kind, r)
  /\ \A r, t \in S : r.of = t.of /\ r.day = t.day => r = t

IsMeta(m) ==
  /\ m.status \in {"ENABLED"} \cup Inactive
  /\ m.optimization \in Nat \cup {Unknown} /\ m.disapproved \in Nat

CenterInv ==
  /\ today \in Nat \ {0}
  /\ DOMAIN snaps = Kinds /\ \A kind \in Kinds : IsTable(kind, snaps[kind])
  /\ CampaignSet \subseteq DOMAIN meta /\ \A c \in CampaignSet : IsMeta(meta[c])

\* A list of names, each once.
IsNames(list) == IsList(list) /\ \A m, n \in DOMAIN list : list[m] = list[n] => m = n

LEMMA KindsAre ==
  /\ Kinds = {"campaigns", "keywords", "terms", "budgets"}
  /\ Listed["campaigns"] = Campaigns /\ Listed["keywords"] = Keywords
  /\ Listed["terms"] = Queries /\ Listed["budgets"] = Budgeted
BY DEF Kinds, Listed

LEMMA NamesAre ==
  ASSUME NEW list, IsNames(list)
  PROVE  /\ Len(list) \in Nat /\ DOMAIN list = 1..Len(list) /\ IsFiniteSet(ToSet(list))
         /\ Cardinality(ToSet(list)) = Len(list)
<1>1. Len(list) \in Nat /\ DOMAIN list = 1..Len(list)
  BY ListIs DEF IsNames
<1>2. IsFiniteSet(DOMAIN list) /\ Cardinality(DOMAIN list) = Len(list)
  <2>1. \A n \in Nat : IsFiniteSet(1..n) /\ Cardinality(1..n) = n
    BY FS_Interval
  <2> QED
    BY <1>1, <2>1
<1>3. ToSet(list) = {list[n] : n \in DOMAIN list}
  BY DEF ToSet
<1>4. IsFiniteSet({list[n] : n \in DOMAIN list}) /\ Cardinality({list[n] : n \in DOMAIN list}) = Len(list)
  BY <1>2, ImageFinite DEF IsNames
<1> QED
  BY <1>1, <1>3, <1>4

LEMMA ListedAre == \A kind \in Kinds : IsNames(Listed[kind])
BY CenterAssumption, SeqIsList DEF IsNames

LEMMA CampaignList ==
  /\ IsNames(Campaigns) /\ CampaignSet = ToSet(Campaigns) /\ IsFiniteSet(CampaignSet)
  /\ Len(Campaigns) \in Nat /\ DOMAIN Campaigns = 1..Len(Campaigns)
<1>1. IsNames(Campaigns) /\ CampaignSet = ToSet(Campaigns)
  BY KindsAre, ListedAre DEF CampaignSet, ToSet
<1> QED
  BY <1>1, NamesAre

\* A snapshot that a sync writes.
LEMMA RowWritten ==
  ASSUME NEW kind \in Kinds, NEW a \in Owners, NEW day \in 1..FinalDay,
         NEW answer \in Reported[kind][a][day], NEW x \in DOMAIN answer,
         NEW r, r = Updated([of |-> x, day |-> day], answer[x])
  PROVE  /\ r.of = x /\ r.day = day /\ HasFigures(kind, r)
         /\ x \in ToSet(Listed[kind]) /\ Owner[x] = a
<1> DEFINE g == answer[x]
<1>1. g \in FigureOf[kind] /\ x \in ToSet(Listed[kind]) /\ Owner[x] = a
  BY CenterAssumption
<1>2. r = Updated([of |-> x, day |-> day], g)
  OBVIOUS
<1> HIDE DEF g
<1>3. r = [y \in DOMAIN g \cup {"of", "day"} |-> IF y \in DOMAIN g THEN g[y] ELSE [of |-> x, day |-> day][y]]
  BY <1>2 DEF Updated
<1>4. \A y \in DOMAIN g : r[y] = g[y]
  BY <1>3
<1>5. DOMAIN g \cap {"of", "day"} = {} /\ HasFigures(kind, r)
  <2>1. CASE kind = "campaigns"
    <3>1. g \in [impr : Nat, clicks : Nat, cost : Nat, conv : Nat, budget : Nat]
      BY <1>1, <2>1 DEF FigureOf
    <3>2. DOMAIN g = Sums4 \cup {"budget"} /\ g.budget \in Nat /\ \A f \in Sums4 : g[f] \in Nat
      BY <3>1 DEF Sums4
    <3> QED
      BY <1>4, <2>1, <3>2 DEF HasFigures, Sums4
  <2>2. CASE kind = "keywords"
    <3>1. g \in [impr : Nat, clicks : Nat, cost : Nat, conv : Nat, quality : Nat \cup {Unknown}]
      BY <1>1, <2>2 DEF FigureOf
    <3>2. /\ DOMAIN g = Sums4 \cup {"quality"} /\ g.quality \in Nat \cup {Unknown}
          /\ \A f \in Sums4 : g[f] \in Nat
      BY <3>1 DEF Sums4
    <3> QED
      BY <1>4, <2>2, <3>2 DEF HasFigures, Sums4
  <2>3. CASE kind = "terms"
    <3>1. g \in [impr : Nat, clicks : Nat, cost : Nat, conv : Nat]
      BY <1>1, <2>3 DEF FigureOf
    <3>2. DOMAIN g = Sums4 /\ \A f \in Sums4 : g[f] \in Nat
      BY <3>1 DEF Sums4
    <3> QED
      BY <1>4, <2>3, <3>2 DEF HasFigures, Sums4
  <2>4. CASE kind = "budgets"
    <3>1. g \in [amount : Nat, spend : Nat]
      BY <1>1, <2>4 DEF FigureOf
    <3>2. DOMAIN g = {"amount", "spend"} /\ g.amount \in Nat /\ g.spend \in Nat
      BY <3>1
    <3> QED
      BY <1>4, <2>4, <3>2 DEF HasFigures
  <2> QED
    BY <2>1, <2>2, <2>3, <2>4, KindsAre
<1>6. r.of = x /\ r.day = day
  BY <1>3, <1>5
<1> QED
  BY <1>1, <1>5, <1>6

\* What replace_window leaves is such a table again.
LEMMA TableReplaced ==
  ASSUME NEW kind \in Kinds, NEW S, IsTable(kind, S), NEW a \in Owners,
         NEW day \in 1..FinalDay, day \in 1..today, NEW answer \in Reported[kind][a][day]
  PROVE  IsTable(kind, Replaced(S, a, day, answer))
<1> DEFINE old == {r \in S : ~(Owner[r.of] = a /\ r.day = day)}
           g == [x \in DOMAIN answer |-> Updated([of |-> x, day |-> day], answer[x])]
           new == {g[x] : x \in DOMAIN answer}
<1>1. Replaced(S, a, day, answer) = old \cup new
  BY DEF Replaced
<1>2. ASSUME NEW x \in DOMAIN answer
      PROVE  /\ g[x].of = x /\ g[x].day = day /\ HasFigures(kind, g[x])
             /\ x \in ToSet(Listed[kind]) /\ Owner[x] = a
  <2>1. g[x] = Updated([of |-> x, day |-> day], answer[x])
    OBVIOUS
  <2> HIDE DEF g
  <2> QED
    BY <2>1, RowWritten
<1>3. \A r \in old : r \in S /\ ~(Owner[r.of] = a /\ r.day = day)
  OBVIOUS
<1> HIDE DEF old, g
<1>4. IsFiniteSet(new)
  <2>1. DOMAIN answer \subseteq ToSet(Listed[kind])
    BY <1>2
  <2>2. IsFiniteSet(DOMAIN answer)
    BY <2>1, ListedAre, NamesAre, FS_Subset
  <2> QED
    BY <2>2, ImageFinite
<1>5. IsFiniteSet(old)
  <2>1. old \subseteq S
    BY <1>3
  <2> QED
    BY <2>1, FS_Subset DEF IsTable
<1>6. \A r \in new : /\ r.of \in ToSet(Listed[kind]) /\ r.day = day /\ HasFigures(kind, r)
                     /\ Owner[r.of] = a /\ r = g[r.of]
  BY <1>2
<1> HIDE DEF new
<1>7. IsFiniteSet(old \cup new)
  BY <1>4, <1>5, FS_Union
<1>8. \A r \in old \cup new :
        r.of \in ToSet(Listed[kind]) /\ r.day \in 1..today /\ HasFigures(kind, r)
  BY <1>3, <1>6 DEF IsTable
<1>9. ASSUME NEW r \in old \cup new, NEW t \in old \cup new, r.of = t.of, r.day = t.day PROVE r = t
  <2>1. CASE r \in new /\ t \in new
    BY <1>6, <1>9, <2>1
  <2>2. CASE r \in old /\ t \in old
    BY <1>3, <1>9, <2>2 DEF IsTable
  <2>3. ~(r \in new /\ t \in old) /\ ~(r \in old /\ t \in new)
    BY <1>3, <1>6, <1>9
  <2> QED
    BY <2>1, <2>2, <2>3
<1> QED
  BY <1>1, <1>7, <1>8, <1>9 DEF IsTable

LEMMA MetaOf ==
  ASSUME NEW S \in SUBSET CampaignSet, NEW m \in States(S), NEW c \in S
  PROVE  IsMeta(m[c])
<1>1. m[c] \in Metas[c] /\ c \in CampaignSet
  BY DEF States
<1>2. m[c] \in [status : {"ENABLED"} \cup Inactive, optimization : Nat \cup {Unknown},
               disapproved : Nat]
  BY <1>1, CenterAssumption
<1> QED
  BY <1>2 DEF IsMeta

LEMMA CenterInvHolds == CenterInit /\ [][CenterNext]_centerVars => []CenterInv
<1>1. CenterInit => CenterInv
  <2> SUFFICES ASSUME CenterInit PROVE CenterInv
    OBVIOUS
  <2>1. \A c \in CampaignSet : IsMeta(meta[c])
    BY MetaOf DEF CenterInit
  <2>2. CampaignSet \subseteq DOMAIN meta
    BY DEF CenterInit, States
  <2>3. DOMAIN snaps = Kinds /\ (\A kind \in Kinds : snaps[kind] = {}) /\ today = 1
    BY DEF CenterInit
  <2>4. \A kind : IsTable(kind, {})
    BY FS_EmptySet DEF IsTable
  <2> QED
    BY <2>1, <2>2, <2>3, <2>4 DEF CenterInv
<1>2. ASSUME CenterInv, NEW kind \in Kinds, NEW a \in Owners, NEW d \in 1..FinalDay, d <= today,
             SyncSnapshots(kind, a, d)
      PROVE  CenterInv'
  <2>1. PICK answer \in Reported[kind][a][d] :
          /\ snaps' = [snaps EXCEPT ![kind] = Replaced(snaps[kind], a, d, answer)]
          /\ today' = today /\ meta' = meta
    BY <1>2 DEF SyncSnapshots
  <2>2. d \in 1..today
    BY <1>2 DEF CenterInv
  <2>3. IsTable(kind, Replaced(snaps[kind], a, d, answer))
    BY <1>2, <2>2, TableReplaced DEF CenterInv
  <2>4. DOMAIN snaps' = Kinds /\ \A k \in Kinds : IsTable(k, snaps'[k])
    BY <1>2, <2>1, <2>3 DEF CenterInv
  <2>5. \A k \in Kinds : IsTable(k, snaps[k])' 
    BY <2>1, <2>4 DEF IsTable
  <2> QED
    BY <1>2, <2>1, <2>4, <2>5 DEF CenterInv
<1>3. ASSUME CenterInv, NEW a \in Owners, SyncStates(a) PROVE CenterInv'
  <2> DEFINE own == OwnedBy({a})
  <2>1. PICK m \in States(own) : meta' = Updated(meta, m) /\ today' = today /\ snaps' = snaps
    BY <1>3 DEF SyncStates
  <2>2. own \subseteq CampaignSet /\ DOMAIN m = own
    BY DEF OwnedBy, States
  <2>3. DOMAIN Updated(meta, m) = own \cup DOMAIN meta
    BY <2>2 DEF Updated
  <2>4. ASSUME NEW c \in own PROVE meta'[c] = m[c]
    BY <2>1, <2>2 DEF Updated
  <2>5. ASSUME NEW c \in CampaignSet \ own, c \in DOMAIN meta PROVE meta'[c] = meta[c]
    BY <2>1, <2>2, <2>5 DEF Updated
  <2>6. CampaignSet \subseteq DOMAIN meta
    BY <1>3 DEF CenterInv
  <2>7. CampaignSet \subseteq DOMAIN meta' /\ \A c \in CampaignSet : IsMeta(meta'[c])
    BY <1>3, <2>1, <2>2, <2>3, <2>4, <2>5, <2>6, MetaOf DEF CenterInv
  <2>8. \A k \in Kinds : IsTable(k, snaps[k])'
    BY <1>3, <2>1 DEF CenterInv, IsTable
  <2> QED
    BY <1>3, <2>1, <2>7, <2>8 DEF CenterInv
<1>4. ASSUME CenterInv, Tomorrow PROVE CenterInv'
  <2>1. today' = today + 1 /\ snaps' = snaps /\ meta' = meta /\ today' \in Nat \ {0}
    BY <1>4 DEF Tomorrow, CenterInv
  <2>2. \A d \in 1..today : d \in 1..today'
    BY <1>4, <2>1 DEF CenterInv
  <2>3. \A k \in Kinds : IsTable(k, snaps[k])'
    BY <1>4, <2>1, <2>2 DEF CenterInv, IsTable
  <2> QED
    BY <1>4, <2>1, <2>3 DEF CenterInv
<1>5. ASSUME CenterInv, UNCHANGED centerVars PROVE CenterInv'
  BY <1>5 DEF CenterInv, IsTable, centerVars
<1>6. CenterInv /\ [CenterNext]_centerVars => CenterInv'
  BY <1>2, <1>3, <1>4, <1>5 DEF CenterNext
<1> QED
  BY <1>1, <1>6, PTL

\* The snapshots of campaigns, and the counts of others.
IsRow(r) ==
  /\ r.of \in CampaignSet /\ r.day \in 1..today /\ r.budget \in Nat
  /\ r.impr \in Nat /\ r.clicks \in Nat /\ r.cost \in Nat /\ r.conv \in Nat

LEMMA RowsAre ==
  ASSUME CenterInv
  PROVE  /\ today \in Nat \ {0} /\ IsFiniteSet(rows) /\ \A r \in rows : IsRow(r)
         /\ \A r, t \in rows : r.of = t.of /\ r.day = t.day => r = t
<1>1. IsTable("campaigns", rows) /\ today \in Nat \ {0}
  BY KindsAre DEF CenterInv, rows
<1>2. \A r \in rows : \A f \in Sums4 : r[f] \in Nat
  BY <1>1 DEF IsTable, HasFigures
<1> QED
  BY <1>1, <1>2, CampaignList, KindsAre DEF IsTable, HasFigures, IsRow, Sums4

\* Snapshots that can be summed.
IsCounted(list, S) == IsFiniteSet(S) /\ \A r \in S : r.of \in ToSet(list) /\ \A f \in Sums4 : r[f] \in Nat

LEMMA CountedAre ==
  ASSUME CenterInv
  PROVE  /\ IsNames(Campaigns) /\ IsCounted(Campaigns, rows)
         /\ IsNames(Keywords) /\ IsCounted(Keywords, wordRows)
         /\ \A r \in wordRows : r.quality \in Nat \cup {Unknown} /\ r.day \in Int
         /\ \A r, t \in wordRows : r.of = t.of /\ r.day = t.day => r = t
         /\ IsNames(Queries) /\ IsCounted(Queries, termRows)
<1>1. /\ IsTable("campaigns", rows) /\ IsTable("keywords", wordRows) /\ IsTable("terms", termRows)
      /\ IsNames(Campaigns) /\ IsNames(Keywords) /\ IsNames(Queries)
  BY KindsAre, ListedAre DEF CenterInv, rows, wordRows, termRows
<1>2. \A r \in wordRows : r.day \in Int
  BY <1>1 DEF IsTable
<1> QED
  BY <1>1, <1>2, KindsAre DEF IsTable, HasFigures, IsCounted

LEMMA CountedPart ==
  ASSUME NEW list, NEW S, IsCounted(list, S), NEW accounts, NEW days
  PROVE  /\ In(S, accounts, days) \in SUBSET S /\ IsCounted(list, In(S, accounts, days))
         /\ \A r \in In(S, accounts, days) : Owner[r.of] \in accounts /\ r.day \in days
<1>1. /\ In(S, accounts, days) \in SUBSET S
      /\ \A r \in In(S, accounts, days) : Owner[r.of] \in accounts /\ r.day \in days
  BY DEF In
<1> QED
  BY <1>1, FS_Subset DEF IsCounted

-----------------------------------------------------------------------------
(* What is found of a campaign.                                            *)

Found(c) == {n \in 1..9 : Findings(c)[n][1]}

LEMMA FindingsAre ==
  ASSUME NEW c
  PROVE  /\ IsList(Findings(c)) /\ DOMAIN Findings(c) = 1..9
         /\ 1 \in Found(c) <=> c.today.impr = 0
         /\ 2 \in Found(c) <=> LowRate(c.today, 2)
         /\ 3 \in Found(c) <=> RateDropped(c.today, c.prior)
         /\ 4 \in Found(c) <=> PriceRose(c.today, c.prior)
         /\ 5 \in Found(c) <=> c.quality # Unknown /\ c.quality < 5
         /\ 6 \in Found(c) <=> c.budget > 0 /\ c.today.cost >= c.budget
         /\ 7 \in Found(c) <=> /\ c.budget > 0 /\ c.today.cost < c.budget
                               /\ 100 * c.today.cost >= 85 * c.budget
         /\ 8 \in Found(c) <=> c.optimization # Unknown /\ c.optimization < 60
         /\ 9 \in Found(c) <=> c.disapproved > 0
         /\ \A n \in 1..9 :
              /\ Findings(c)[n][2].points = <<0, 15, 15, 10, 15, 20, 10, 10, 20>>[n]
              /\ Findings(c)[n][2].severity \in {"critical", "high", "medium"}
              /\ Findings(c)[n][2].code = "NO_IMPRESSIONS" <=> n = 1
              /\ Findings(c)[n][2].code = "LIMITED_BY_BUDGET" <=> n = 6
<1>1. DOMAIN Findings(c) = 1..9
  BY DEF Findings
<1>2. Findings(c) = [k \in 1..9 |-> Findings(c)[k]]
  BY DEF Findings
<1>3. /\ Findings(c)[1] = <<c.today.impr = 0, Penalty(0, "NO_IMPRESSIONS", "critical")>>
      /\ Findings(c)[2] = <<LowRate(c.today, 2), Penalty(15, "LOW_CTR", "high")>>
      /\ Findings(c)[3] = <<RateDropped(c.today, c.prior), Penalty(15, "CTR_DROP", "high")>>
      /\ Findings(c)[4] = <<PriceRose(c.today, c.prior), Penalty(10, "CPC_RISE", "medium")>>
      /\ Findings(c)[5] = <<c.quality # Unknown /\ c.quality < 5, Penalty(15, "LOW_QS", "high")>>
      /\ Findings(c)[6] = <<c.budget > 0 /\ c.today.cost >= c.budget,
                            Penalty(20, "LIMITED_BY_BUDGET", "high")>>
      /\ Findings(c)[7] = <<c.budget > 0 /\ c.today.cost < c.budget /\ 100 * c.today.cost >= 85 * c.budget,
                            Penalty(10, "BUDGET_NEARLY_EXHAUSTED", "medium")>>
      /\ Findings(c)[8] = <<c.optimization # Unknown /\ c.optimization < 60,
                            Penalty(10, "LOW_OPT_SCORE", "medium")>>
      /\ Findings(c)[9] = <<c.disapproved > 0, Penalty(20, "DISAPPROVED_ADS", "high")>>
  BY DEF Findings
<1>4. \A n \in 1..9 : n = 1 \/ n = 2 \/ n = 3 \/ n = 4 \/ n = 5 \/ n = 6 \/ n = 7 \/ n = 8 \/ n = 9
  OBVIOUS
<1>5. \A n \in 1..9 : n \in Found(c) <=> Findings(c)[n][1]
  BY DEF Found
<1>6. ASSUME NEW n \in 1..9
      PROVE  /\ Findings(c)[n][2].points = <<0, 15, 15, 10, 15, 20, 10, 10, 20>>[n]
             /\ Findings(c)[n][2].severity \in {"critical", "high", "medium"}
             /\ Findings(c)[n][2].code = "NO_IMPRESSIONS" <=> n = 1
             /\ Findings(c)[n][2].code = "LIMITED_BY_BUDGET" <=> n = 6
  BY <1>3, <1>4 DEF Penalty
<1>11. 1 \in Found(c) <=> c.today.impr = 0
  <2>1. Findings(c)[1][1] = (c.today.impr = 0)
    BY <1>3
  <2>2. 1 \in Found(c) <=> Findings(c)[1][1]
    BY DEF Found
  <2> QED
    BY <2>1, <2>2, Zenon
<1>12. 2 \in Found(c) <=> LowRate(c.today, 2)
  <2>1. Findings(c)[2][1] = (LowRate(c.today, 2))
    BY <1>3
  <2>2. 2 \in Found(c) <=> Findings(c)[2][1]
    BY DEF Found
  <2> QED
    BY <2>1, <2>2, Zenon
<1>13. 3 \in Found(c) <=> RateDropped(c.today, c.prior)
  <2>1. Findings(c)[3][1] = (RateDropped(c.today, c.prior))
    BY <1>3
  <2>2. 3 \in Found(c) <=> Findings(c)[3][1]
    BY DEF Found
  <2> QED
    BY <2>1, <2>2, Zenon
<1>14. 4 \in Found(c) <=> PriceRose(c.today, c.prior)
  <2>1. Findings(c)[4][1] = (PriceRose(c.today, c.prior))
    BY <1>3
  <2>2. 4 \in Found(c) <=> Findings(c)[4][1]
    BY DEF Found
  <2> QED
    BY <2>1, <2>2, Zenon
<1>15. 5 \in Found(c) <=> c.quality # Unknown /\ c.quality < 5
  <2>1. Findings(c)[5][1] = (c.quality # Unknown /\ c.quality < 5)
    BY <1>3
  <2>2. 5 \in Found(c) <=> Findings(c)[5][1]
    BY DEF Found
  <2> QED
    BY <2>1, <2>2, Zenon
<1>16. 6 \in Found(c) <=> c.budget > 0 /\ c.today.cost >= c.budget
  <2>1. Findings(c)[6][1] = (c.budget > 0 /\ c.today.cost >= c.budget)
    BY <1>3
  <2>2. 6 \in Found(c) <=> Findings(c)[6][1]
    BY DEF Found
  <2> QED
    BY <2>1, <2>2, Zenon
<1>17. 7 \in Found(c) <=> c.budget > 0 /\ c.today.cost < c.budget /\ 100 * c.today.cost >= 85 * c.budget
  <2>1. Findings(c)[7][1] = (c.budget > 0 /\ c.today.cost < c.budget /\ 100 * c.today.cost >= 85 * c.budget)
    BY <1>3
  <2>2. 7 \in Found(c) <=> Findings(c)[7][1]
    BY DEF Found
  <2> QED
    BY <2>1, <2>2, Zenon
<1>18. 8 \in Found(c) <=> c.optimization # Unknown /\ c.optimization < 60
  <2>1. Findings(c)[8][1] = (c.optimization # Unknown /\ c.optimization < 60)
    BY <1>3
  <2>2. 8 \in Found(c) <=> Findings(c)[8][1]
    BY DEF Found
  <2> QED
    BY <2>1, <2>2, Zenon
<1>19. 9 \in Found(c) <=> c.disapproved > 0
  <2>1. Findings(c)[9][1] = (c.disapproved > 0)
    BY <1>3
  <2>2. 9 \in Found(c) <=> Findings(c)[9][1]
    BY DEF Found
  <2> QED
    BY <2>1, <2>2, Zenon
<1>7. IsList(Findings(c))
  BY <1>1, <1>2 DEF IsList
<1> QED
  BY <1>1, <1>7, <1>6, <1>11, <1>12, <1>13, <1>14, <1>15, <1>16, <1>17, <1>18, <1>19

LEMMA ClampIs ==
  ASSUME NEW n \in Int
  PROVE  Clamp(n) = IF n < 0 THEN 0 ELSE IF n > 100 THEN 100 ELSE n
<1>1. Min({100, n}) = IF 100 <= n THEN 100 ELSE n
  BY LessOf
<1>2. Min({100, n}) \in Int
  BY <1>1
<1>3. Clamp(n) = IF 0 >= Min({100, n}) THEN 0 ELSE Min({100, n})
  BY <1>2, MaxOf DEF Clamp
<1> QED
  BY <1>1, <1>3

\* What the finding n takes away.
Taken(c, n) == IF n \in Found(c) THEN <<0, 15, 15, 10, 15, 20, 10, 10, 20>>[n] ELSE 0

LEMMA IssuesAre ==
  ASSUME NEW c
  PROVE  /\ IsList(Issues(c))
         /\ \A k \in DOMAIN Issues(c) :
              /\ PlaceIn(Found(c), k) \in Found(c)
              /\ Issues(c)[k] = Findings(c)[PlaceIn(Found(c), k)][2]
         /\ \A n \in Found(c) : \E k \in DOMAIN Issues(c) : Issues(c)[k] = Findings(c)[n][2]
         /\ DOMAIN Issues(c) = DOMAIN ElementsAt(Findings(c), Found(c))
<1> DEFINE f == ElementsAt(Findings(c), Found(c))
<1>1. Issues(c) = [n \in DOMAIN f |-> f[n][2]]
  BY DEF Issues, Found
<1>2. /\ IsList(f)
      /\ \A k \in DOMAIN f : PlaceIn(Found(c), k) \in Found(c) /\ f[k] = Findings(c)[PlaceIn(Found(c), k)]
      /\ \A n \in Found(c) : \E k \in DOMAIN f : PlaceIn(Found(c), k) = n
  <2>1. IsList(Findings(c)) /\ Found(c) \in SUBSET DOMAIN Findings(c)
    BY FindingsAre DEF Found
  <2> QED
    BY <2>1, Selected
<1> HIDE DEF f
<1>3. DOMAIN Issues(c) = DOMAIN f /\ \A k \in DOMAIN f : Issues(c)[k] = f[k][2]
  BY <1>1
<1>4. IsList(Issues(c))
  BY <1>1, <1>2 DEF IsList
<1>5. ASSUME NEW n \in Found(c) PROVE \E k \in DOMAIN Issues(c) : Issues(c)[k] = Findings(c)[n][2]
  <2>1. PICK k \in DOMAIN f : PlaceIn(Found(c), k) = n
    BY <1>2
  <2> QED
    BY <1>2, <1>3, <2>1
<1> QED
  BY <1>2, <1>3, <1>4, <1>5 DEF f

LEMMA PointsAre ==
  ASSUME NEW c
  PROVE  /\ \A n \in 1..9 : Taken(c, n) \in Nat
         /\ Points(Issues(c)) = Taken(c, 2) + Taken(c, 3) + Taken(c, 4) + Taken(c, 5) + Taken(c, 6)
                                  + Taken(c, 7) + Taken(c, 8) + Taken(c, 9)
<1> DEFINE w == <<0, 15, 15, 10, 15, 20, 10, 10, 20>>
           t == [n \in 1..9 |-> Taken(c, n)]
           p == [n \in DOMAIN Issues(c) |-> Issues(c)[n].points]
           S == Found(c)
<1>1. \A n \in 1..9 : w[n] \in Nat
  <2>1. \A n \in 1..9 : n = 1 \/ n = 2 \/ n = 3 \/ n = 4 \/ n = 5 \/ n = 6 \/ n = 7 \/ n = 8 \/ n = 9
    OBVIOUS
  <2> QED
    BY <2>1
<1>2. S \subseteq 1..9
  BY DEF Found
<1>3. \A n \in 1..9 : t[n] = IF n \in S THEN w[n] ELSE 0
  BY DEF Taken
<1>w. \A n \in 1..9 : Findings(c)[n][2].points = w[n]
  BY FindingsAre
<1>x. Points(Issues(c)) = SumFunctionOnSet(p, DOMAIN Issues(c))
  BY DEF Points, Total
<1>y. \A n \in 1..9 : Taken(c, n) = t[n]
  OBVIOUS
<1>z. \A k \in DOMAIN Issues(c) : p[k] = Issues(c)[k].points
  OBVIOUS
<1> HIDE DEF w, t, p
<1>4. \A n \in 1..9 : t[n] \in Nat
  BY <1>1, <1>3
<1>5. SumFunctionOnSet(p, DOMAIN Issues(c)) = SumFunctionOnSet(t, S)
  <2>1. IsList(Findings(c)) /\ S \in SUBSET DOMAIN Findings(c)
    BY FindingsAre DEF Found
  <2>2. \A n \in S : t[n] \in Int
    BY <1>2, <1>4
  <2>3. \A k \in DOMAIN ElementsAt(Findings(c), S) : p[k] = t[PlaceIn(S, k)]
    <3> SUFFICES ASSUME NEW k \in DOMAIN Issues(c) PROVE p[k] = t[PlaceIn(S, k)]
      BY IssuesAre
    <3>1. PlaceIn(S, k) \in S /\ Issues(c)[k] = Findings(c)[PlaceIn(S, k)][2]
      BY IssuesAre
    <3> QED
      BY <1>2, <1>3, <1>w, <1>z, <3>1
  <2>4. DOMAIN Issues(c) = DOMAIN ElementsAt(Findings(c), S)
    BY IssuesAre
  <2> HIDE DEF S
  <2> QED
    BY <2>1, <2>2, <2>3, <2>4, SumSelected
<1>6. SumFunctionOnSet(t, 1..9) = SumFunctionOnSet(t, S)
  <2>1. Summable(t, 1..9)
    <3>0. \A n \in Nat : IsFiniteSet(1..n)
      BY FS_Interval
    <3>1. IsFiniteSet(1..9)
      BY <3>0
    <3> QED
      BY <1>4, <3>1 DEF Summable
  <2>2. \A n \in (1..9) \ S : t[n] = 0
    BY <1>3
  <2> QED
    BY <1>2, <2>1, <2>2, SumLess
<1>7. SumFunctionOnSet(t, 1..9) = t[1] + t[2] + t[3] + t[4] + t[5] + t[6] + t[7] + t[8] + t[9]
  <2> DEFINE s(n) == SumFunctionOnSet(t, 1..n)
  <2>1. ASSUME NEW n \in 0..8 PROVE s(n + 1) = s(n) + t[n + 1]
    <3>1. \A k \in 1..(n + 1) : t[k] \in Int
      BY <1>4
    <3> QED
      BY <3>1, SumNext
  <2>2. s(0) = 0
    <3>1. 1..0 = {}
      OBVIOUS
    <3> QED
      BY <3>1, SumEmpty
  <2> HIDE DEF s
  <2>3. /\ s(1) = s(0) + t[1] /\ s(2) = s(1) + t[2] /\ s(3) = s(2) + t[3]
        /\ s(4) = s(3) + t[4] /\ s(5) = s(4) + t[5] /\ s(6) = s(5) + t[6]
        /\ s(7) = s(6) + t[7] /\ s(8) = s(7) + t[8] /\ s(9) = s(8) + t[9]
    <3>1. 0 + 1 = 1 /\ 1 + 1 = 2 /\ 2 + 1 = 3 /\ 3 + 1 = 4 /\ 4 + 1 = 5 /\ 5 + 1 = 6 /\ 6 + 1 = 7
            /\ 7 + 1 = 8 /\ 8 + 1 = 9
      OBVIOUS
    <3>2. {0, 1, 2, 3, 4, 5, 6, 7, 8} \subseteq 0..8
      OBVIOUS
    <3> QED
      BY <2>1, <3>1, <3>2
  <2>4. s(9) = t[1] + t[2] + t[3] + t[4] + t[5] + t[6] + t[7] + t[8] + t[9]
    <3>1. /\ t[1] \in Int /\ t[2] \in Int /\ t[3] \in Int /\ t[4] \in Int /\ t[5] \in Int
          /\ t[6] \in Int /\ t[7] \in Int /\ t[8] \in Int /\ t[9] \in Int
      BY <1>4
    <3> QED
      BY <2>2, <2>3, <3>1
  <2> QED
    BY <2>4 DEF s
<1>8. t[1] = 0
  <2>1. w[1] = 0
    BY DEF w
  <2> QED
    BY <1>3, <2>1
<1>9. /\ t[2] \in Int /\ t[3] \in Int /\ t[4] \in Int /\ t[5] \in Int
      /\ t[6] \in Int /\ t[7] \in Int /\ t[8] \in Int /\ t[9] \in Int
  BY <1>4
<1>10. Points(Issues(c)) = t[2] + t[3] + t[4] + t[5] + t[6] + t[7] + t[8] + t[9]
  BY <1>5, <1>6, <1>7, <1>8, <1>9, <1>x
<1> QED
  BY <1>4, <1>10, <1>y

-----------------------------------------------------------------------------
(* Days.                                                                   *)

\* The reference day is the newest of those that have rows.
LEMMA LatestIs ==
  ASSUME CenterInv
  PROVE  /\ Latest \in Int /\ Latest <= today
         /\ rows # {} => /\ Latest \in 1..today
                         /\ \E r \in rows : r.day = Latest
                         /\ \A r \in rows : r.day <= Latest
<1>1. CASE rows = {}
  BY <1>1, RowsAre DEF Latest
<1>2. CASE rows # {}
  <2> DEFINE f == [r \in rows |-> r.day]
  <2>1. DaysKnown = {f[r] : r \in rows}
    BY DEF DaysKnown
  <2>2. IsFiniteSet(DaysKnown)
    <3> HIDE DEF f
    <3> QED
      BY <2>1, ImageFinite, RowsAre
  <2>3. \A d \in DaysKnown : d \in 1..today /\ d \in Int
    BY RowsAre DEF DaysKnown, IsRow
  <2>4. DaysKnown # {}
    BY <1>2 DEF DaysKnown
  <2>5. Max(DaysKnown) \in DaysKnown /\ \A d \in DaysKnown : d <= Max(DaysKnown)
    BY <2>2, <2>3, <2>4, MaxIs
  <2>6. Latest = Max(DaysKnown)
    BY <1>2 DEF Latest
  <2>7. Latest \in 1..today /\ today \in Nat
    BY <2>3, <2>5, <2>6, RowsAre
  <2>8. \A r \in rows : r.day \in DaysKnown
    BY DEF DaysKnown
  <2>9. \E r \in rows : r.day = Latest
    BY <2>5, <2>6 DEF DaysKnown
  <2> QED
    BY <2>5, <2>6, <2>7, <2>8, <2>9
<1> QED
  BY <1>1, <1>2

\* The figures of a campaign for a day, or the zeros.
IsFigure(r) ==
  /\ r.impr \in Nat /\ r.clicks \in Nat /\ r.cost \in Nat /\ r.conv \in Nat /\ r.budget \in Nat

LEMMA DayIs ==
  ASSUME CenterInv, NEW c, NEW day
  PROVE  /\ IsFigure(DayOf(c, day))
         /\ \A r \in rows : r.of = c /\ r.day = day => DayOf(c, day) = r
         /\ (\A r \in rows : ~(r.of = c /\ r.day = day)) => DayOf(c, day) = NoData
<1> DEFINE found == {r \in rows : r.of = c /\ r.day = day}
<1>1. DayOf(c, day) = IF found = {} THEN NoData ELSE CHOOSE r \in found : TRUE
  BY DEF DayOf
<1>2. \A r, s \in found : r = s
  BY RowsAre
<1>3. \A r \in found : DayOf(c, day) = r
  <2> HIDE DEF found
  <2> QED
    BY <1>1, <1>2
<1>4. IsFigure(NoData)
  BY DEF IsFigure, NoData
<1>5. \A r \in found : IsFigure(r)
  BY RowsAre DEF IsRow, IsFigure
<1> QED
  BY <1>1, <1>3, <1>4, <1>5

-----------------------------------------------------------------------------
(* The analysis of a campaign.                                             *)

IsContext(x) ==
  /\ x.today.impr \in Nat /\ x.today.clicks \in Nat /\ x.today.cost \in Nat
  /\ x.prior.impr \in Nat /\ x.prior.clicks \in Nat /\ x.prior.cost \in Nat
  /\ x.budget \in Nat /\ x.quality \in Nat \cup {Unknown}
  /\ x.optimization \in Nat \cup {Unknown} /\ x.disapproved \in Nat

\* The average quality of a campaign's keywords.
LEMMA AverageIs == ASSUME CenterInv, NEW c PROVE AverageQuality(c) \in Nat \cup {Unknown}
<1> DEFINE rated == {r \in wordRows : CampaignOf[r.of] = c /\ r.day = Latest /\ r.quality # Unknown}
           f == [r \in rated |-> r["quality"]]
           n == Cardinality(rated)
<1>1. AverageQuality(c) = IF rated = {} THEN Unknown ELSE Total(f) \div n
  BY DEF AverageQuality, SumOver
<1>2. IsFiniteSet(rated) /\ DOMAIN f = rated /\ \A r \in rated : f[r] \in Nat
  <2>1. rated \in SUBSET wordRows
    OBVIOUS
  <2> QED
    BY <2>1, CountedAre, FS_Subset DEF IsCounted
<1>3. n \in Nat /\ (n = 0 <=> rated = {})
  <2> HIDE DEF rated
  <2> QED
    BY <1>2, FS_CardinalityType, FS_EmptySet
<1> HIDE DEF rated, f, n
<1>4. Total(f) \in Nat
  BY <1>2, SumNat DEF Total
<1>5. CASE rated = {}
  BY <1>1, <1>5
<1>6. CASE rated # {}
  <2>1. n \in Nat \ {0}
    BY <1>3, <1>6
  <2>2. Total(f) \div n \in Nat
    BY <1>4, <2>1, Division
  <2> QED
    BY <1>1, <1>6, <2>2
<1> QED
  BY <1>5, <1>6

LEMMA ContextIs ==
  ASSUME CenterInv, NEW c \in CampaignSet
  PROVE  /\ IsContext(Context(c)) /\ Context(c).status = meta[c].status
         /\ Context(c).today.impr = DayOf(c, Latest).impr
         /\ Context(c).today.cost = DayOf(c, Latest).cost
         /\ DayOf(c, Latest).budget > 0 => Context(c).budget = DayOf(c, Latest).budget
<1> DEFINE now == DayOf(c, Latest)
           old == DayOf(c, Latest - 1)
<1>1. IsFigure(now) /\ IsFigure(old)
  BY DayIs
<1>2. IsMeta(meta[c])
  BY DEF CenterInv
<1>3. /\ Context(c).status = meta[c].status
      /\ Context(c).today = [impr |-> now.impr, clicks |-> now.clicks, cost |-> now.cost]
      /\ Context(c).prior = [impr |-> old.impr, clicks |-> old.clicks, cost |-> old.cost]
      /\ Context(c).budget = IF now.budget > 0 THEN now.budget ELSE old.budget
      /\ Context(c).quality = AverageQuality(c) /\ Context(c).optimization = meta[c].optimization
      /\ Context(c).disapproved = meta[c].disapproved
  BY DEF Context
<1> HIDE DEF now, old
<1>4. IsContext(Context(c))
  BY <1>1, <1>2, <1>3, AverageIs DEF IsContext, IsFigure, IsMeta
<1> QED
  BY <1>3, <1>4 DEF now

\* What a list has of a set, in its order, each once.
LEMMA InOrderIs ==
  ASSUME NEW list, IsNames(list), NEW S
  PROVE  /\ IsList(InOrder(list, S))
         /\ \A n \in DOMAIN InOrder(list, S) : InOrder(list, S)[n] \in S \cap ToSet(list)
         /\ \A c \in S \cap ToSet(list) : \E n \in DOMAIN InOrder(list, S) : InOrder(list, S)[n] = c
         /\ \A m, n \in DOMAIN InOrder(list, S) : InOrder(list, S)[m] = InOrder(list, S)[n] => m = n
<1> DEFINE T == {n \in DOMAIN list : list[n] \in S}
           part == InOrder(list, S)
<1>1. part = ElementsAt(list, T) /\ T \in SUBSET DOMAIN list
  BY DEF InOrder
<1>2. \A n \in T : n \in DOMAIN list /\ list[n] \in S \cap ToSet(list)
  BY DEF ToSet
<1>3. \A c \in S \cap ToSet(list) : \E n \in T : list[n] = c
  BY DEF ToSet
<1> HIDE DEF T, part
<1>4. /\ IsList(part)
      /\ \A k \in DOMAIN part : PlaceIn(T, k) \in T /\ part[k] = list[PlaceIn(T, k)]
      /\ \A n \in T : \E k \in DOMAIN part : PlaceIn(T, k) = n
      /\ \A k1, k2 \in DOMAIN part : PlaceIn(T, k1) = PlaceIn(T, k2) => k1 = k2
  BY <1>1, Selected DEF IsNames
<1>5. \A k \in DOMAIN part : part[k] \in S \cap ToSet(list)
  BY <1>2, <1>4
<1>6. \A c \in S \cap ToSet(list) : \E k \in DOMAIN part : part[k] = c
  BY <1>3, <1>4
<1>7. ASSUME NEW m \in DOMAIN part, NEW n \in DOMAIN part, part[m] = part[n]
      PROVE  m = n
  <2>1. PlaceIn(T, m) = PlaceIn(T, n)
    BY <1>2, <1>4, <1>7 DEF IsNames
  <2> QED
    BY <1>4, <2>1
<1> QED
  BY <1>4, <1>5, <1>6, <1>7 DEF part

\* One analysis of each campaign.
LEMMA AnalyzeIs ==
  ASSUME NEW s
  PROVE  /\ IsList(Analyze(s)) /\ DOMAIN Analyze(s) = DOMAIN InOrder(Campaigns, OwnedBy(s))
         /\ \A n \in DOMAIN Analyze(s) : /\ Analyze(s)[n] = Analysis(InOrder(Campaigns, OwnedBy(s))[n])
                                         /\ InOrder(Campaigns, OwnedBy(s))[n] \in OwnedBy(s)
                                         /\ InOrder(Campaigns, OwnedBy(s))[n] \in CampaignSet
<1> DEFINE list == InOrder(Campaigns, OwnedBy(s))
<1>1. Analyze(s) = [n \in DOMAIN list |-> Analysis(list[n])]
  BY DEF Analyze
<1>2. IsList(list) /\ \A n \in DOMAIN list : list[n] \in OwnedBy(s) \cap CampaignSet
  BY CampaignList, InOrderIs
<1> HIDE DEF list
<1>3. IsList(Analyze(s)) /\ DOMAIN Analyze(s) = DOMAIN list
  BY <1>1, <1>2 DEF IsList
<1> QED
  BY <1>1, <1>2, <1>3 DEF list

\* The health of an active campaign.
LEMMA HealthIs ==
  ASSUME NEW x, Health(x).level # "ignored"
  PROVE  /\ x.status \notin Inactive /\ Health(x).issues = Issues(x)
         /\ Health(x).score = Clamp(Base(x) - Points(Issues(x)))
BY DEF Health

\* The first reason is one of the issues.
LEMMA ReasonFound ==
  ASSUME NEW x, PrimaryReason(Issues(x)) = "NO_IMPRESSIONS"
  PROVE  x.today.impr = 0
<1> DEFINE list == Issues(x)
           key == [n \in DOMAIN list |->
                     CHOOSE k \in DOMAIN Severities : Severities[k] = list[n].severity]
<1>1. IsList(list) /\ \A k \in DOMAIN list :
        \E n \in Found(x) : list[k] = Findings(x)[n][2]
  BY IssuesAre
<1>2. list # <<>> /\ SortedBy(list, key)[1].code = "NO_IMPRESSIONS"
  BY DEF PrimaryReason
<1>3. \A n \in Found(x) : n \in 1..9 /\ Findings(x)[n][2].severity \in {"critical", "high", "medium"}
  <2>1. \A n \in 1..9 : Findings(x)[n][2].severity \in {"critical", "high", "medium"}
    BY FindingsAre
  <2> QED
    BY <2>1 DEF Found
<1>4. \A n \in DOMAIN list : key[n] \in Int
  <2> SUFFICES ASSUME NEW n \in DOMAIN list PROVE key[n] \in Int
    OBVIOUS
  <2>1. list[n].severity \in {"critical", "high", "medium"}
    BY <1>1, <1>3
  <2>2. DOMAIN Severities = 1..4
    BY DEF Severities
  <2>3. \E k \in DOMAIN Severities : Severities[k] = list[n].severity
    <3>1. Severities[1] = "critical" /\ Severities[2] = "high" /\ Severities[3] = "medium"
      BY DEF Severities
    <3> QED
      BY <2>1, <2>2, <3>1
  <2>4. key[n] \in DOMAIN Severities
    BY <2>3
  <2> HIDE DEF key
  <2> QED
    BY <2>2, <2>4
<1>5. DOMAIN key = DOMAIN list
  OBVIOUS
<1>6. 1 \in DOMAIN list
  <2>1. PICK n \in Nat : DOMAIN list = 1..n /\ list = [k \in 1..n |-> list[k]]
    BY <1>1 DEF IsList
  <2>2. n # 0
    <3> SUFFICES ASSUME n = 0 PROVE FALSE
      OBVIOUS
    <3>1. DOMAIN list = {} /\ list = [k \in {} |-> list[k]]
      BY <2>1
    <3>2. list = <<>>
      <4>1. IsList(<<>>) /\ DOMAIN <<>> = {}
        BY EmptyList
      <4> HIDE DEF list
      <4> QED
        BY <1>1, <3>1, <4>1, ListsEqual
    <3> QED
      BY <1>2, <3>2
  <2> QED
    BY <2>1, <2>2
<1> HIDE DEF list, key
<1>7. SortedFrom(key, 1) \in DOMAIN list /\ SortedBy(list, key)[1] = list[SortedFrom(key, 1)]
  BY <1>1, <1>4, <1>5, <1>6, SortedIs
<1>8. PICK n \in Found(x) : list[SortedFrom(key, 1)] = Findings(x)[n][2]
  BY <1>1, <1>7
<1>9. Findings(x)[n][2].code = "NO_IMPRESSIONS"
  BY <1>2, <1>7, <1>8
<1>10. n = 1
  <2>1. \A i \in 1..9 : Findings(x)[i][2].code = "NO_IMPRESSIONS" <=> i = 1
    BY FindingsAre
  <2> QED
    BY <1>3, <1>9, <2>1
<1> QED
  BY <1>8, <1>10, FindingsAre

LEMMA AlarmsTrue == ASSUME CenterInv PROVE AlarmsOfLaggardsOnly
<1> SUFFICES ASSUME rows # {}, NEW a \in ToSet(Analyze(Owners)), Active(a),
                    PrimaryReason(a.health.issues) = "NO_IMPRESSIONS",
                    NEW own, own = In(rows, {Owner[a.of]}, DaysKnown), own # {},
                    NEW newest, newest = Max({r.day : r \in own}),
                    ~ \E r \in rows : r.day > newest,
                    NEW r \in own, r.of = a.of, r.day = newest
             PROVE  r.impr = 0
  BY DEF AlarmsOfLaggardsOnly
<1>1. PICK n \in DOMAIN Analyze(Owners) : a = Analyze(Owners)[n]
  BY DEF ToSet
<1>2. PICK c \in CampaignSet : a = Analysis(c)
  BY <1>1, AnalyzeIs
<1>3. a.of = c /\ a.ctx = Context(c) /\ a.health = Health(Context(c))
  BY <1>2 DEF Analysis
<1>4. Context(c).today.impr = 0
  BY <1>3, HealthIs, ReasonFound DEF Active
<1>5. DayOf(c, Latest).impr = 0
  BY <1>4, ContextIs
<1>6. r \in rows
  BY DEF In
<1>7. r.day = Latest
  <2>1. \A s \in rows : ~(s.day > newest)
    OBVIOUS
  <2>4. \A s \in rows : s.day \in 1..today
    BY RowsAre DEF IsRow
  <2>5. \A s \in rows : s.day \in Int
    BY <2>4
  <2>2. PICK s \in rows : s.day = Latest
    BY LatestIs
  <2>3. newest <= Latest /\ newest \in Int
    BY <1>6, <2>5, LatestIs
  <2>6. ~(Latest > newest) /\ Latest \in Int
    BY <2>1, <2>2, <2>5
  <2> QED
    BY <2>3, <2>6
<1> QED
  BY <1>3, <1>5, <1>6, <1>7, DayIs

\* Whichever accounts are synced for which days, and whatever the API reports: a campaign is
\* not alarmed for want of impressions when the newest snapshots of all accounts are as new
\* as any and have some of it.  What is alarmed beyond that belongs to an account that lags
\* behind the others.
THEOREM LaggardsAlarmed == CenterInit /\ [][CenterNext]_centerVars => []AlarmsOfLaggardsOnly
<1>1. CenterInv => AlarmsOfLaggardsOnly
  BY AlarmsTrue
<1> QED
  BY <1>1, CenterInvHolds, PTL

-----------------------------------------------------------------------------
(* The worst first.                                                        *)

\* What the state of a campaign takes away, and what its traffic and its budget do.
StateTaken(c) == Taken(c, 5) + Taken(c, 8) + Taken(c, 9)

TrafficTaken(c) == Taken(c, 2) + Taken(c, 3) + Taken(c, 4) + Taken(c, 6) + Taken(c, 7)

LEMMA TakenIs ==
  ASSUME NEW x, IsContext(x)
  PROVE  /\ Points(Issues(x)) = StateTaken(x) + TrafficTaken(x)
         /\ StateTaken(x) \in Nat /\ TrafficTaken(x) \in Nat /\ TrafficTaken(x) <= 60
         /\ \E k \in Nat : Points(Issues(x)) = 5 * k
<1>1. /\ Taken(x, 2) \in {0, 15} /\ Taken(x, 3) \in {0, 15} /\ Taken(x, 4) \in {0, 10}
      /\ Taken(x, 5) \in {0, 15} /\ Taken(x, 6) \in {0, 20} /\ Taken(x, 7) \in {0, 10}
      /\ Taken(x, 8) \in {0, 10} /\ Taken(x, 9) \in {0, 20}
  BY DEF Taken
<1>2. Taken(x, 6) = 0 \/ Taken(x, 7) = 0
  <2>1. ~(6 \in Found(x) /\ 7 \in Found(x))
    <3> SUFFICES ASSUME 6 \in Found(x), 7 \in Found(x) PROVE FALSE
      OBVIOUS
    <3>1. x.today.cost >= x.budget /\ x.today.cost < x.budget
      BY FindingsAre
    <3> QED
      BY <3>1 DEF IsContext
  <2> QED
    BY <2>1 DEF Taken
<1> DEFINE k(n) == Taken(x, n) \div 5
<1>3. \A t \in {0, 10, 15, 20} : t \div 5 \in Nat /\ t = 5 * (t \div 5)
  OBVIOUS
<1>4. \A n \in 2..9 : Taken(x, n) \in {0, 10, 15, 20}
  <2>1. \A n \in 2..9 : n = 2 \/ n = 3 \/ n = 4 \/ n = 5 \/ n = 6 \/ n = 7 \/ n = 8 \/ n = 9
    OBVIOUS
  <2> QED
    BY <1>1, <2>1
<1>5. \A n \in 2..9 : k(n) \in Nat /\ Taken(x, n) = 5 * k(n)
  BY <1>3, <1>4
<1> HIDE DEF k
<1>6. /\ k(2) \in Nat /\ k(3) \in Nat /\ k(4) \in Nat /\ k(5) \in Nat
      /\ k(6) \in Nat /\ k(7) \in Nat /\ k(8) \in Nat /\ k(9) \in Nat
      /\ Taken(x, 2) = 5 * k(2) /\ Taken(x, 3) = 5 * k(3) /\ Taken(x, 4) = 5 * k(4)
      /\ Taken(x, 5) = 5 * k(5) /\ Taken(x, 6) = 5 * k(6) /\ Taken(x, 7) = 5 * k(7)
      /\ Taken(x, 8) = 5 * k(8) /\ Taken(x, 9) = 5 * k(9)
  BY <1>5
<1>7. Points(Issues(x)) = Taken(x, 2) + Taken(x, 3) + Taken(x, 4) + Taken(x, 5) + Taken(x, 6)
                            + Taken(x, 7) + Taken(x, 8) + Taken(x, 9)
  BY PointsAre
<1>8. Points(Issues(x)) = StateTaken(x) + TrafficTaken(x)
  BY <1>6, <1>7 DEF StateTaken, TrafficTaken
<1>9. StateTaken(x) \in Nat /\ TrafficTaken(x) \in Nat /\ TrafficTaken(x) <= 60
  BY <1>1, <1>2 DEF StateTaken, TrafficTaken
<1>10. \E i \in Nat : Points(Issues(x)) = 5 * i
  <2> DEFINE i == k(2) + k(3) + k(4) + k(5) + k(6) + k(7) + k(8) + k(9)
  <2>1. i \in Nat /\ Points(Issues(x)) = 5 * i
    BY <1>6, <1>7
  <2> QED
    BY <2>1
<1> QED
  BY <1>8, <1>9, <1>10

LEMMA StateTakesMore ==
  ASSUME NEW x, IsContext(x), NEW y, IsContext(y), StateAsBad(x, y)
  PROVE  StateTaken(y) <= StateTaken(x)
<1>1. 5 \in Found(x) <=> 5 \in Found(y)
  <2>1. x.quality = y.quality
    BY DEF StateAsBad
  <2>2. 5 \in Found(x) <=> x.quality # Unknown /\ x.quality < 5
    BY FindingsAre
  <2>3. 5 \in Found(y) <=> y.quality # Unknown /\ y.quality < 5
    BY FindingsAre
  <2> QED
    BY <2>1, <2>2, <2>3
<1>2. 8 \in Found(y) => 8 \in Found(x)
  <2> SUFFICES ASSUME 8 \in Found(y) PROVE 8 \in Found(x)
    OBVIOUS
  <2>1. y.optimization # Unknown /\ y.optimization < 60
    BY FindingsAre
  <2>2. x.optimization # Unknown /\ x.optimization < 60
    <3>1. CASE x.optimization = y.optimization
      BY <2>1, <3>1
    <3>2. CASE x.optimization # Unknown /\ x.optimization < y.optimization
      <4>1. x.optimization \in Nat /\ y.optimization \in Nat
        BY <2>1, <3>2 DEF IsContext
      <4> QED
        BY <2>1, <3>2, <4>1
    <3> QED
      BY <2>1, <3>1, <3>2 DEF StateAsBad
  <2> QED
    BY <2>2, FindingsAre
<1>3. 9 \in Found(y) => 9 \in Found(x)
  <2> SUFFICES ASSUME 9 \in Found(y) PROVE 9 \in Found(x)
    OBVIOUS
  <2>1. y.disapproved > 0
    BY FindingsAre
  <2>2. x.disapproved > 0
    BY <2>1 DEF IsContext, StateAsBad
  <2> QED
    BY <2>2, FindingsAre
<1>4. /\ Taken(x, 5) \in {0, 15} /\ Taken(x, 8) \in {0, 10} /\ Taken(x, 9) \in {0, 20}
      /\ Taken(y, 5) \in {0, 15} /\ Taken(y, 8) \in {0, 10} /\ Taken(y, 9) \in {0, 20}
      /\ Taken(x, 5) = Taken(y, 5)
      /\ Taken(y, 8) <= Taken(x, 8) /\ Taken(y, 9) <= Taken(x, 9)
  BY <1>1, <1>2, <1>3 DEF Taken
<1> QED
  BY <1>4 DEF StateTaken

\* What the traffic takes away is the same for the same traffic and budget.
LEMMA SameTraffic ==
  ASSUME NEW x, NEW y, x.today = y.today, x.prior = y.prior, x.budget = y.budget
  PROVE  TrafficTaken(x) = TrafficTaken(y)
<1>11. 2 \in Found(x) <=> 2 \in Found(y)
  <2>1. 2 \in Found(x) <=> LowRate(x.today, 2)
    BY FindingsAre
  <2>2. 2 \in Found(y) <=> LowRate(y.today, 2)
    BY FindingsAre
  <2> QED
    BY <2>1, <2>2
<1>12. 3 \in Found(x) <=> 3 \in Found(y)
  <2>1. 3 \in Found(x) <=> RateDropped(x.today, x.prior)
    BY FindingsAre
  <2>2. 3 \in Found(y) <=> RateDropped(y.today, y.prior)
    BY FindingsAre
  <2> QED
    BY <2>1, <2>2
<1>13. 4 \in Found(x) <=> 4 \in Found(y)
  <2>1. 4 \in Found(x) <=> PriceRose(x.today, x.prior)
    BY FindingsAre
  <2>2. 4 \in Found(y) <=> PriceRose(y.today, y.prior)
    BY FindingsAre
  <2> QED
    BY <2>1, <2>2
<1>14. 6 \in Found(x) <=> 6 \in Found(y)
  <2>1. 6 \in Found(x) <=> x.budget > 0 /\ x.today.cost >= x.budget
    BY FindingsAre
  <2>2. 6 \in Found(y) <=> y.budget > 0 /\ y.today.cost >= y.budget
    BY FindingsAre
  <2> QED
    BY <2>1, <2>2
<1>15. 7 \in Found(x) <=> 7 \in Found(y)
  <2>1. 7 \in Found(x) <=> /\ x.budget > 0 /\ x.today.cost < x.budget
                         /\ 100 * x.today.cost >= 85 * x.budget
    BY FindingsAre
  <2>2. 7 \in Found(y) <=> /\ y.budget > 0 /\ y.today.cost < y.budget
                         /\ 100 * y.today.cost >= 85 * y.budget
    BY FindingsAre
  <2> QED
    BY <2>1, <2>2
<1>2. /\ Taken(x, 2) = Taken(y, 2) /\ Taken(x, 3) = Taken(y, 3) /\ Taken(x, 4) = Taken(y, 4)
      /\ Taken(x, 6) = Taken(y, 6) /\ Taken(x, 7) = Taken(y, 7)
  BY <1>11, <1>12, <1>13, <1>14, <1>15 DEF Taken
<1> QED
  BY <1>2 DEF TrafficTaken

LEMMA ScoreIs ==
  ASSUME NEW x, IsContext(x), Health(x).level # "ignored",
         NEW p, p = Points(Issues(x)), NEW h, h = Health(x).score
  PROVE  /\ p \in Nat /\ h \in 0..100
         /\ h = IF Base(x) - p < 0 THEN 0 ELSE Base(x) - p
         /\ Base(x) = IF x.today.impr = 0 THEN 35 ELSE 100
         /\ Priority(x).score =
              Clamp(Rounded(7 * (100 - h) + 3 * Min({100, x.today.cost}), 10))
<1>1. p \in Nat
  BY TakenIs
<1>2. Base(x) = IF x.today.impr = 0 THEN 35 ELSE 100
  BY DEF Base
<1>3. Base(x) - p \in Int /\ Base(x) - p <= 100
  BY <1>1, <1>2
<1>4. h = Clamp(Base(x) - p)
  BY HealthIs
<1>5. h = IF Base(x) - p < 0 THEN 0 ELSE Base(x) - p
  BY <1>3, <1>4, ClampIs
<1>6. h \in 0..100
  BY <1>3, <1>5
<1>7. Priority(x).score = Clamp(Rounded(7 * (100 - h) + 3 * Min({100, x.today.cost}), 10))
  BY DEF Priority
<1> QED
  BY <1>1, <1>2, <1>5, <1>6, <1>7

\* One campaign is worse off than another.
Worse(x, y) ==
  /\ \/ x.today.impr = 0 /\ y.today.impr > 0 /\ y.today.cost <= 10 /\ Health(y).score > 0
     \/ x.today = y.today /\ x.prior = y.prior /\ x.budget = y.budget
  /\ StateAsBad(x, y)

LEMMA WorseScores ==
  ASSUME NEW x, IsContext(x), Health(x).level # "ignored",
         NEW y, IsContext(y), Health(y).level # "ignored", Worse(x, y)
  PROVE  Priority(y).score <= Priority(x).score
<1> DEFINE p == Points(Issues(x))
           q == Points(Issues(y))
           h == Health(x).score
           i == Health(y).score
           b == Base(x)
           d == Base(y)
           S == Min({100, x.today.cost})
           T == Min({100, y.today.cost})
<1>1. /\ p \in Nat /\ h \in 0..100 /\ h = (IF b - p < 0 THEN 0 ELSE b - p)
      /\ b = (IF x.today.impr = 0 THEN 35 ELSE 100)
      /\ Priority(x).score = Clamp(Rounded(7 * (100 - h) + 3 * S, 10))
  BY ScoreIs
<1>2. /\ q \in Nat /\ i \in 0..100 /\ i = (IF d - q < 0 THEN 0 ELSE d - q)
      /\ d = (IF y.today.impr = 0 THEN 35 ELSE 100)
      /\ Priority(y).score = Clamp(Rounded(7 * (100 - i) + 3 * T, 10))
  BY ScoreIs
<1>3. S \in Nat /\ T \in Nat /\ T <= y.today.cost /\ x.today.cost \in Nat /\ y.today.cost \in Nat
  BY MinOf DEF IsContext
<1>4. /\ p = StateTaken(x) + TrafficTaken(x) /\ q = StateTaken(y) + TrafficTaken(y)
      /\ StateTaken(x) \in Nat /\ StateTaken(y) \in Nat
      /\ TrafficTaken(x) \in Nat /\ TrafficTaken(y) \in Nat /\ TrafficTaken(y) <= 60
  BY TakenIs
<1>5. StateTaken(y) <= StateTaken(x)
  BY StateTakesMore DEF Worse
<1>6. PICK k \in Nat : q = 5 * k
  BY TakenIs
<1>7. 7 * (100 - i) + 3 * T <= 7 * (100 - h) + 3 * S
  <2>1. CASE x.today.impr = 0 /\ y.today.impr > 0 /\ y.today.cost <= 10 /\ i > 0
    <3>1. b = 35 /\ d = 100
      BY <1>1, <1>2, <2>1
    <3>2. i = 100 - q /\ i >= 5
      BY <1>2, <1>6, <2>1, <3>1
    <3>3. h <= i - 5
      BY <1>1, <1>4, <1>5, <3>1, <3>2
    <3>4. T <= 10
      BY <1>3, <2>1
    <3> QED
      BY <1>1, <1>2, <1>3, <3>3, <3>4
  <2>2. CASE x.today = y.today /\ x.prior = y.prior /\ x.budget = y.budget
    <3>1. b = d /\ S = T
      BY <1>1, <1>2, <2>2
    <3>2. TrafficTaken(x) = TrafficTaken(y)
      BY <2>2, SameTraffic
    <3>3. h <= i
      BY <1>1, <1>2, <1>4, <1>5, <3>1, <3>2
    <3> QED
      BY <1>1, <1>2, <1>3, <3>1, <3>3
  <2> QED
    BY <2>1, <2>2 DEF Worse
<1> DEFINE m == 7 * (100 - i) + 3 * T
           n == 7 * (100 - h) + 3 * S
<1>8. m \in Nat /\ n \in Nat /\ m <= n
  BY <1>1, <1>2, <1>3, <1>7
<1> HIDE DEF m, n
<1>9. m * 10 <= n * 10
  BY <1>8
<1>10. Rounded(m, 10) \in Nat /\ Rounded(m, 10) <= Rounded(n, 10)
  BY <1>8, <1>9, RoundedGrows
<1>11. Rounded(n, 10) \in Nat
  BY <1>8, RoundedGrows
<1>12. Clamp(Rounded(m, 10)) <= Clamp(Rounded(n, 10))
  BY <1>10, <1>11, ClampIs
<1> QED
  BY <1>1, <1>2, <1>12 DEF m, n

\* The campaigns that are shown: the active ones of the scope, each once.
LEMMA ShownIs ==
  ASSUME CenterInv, NEW s, NEW own, own = Shown(s, FALSE)
  PROVE  /\ IsList(own)
         /\ \A n \in DOMAIN own : /\ own[n].of \in OwnedBy(s) \cap CampaignSet
                                  /\ own[n] = Analysis(own[n].of) /\ Active(own[n])
         /\ \A c \in OwnedBy(s) : Active(Analysis(c)) => \E n \in DOMAIN own : own[n] = Analysis(c)
         /\ \A m, n \in DOMAIN own : own[m].of = own[n].of => m = n
<1> DEFINE all == Analyze(s)
           S == {n \in DOMAIN all : Active(all[n])}
           names == InOrder(Campaigns, OwnedBy(s))
<1>1. own = ElementsAt(all, S) /\ S \in SUBSET DOMAIN all
  BY DEF Shown
<1>2. IsList(all) /\ DOMAIN all = DOMAIN names /\ \A n \in DOMAIN all : all[n] = Analysis(names[n])
  BY AnalyzeIs
<1>3. /\ \A n \in DOMAIN names : names[n] \in OwnedBy(s) \cap CampaignSet
      /\ \A c \in OwnedBy(s) \cap CampaignSet : \E n \in DOMAIN names : names[n] = c
      /\ \A m, n \in DOMAIN names : names[m] = names[n] => m = n
  BY CampaignList, InOrderIs
<1>4. \A n \in DOMAIN all : n \in S <=> Active(all[n])
  OBVIOUS
<1> HIDE DEF all, S, names
<1>5. /\ IsList(own)
      /\ \A k \in DOMAIN own : PlaceIn(S, k) \in S /\ own[k] = all[PlaceIn(S, k)]
      /\ \A n \in S : \E k \in DOMAIN own : PlaceIn(S, k) = n
      /\ \A k1, k2 \in DOMAIN own : PlaceIn(S, k1) = PlaceIn(S, k2) => k1 = k2
  <2> DEFINE part == ElementsAt(all, S)
  <2>1. /\ IsList(part)
        /\ \A k \in DOMAIN part : PlaceIn(S, k) \in S /\ part[k] = all[PlaceIn(S, k)]
        /\ \A n \in S : \E k \in DOMAIN part : PlaceIn(S, k) = n
        /\ \A k1, k2 \in DOMAIN part : PlaceIn(S, k1) = PlaceIn(S, k2) => k1 = k2
    BY <1>1, <1>2, Selected
  <2>2. own = part
    BY <1>1
  <2> HIDE DEF part
  <2> QED
    BY <2>1, <2>2
<1>6. \A c : Analysis(c).of = c
  BY DEF Analysis
<1>7. ASSUME NEW n \in DOMAIN own
      PROVE  /\ own[n].of \in OwnedBy(s) \cap CampaignSet
             /\ own[n] = Analysis(own[n].of) /\ Active(own[n])
             /\ own[n].of = names[PlaceIn(S, n)] /\ PlaceIn(S, n) \in DOMAIN names
  <2>1. PlaceIn(S, n) \in S /\ own[n] = all[PlaceIn(S, n)]
    BY <1>5
  <2>2. PlaceIn(S, n) \in DOMAIN all /\ Active(all[PlaceIn(S, n)])
    BY <1>1, <1>4, <2>1
  <2>3. own[n] = Analysis(names[PlaceIn(S, n)]) /\ PlaceIn(S, n) \in DOMAIN names
    BY <1>2, <2>1, <2>2
  <2>4. own[n].of = names[PlaceIn(S, n)] /\ names[PlaceIn(S, n)] \in OwnedBy(s) \cap CampaignSet
    BY <1>3, <1>6, <2>3
  <2> QED
    BY <2>1, <2>2, <2>3, <2>4
<1>8. \A m, n \in DOMAIN own : own[m].of = own[n].of => m = n
  <2> SUFFICES ASSUME NEW m \in DOMAIN own, NEW n \in DOMAIN own, own[m].of = own[n].of
               PROVE  m = n
    OBVIOUS
  <2>1. names[PlaceIn(S, m)] = names[PlaceIn(S, n)]
    BY <1>7
  <2>2. PlaceIn(S, m) \in DOMAIN names /\ PlaceIn(S, n) \in DOMAIN names
    BY <1>7
  <2>3. PlaceIn(S, m) = PlaceIn(S, n)
    BY <1>3, <2>1, <2>2
  <2> QED
    BY <1>5, <2>3
<1>9. ASSUME NEW c \in OwnedBy(s), Active(Analysis(c))
      PROVE  \E n \in DOMAIN own : own[n] = Analysis(c)
  <2>1. c \in CampaignSet
    BY DEF OwnedBy
  <2>2. PICK n \in DOMAIN names : names[n] = c
    BY <1>3, <2>1
  <2>3. n \in S
    BY <1>2, <1>4, <1>9, <2>2
  <2>4. PICK k \in DOMAIN own : PlaceIn(S, k) = n
    BY <1>5, <2>3
  <2>5. own[k] = all[n] /\ all[n] = Analysis(names[n])
    BY <1>2, <1>5, <2>2, <2>4
  <2> QED
    BY <2>2, <2>5
<1> QED
  BY <1>5, <1>7, <1>8, <1>9

\* The score of a campaign that is shown.
LEMMA ShownScore ==
  ASSUME CenterInv, NEW c \in CampaignSet, Active(Analysis(c))
  PROVE  /\ IsContext(Context(c)) /\ Health(Context(c)).level # "ignored"
         /\ Analysis(c).priority.score = Priority(Context(c)).score
         /\ Analysis(c).priority.score \in Int
<1>1. /\ Analysis(c).priority = Priority(Context(c)) /\ Analysis(c).health = Health(Context(c))
  BY DEF Analysis
<1>2. Health(Context(c)).level # "ignored"
  BY <1>1 DEF Active
<1>3. IsContext(Context(c))
  BY ContextIs
<1> DEFINE x == Context(c)
           h == Health(x).score
           S == Min({100, x.today.cost})
<1>4. h \in 0..100 /\ Priority(x).score = Clamp(Rounded(7 * (100 - h) + 3 * S, 10))
  BY <1>2, <1>3, ScoreIs
<1>5. S \in Nat
  BY <1>3, MinOf DEF IsContext
<1> DEFINE m == 7 * (100 - h) + 3 * S
<1>6. m \in Nat
  BY <1>4, <1>5
<1> HIDE DEF m
<1>7. Rounded(m, 10) \in Nat
  BY <1>6, RoundedGrows
<1>8. Clamp(Rounded(m, 10)) \in Int
  BY <1>7, ClampIs
<1> QED
  BY <1>1, <1>2, <1>3, <1>4, <1>8 DEF m

LEMMA WorstHold == ASSUME CenterInv PROVE WorstFirst
<1> SUFFICES ASSUME NEW s \in Scopes
             PROVE  /\ WorstAhead(HealthList(s, FALSE))
                    /\ \A n \in DOMAIN Priorities(s, 2) :
                         Priorities(s, 2)[n] = HealthList(s, FALSE)[n]
  BY DEF WorstFirst
<1> DEFINE own == Shown(s, FALSE)
           key == [n \in DOMAIN own |-> -own[n].priority.score]
           list == HealthList(s, FALSE)
           S == {n \in DOMAIN own : own[n].priority.score >= 1}
           part == ElementsAt(own, S)
           lower == [n \in DOMAIN part |-> -part[n].priority.score]
           tasks == Priorities(s, 2)
<1>1. list = SortedBy(own, key)
  BY DEF HealthList, ByPriority
<1>2. tasks = FirstOf(SortedBy(part, lower), 2)
  BY DEF Priorities, ByPriority
<1>3. /\ IsList(own)
      /\ \A n \in DOMAIN own : /\ own[n].of \in CampaignSet
                               /\ own[n] = Analysis(own[n].of) /\ Active(own[n])
  BY ShownIs
<1>4. \A n \in DOMAIN own : own[n].priority.score \in Int
  BY <1>3, ShownScore
<1>5. DOMAIN key = DOMAIN own /\ \A n \in DOMAIN own : key[n] = -own[n].priority.score /\ key[n] \in Int
  <2>1. \A n \in DOMAIN own : key[n] = -own[n].priority.score
    OBVIOUS
  <2> HIDE DEF key, own
  <2>2. \A n \in DOMAIN own : key[n] \in Int
    BY <1>4, <2>1
  <2>3. DOMAIN key = DOMAIN own
    BY DEF key
  <2> QED
    BY <2>1, <2>2, <2>3
<1>6. S \in SUBSET DOMAIN own /\ \A n \in DOMAIN own : n \in S <=> own[n].priority.score >= 1
  OBVIOUS
<1>7. DOMAIN lower = DOMAIN part /\ \A n \in DOMAIN part : lower[n] = -part[n].priority.score
  OBVIOUS
<1> HIDE DEF own, key, list, S, part, lower, tasks
<1>8. /\ IsList(list) /\ DOMAIN list = DOMAIN own
      /\ \A k \in DOMAIN list : /\ SortedFrom(key, k) \in DOMAIN own
                                /\ list[k] = own[SortedFrom(key, k)]
      /\ \A k1, k2 \in DOMAIN list : k1 <= k2 => key[SortedFrom(key, k1)] <= key[SortedFrom(key, k2)]
  BY <1>1, <1>3, <1>5, SortedIs
<1>9. ASSUME NEW m \in DOMAIN list, NEW n \in DOMAIN list, StateAsBad(list[m].ctx, list[n].ctx),
             \/ list[m].ctx.today.impr = 0 /\ list[n].ctx.today.impr > 0
                /\ list[n].ctx.today.cost <= 10 /\ list[n].health.score > 0
             \/ <<list[m].ctx.today, list[m].ctx.prior, list[m].ctx.budget>>
                  = <<list[n].ctx.today, list[n].ctx.prior, list[n].ctx.budget>>
      PROVE  m <= n \/ list[m].priority.score = list[n].priority.score
  <2>1. PICK c \in CampaignSet : list[m] = Analysis(c) /\ Active(Analysis(c))
    BY <1>3, <1>8
  <2>2. PICK e \in CampaignSet : list[n] = Analysis(e) /\ Active(Analysis(e))
    BY <1>3, <1>8
  <2>3. \A a : Analysis(a).ctx = Context(a) /\ Analysis(a).health = Health(Context(a))
    BY DEF Analysis
  <2>4. Worse(Context(c), Context(e))
    BY <1>9, <2>1, <2>2, <2>3 DEF Worse
  <2>5. list[n].priority.score <= list[m].priority.score
    BY <2>1, <2>2, <2>4, ShownScore, WorseScores
  <2>6. list[n].priority.score \in Int /\ list[m].priority.score \in Int
    BY <2>1, <2>2, ShownScore
  <2>7. ~(m <= n) => list[m].priority.score <= list[n].priority.score
    <3> SUFFICES ASSUME ~(m <= n) PROVE list[m].priority.score <= list[n].priority.score
      OBVIOUS
    <3>1. n <= m
      <4>1. m \in Nat /\ n \in Nat
        BY <1>8, ListIs
      <4> QED
        BY <4>1
    <3>2. key[SortedFrom(key, n)] <= key[SortedFrom(key, m)]
      BY <1>8, <3>1
    <3>3. -list[n].priority.score <= -list[m].priority.score
      BY <1>5, <1>8, <3>2
    <3> QED
      BY <2>6, <3>3
  <2> QED
    BY <2>5, <2>6, <2>7
<1>10. ASSUME NEW n \in DOMAIN tasks PROVE tasks[n] = list[n]
  <2>1. /\ IsList(part) /\ \A k \in DOMAIN part : PlaceIn(S, k) \in S /\ part[k] = own[PlaceIn(S, k)]
    BY <1>3, <1>6, Selected DEF part
  <2>2. \A k \in DOMAIN part : lower[k] = key[PlaceIn(S, k)]
    BY <1>5, <1>6, <1>7, <2>1
  <2>3. \A i \in S : \A j \in DOMAIN own : key[j] <= key[i] => j \in S
    <3> SUFFICES ASSUME NEW i \in S, NEW j \in DOMAIN own, key[j] <= key[i] PROVE j \in S
      OBVIOUS
    <3>1. own[i].priority.score >= 1 /\ own[i].priority.score \in Int /\ own[j].priority.score \in Int
      BY <1>4, <1>6
    <3>2. -own[j].priority.score <= -own[i].priority.score
      BY <1>5, <1>6
    <3>3. own[j].priority.score >= 1
      BY <3>1, <3>2
    <3> QED
      BY <1>6, <3>3
  <2>4. part = ElementsAt(own, S)
    BY DEF part
  <2>5. \A k \in DOMAIN part : k \in DOMAIN own /\ SortedBy(part, lower)[k] = SortedBy(own, key)[k]
    <3>1. IsList(own) /\ S \in SUBSET DOMAIN own /\ DOMAIN lower = DOMAIN part
      BY <1>3, <1>6, <1>7
    <3>2. DOMAIN key = DOMAIN own /\ \A i \in DOMAIN own : key[i] \in Int
      BY <1>5
    <3> QED
      BY ONLY <2>2, <2>3, <2>4, <3>1, <3>2, SortedHead
  <2> DEFINE all == SortedBy(part, lower)
  <2>6. IsList(all) /\ DOMAIN all = DOMAIN part
    BY <2>1, SortedList
  <2>7. Len(all) \in Nat /\ DOMAIN all = 1..Len(all)
    BY <2>6, ListIs
  <2>8. tasks = SubSeq(all, 1, Min({2, Len(all)}))
    BY <1>2 DEF FirstOf
  <2> DEFINE l == Min({2, Len(all)})
  <2>9. l \in Nat /\ l <= Len(all)
    BY <2>7, MinOf
  <2> HIDE DEF all, l
  <2>10. DOMAIN SubSeq(all, 1, l) = 1..l /\ \A k \in 1..l : SubSeq(all, 1, l)[k] = all[k]
    BY <2>6, <2>9, FirstPart
  <2>11. n \in 1..l /\ tasks[n] = all[n]
    BY <2>8, <2>10 DEF l
  <2>12. n \in DOMAIN part
    BY <2>6, <2>7, <2>9, <2>11
  <2> QED
    BY <1>1, <2>5, <2>11, <2>12 DEF all
<1>11. WorstAhead(list)
  BY <1>9 DEF WorstAhead
<1> QED
  BY <1>10, <1>11 DEF list, tasks

\* For any campaigns, figures and states: the list of what to look at never puts a campaign
\* that still serves, and spends little, before one that has stopped serving and whose state
\* is as bad, nor of two with the same traffic and budget the better one before the worse,
\* unless their scores are equal; and the priorities are its head.
THEOREM WorstComeFirst == CenterInit /\ [][CenterNext]_centerVars => []WorstFirst
<1>1. CenterInv => WorstFirst
  BY WorstHold
<1> QED
  BY <1>1, CenterInvHolds, PTL

-----------------------------------------------------------------------------
(* The sums of the pages.                                                  *)

\* The campaigns with a row.
Names(s, days) == {r.of : r \in In(rows, s, days)}

\* A line of a list of sums.
IsLine(a) == DOMAIN a = Sums4 \cup {"of"}

\* The rows of a scope and some days.
LEMMA InIs ==
  ASSUME CenterInv, NEW s, NEW days
  PROVE  /\ In(rows, s, days) \in SUBSET rows /\ IsFiniteSet(In(rows, s, days))
         /\ IsCounted(Campaigns, In(rows, s, days))
         /\ \A r \in In(rows, s, days) : /\ r.of \in CampaignSet \cap OwnedBy(s)
                                         /\ r.day \in days /\ r.day \in 1..today
         /\ Names(s, days) \in SUBSET CampaignSet
         /\ \A R \in SUBSET rows : IsFiniteSet(R) /\ \A r \in R : \A f \in Sums4 : r[f] \in Nat
<1>1. /\ In(rows, s, days) \in SUBSET rows /\ IsCounted(Campaigns, In(rows, s, days))
      /\ \A r \in In(rows, s, days) : Owner[r.of] \in s /\ r.day \in days
  BY CountedAre, CountedPart
<1>2. \A R \in SUBSET rows : IsFiniteSet(R) /\ \A r \in R : \A f \in Sums4 : r[f] \in Nat
  BY CountedAre, FS_Subset DEF IsCounted
<1>3. \A r \in rows : r.of \in CampaignSet /\ r.day \in 1..today
  BY RowsAre DEF IsRow
<1>4. \A r \in In(rows, s, days) : r.of \in CampaignSet \cap OwnedBy(s)
  BY <1>1, <1>3 DEF OwnedBy
<1> QED
  BY <1>1, <1>2, <1>3, <1>4 DEF Names

\* Totals are four sums.
LEMMA TotalsAre ==
  ASSUME NEW S
  PROVE  DOMAIN Totals(S) = Sums4 /\ \A f \in Sums4 : Totals(S)[f] = SumOver(S, f)
BY DEF Totals, Sums4

\* Totals are equal when their four sums are.
LEMMA TotalsEqual ==
  ASSUME NEW x, NEW y, x = [f \in Sums4 |-> x[f]], y = [f \in Sums4 |-> y[f]],
         \A f \in Sums4 : x[f] = y[f]
  PROVE  x = y
<1>1. [f \in Sums4 |-> x[f]] = [f \in Sums4 |-> y[f]]
  OBVIOUS
<1> QED
  BY <1>1

\* Such a line.
LEMMA LineIs ==
  ASSUME NEW c, NEW S, NEW a, a = Updated([of |-> c], Totals(S))
  PROVE  a.of = c /\ IsLine(a) /\ \A f \in Sums4 : a[f] = SumOver(S, f)
<1>1. DOMAIN Totals(S) = Sums4 /\ \A f \in Sums4 : Totals(S)[f] = SumOver(S, f)
  BY TotalsAre
<1>2. a = [x \in Sums4 \cup {"of"} |-> IF x \in Sums4 THEN Totals(S)[x] ELSE [of |-> c][x]]
  BY <1>1 DEF Updated
<1>3. "of" \notin Sums4
  BY DEF Sums4
<1> QED
  BY <1>1, <1>2, <1>3 DEF IsLine

\* As many are listed of a set as it has.
LEMMA InOrderLen ==
  ASSUME NEW list, IsNames(list), NEW C \in SUBSET ToSet(list)
  PROVE  /\ IsFiniteSet(C) /\ Len(InOrder(list, C)) = Cardinality(C)
         /\ Len(InOrder(list, C)) <= Len(list)
<1> DEFINE part == InOrder(list, C)
<1>1. IsNames(part) /\ ToSet(part) = C
  <2>1. /\ IsList(part) /\ \A n \in DOMAIN part : part[n] \in C
        /\ \A x \in C : \E n \in DOMAIN part : part[n] = x
        /\ \A m, n \in DOMAIN part : part[m] = part[n] => m = n
    BY InOrderIs
  <2> HIDE DEF part
  <2> QED
    BY <2>1 DEF IsNames, ToSet
<1>2. Cardinality(C) = Len(part)
  BY <1>1, NamesAre
<1>3. IsFiniteSet(ToSet(list)) /\ Cardinality(ToSet(list)) = Len(list)
  BY NamesAre
<1>4. IsFiniteSet(C) /\ Cardinality(C) <= Cardinality(ToSet(list))
  BY <1>3, FS_Subset
<1> QED
  BY <1>2, <1>3, <1>4

\* The lines: one of each listed name with a row, with the sums of its rows.
Seen(S) == {r.of : r \in S}

AreLines(lines, list, S) ==
  /\ IsList(lines)
  /\ \A n \in DOMAIN lines :
       /\ lines[n].of \in Seen(S) /\ IsLine(lines[n])
       /\ \A f \in Sums4 : /\ lines[n][f] = SumOver({r \in S : r.of = lines[n].of}, f)
                           /\ lines[n][f] \in Nat
  /\ \A c \in Seen(S) : \E n \in DOMAIN lines : lines[n].of = c
  /\ \A m, n \in DOMAIN lines : lines[m].of = lines[n].of => m = n
  /\ Len(lines) \in Nat /\ Len(lines) = Cardinality(Seen(S)) /\ Len(lines) <= Len(list)

LEMMA GroupedAre ==
  ASSUME NEW list, IsNames(list), NEW S, IsCounted(list, S), NEW lines, lines = Grouped(list, S)
  PROVE  AreLines(lines, list, S)
<1> DEFINE N == Seen(S)
<1> DEFINE C == InOrder(list, N)
           own(c) == {r \in S : r.of = c}
<1>1. lines = [n \in DOMAIN C |-> Updated([of |-> C[n]], Totals(own(C[n])))]
  BY DEF Grouped, Seen
<1>2. N \in SUBSET ToSet(list)
  BY DEF IsCounted, Seen
<1>0. N = Seen(S)
  OBVIOUS
<1> HIDE DEF N
<1>3. /\ IsList(C) /\ \A n \in DOMAIN C : C[n] \in N
      /\ \A c \in N : \E n \in DOMAIN C : C[n] = c
      /\ \A m, n \in DOMAIN C : C[m] = C[n] => m = n
  <2>1. /\ IsList(C) /\ \A n \in DOMAIN C : C[n] \in N \cap ToSet(list)
        /\ \A c \in N \cap ToSet(list) : \E n \in DOMAIN C : C[n] = c
        /\ \A m, n \in DOMAIN C : C[m] = C[n] => m = n
    BY ONLY IsNames(list), InOrderIs
  <2>2. N \cap ToSet(list) = N
    BY <1>2
  <2> HIDE DEF C
  <2> QED
    BY <2>1, <2>2
<1>4. Len(C) = Cardinality(N) /\ Len(C) <= Len(list)
  BY <1>2, InOrderLen
<1>5. \A c : own(c) \in SUBSET S
  OBVIOUS
<1>6. \A c : own(c) = {r \in S : r.of = c}
  OBVIOUS
<1> HIDE DEF C, own
<1>7. IsList(lines) /\ DOMAIN lines = DOMAIN C
  BY <1>1, <1>3 DEF IsList
<1>8. ASSUME NEW n \in DOMAIN lines
      PROVE  /\ lines[n].of = C[n] /\ IsLine(lines[n])
             /\ \A f \in Sums4 : lines[n][f] = SumOver(own(C[n]), f) /\ lines[n][f] \in Nat
  <2>1. lines[n] = Updated([of |-> C[n]], Totals(own(C[n])))
    BY <1>1, <1>7
  <2>2. /\ lines[n].of = C[n] /\ \A f \in Sums4 : lines[n][f] = SumOver(own(C[n]), f)
        /\ IsLine(lines[n])
    BY <2>1, LineIs
  <2>3. IsFiniteSet(own(C[n])) /\ \A r \in own(C[n]) : \A f \in Sums4 : r[f] \in Nat
    BY <1>5, FS_Subset DEF IsCounted
  <2>4. \A f \in Sums4 : SumOver(own(C[n]), f) \in Nat
    BY <2>3, FieldSum
  <2> QED
    BY <2>2, <2>4
<1>9. ASSUME NEW n \in DOMAIN lines, NEW f \in Sums4
      PROVE  lines[n][f] = SumOver({r \in S : r.of = lines[n].of}, f) /\ lines[n][f] \in Nat
  <2>1. lines[n].of = C[n] /\ lines[n][f] = SumOver(own(C[n]), f) /\ lines[n][f] \in Nat
    BY <1>8
  <2>2. own(C[n]) = {r \in S : r.of = C[n]}
    BY <1>6
  <2> QED
    BY <2>1, <2>2
<1>10. Len(lines) = Len(C) /\ Len(lines) \in Nat
  BY <1>3, <1>7, SameLength, ListIs
<1>11. \A n \in DOMAIN lines : lines[n].of \in N /\ IsLine(lines[n])
  BY <1>3, <1>7, <1>8
<1>12. /\ \A c \in N : \E n \in DOMAIN lines : lines[n].of = c
       /\ \A m, n \in DOMAIN lines : lines[m].of = lines[n].of => m = n
  BY <1>3, <1>7, <1>8
<1> QED
  BY <1>0, <1>4, <1>7, <1>9, <1>10, <1>11, <1>12 DEF AreLines

LEMMA AggregatesAre ==
  ASSUME CenterInv, NEW s, NEW days, NEW list, list = Aggregates(days, s)
  PROVE  /\ IsList(list)
         /\ \A n \in DOMAIN list :
              /\ list[n].of \in Names(s, days) /\ IsLine(list[n])
              /\ \A f \in Sums4 :
                   /\ list[n][f] = SumOver({r \in In(rows, s, days) : r.of = list[n].of}, f)
                   /\ list[n][f] \in Nat
         /\ \A c \in Names(s, days) : \E n \in DOMAIN list : list[n].of = c
         /\ \A m, n \in DOMAIN list : list[m].of = list[n].of => m = n
         /\ Len(list) \in Nat /\ Len(list) = Cardinality(Names(s, days)) /\ Len(list) <= Len(Campaigns)
<1> DEFINE S == In(rows, s, days)
<1>1. IsNames(Campaigns) /\ IsCounted(Campaigns, S) /\ list = Grouped(Campaigns, S)
  BY CampaignList, InIs DEF Aggregates
<1>2. Seen(S) = Names(s, days)
  BY DEF Names, Seen
<1> HIDE DEF S
<1>3. AreLines(list, Campaigns, S)
  BY ONLY <1>1, GroupedAre
<1> QED
  BY <1>2, <1>3 DEF AreLines, S

\* The lines of the campaigns add up to the totals of the scope.
LEMMA LinesAddUp ==
  ASSUME CenterInv, NEW s, NEW days, NEW list, list = Aggregates(days, s), NEW f \in Sums4
  PROVE  Total([n \in DOMAIN list |-> list[n][f]]) = SumOver(In(rows, s, days), f)
<1> DEFINE S == In(rows, s, days)
           place == [r \in S |-> CHOOSE n \in DOMAIN list : list[n].of = r.of]
           h == [n \in DOMAIN list |-> SumOver({r \in S : place[r] = n}, f)]
<1>1. /\ IsList(list)
      /\ \A n \in DOMAIN list :
           list[n][f] = SumOver({r \in S : r.of = list[n].of}, f)
      /\ \A c \in Names(s, days) : \E n \in DOMAIN list : list[n].of = c
      /\ \A m, n \in DOMAIN list : list[m].of = list[n].of => m = n
  BY AggregatesAre
<1>2. \A r \in S : place[r] \in DOMAIN list /\ list[place[r]].of = r.of
  BY <1>1 DEF Names
<1>3. IsFiniteSet(S) /\ \A r \in S : r[f] \in Nat
  BY InIs
<1>4. IsFiniteSet(DOMAIN list)
  <2>1. Len(list) \in Nat /\ DOMAIN list = 1..Len(list)
    BY <1>1, ListIs
  <2> QED
    BY <2>1, FS_Interval
<1> HIDE DEF S, place
<1>5. SumOver(S, f) = Total(h)
  BY <1>2, <1>3, <1>4, ClassSum
<1>6. ASSUME NEW n \in DOMAIN list PROVE list[n][f] = h[n]
  <2>1. {r \in S : r.of = list[n].of} = {r \in S : place[r] = n}
    BY <1>1, <1>2
  <2> QED
    BY <1>1, <2>1
<1>7. [n \in DOMAIN list |-> list[n][f]] = h
  BY <1>6
<1> QED
  BY <1>5, <1>7 DEF S

\* Sorted by cost or not.
LEMMA ReportAddsUp ==
  ASSUME CenterInv, NEW s, NEW days, NEW list, list = Aggregates(days, s)
  PROVE  /\ IsList(ByCost(list)) /\ DOMAIN ByCost(list) = DOMAIN list
         /\ ToSet(ByCost(list)) = ToSet(list)
         /\ AddUp(ByCost(list)) = Totals(In(rows, s, days))
<1> DEFINE key == [n \in DOMAIN list |-> -list[n].cost]
           D == DOMAIN list
           T == ByCost(list)
<1>1. IsList(list) /\ \A n \in D : \A f \in Sums4 : list[n][f] \in Nat
  BY AggregatesAre
<1>2. DOMAIN key = D /\ \A n \in D : key[n] \in Int
  <2>1. \A n \in D : list[n].cost \in Nat
    BY <1>1 DEF Sums4
  <2> QED
    BY <2>1
<1>3. T = SortedBy(list, key)
  BY DEF ByCost
<1> HIDE DEF key, D, T
<1>4. /\ IsList(T) /\ DOMAIN T = D
      /\ \A k \in D : SortedFrom(key, k) \in D /\ T[k] = list[SortedFrom(key, k)]
      /\ \A n \in D : SortedPlace(key, n) \in D /\ SortedFrom(key, SortedPlace(key, n)) = n
  BY <1>1, <1>2, <1>3, SortedIs DEF D
<1>5. ToSet(T) = ToSet(list)
  BY <1>4 DEF ToSet, D
<1>6. ASSUME NEW f \in Sums4
      PROVE  Total([n \in DOMAIN T |-> T[n][f]]) = SumOver(In(rows, s, days), f)
  <2> DEFINE g == [n \in DOMAIN T |-> T[n][f]]
             h == [n \in D |-> list[n][f]]
  <2>1. \A n \in D : h[n] \in Int
    BY <1>1
  <2>2. \A k \in D : g[k] = h[SortedFrom(key, k)]
    BY <1>4
  <2>3. DOMAIN g = D /\ DOMAIN h = D
    BY <1>4
  <2>4. Total(h) = SumOver(In(rows, s, days), f)
    BY LinesAddUp DEF D
  <2> HIDE DEF g, h
  <2>5. SumFunctionOnSet(g, D) = SumFunctionOnSet(h, D)
    BY ONLY <1>1, <1>2, <2>1, <2>2, SumSorted DEF D
  <2>6. Total(g) = Total(h)
    BY <2>3, <2>5 DEF Total
  <2> QED
    BY <2>4, <2>6 DEF g
<1>7. AddUp(T) = [f \in Sums4 |-> AddUp(T)[f]]
      /\ \A f \in Sums4 : AddUp(T)[f] = Total([n \in DOMAIN T |-> T[n][f]])
  BY DEF AddUp, Sums4
<1>8. /\ Totals(In(rows, s, days)) = [f \in Sums4 |-> Totals(In(rows, s, days))[f]]
      /\ \A f \in Sums4 : Totals(In(rows, s, days))[f] = SumOver(In(rows, s, days), f)
  BY DEF Totals, Sums4
<1>9. AddUp(T) = Totals(In(rows, s, days))
  <2> DEFINE x == AddUp(T)
             y == Totals(In(rows, s, days))
  <2>1. x = [f \in Sums4 |-> x[f]] /\ y = [f \in Sums4 |-> y[f]]
    BY <1>7, <1>8
  <2>2. \A f \in Sums4 : x[f] = y[f]
    BY <1>6, <1>7, <1>8
  <2> HIDE DEF x, y
  <2>3. x = y
    BY <2>1, <2>2, TotalsEqual
  <2> QED
    BY <2>3 DEF x, y
<1> QED
  BY <1>4, <1>5, <1>9 DEF D, T

\* The windows of the pages.
LEMMA WindowsAre ==
  ASSUME CenterInv
  PROVE  /\ Window(1) = {Latest} /\ Window(2) = (Latest - 1)..Latest
         /\ Latest = today => DashboardWindow(2) = Window(2) /\ RollupWindow(1) = Window(2)
<1>1. Latest \in Int
  BY LatestIs
<1>2. 1 - 1 = 0 /\ 2 - 1 = 1 /\ Max({0, 0}) = 0 /\ Max({0, 1}) = 1
  BY MaxOf
<1>3. Window(1) = Latest..Latest /\ Window(2) = (Latest - 1)..Latest
  <2>1. Window(1) = (Latest - 0)..Latest /\ Window(2) = (Latest - 1)..Latest
    BY <1>2 DEF Window
  <2> QED
    BY <1>1, <2>1
<1>4. Latest = today => DashboardWindow(2) = (Latest - 1)..Latest /\ RollupWindow(1) = (Latest - 1)..Latest
  BY <1>2 DEF DashboardWindow, RollupWindow
<1>5. Latest..Latest = {Latest}
  BY <1>1
<1> QED
  BY <1>3, <1>4, <1>5

\* A limit that a list does not reach.
LEMMA WholeShown ==
  ASSUME NEW list, IsList(list), NEW n \in Nat, Len(list) <= n
  PROVE  FirstOf(list, n) = list
<1> DEFINE l == Min({n, Len(list)})
<1>1. Len(list) \in Nat /\ DOMAIN list = 1..Len(list)
  BY ListIs
<1>2. l = Len(list)
  BY <1>1, LessOf
<1>3. FirstOf(list, n) = SubSeq(list, 1, Len(list))
  BY <1>2 DEF FirstOf
<1> DEFINE t == SubSeq(list, 1, Len(list))
<1>4. IsList(t) /\ DOMAIN t = 1..Len(list) /\ \A k \in 1..Len(list) : t[k] = list[k]
  BY <1>1, FirstPart
<1> HIDE DEF t
<1>5. t = list
  BY <1>1, <1>4, ListsEqual
<1> QED
  BY <1>3, <1>5 DEF t

\* The totals of some days are those of each day, and those of each account.
LEMMA DaysAddUp ==
  ASSUME CenterInv, NEW s, NEW days
  PROVE  SumOver(In(rows, s, days), "cost") =
           Total([d \in {r.day : r \in In(rows, s, days)} |-> Totals(In(rows, s, {d})).cost])
<1> DEFINE S == In(rows, s, days)
           D == {r.day : r \in S}
           day == [r \in S |-> r.day]
           h == [d \in D |-> SumOver({r \in S : day[r] = d}, "cost")]
<1>1. IsFiniteSet(S) /\ \A r \in S : r.cost \in Nat
  BY InIs DEF Sums4
<1>2. IsFiniteSet(D) /\ \A r \in S : day[r] \in D
  <2>1. D = {day[r] : r \in S} /\ \A r \in S : day[r] \in D
    OBVIOUS
  <2> HIDE DEF D, day, S
  <2> QED
    BY <1>1, <2>1, ImageFinite
<1>3. SumOver(S, "cost") = Total(h)
  <2> HIDE DEF S, D, day
  <2> QED
    BY <1>1, <1>2, ClassSum
<1>4. ASSUME NEW d \in D PROVE h[d] = Totals(In(rows, s, {d})).cost
  <2>1. {r \in S : day[r] = d} = In(rows, s, {d})
    BY DEF In
  <2>2. Totals(In(rows, s, {d})).cost = SumOver(In(rows, s, {d}), "cost")
    BY DEF Totals
  <2> QED
    BY <2>1, <2>2
<1>5. h = [d \in D |-> Totals(In(rows, s, {d})).cost]
  BY <1>4
<1> QED
  BY <1>3, <1>5

\* The accounts add up to the scope.
LEMMA AccountsAddUp ==
  ASSUME CenterInv, NEW s, NEW days
  PROVE  SumOver(In(rows, s, days), "cost") =
           Total([a \in {Owner[r.of] : r \in In(rows, s, days)} |-> Totals(In(rows, {a}, days)).cost])
<1> DEFINE S == In(rows, s, days)
           D == {Owner[r.of] : r \in S}
           own == [r \in S |-> Owner[r.of]]
           h == [d \in D |-> SumOver({r \in S : own[r] = d}, "cost")]
<1>1. IsFiniteSet(S) /\ \A r \in S : r.cost \in Nat
  BY InIs DEF Sums4
<1>2. IsFiniteSet(D) /\ \A r \in S : own[r] \in D
  <2>1. D = {own[r] : r \in S} /\ \A r \in S : own[r] \in D
    OBVIOUS
  <2> HIDE DEF D, own, S
  <2> QED
    BY <1>1, <2>1, ImageFinite
<1>3. SumOver(S, "cost") = Total(h)
  <2> HIDE DEF S, D, own
  <2> QED
    BY <1>1, <1>2, ClassSum
<1>4. ASSUME NEW d \in D PROVE h[d] = Totals(In(rows, {d}, days)).cost
  <2>1. {r \in S : own[r] = d} = In(rows, {d}, days)
    BY DEF In
  <2>2. Totals(In(rows, {d}, days)).cost = SumOver(In(rows, {d}, days), "cost")
    BY DEF Totals
  <2> QED
    BY <2>1, <2>2
<1>5. h = [d \in D |-> Totals(In(rows, {d}, days)).cost]
  BY <1>4
<1> QED
  BY <1>3, <1>5

\* A day's cost is that of its campaigns.
LEMMA CampaignsAddUp ==
  ASSUME CenterInv, NEW s, NEW d
  PROVE  SumOver(In(rows, s, {d}), "cost") =
           Total([n \in DOMAIN Analyze(s) |-> DayOf(Analyze(s)[n].of, d).cost])
<1> DEFINE S == In(rows, s, {d})
           list == Analyze(s)
           names == InOrder(Campaigns, OwnedBy(s))
           place == [r \in S |-> CHOOSE n \in DOMAIN list : names[n] = r.of]
           h == [n \in DOMAIN list |-> SumOver({r \in S : place[r] = n}, "cost")]
<1>1. /\ IsList(list) /\ DOMAIN list = DOMAIN names
      /\ \A n \in DOMAIN list : list[n].of = names[n] /\ names[n] \in OwnedBy(s)
  <2>1. \A c : Analysis(c).of = c
    BY DEF Analysis
  <2> QED
    BY <2>1, AnalyzeIs
<1>2. /\ \A c \in OwnedBy(s) \cap CampaignSet : \E n \in DOMAIN names : names[n] = c
      /\ \A m, n \in DOMAIN names : names[m] = names[n] => m = n
  BY CampaignList, InOrderIs
<1>3. IsFiniteSet(S) /\ \A r \in S : r.cost \in Nat /\ r.of \in OwnedBy(s) \cap CampaignSet
  BY InIs DEF Sums4
<1>4. \A r \in S : place[r] \in DOMAIN list /\ names[place[r]] = r.of
  BY <1>1, <1>2, <1>3
<1>5. IsFiniteSet(DOMAIN list)
  <2>1. Len(list) \in Nat /\ DOMAIN list = 1..Len(list)
    BY <1>1, ListIs
  <2> QED
    BY <2>1, FS_Interval
<1>6. \A r : r \in S <=> r \in rows /\ Owner[r.of] \in s /\ r.day = d
  BY DEF In
<1>7. h = [n \in DOMAIN list |-> SumOver({r \in S : place[r] = n}, "cost")]
  OBVIOUS
<1> HIDE DEF S, place, list, names, h
<1>8. SumOver(S, "cost") = Total(h)
  BY <1>3, <1>4, <1>5, <1>7, ClassSum
<1>9. ASSUME NEW n \in DOMAIN list PROVE h[n] = DayOf(list[n].of, d).cost
  <2> DEFINE R == {r \in S : place[r] = n}
             c == list[n].of
  <2>1. h[n] = SumOver(R, "cost")
    BY <1>7
  <2>2. \A r : r \in R <=> r \in rows /\ r.of = c /\ r.day = d
    <3>1. c = names[n] /\ Owner[c] \in s
      BY <1>1 DEF OwnedBy
    <3> QED
      BY <1>1, <1>2, <1>4, <1>6, <3>1
  <2>3. CASE R = {}
    <3>1. DayOf(c, d) = NoData
      BY <2>2, <2>3, DayIs
    <3>2. SumOver({}, "cost") = 0
      <4>1. SumOver({}, "cost") = SumFunctionOnSet([x \in {} |-> x["cost"]], {})
        BY DEF SumOver, Total
      <4> QED
        BY <4>1, SumEmpty
    <3> QED
      BY <2>1, <2>3, <3>1, <3>2 DEF NoData
  <2>4. CASE R # {}
    <3>1. PICK r \in R : TRUE
      BY <2>4
    <3>2. r \in rows /\ r.of = c /\ r.day = d
      BY <2>2
    <3>3. DayOf(c, d) = r
      BY <3>2, DayIs
    <3>4. R = {r}
      BY <2>2, <3>2, RowsAre
    <3>5. SumOver({r}, "cost") = r.cost
      <4> DEFINE f == [x \in {r} |-> x["cost"]]
      <4>1. SumOver({r}, "cost") = SumFunctionOnSet(f, {r}) /\ f[r] = r.cost
        BY DEF SumOver, Total
      <4>2. f[r] \in Int
        BY <1>3, <3>1, <4>1
      <4> HIDE DEF f
      <4> QED
        BY <4>1, <4>2, SumSingle
    <3> QED
      BY <2>1, <3>3, <3>4, <3>5
  <2> QED
    BY <2>3, <2>4
<1>10. h = [n \in DOMAIN list |-> DayOf(list[n].of, d).cost]
  BY <1>7, <1>9
<1> QED
  BY <1>8, <1>10 DEF S, list

\* A campaign's part of a day, when its account has figures of it.
LEMMA PartsAddUp ==
  ASSUME CenterInv, NEW s, NEW w, NEW d \in w, NEW r \in In(rows, s, w), r.day = d,
         NEW C, C = {c \in OwnedBy(s) : d \in DOMAIN CampaignTrend(c, w)}
  PROVE  SumOver(In(rows, s, {d}), "cost") = Total([c \in C |-> CampaignTrend(c, w)[d].cost])
<1> DEFINE S == In(rows, s, {d})
           name == [r1 \in S |-> r1.of]
           h == [c \in C |-> SumOver({r1 \in S : name[r1] = c}, "cost")]
<1>1. IsFiniteSet(S) /\ \A r1 \in S : r1.cost \in Nat /\ r1.of \in OwnedBy(s)
  BY InIs DEF Sums4
<1>2. \A c : DOMAIN CampaignTrend(c, w) = {r1.day : r1 \in In(rows, {Owner[c]}, w)}
  BY DEF CampaignTrend
<1>3. \A r1 \in S : name[r1] \in C /\ name[r1] = r1.of
  <2> SUFFICES ASSUME NEW r1 \in S PROVE r1.of \in C
    OBVIOUS
  <2>1. r1 \in rows /\ r1.day = d
    BY DEF In
  <2>2. r1 \in In(rows, {Owner[r1.of]}, w)
    BY <2>1 DEF In
  <2> QED
    BY <1>1, <1>2, <2>1, <2>2
<1>4. IsFiniteSet(C)
  <2>1. C \subseteq CampaignSet
    BY DEF OwnedBy
  <2> QED
    BY <2>1, CampaignList, FS_Subset
<1>5. SumOver(S, "cost") = Total(h)
  <2> HIDE DEF S, name
  <2> QED
    BY <1>1, <1>3, <1>4, ClassSum
<1>6. ASSUME NEW c \in C PROVE h[c] = CampaignTrend(c, w)[d].cost
  <2> DEFINE T == {r1 \in In(rows, {Owner[c]}, {d}) : r1.of = c}
  <2>1. CampaignTrend(c, w)[d] = Totals(T)
    BY <1>2 DEF CampaignTrend
  <2>2. Totals(T).cost = SumOver(T, "cost")
    BY DEF Totals
  <2>3. T = {r1 \in S : name[r1] = c}
    <3>1. Owner[c] \in s
      BY DEF OwnedBy
    <3> QED
      BY <3>1 DEF In
  <2> QED
    BY <2>1, <2>2, <2>3
<1>7. h = [c \in C |-> CampaignTrend(c, w)[d].cost]
  BY <1>6
<1> QED
  BY <1>5, <1>7

\* The sheets of the export have a line for every campaign of the report.
LEMMA ExportWhole ==
  ASSUME CenterInv, NEW s, NEW w
  PROVE  ExportRows(w, s) = Len(Aggregates(w, s))
<1> DEFINE S == In(rows, s, w)
           N == Names(s, w)
           D == {Owner[r.of] : r \in S}
           h == [a \in D |-> Cardinality({c \in N : Owner[c] = a})]
<1>1. IsFiniteSet(S) /\ N \in SUBSET CampaignSet
  BY InIs
<1>2. \A t : \A x : IsList(x) /\ x = Aggregates(w, t) => Len(x) = Cardinality(Names(t, w))
  BY AggregatesAre
<1>3. Len(Aggregates(w, s)) = Cardinality(N)
  BY <1>2, AggregatesAre
<1>4. IsFiniteSet(N)
  BY <1>1, CampaignList, FS_Subset
<1>5. IsFiniteSet(D)
  <2> DEFINE f == [r \in S |-> Owner[r.of]]
  <2>1. D = {f[r] : r \in S}
    OBVIOUS
  <2> HIDE DEF f, D, S
  <2> QED
    BY <1>1, <2>1, ImageFinite
<1>6. \A c \in N : Owner[c] \in D
  BY DEF Names
<1>7. Cardinality(N) = Total(h)
  <2> HIDE DEF N, D
  <2> QED
    BY <1>4, <1>5, <1>6, ClassCount
<1>8. ASSUME NEW a \in D PROVE h[a] = Len(CampaignBreakdown(a, w))
  <2>1. a \in s
    BY DEF In
  <2>2. Names({a}, w) = {c \in N : Owner[c] = a}
    BY <2>1 DEF Names, In
  <2> DEFINE x == Aggregates(w, {a})
  <2>3. IsList(x) /\ Len(x) = Cardinality(Names({a}, w))
    BY <1>2, AggregatesAre
  <2>4. IsList(ByCost(x)) /\ DOMAIN ByCost(x) = DOMAIN x
    BY ReportAddsUp
  <2>5. Len(ByCost(x)) = Len(x)
    BY <2>3, <2>4, SameLength
  <2> QED
    BY <2>2, <2>3, <2>5 DEF CampaignBreakdown
<1>9. DOMAIN Rollup(w, s) = D
  BY DEF Rollup
<1>10. h = [a \in DOMAIN Rollup(w, s) |-> Len(CampaignBreakdown(a, w))]
  BY <1>8, <1>9
<1> QED
  BY <1>3, <1>7, <1>10 DEF ExportRows

\* A day has as many campaigns as were seen on it, and days without any are not in a trend.
LEMMA TrendDays ==
  ASSUME CenterInv, NEW s, NEW w
  PROVE  DOMAIN SpendTrend(w, s) = {d \in DOMAIN Growth(w, s) : Growth(w, s)[d].campaigns > 0}
<1> DEFINE D == {r.day : r \in In(rows, s, w)}
           E == {r.day : r \in In(rows \cup wordRows \cup termRows, s, w)}
<1>1. DOMAIN SpendTrend(w, s) = D /\ DOMAIN Growth(w, s) = E
  BY DEF SpendTrend, Growth
<1>2. \A d \in E : Growth(w, s)[d].campaigns = Cardinality(Names(s, {d}))
  BY DEF Growth, Names
<1>3. D \subseteq E
  BY DEF In
<1>4. ASSUME NEW d \in E PROVE d \in D <=> Cardinality(Names(s, {d})) > 0
  <2> DEFINE N == Names(s, {d})
  <2>1. N \in SUBSET CampaignSet
    BY InIs
  <2>2. IsFiniteSet(N)
    BY <2>1, CampaignList, FS_Subset
  <2>3. d \in w
    BY DEF In
  <2>4. d \in D <=> N # {}
    BY <2>3 DEF Names, In
  <2> HIDE DEF N
  <2>5. Cardinality(N) \in Nat /\ (Cardinality(N) = 0 <=> N = {})
    BY <2>2, FS_CardinalityType, FS_EmptySet
  <2> QED
    BY <2>4, <2>5 DEF N
<1> HIDE DEF D, E
<1> QED
  BY <1>1, <1>2, <1>3, <1>4

\* Every page has the same figures.
LEMMA FiguresHold == ASSUME CenterInv, rows # {}, NEW s PROVE FiguresAgree(s)
<1> DEFINE w == Window(2)
           lines == Aggregates(w, s)
           trend == SpendTrend(w, s)
           split == Rollup(w, s)
           whole == Report(2, s)
           day == Overview(s).totals
           cost == whole.totals.cost
<1>1. day = Totals(In(rows, s, {Latest})) /\ day.cost = SumOver(In(rows, s, {Latest}), "cost")
  BY DEF Overview, DayTotals, Totals
<1>2. whole.campaigns = ByCost(lines) /\ whole.totals = AddUp(ByCost(lines))
  BY DEF Report
<1>3. /\ IsList(lines) /\ IsList(ByCost(lines)) /\ DOMAIN ByCost(lines) = DOMAIN lines
      /\ whole.totals = Totals(In(rows, s, w))
  BY <1>2, ReportAddsUp, AggregatesAre
<1>4. cost = SumOver(In(rows, s, w), "cost")
  BY <1>3 DEF Totals
<1>5. day = Report(1, s).totals
  <2>1. Report(1, s).totals = AddUp(ByCost(Aggregates(Window(1), s)))
    BY DEF Report
  <2>2. AddUp(ByCost(Aggregates(Window(1), s))) = Totals(In(rows, s, Window(1)))
    BY ReportAddsUp
  <2> QED
    BY <1>1, <2>1, <2>2, WindowsAre
<1>6. day = CompareDays(s).latest
  BY DEF Overview, CompareDays
<1>7. /\ DailySeries(w, s) = trend
      /\ Latest \in DOMAIN DailySeries(w, s) => day = DailySeries(w, s)[Latest]
  BY DEF DailySeries, SpendTrend, Overview, DayTotals
<1>17. DOMAIN trend = {d \in DOMAIN Growth(w, s) : Growth(w, s)[d].campaigns > 0}
  BY TrendDays
<1>8. day.cost = Total([n \in DOMAIN Analyze(s) |-> Analyze(s)[n].ctx.today.cost])
  <2>1. \A n \in DOMAIN Analyze(s) :
          Analyze(s)[n].ctx.today.cost = DayOf(Analyze(s)[n].of, Latest).cost
    <3> SUFFICES ASSUME NEW n \in DOMAIN Analyze(s)
                 PROVE  Analyze(s)[n].ctx.today.cost = DayOf(Analyze(s)[n].of, Latest).cost
      OBVIOUS
    <3>1. PICK c \in CampaignSet : Analyze(s)[n] = Analysis(c)
      BY AnalyzeIs
    <3>2. Analysis(c).of = c /\ Analysis(c).ctx = Context(c)
      BY DEF Analysis
    <3> QED
      BY <3>1, <3>2, ContextIs
  <2> DEFINE f == [n \in DOMAIN Analyze(s) |-> Analyze(s)[n].ctx.today.cost]
             g == [n \in DOMAIN Analyze(s) |-> DayOf(Analyze(s)[n].of, Latest).cost]
  <2>2. f = g
    BY <2>1
  <2>3. SumOver(In(rows, s, {Latest}), "cost") = Total(g)
    BY CampaignsAddUp
  <2> HIDE DEF f, g
  <2>4. Total(f) = Total(g)
    BY <2>2
  <2> QED
    BY <1>1, <2>3, <2>4 DEF f
<1>9. cost = Total([d \in DOMAIN trend |-> trend[d].cost])
  <2> DEFINE f == [d \in DOMAIN trend |-> trend[d].cost]
             g == [d \in {r.day : r \in In(rows, s, w)} |-> Totals(In(rows, s, {d})).cost]
  <2>1. f = g
    BY DEF SpendTrend
  <2>2. SumOver(In(rows, s, w), "cost") = Total(g)
    BY DaysAddUp
  <2> HIDE DEF f, g, w
  <2>3. Total(f) = Total(g)
    BY <2>1
  <2> QED
    BY <1>4, <2>2, <2>3 DEF f
<1>10. ASSUME NEW d \in DOMAIN trend
       PROVE  trend[d].cost = Total([c \in {c \in OwnedBy(s) : d \in DOMAIN CampaignTrend(c, w)} |->
                                       CampaignTrend(c, w)[d].cost])
  <2>1. d \in {r.day : r \in In(rows, s, w)} /\ trend[d].cost = SumOver(In(rows, s, {d}), "cost")
    BY DEF SpendTrend, Totals
  <2>2. PICK r \in In(rows, s, w) : r.day = d
    BY <2>1
  <2>3. d \in w
    BY <2>2 DEF In
  <2> QED
    BY <2>1, <2>2, <2>3, PartsAddUp
<1>11. cost = Total([a \in DOMAIN split |-> split[a].totals.cost])
  <2> DEFINE f == [a \in DOMAIN split |-> split[a].totals.cost]
             g == [a \in {Owner[r.of] : r \in In(rows, s, w)} |-> Totals(In(rows, {a}, w)).cost]
  <2>1. f = g
    BY DEF Rollup
  <2>2. SumOver(In(rows, s, w), "cost") = Total(g)
    BY AccountsAddUp
  <2> HIDE DEF f, g, w
  <2>3. Total(f) = Total(g)
    BY <2>1
  <2> QED
    BY <1>4, <2>2, <2>3 DEF f
<1>12. cost = Search(w, s, 1).totals.cost
  BY <1>3 DEF Search
<1>13. Len(whole.campaigns) = Len(lines)
  BY <1>2, <1>3, SameLength
<1>14. ExportRows(w, s) = Len(whole.campaigns)
  BY <1>13, ExportWhole
<1>15. ASSUME Latest = today
       PROVE  /\ TopSpending(DashboardWindow(2), s, Len(Campaigns)) = whole.campaigns
              /\ Rollup(RollupWindow(1), s) = split
  <2>1. TopSpending(DashboardWindow(2), s, Len(Campaigns)) = FirstOf(ByCost(lines), Len(Campaigns))
    BY <1>15, WindowsAre DEF TopSpending
  <2>2. Len(ByCost(lines)) <= Len(Campaigns) /\ Len(Campaigns) \in Nat
    <3>1. Len(lines) <= Len(Campaigns)
      BY AggregatesAre
    <3> QED
      BY <1>2, <1>13, <3>1, CampaignList
  <2>3. FirstOf(ByCost(lines), Len(Campaigns)) = ByCost(lines)
    BY <1>3, <2>2, WholeShown
  <2> QED
    BY <1>2, <1>15, <2>1, <2>3, WindowsAre
<1> HIDE DEF w, trend, split, whole, day, lines
<1>16. FiguresAgree(s) <=>
         /\ day = Report(1, s).totals
         /\ day = CompareDays(s).latest
         /\ Latest \in DOMAIN DailySeries(w, s) => day = DailySeries(w, s)[Latest]
         /\ day.cost = Total([n \in DOMAIN Analyze(s) |-> Analyze(s)[n].ctx.today.cost])
         /\ DailySeries(w, s) = trend
         /\ DOMAIN trend = {d \in DOMAIN Growth(w, s) : Growth(w, s)[d].campaigns > 0}
         /\ cost = Total([d \in DOMAIN trend |-> trend[d].cost])
         /\ \A d \in DOMAIN trend : trend[d].cost =
              Total([c \in {c \in OwnedBy(s) : d \in DOMAIN CampaignTrend(c, w)} |->
                       CampaignTrend(c, w)[d].cost])
         /\ cost = Total([a \in DOMAIN split |-> split[a].totals.cost])
         /\ cost = Search(w, s, 1).totals.cost
         /\ ExportRows(w, s) = Len(whole.campaigns)
         /\ Latest = today =>
              /\ TopSpending(DashboardWindow(2), s, Len(Campaigns)) = whole.campaigns
              /\ Rollup(RollupWindow(1), s) = split
  BY DEF FiguresAgree, w, trend, split, whole, day
<1> QED
  BY <1>5, <1>6, <1>7, <1>8, <1>9, <1>10, <1>11, <1>12, <1>14, <1>15, <1>16, <1>17

-----------------------------------------------------------------------------
(* The lists of the pages.                                                 *)

\* What is shown of a list, and of some of it, sorted, is in it.
LEMMA SomeShown ==
  ASSUME NEW list, IsList(list), NEW S \in SUBSET DOMAIN list, NEW part, part = ElementsAt(list, S),
         NEW key, DOMAIN key = DOMAIN part, \A n \in DOMAIN part : key[n] \in Int, NEW n \in Nat
  PROVE  ToSet(FirstOf(SortedBy(part, key), n)) \subseteq ToSet(list)
<1> DEFINE all == SortedBy(part, key)
           l == Min({n, Len(all)})
<1>1. IsList(part) /\ \A k \in DOMAIN part : PlaceIn(S, k) \in S /\ part[k] = list[PlaceIn(S, k)]
  BY Selected
<1>2. /\ IsList(all) /\ DOMAIN all = DOMAIN part
      /\ \A k \in DOMAIN part : SortedFrom(key, k) \in DOMAIN part /\ all[k] = part[SortedFrom(key, k)]
  BY <1>1, SortedIs
<1>3. Len(all) \in Nat /\ DOMAIN all = 1..Len(all)
  BY <1>2, ListIs
<1>4. l \in Nat /\ l <= Len(all)
  BY <1>3, MinOf
<1>5. FirstOf(all, n) = SubSeq(all, 1, l)
  BY DEF FirstOf
<1> HIDE DEF all, l
<1>6. DOMAIN SubSeq(all, 1, l) = 1..l /\ \A k \in 1..l : SubSeq(all, 1, l)[k] = all[k]
  BY <1>2, <1>4, FirstPart
<1>7. ASSUME NEW k \in 1..l PROVE SubSeq(all, 1, l)[k] \in ToSet(list)
  <2>1. k \in DOMAIN part
    BY <1>2, <1>3, <1>4
  <2>2. SubSeq(all, 1, l)[k] = list[PlaceIn(S, SortedFrom(key, k))]
    BY <1>1, <1>2, <1>6, <2>1
  <2>3. PlaceIn(S, SortedFrom(key, k)) \in DOMAIN list
    BY <1>1, <1>2, <2>1
  <2> QED
    BY <2>2, <2>3 DEF ToSet
<1>8. ToSet(SubSeq(all, 1, l)) = {SubSeq(all, 1, l)[k] : k \in 1..l}
  BY <1>6 DEF ToSet
<1>9. ToSet(SubSeq(all, 1, l)) \subseteq ToSet(list)
  BY <1>7, <1>8
<1> QED
  BY <1>5, <1>9 DEF all

\* All of a list that is short enough, sorted.
LEMMA AllShown ==
  ASSUME NEW list, IsList(list), NEW key, DOMAIN key = DOMAIN list,
         \A m \in DOMAIN list : key[m] \in Int, NEW n \in Nat, Len(list) <= n,
         NEW shown, shown = FirstOf(SortedBy(list, key), n)
  PROVE  /\ shown = SortedBy(list, key) /\ DOMAIN shown = DOMAIN list
         /\ \A k \in DOMAIN list : SortedFrom(key, k) \in DOMAIN list /\ shown[k] = list[SortedFrom(key, k)]
         /\ ToSet(shown) = ToSet(list)
<1>1. /\ IsList(SortedBy(list, key)) /\ DOMAIN SortedBy(list, key) = DOMAIN list
      /\ \A k \in DOMAIN list : /\ SortedFrom(key, k) \in DOMAIN list
                                /\ SortedBy(list, key)[k] = list[SortedFrom(key, k)]
      /\ \A m \in DOMAIN list : SortedPlace(key, m) \in DOMAIN list /\ SortedFrom(key, SortedPlace(key, m)) = m
  BY SortedIs
<1>2. Len(SortedBy(list, key)) = Len(list)
  BY <1>1, SameLength
<1>3. shown = SortedBy(list, key)
  BY <1>1, <1>2, WholeShown
<1>4. ToSet(shown) = ToSet(list)
  <2> DEFINE D == DOMAIN list
  <2>1. \A k \in D : SortedFrom(key, k) \in D /\ shown[k] = list[SortedFrom(key, k)]
    BY <1>1, <1>3
  <2>2. \A m \in D : SortedPlace(key, m) \in D /\ SortedFrom(key, SortedPlace(key, m)) = m
    BY <1>1
  <2>3. ToSet(shown) = {shown[k] : k \in D} /\ ToSet(list) = {list[k] : k \in D}
    BY <1>1, <1>3 DEF ToSet
  <2> HIDE DEF D
  <2>4. \A m \in D : \E k \in D : shown[k] = list[m]
    BY <2>1, <2>2
  <2>5. \A k \in D : \E m \in D : shown[k] = list[m]
    BY <2>1
  <2>6. ASSUME NEW x \in {shown[k] : k \in D} PROVE x \in {list[k] : k \in D}
    BY <2>5
  <2>7. ASSUME NEW x \in {list[k] : k \in D} PROVE x \in {shown[k] : k \in D}
    BY <2>4
  <2>8. {shown[k] : k \in D} = {list[k] : k \in D}
    BY <2>6, <2>7
  <2> QED
    BY <2>3, <2>8
<1> QED
  BY <1>1, <1>3, <1>4

\* The two lists of costly campaigns have lines of the report.
LEMMA CostlyShown ==
  ASSUME CenterInv, NEW s, NEW w, NEW n \in Nat
  PROVE  /\ ToSet(HighestCpc(w, s, n)) \subseteq ToSet(Aggregates(w, s))
         /\ ToSet(LowestCtr(w, s, n)) \subseteq ToSet(Aggregates(w, s))
<1> DEFINE all == Aggregates(w, s)
           S == {i \in DOMAIN all : all[i].clicks > 0}
           T == {i \in DOMAIN all : all[i].impr >= 100}
           p == ElementsAt(all, S)
           q == ElementsAt(all, T)
           f == [i \in DOMAIN p |-> Cardinality({m \in DOMAIN p :
                   p[m].cost * p[i].clicks > p[i].cost * p[m].clicks})]
           g == [i \in DOMAIN q |-> Cardinality({m \in DOMAIN q :
                   q[m].clicks * q[i].impr < q[i].clicks * q[m].impr})]
<1>1. IsList(all)
  BY AggregatesAre
<1>2. HighestCpc(w, s, n) = FirstOf(SortedBy(p, f), n) /\ LowestCtr(w, s, n) = FirstOf(SortedBy(q, g), n)
  BY DEF HighestCpc, LowestCtr
<1>3. S \in SUBSET DOMAIN all /\ T \in SUBSET DOMAIN all
  OBVIOUS
<1>4. IsList(p) /\ IsList(q)
  <2> HIDE DEF all, S, T
  <2> QED
    BY <1>1, <1>3, Selected
<1>5. DOMAIN f = DOMAIN p /\ DOMAIN g = DOMAIN q
  OBVIOUS
<1>6. \A i \in DOMAIN p : f[i] \in Int
  <2> HIDE DEF p
  <2> QED
    BY <1>4, PlacesFinite
<1>7. \A i \in DOMAIN q : g[i] \in Int
  <2> HIDE DEF q
  <2> QED
    BY <1>4, PlacesFinite
<1>8. p = ElementsAt(all, S) /\ q = ElementsAt(all, T)
  OBVIOUS
<1> HIDE DEF all, S, T, p, q, f, g
<1>9. ToSet(FirstOf(SortedBy(p, f), n)) \subseteq ToSet(all)
  BY ONLY <1>1, <1>3, <1>5, <1>6, <1>8, n \in Nat, SomeShown
<1>10. ToSet(FirstOf(SortedBy(q, g), n)) \subseteq ToSet(all)
  BY ONLY <1>1, <1>3, <1>5, <1>7, <1>8, n \in Nat, SomeShown
<1> QED
  BY <1>2, <1>9, <1>10 DEF all

-----------------------------------------------------------------------------
(* The keywords by quality.                                                *)

\* A quality that comes first: what is unknown comes last.
Lower(p, q) == p # Unknown /\ (q = Unknown \/ p < q)

\* The first of a list.
LEMMA FirstIs ==
  ASSUME NEW list, IsList(list), NEW n \in Nat, NEW part, part = FirstOf(list, n)
  PROVE  /\ IsList(part) /\ Len(part) \in Nat /\ Len(part) <= Len(list)
         /\ \A k \in DOMAIN part : k \in DOMAIN list /\ part[k] = list[k]
<1> DEFINE l == Min({n, Len(list)})
<1>1. Len(list) \in Nat /\ DOMAIN list = 1..Len(list)
  BY ListIs
<1>2. l \in Nat /\ l <= Len(list)
  BY <1>1, MinOf
<1>3. part = SubSeq(list, 1, l)
  BY DEF FirstOf
<1> HIDE DEF l
<1>4. IsList(part) /\ DOMAIN part = 1..l /\ \A k \in 1..l : part[k] = list[k]
  BY <1>2, <1>3, FirstPart
<1>5. Len(part) \in Nat /\ 1..Len(part) = 1..l
  BY <1>4, ListIs
<1>6. Len(part) = l
  BY <1>2, <1>5
<1> QED
  BY <1>1, <1>2, <1>4, <1>6

\* Keywords with their figures and their quality, each once.
AreRated(list, S, i) ==
  /\ IsList(list) /\ Len(list) \in Nat /\ Len(list) <= Len(Keywords)
  /\ \A n \in DOMAIN list : /\ list[n].of \in Seen(S)
                            /\ list[n].quality = Quality(list[n].of, S, i)
                            /\ \A f \in Sums4 : list[n][f] \in Nat
  /\ \A m, n \in DOMAIN list : list[m].of = list[n].of => m = n

Words(s, w) == In(wordRows, s, w)

\* All keywords that have figures.
LEMMA RatedAre ==
  ASSUME CenterInv, NEW s, NEW w, NEW i, NEW list, list = Rated(w, s, i)
  PROVE  /\ AreRated(list, Words(s, w), i) /\ Len(list) = Cardinality(Seen(Words(s, w)))
         /\ \A c \in Seen(Words(s, w)) : \E n \in DOMAIN list : list[n].of = c
<1> DEFINE S == Words(s, w)
           lines == Grouped(Keywords, S)
<1>1. IsNames(Keywords) /\ IsCounted(Keywords, S)
  BY CountedAre, CountedPart DEF Words
<1>2. AreLines(lines, Keywords, S)
  BY ONLY <1>1, GroupedAre
<1>3. list = [n \in DOMAIN lines |-> Updated(lines[n], [quality |-> Quality(lines[n].of, S, i)])]
  BY DEF Rated, Words
<1> HIDE DEF lines, S
<1>4. ASSUME NEW n \in DOMAIN lines
      PROVE  /\ list[n].of = lines[n].of
             /\ list[n].quality = Quality(lines[n].of, S, i)
             /\ \A f \in Sums4 : list[n][f] = lines[n][f] /\ list[n][f] \in Nat
  <2> DEFINE q == Quality(lines[n].of, S, i)
  <2>1. list[n] = Updated(lines[n], [quality |-> q])
    BY <1>3
  <2> HIDE DEF q
  <2>2. list[n] = [x \in {"quality"} \cup DOMAIN lines[n] |-> IF x \in {"quality"} THEN q ELSE lines[n][x]]
    BY <2>1 DEF Updated
  <2>3. DOMAIN lines[n] = Sums4 \cup {"of"} /\ \A f \in Sums4 : lines[n][f] \in Nat
    BY <1>2 DEF AreLines, IsLine
  <2>4. "quality" \notin Sums4 /\ "of" \notin Sums4
    BY DEF Sums4
  <2>5. list[n].of = lines[n].of /\ list[n].quality = q
    BY <2>2, <2>3
  <2>6. \A f \in Sums4 : list[n][f] = lines[n][f]
    BY <2>2, <2>3, <2>4
  <2> QED
    BY <2>3, <2>5, <2>6 DEF q
<1>5. DOMAIN list = DOMAIN lines
  BY <1>3
<1>6. IsList(list)
  BY <1>2, <1>3, <1>5 DEF IsList, AreLines
<1>7. Len(list) = Len(lines)
  BY <1>2, <1>5, <1>6, SameLength DEF AreLines
<1>8. AreRated(list, S, i)
  BY <1>2, <1>4, <1>5, <1>6, <1>7 DEF AreRated, AreLines
<1> QED
  BY <1>2, <1>4, <1>5, <1>7, <1>8 DEF AreLines, S

\* Those of them that the keyword page reads: all when they are no more than its limit.
LEMMA MetricsAre ==
  ASSUME CenterInv, NEW s, NEW w, NEW list, list = KeywordMetrics(w, s)
  PROVE  /\ AreRated(list, Words(s, w), 1)
         /\ Len(Rated(w, s, 1)) <= KeywordCap => list = Rated(w, s, 1)
<1> DEFINE all == Rated(w, s, 1)
<1>1. AreRated(all, Words(s, w), 1)
  BY RatedAre
<1>2. list = FirstOf(all, KeywordCap) /\ KeywordCap \in Nat
  BY CenterAssumption DEF KeywordMetrics
<1> HIDE DEF all
<1>3. /\ IsList(list) /\ Len(list) \in Nat /\ Len(list) <= Len(all)
      /\ \A k \in DOMAIN list : k \in DOMAIN all /\ list[k] = all[k]
  BY <1>1, <1>2, FirstIs DEF AreRated
<1>4. Len(list) <= Len(Keywords)
  <2>1. Len(Keywords) \in Nat /\ Len(all) \in Nat
    BY <1>1, CountedAre, NamesAre DEF AreRated
  <2> QED
    BY <1>1, <1>3, <2>1 DEF AreRated
<1>5. Len(all) <= KeywordCap => list = all
  BY <1>1, <1>2, WholeShown DEF AreRated
<1> QED
  BY <1>1, <1>3, <1>4, <1>5 DEF AreRated, all

\* A quality is the same average at every scale, if there is one.
LEMMA QualityIs ==
  ASSUME CenterInv, NEW S \in SUBSET wordRows, NEW c
  PROVE  \/ \A i \in Nat \ {0} : Quality(c, S, i) = Unknown
         \/ \E a \in Nat, b \in Nat \ {0} :
              \A i \in Nat \ {0} : Quality(c, S, i) = Rounded(i * a, b)
<1> DEFINE rated == {r \in S : r.of = c /\ r.quality # Unknown}
           a == SumOver(rated, "quality")
           b == Cardinality(rated)
<1>1. rated \in SUBSET wordRows
  OBVIOUS
<1>2. IsFiniteSet(rated) /\ b \in Nat /\ (b = 0 <=> rated = {})
  <2>1. IsFiniteSet(rated)
    BY <1>1, CountedAre, FS_Subset DEF IsCounted
  <2> HIDE DEF rated
  <2> QED
    BY <2>1, FS_CardinalityType, FS_EmptySet
<1>3. \A r \in rated : r.quality \in Nat
  BY <1>1, CountedAre
<1>4. \A i : Quality(c, S, i) = IF rated = {} THEN Unknown ELSE Rounded(i * a, b)
  BY DEF Quality
<1>5. a \in Nat
  <2> DEFINE f == [r \in rated |-> r.quality]
  <2>1. a = Total(f)
    BY DEF SumOver
  <2>2. DOMAIN f = rated /\ \A r \in rated : f[r] \in Nat
    BY <1>3
  <2> HIDE DEF rated, f, a
  <2> QED
    BY <1>2, <2>1, <2>2, SumNat DEF Total
<1> HIDE DEF rated, a, b
<1>6. CASE rated = {}
  BY <1>4, <1>6
<1>7. CASE rated # {}
  <2>1. b \in Nat \ {0}
    BY <1>2, <1>7
  <2>2. \A i \in Nat \ {0} : Quality(c, S, i) = Rounded(i * a, b)
    BY <1>4, <1>7
  <2> QED
    BY <1>5, <2>1, <2>2
<1> QED
  BY <1>6, <1>7

\* Rounded more or less, two averages are in the same order.
LEMMA NeverTurned ==
  ASSUME CenterInv, NEW S \in SUBSET wordRows, NEW c, NEW d, NEW i \in Nat \ {0}, NEW j \in Nat \ {0}
  PROVE  /\ Quality(c, S, i) \in Nat \cup {Unknown}
         /\ ~ /\ Lower(Quality(c, S, i), Quality(d, S, i))
              /\ Lower(Quality(d, S, j), Quality(c, S, j))
<1> DEFINE q(x, k) == Quality(x, S, k)
<1>1. \/ \A k \in Nat \ {0} : q(c, k) = Unknown
      \/ \E a \in Nat, b \in Nat \ {0} : \A k \in Nat \ {0} : q(c, k) = Rounded(k * a, b)
  BY QualityIs
<1>2. \/ \A k \in Nat \ {0} : q(d, k) = Unknown
      \/ \E a \in Nat, b \in Nat \ {0} : \A k \in Nat \ {0} : q(d, k) = Rounded(k * a, b)
  BY QualityIs
<1> HIDE DEF q
<1>3. ASSUME NEW a \in Nat, NEW b \in Nat \ {0}, NEW k \in Nat \ {0} PROVE Rounded(k * a, b) \in Nat
  <2>1. k * a \in Nat /\ (k * a) * b <= (k * a) * b
    OBVIOUS
  <2> DEFINE m == k * a
  <2> HIDE DEF m
  <2>2. m \in Nat /\ m * b <= m * b
    BY <2>1 DEF m
  <2>3. Rounded(m, b) \in Nat
    BY <2>2, RoundedGrows
  <2> QED
    BY <2>3 DEF m
<1>4. q(c, i) \in Nat \cup {Unknown}
  BY <1>1, <1>3
<1>5. ASSUME (\A k \in Nat \ {0} : q(c, k) = Unknown) \/ (\A k \in Nat \ {0} : q(d, k) = Unknown)
      PROVE  ~(Lower(q(c, i), q(d, i)) /\ Lower(q(d, j), q(c, j)))
  BY <1>5 DEF Lower
<1>6. ASSUME NEW a \in Nat, NEW b \in Nat \ {0}, \A k \in Nat \ {0} : q(c, k) = Rounded(k * a, b),
             NEW e \in Nat, NEW f \in Nat \ {0}, \A k \in Nat \ {0} : q(d, k) = Rounded(k * e, f)
      PROVE  ~(Lower(q(c, i), q(d, i)) /\ Lower(q(d, j), q(c, j)))
  <2>1. \A k \in Nat \ {0} : q(c, k) \in Nat /\ q(d, k) \in Nat
    BY <1>3, <1>6
  <2>2. CASE a * f <= e * b
    <3> DEFINE m == j * a
               n == j * e
    <3>1. m \in Nat /\ n \in Nat /\ m * f <= n * b
      <4>1. m * f = j * (a * f) /\ n * b = j * (e * b)
        OBVIOUS
      <4>2. a * f \in Nat /\ e * b \in Nat
        OBVIOUS
      <4>3. \A x, y \in Nat : x <= y => j * x <= j * y
        OBVIOUS
      <4> QED
        BY <2>2, <4>1, <4>2, <4>3
    <3> HIDE DEF m, n
    <3>2. Rounded(m, b) <= Rounded(n, f)
      BY <3>1, RoundedGrows
    <3>3. q(c, j) <= q(d, j)
      BY <1>6, <3>2 DEF m, n
    <3> QED
      BY <2>1, <3>3 DEF Lower, Unknown
  <2>3. CASE e * b <= a * f
    <3> DEFINE m == i * e
               n == i * a
    <3>1. m \in Nat /\ n \in Nat /\ m * b <= n * f
      <4>1. n * f = i * (a * f) /\ m * b = i * (e * b)
        OBVIOUS
      <4>2. a * f \in Nat /\ e * b \in Nat
        OBVIOUS
      <4>3. \A x, y \in Nat : x <= y => i * x <= i * y
        OBVIOUS
      <4> QED
        BY <2>3, <4>1, <4>2, <4>3
    <3> HIDE DEF m, n
    <3>2. Rounded(m, f) <= Rounded(n, b)
      BY <3>1, RoundedGrows
    <3>3. q(d, i) <= q(c, i)
      BY <1>6, <3>2 DEF m, n
    <3> QED
      BY <2>1, <3>3 DEF Lower, Unknown
  <2>4. a * f \in Nat /\ e * b \in Nat
    OBVIOUS
  <2> QED
    BY <2>2, <2>3, <2>4
<1>7. ~(Lower(q(c, i), q(d, i)) /\ Lower(q(d, j), q(c, j)))
  <2>1. CASE \E a \in Nat, b \in Nat \ {0} : \A k \in Nat \ {0} : q(c, k) = Rounded(k * a, b)
    <3>1. PICK a \in Nat, b \in Nat \ {0} : \A k \in Nat \ {0} : q(c, k) = Rounded(k * a, b)
      BY <2>1
    <3>2. CASE \E e \in Nat, f \in Nat \ {0} : \A k \in Nat \ {0} : q(d, k) = Rounded(k * e, f)
      <4>1. PICK e \in Nat, f \in Nat \ {0} : \A k \in Nat \ {0} : q(d, k) = Rounded(k * e, f)
        BY <3>2
      <4> QED
        BY <1>6, <3>1, <4>1
    <3> QED
      BY <1>2, <1>5, <3>2
  <2> QED
    BY <1>1, <1>5, <2>1
<1> QED
  BY <1>4, <1>7 DEF q

LEMMA QualityType ==
  ASSUME CenterInv, NEW S \in SUBSET wordRows, NEW c, NEW i \in Nat \ {0}
  PROVE  Quality(c, S, i) \in Nat \cup {Unknown}
<1> DEFINE q == Quality(c, S, i)
<1>1. q \in Nat \cup {Unknown} /\ ~(Lower(q, q) /\ Lower(q, q))
  BY NeverTurned
<1> QED
  BY <1>1

\* A strict order.
IsOrder(D, R) ==
  /\ \A n \in D : <<n, n>> \notin R
  /\ \A k, m, n \in D : <<k, m>> \in R /\ <<m, n>> \in R => <<k, n>> \in R

\* Ranks in an order by quality, which may tell apart keywords of the same.
AreRanks(list, R, key) ==
  /\ IsOrder(DOMAIN list, R)
  /\ \A m, n \in DOMAIN list : LowestQuality(list[m], list[n]) => <<m, n>> \in R
  /\ DOMAIN key = DOMAIN list
  /\ \A n \in DOMAIN list : key[n] = Cardinality({m \in DOMAIN list : <<m, n>> \in R})

\* Of two keywords whose qualities differ the lower comes first.
InQualityOrder(shown, S, i) ==
  \A m, n \in DOMAIN shown :
    m < n /\ shown[m].quality # shown[n].quality =>
      Lower(Quality(shown[m].of, S, i), Quality(shown[n].of, S, i))

AreWords(S, i) == S \in SUBSET wordRows /\ i \in Nat \ {0}

\* A list of keywords in an order by quality: it has all of them, and of two whose qualities
\* differ the lower comes first.
LEMMA ByQuality ==
  ASSUME CenterInv, NEW S, NEW i, AreWords(S, i), NEW list, AreRated(list, S, i),
         NEW R, NEW key, AreRanks(list, R, key),
         NEW shown, shown = FirstOf(SortedBy(list, key), Len(Keywords))
  PROVE  ToSet(shown) = ToSet(list) /\ Len(shown) = Len(list) /\ InQualityOrder(shown, S, i)
<1> DEFINE D == DOMAIN list
<1>0. /\ IsOrder(D, R) /\ \A m, n \in D : LowestQuality(list[m], list[n]) => <<m, n>> \in R
      /\ DOMAIN key = D /\ \A n \in D : key[n] = Cardinality({m \in D : <<m, n>> \in R})
  BY DEF AreRanks
<1>1. /\ IsList(list) /\ Len(list) \in Nat /\ Len(list) <= Len(Keywords)
      /\ \A n \in D : list[n].quality = Quality(list[n].of, S, i)
  BY DEF AreRated
<1>2. IsFiniteSet(D)
  BY <1>1, PlacesFinite
<1>3. (\A n \in D : key[n] \in Int) /\ \A m, n \in D : <<m, n>> \in R => key[m] < key[n]
  BY <1>0, <1>2, RankGrows DEF IsOrder
<1>4. Len(Keywords) \in Nat
  BY CountedAre, NamesAre
<1>5. /\ shown = SortedBy(list, key) /\ DOMAIN shown = D
      /\ \A k \in D : SortedFrom(key, k) \in D /\ shown[k] = list[SortedFrom(key, k)]
      /\ ToSet(shown) = ToSet(list)
  <2> DEFINE l == Len(Keywords)
  <2>1. l \in Nat /\ IsList(list) /\ Len(list) <= l /\ shown = FirstOf(SortedBy(list, key), l)
    BY <1>1, <1>4
  <2>2. DOMAIN key = DOMAIN list /\ \A m \in DOMAIN list : key[m] \in Int
    BY <1>0, <1>3
  <2> HIDE DEF l
  <2> QED
    BY ONLY <2>1, <2>2, AllShown
<1>6. \A k1, k2 \in D : k1 <= k2 => key[SortedFrom(key, k1)] <= key[SortedFrom(key, k2)]
  BY <1>0, <1>1, <1>3, SortedIs
<1>7. ASSUME NEW m \in D, NEW n \in D, m < n, shown[m].quality # shown[n].quality
      PROVE  Lower(shown[m].quality, shown[n].quality)
  <2>1. key[SortedFrom(key, m)] <= key[SortedFrom(key, n)]
    <3>1. m <= n
      <4>1. Len(list) \in Nat /\ D = 1..Len(list)
        BY <1>1, ListIs
      <4> QED
        BY <1>7, <4>1
    <3> QED
      BY <1>6, <3>1
  <2>2. <<SortedFrom(key, n), SortedFrom(key, m)>> \notin R
    BY <1>3, <1>5, <2>1
  <2>3. ~LowestQuality(shown[n], shown[m])
    BY <1>0, <1>5, <2>2
  <2>4. shown[m].quality \in Nat \cup {Unknown} /\ shown[n].quality \in Nat \cup {Unknown}
    <3>1. ASSUME NEW k \in D PROVE list[k].quality \in Nat \cup {Unknown}
      <4>1. Quality(list[k].of, S, i) \in Nat \cup {Unknown}
        BY QualityType DEF AreWords
      <4> QED
        BY <1>1, <4>1
    <3> QED
      BY <1>5, <3>1
  <2> QED
    BY <1>7, <2>3, <2>4 DEF LowestQuality, Lower, Unknown
<1>8. \A m \in D : shown[m].quality = Quality(shown[m].of, S, i)
  BY <1>1, <1>5
<1>9. Len(shown) = Len(list)
  <2>1. IsList(SortedBy(list, key)) /\ DOMAIN SortedBy(list, key) = D
    BY <1>0, <1>1, SortedList
  <2> QED
    BY <1>1, <1>5, <2>1, SameLength
<1> QED
  BY <1>5, <1>7, <1>8, <1>9 DEF InQualityOrder

\* What the orders compare are numbers.
LEMMA QualityOrder ==
  ASSUME CenterInv, NEW S \in SUBSET wordRows, NEW i \in Nat \ {0}, NEW list, AreRated(list, S, i),
         NEW n \in DOMAIN list
  PROVE  /\ list[n].quality \in Int /\ list[n].cost \in Int /\ list[n].clicks \in Nat
         /\ list[n].impr \in Nat /\ list[n].conv \in Nat
<1>1. list[n].quality = Quality(list[n].of, S, i) /\ \A f \in Sums4 : list[n][f] \in Nat
  BY DEF AreRated
<1>2. list[n].quality \in Nat \cup {Unknown}
  BY <1>1, QualityType
<1> QED
  BY <1>1, <1>2 DEF Sums4, Unknown

\* The keyword page's list.
LEMMA RoughList ==
  ASSUME CenterInv, NEW s, NEW S, S = Words(s, Window(2)),
         NEW shown, shown = KeywordHealth(2, s, "lowest_quality_score", Len(Keywords))
  PROVE  ToSet(shown) = ToSet(KeywordMetrics(Window(2), s)) /\ InQualityOrder(shown, S, 1)
<1> DEFINE list == KeywordMetrics(Window(2), s)
           D == DOMAIN list
           R == {p \in D \X D : LowestQuality(list[p[1]], list[p[2]])}
           key == [n \in D |-> Cardinality({m \in D : LowestQuality(list[m], list[n])})]
           scale == 1
<1>1. shown = FirstOf(SortedBy(list, key), Len(Keywords))
  BY DEF KeywordHealth
<1>2. \A m, n \in D : <<m, n>> \in R <=> LowestQuality(list[m], list[n])
  OBVIOUS
<1>0. S \in SUBSET wordRows /\ AreRated(list, S, scale) /\ scale \in Nat \ {0} /\ DOMAIN key = D
  BY MetricsAre DEF Words, In
<1>3. \A n \in D : list[n].quality \in Int
  BY <1>0, QualityOrder
<1>4. \A n \in D : key[n] = Cardinality({m \in D : LowestQuality(list[m], list[n])})
  OBVIOUS
<1> HIDE DEF list, R, key, scale
<1>5. IsOrder(D, R)
  <2>1. ASSUME NEW n \in D PROVE <<n, n>> \notin R
    BY <1>2, <1>3 DEF LowestQuality
  <2>2. ASSUME NEW k \in D, NEW m \in D, NEW n \in D, <<k, m>> \in R, <<m, n>> \in R
        PROVE  <<k, n>> \in R
    BY <1>2, <1>3, <2>2 DEF LowestQuality
  <2> QED
    BY <2>1, <2>2 DEF IsOrder
<1>6. ASSUME NEW n \in D PROVE key[n] = Cardinality({m \in D : <<m, n>> \in R})
  <2>1. {m \in D : LowestQuality(list[m], list[n])} = {m \in D : <<m, n>> \in R}
    BY <1>2
  <2> QED
    BY <1>4, <2>1
<1>7. \A m, n \in D : LowestQuality(list[m], list[n]) => <<m, n>> \in R
  BY <1>2
<1>8. ToSet(shown) = ToSet(list) /\ InQualityOrder(shown, S, scale)
  <2>1. AreRanks(list, R, key)
    BY <1>0, <1>5, <1>6, <1>7 DEF AreRanks
  <2>2. AreWords(S, scale) /\ AreRated(list, S, scale)
    BY <1>0 DEF AreWords
  <2> QED
    BY ONLY CenterInv, <1>1, <2>1, <2>2, ByQuality
<1> QED
  BY <1>8 DEF list, scale

\* The first dashboard's list.
LEMMA ExactList ==
  ASSUME CenterInv, NEW s, NEW w, NEW S, S = Words(s, w),
         NEW shown, shown = KeywordReport(w, s, Len(Keywords))
  PROVE  /\ Members(shown) = Seen(S) /\ Len(shown) = Cardinality(Seen(S))
         /\ InQualityOrder(shown, S, 100)
<1> DEFINE list == Rated(w, s, 100)
           D == DOMAIN list
           First(x, y) == LowestQuality(x, y) \/ (x.quality = y.quality /\ x.cost > y.cost)
           R == {p \in D \X D : First(list[p[1]], list[p[2]])}
           key == [n \in D |-> Cardinality({m \in D : First(list[m], list[n])})]
           scale == 100
<1>1. shown = FirstOf(SortedBy(list, key), Len(Keywords))
  BY DEF KeywordReport
<1>10. /\ Len(list) = Cardinality(Seen(S)) /\ \A n \in D : list[n].of \in Seen(S)
       /\ \A c \in Seen(S) : \E n \in D : list[n].of = c
  BY RatedAre DEF AreRated
<1>2. \A m, n \in D : <<m, n>> \in R <=> First(list[m], list[n])
  OBVIOUS
<1>0. S \in SUBSET wordRows /\ AreRated(list, S, scale) /\ scale \in Nat \ {0} /\ DOMAIN key = D
  BY RatedAre DEF Words, In
<1>3. \A n \in D : list[n].quality \in Int /\ list[n].cost \in Int
  BY <1>0, QualityOrder
<1>4. \A n \in D : key[n] = Cardinality({m \in D : First(list[m], list[n])})
  OBVIOUS
<1> HIDE DEF list, R, key, scale
<1>5. IsOrder(D, R)
  <2>1. ASSUME NEW n \in D PROVE <<n, n>> \notin R
    BY <1>2, <1>3 DEF LowestQuality
  <2>2. ASSUME NEW k \in D, NEW m \in D, NEW n \in D, <<k, m>> \in R, <<m, n>> \in R
        PROVE  <<k, n>> \in R
    BY <1>2, <1>3, <2>2 DEF LowestQuality
  <2> QED
    BY <2>1, <2>2 DEF IsOrder
<1>6. ASSUME NEW n \in D PROVE key[n] = Cardinality({m \in D : <<m, n>> \in R})
  <2>1. {m \in D : First(list[m], list[n])} = {m \in D : <<m, n>> \in R}
    BY <1>2
  <2> QED
    BY <1>4, <2>1
<1>7. \A m, n \in D : LowestQuality(list[m], list[n]) => <<m, n>> \in R
  BY <1>2
<1>8. ToSet(shown) = ToSet(list) /\ Len(shown) = Len(list) /\ InQualityOrder(shown, S, scale)
  <2>1. AreRanks(list, R, key)
    BY <1>0, <1>5, <1>6, <1>7 DEF AreRanks
  <2>2. AreWords(S, scale) /\ AreRated(list, S, scale)
    BY <1>0 DEF AreWords
  <2> QED
    BY ONLY CenterInv, <1>1, <2>1, <2>2, ByQuality
<1>9. Members(shown) = Seen(S)
  <2>1. Members(shown) = {x.of : x \in ToSet(list)}
    BY <1>8 DEF Members
  <2>2. ToSet(list) = {list[n] : n \in D}
    BY DEF ToSet
  <2>3. {x.of : x \in {list[n] : n \in D}} = {list[n].of : n \in D}
    OBVIOUS
  <2>4. {list[n].of : n \in D} = Seen(S)
    BY <1>10
  <2> QED
    BY <2>1, <2>2, <2>3, <2>4
<1> QED
  BY <1>8, <1>9, <1>10 DEF scale

\* The keywords by score are the same.
LEMMA WorstList ==
  ASSUME CenterInv, NEW s, NEW d
  PROVE  ToSet(KeywordHealth(d, s, "worst", Len(Keywords))) = ToSet(KeywordMetrics(Window(d), s))
<1> DEFINE list == KeywordMetrics(Window(d), s)
           key == [n \in DOMAIN list |-> KeywordScore(list[n])]
           shown == KeywordHealth(d, s, "worst", Len(Keywords))
           l == Len(Keywords)
<1>1. shown = FirstOf(SortedBy(list, key), l)
  BY DEF KeywordHealth
<1>2. DOMAIN key = DOMAIN list /\ \A n \in DOMAIN list : key[n] = KeywordScore(list[n])
  OBVIOUS
<1>3. ASSUME NEW k PROVE KeywordScore(k) \in Int
  <2> DEFINE p == IF k.quality = Unknown THEN 0 ELSE IF k.quality <= 3 THEN 40
                    ELSE IF k.quality < 5 THEN 25 ELSE 0
             q == IF LowRate(k, 1) THEN 15 ELSE 0
             r == IF k.cost >= 10 /\ k.conv = 0 THEN 20 ELSE 0
  <2>1. p \in Int /\ q \in Int /\ r \in Int
    OBVIOUS
  <2>2. KeywordScore(k) = Clamp(100 - p - q - r)
    BY DEF KeywordScore
  <2> HIDE DEF p, q, r
  <2>3. 100 - p - q - r \in Int
    BY <2>1
  <2> DEFINE n == 100 - p - q - r
  <2> HIDE DEF n
  <2>4. n \in Int /\ KeywordScore(k) = Clamp(n)
    BY <2>2, <2>3 DEF n
  <2> QED
    BY <2>4, ClampIs
<1>4. IsList(list) /\ Len(list) <= l
  BY MetricsAre DEF AreRated
<1>5. l \in Nat
  BY CountedAre, NamesAre
<1> HIDE DEF list, key, shown, l
<1>6. \A n \in DOMAIN list : key[n] \in Int
  BY <1>2, <1>3
<1>7. ToSet(shown) = ToSet(list)
  BY ONLY <1>1, <1>2, <1>4, <1>5, <1>6, AllShown
<1> QED
  BY <1>7 DEF list, shown, l

\* A campaign is active when it is enabled.
LEMMA EnabledActive ==
  ASSUME CenterInv, NEW c \in CampaignSet
  PROVE  Active(Analysis(c)) <=> meta[c].status = "ENABLED"
<1> DEFINE x == Context(c)
<1>1. x.status = meta[c].status
  BY ContextIs
<1>2. Analysis(c).health = Health(x)
  BY DEF Analysis
<1>3. meta[c].status \in {"ENABLED"} \cup Inactive
  <2>1. IsMeta(meta[c])
    BY DEF CenterInv
  <2> QED
    BY <2>1 DEF IsMeta
<1> HIDE DEF x
<1>4. x.status \in Inactive => Health(x).level = "ignored"
  BY DEF Health
<1>5. x.status \notin Inactive => Health(x).level \in {"critical", "healthy", "warning", "high"}
  BY DEF Health, Level
<1>6. "ENABLED" \notin Inactive
  BY DEF Inactive
<1> QED
  BY <1>1, <1>2, <1>3, <1>4, <1>5, <1>6 DEF Active

\* As many are shown as are counted.
LEMMA ActiveShown ==
  ASSUME CenterInv, NEW s
  PROVE  Overview(s).active = Len(HealthList(s, FALSE))
<1> DEFINE own == Shown(s, FALSE)
           key == [n \in DOMAIN own |-> -own[n].priority.score]
           D == DOMAIN own
           name == [n \in D |-> own[n].of]
           C == {c \in OwnedBy(s) : meta[c].status = "ENABLED"}
<1>1. /\ IsList(own)
      /\ \A n \in D : own[n].of \in OwnedBy(s) \cap CampaignSet
      /\ \A n \in D : own[n] = Analysis(own[n].of) /\ Active(own[n])
      /\ \A c \in OwnedBy(s) : Active(Analysis(c)) => \E n \in D : own[n] = Analysis(c)
      /\ \A m, n \in D : own[m].of = own[n].of => m = n
  BY ShownIs
<1>2. HealthList(s, FALSE) = SortedBy(own, key)
  BY DEF HealthList, ByPriority
<1>3. \A n \in D : name[n] = own[n].of
  OBVIOUS
<1>4. Overview(s).active = Cardinality(C)
  BY DEF Overview
<1>11. OwnedBy(s) \in SUBSET CampaignSet
  BY DEF OwnedBy
<1>12. \A c : c \in C <=> c \in OwnedBy(s) /\ meta[c].status = "ENABLED"
  OBVIOUS
<1> HIDE DEF own, key, name, C
<1>5. IsList(SortedBy(own, key)) /\ DOMAIN SortedBy(own, key) = D
  BY <1>1, SortedList
<1>6. Len(SortedBy(own, key)) = Len(own)
  BY <1>1, <1>5, SameLength
<1>7. C = {name[n] : n \in D}
  <2>1. ASSUME NEW c \in C PROVE \E n \in D : name[n] = c
    <3>1. c \in OwnedBy(s) /\ c \in CampaignSet /\ Active(Analysis(c))
      BY <1>11, <1>12, EnabledActive
    <3>2. PICK n \in D : own[n] = Analysis(c)
      BY <1>1, <3>1
    <3>3. own[n].of = c
      BY <3>2 DEF Analysis
    <3> QED
      BY <1>3, <3>3
  <2>2. ASSUME NEW n \in D PROVE name[n] \in C
    <3>1. name[n] \in OwnedBy(s) /\ name[n] \in CampaignSet /\ Active(Analysis(name[n]))
      BY <1>1, <1>3
    <3> QED
      BY <1>12, <3>1, EnabledActive
  <2> QED
    BY <2>1, <2>2
<1>0. \A n \in Nat : IsFiniteSet(1..n) /\ Cardinality(1..n) = n
  BY FS_Interval
<1>8. IsFiniteSet(D) /\ Cardinality(D) = Len(own)
  <2>1. Len(own) \in Nat /\ D = 1..Len(own)
    BY <1>1, ListIs
  <2> HIDE DEF D
  <2> QED
    BY <1>0, <2>1
<1>9. \A m, n \in D : name[m] = name[n] => m = n
  BY <1>1, <1>3
<1>10. Cardinality({name[n] : n \in D}) = Cardinality(D)
  <2> HIDE DEF D
  <2> QED
    BY <1>8, <1>9, ImageFinite
<1> QED
  BY <1>2, <1>4, <1>6, <1>7, <1>8, <1>10

\* No list contradicts another.
LEMMA ListsHold == ASSUME CenterInv, NEW s PROVE ListsAgree(s)
<1> DEFINE w == Window(2)
           S == Words(s, w)
           lines == Aggregates(w, s)
           own == ToSet(Report(2, s).campaigns)
           rough == KeywordHealth(2, s, "lowest_quality_score", Len(Keywords))
           exact == KeywordReport(w, s, Len(Keywords))
           worst == KeywordHealth(2, s, "worst", Len(Keywords))
           some == KeywordMetrics(w, s)
           all == Rated(w, s, 1)
           q(c, i) == Quality(c, S, i)
<1>1. own = ToSet(lines)
  <2>1. Report(2, s).campaigns = ByCost(lines)
    BY DEF Report
  <2>2. ToSet(ByCost(lines)) = ToSet(lines)
    BY ReportAddsUp
  <2> QED
    BY <2>1, <2>2
<1>2. Len(Campaigns) \in Nat
  BY CampaignList
<1>3. ToSet(HighestCpc(w, s, Len(Campaigns))) \subseteq own /\ ToSet(LowestCtr(w, s, Len(Campaigns))) \subseteq own
  BY <1>1, <1>2, CostlyShown
<1>4. /\ ToSet(rough) = ToSet(some)
      /\ InQualityOrder(rough, S, 1)
  BY RoughList
<1>5. /\ Members(exact) = Seen(S) /\ Len(exact) = Cardinality(Seen(S))
      /\ InQualityOrder(exact, S, 100)
  BY ExactList
<1>6. ToSet(worst) = ToSet(some)
  BY WorstList
<1>7. AreRated(some, S, 1) /\ (Len(all) <= KeywordCap => some = all)
  BY MetricsAre
<1>8. Len(all) = Cardinality(Seen(S)) /\ \A c \in Seen(S) : \E n \in DOMAIN all : all[n].of = c
  <2>1. all = Rated(w, s, 1) /\ S = Words(s, w)
    OBVIOUS
  <2> HIDE DEF all, S, w
  <2>2. AreRated(all, Words(s, w), 1) /\ Len(all) = Cardinality(Seen(Words(s, w)))
        /\ \A c \in Seen(Words(s, w)) : \E n \in DOMAIN all : all[n].of = c
    BY ONLY CenterInv, <2>1, RatedAre
  <2> QED
    BY ONLY <2>1, <2>2
<1>9. S \in SUBSET wordRows
  BY DEF Words, In
<1> HIDE DEF S, own, rough, exact, worst, some, all
<1>10. \A c, d : ~(Lower(q(c, 1), q(d, 1)) /\ Lower(q(d, 100), q(c, 100)))
  <2>1. 1 \in Nat \ {0} /\ 100 \in Nat \ {0}
    OBVIOUS
  <2> QED
    BY <1>9, <2>1, NeverTurned
<1>11. ASSUME NEW c, NEW d PROVE ~(Precedes(rough, c, d) /\ Precedes(exact, d, c))
  <2> HIDE DEF q
  <2>1. Precedes(rough, c, d) => Lower(q(c, 1), q(d, 1))
    BY <1>4 DEF Precedes, InQualityOrder, q
  <2>2. Precedes(exact, d, c) => Lower(q(d, 100), q(c, 100))
    BY <1>5 DEF Precedes, InQualityOrder, q
  <2> QED
    BY <1>10, <2>1, <2>2
<1>12. Members(rough) = {some[n].of : n \in DOMAIN some}
  <2>1. Members(rough) = {x.of : x \in ToSet(some)}
    BY <1>4 DEF Members
  <2>2. ToSet(some) = {some[n] : n \in DOMAIN some}
    BY DEF ToSet
  <2>3. {x.of : x \in {some[n] : n \in DOMAIN some}} = {some[n].of : n \in DOMAIN some}
    OBVIOUS
  <2> QED
    BY <2>1, <2>2, <2>3
<1>13. Members(rough) \subseteq Members(exact)
  BY <1>5, <1>7, <1>12 DEF AreRated
<1>14. ASSUME Len(exact) <= KeywordCap PROVE Members(rough) = Members(exact)
  <2>1. some = all
    BY <1>5, <1>7, <1>8, <1>14
  <2>2. \A c \in Seen(S) : \E n \in DOMAIN some : some[n].of = c
    BY <1>8, <2>1
  <2>3. Seen(S) \subseteq Members(rough)
    BY <1>12, <2>2
  <2> QED
    BY <1>5, <1>13, <2>3
<1>15. ToSet(worst) = ToSet(rough)
  BY <1>4, <1>6
<1> QED
  BY <1>3, <1>11, <1>13, <1>14, <1>15 DEF ListsAgree, own, rough, exact, worst

-----------------------------------------------------------------------------
(* What is counted.                                                        *)

\* One row of each keyword on a day: the rounded average is what it says.
LEMMA DayQuality ==
  ASSUME CenterInv, NEW S \in SUBSET wordRows, \A t, u \in S : t.day = u.day, NEW r \in S
  PROVE  Quality(r.of, S, 1) = r.quality
<1> DEFINE rated == {t \in S : t.of = r.of /\ t.quality # Unknown}
           f == [t \in rated |-> t["quality"]]
<1>1. Quality(r.of, S, 1) = IF rated = {} THEN Unknown
                            ELSE Rounded(1 * Total(f), Cardinality(rated))
  BY DEF Quality, SumOver
<1>2. \A t \in rated : t = r
  BY CountedAre
<1>3. r \in rated <=> r.quality # Unknown
  OBVIOUS
<1>4. CASE r.quality = Unknown
  <2>1. rated = {}
    BY <1>2, <1>4
  <2> QED
    BY <1>1, <1>4, <2>1
<1>5. CASE r.quality # Unknown
  <2>1. rated = {r}
    BY <1>2, <1>3, <1>5
  <2>2. r.quality \in Nat
    BY <1>5, CountedAre
  <2>3. DOMAIN f = {r} /\ f[r] = r.quality
    BY <2>1
  <2> HIDE DEF rated, f
  <2>4. Total(f) = r.quality
    <3>1. SumFunctionOnSet(f, {r}) = f[r]
      BY <2>2, <2>3, SumSingle
    <3> QED
      BY <2>3, <3>1 DEF Total
  <2>5. Cardinality(rated) = 1
    BY <2>1, FS_Singleton
  <2>6. \A q \in Nat : Rounded(1 * q, 1) = q
    BY DEF Rounded
  <2>7. rated # {}
    BY <2>1
  <2> QED
    BY <1>1, <2>2, <2>4, <2>5, <2>6, <2>7
<1> QED
  BY <1>4, <1>5

\* As many keywords are poor on a day as the list has, if it has all of that day.
LEMMA PoorCounted ==
  ASSUME CenterInv, NEW S \in SUBSET wordRows, \A t, u \in S : t.day = u.day,
         NEW list, AreRated(list, S, 1), \A c \in Seen(S) : \E n \in DOMAIN list : list[n].of = c
  PROVE  Cardinality({r.of : r \in {r \in S : r.quality # Unknown /\ r.quality < 5}})
           = Cardinality({k \in ToSet(list) : k.quality # Unknown /\ k.quality < 5})
<1> DEFINE Poor(q) == q # Unknown /\ q < 5
           P == {r \in S : Poor(r.quality)}
           K == {k \in ToSet(list) : Poor(k.quality)}
           f == [k \in K |-> k.of]
<1>1. \A r : r \in P <=> r \in S /\ Poor(r.quality)
  OBVIOUS
<1>2. \A k : k \in K <=> k \in ToSet(list) /\ Poor(k.quality)
  OBVIOUS
<1>3. \A k \in K : f[k] = k.of
  OBVIOUS
<1>4. \A r \in S : Quality(r.of, S, 1) = r.quality
  BY DayQuality
<1>5. ASSUME NEW n \in DOMAIN list PROVE \E r \in S : r.of = list[n].of /\ r.quality = list[n].quality
  <2>1. list[n].of \in Seen(S) /\ list[n].quality = Quality(list[n].of, S, 1)
    BY DEF AreRated
  <2>2. PICK r \in S : r.of = list[n].of
    BY <2>1 DEF Seen
  <2> QED
    BY <1>4, <2>1, <2>2
<1>6. ASSUME NEW r \in S PROVE \E n \in DOMAIN list : list[n].of = r.of /\ list[n].quality = r.quality
  <2>1. r.of \in Seen(S)
    BY DEF Seen
  <2>2. PICK n \in DOMAIN list : list[n].of = r.of
    BY <2>1
  <2>3. list[n].quality = Quality(list[n].of, S, 1)
    BY DEF AreRated
  <2> QED
    BY <1>4, <2>2, <2>3
<1>7. ToSet(list) = {list[n] : n \in DOMAIN list}
  BY DEF ToSet
<1>8. IsFiniteSet(K)
  <2>1. IsFiniteSet(DOMAIN list)
    BY PlacesFinite DEF AreRated
  <2>2. IsFiniteSet({list[n] : n \in DOMAIN list})
    BY <2>1, ImageFinite
  <2> QED
    BY <1>7, <2>2, FS_Subset
<1> HIDE DEF Poor, P, K, f
<1>9. \A x, y \in K : f[x] = f[y] => x = y
  BY <1>2, <1>3, <1>7 DEF AreRated
<1>10. ASSUME NEW k \in K PROVE \E r \in P : r.of = f[k]
  <2>1. PICK n \in DOMAIN list : k = list[n]
    BY <1>2, <1>7
  <2>2. PICK r \in S : r.of = k.of /\ r.quality = k.quality
    BY <1>5, <2>1
  <2> QED
    BY <1>1, <1>2, <1>3, <2>2
<1>11. ASSUME NEW r \in P PROVE \E k \in K : f[k] = r.of
  <2>1. r \in S /\ Poor(r.quality)
    BY <1>1
  <2>2. PICK n \in DOMAIN list : list[n].of = r.of /\ list[n].quality = r.quality
    BY <1>6, <2>1
  <2>3. list[n] \in K
    BY <1>2, <1>7, <2>1, <2>2
  <2> QED
    BY <1>3, <2>2, <2>3
<1>12. {f[k] : k \in K} = {r.of : r \in P}
  BY <1>10, <1>11
<1>13. Cardinality({f[k] : k \in K}) = Cardinality(K)
  BY <1>8, <1>9, ImageFinite
<1> QED
  BY <1>12, <1>13 DEF Poor, P, K

\* Without a least number of clicks every search term is found.
LEMMA TermsCounted ==
  ASSUME CenterInv, NEW s, NEW w, NEW n
  PROVE  /\ SearchTerms(w, s, 0, n).total = Cardinality(Seen(In(termRows, s, w)))
         /\ SearchTerms(w, s, 0, n).rows = TermReport(w, s, n)
<1> DEFINE S == In(termRows, s, w)
           all == Grouped(Queries, S)
           T == {k \in DOMAIN all : all[k].clicks >= 0}
           own == ElementsAt(all, T)
<1>1. IsNames(Queries) /\ IsCounted(Queries, S)
  BY CountedAre, CountedPart
<1>2. /\ SearchTerms(w, s, 0, n).total = Len(own)
      /\ SearchTerms(w, s, 0, n).rows = FirstOf(ByCost(own), n)
      /\ TermReport(w, s, n) = FirstOf(ByCost(all), n)
  BY DEF SearchTerms, TermReport
<1>3. \A k : k \in T <=> k \in DOMAIN all /\ all[k].clicks >= 0
  OBVIOUS
<1>4. own = ElementsAt(all, T)
  OBVIOUS
<1>10. all = Grouped(Queries, S)
  OBVIOUS
<1> HIDE DEF S, all, T, own
<1>5. AreLines(all, Queries, S)
  BY ONLY <1>1, <1>10, GroupedAre
<1>6. T = DOMAIN all
  <2>1. \A k \in DOMAIN all : all[k].clicks \in Nat
    BY <1>5 DEF AreLines, Sums4
  <2>2. \A k : k \in T <=> k \in DOMAIN all
    BY <1>3, <2>1
  <2> QED
    BY <2>2
<1>7. IsList(all) /\ Len(all) = Cardinality(Seen(S))
  BY <1>5 DEF AreLines
<1>8. own = all
  BY <1>4, <1>6, <1>7, AllSelected
<1> QED
  BY <1>2, <1>7, <1>8 DEF S

\* What one page counts another lists.
LEMMA PagesCount == ASSUME CenterInv, NEW s PROVE CountsAgree(s)
<1> DEFINE w == Window(1)
           S == Words(s, w)
           day == KeywordHealth(1, s, "worst", Len(Keywords))
           exact == KeywordReport(w, s, Len(Keywords))
           some == KeywordMetrics(w, s)
           all == Rated(w, s, 1)
           seen == Growth(w, s)
<1>1. w = {Latest} /\ S = In(wordRows, s, {Latest})
  BY WindowsAre DEF Words
<1>2. S \in SUBSET wordRows /\ \A t, u \in S : t.day = u.day
  BY <1>1 DEF In
<1>3. Overview(s).active = Len(HealthList(s, FALSE))
  BY ActiveShown
<1>4. Len(exact) = Cardinality(Seen(S))
  BY ExactList
<1>5. ToSet(day) = ToSet(some)
  BY WorstList
<1>6. AreRated(some, S, 1) /\ (Len(all) <= KeywordCap => some = all)
  BY MetricsAre
<1>7. Len(all) = Cardinality(Seen(S)) /\ \A c \in Seen(S) : \E n \in DOMAIN all : all[n].of = c
  BY RatedAre
<1>8. Overview(s).lowQuality =
        Cardinality({r.of : r \in {r \in S : r.quality # Unknown /\ r.quality < 5}})
  BY <1>1 DEF Overview, LowQuality
<1>9. Latest \in DOMAIN seen =>
        /\ seen[Latest].keywords = Cardinality(Seen(S))
        /\ seen[Latest].terms = Cardinality(Seen(In(termRows, s, {Latest})))
  BY <1>1 DEF Growth, Seen
<1>10. SearchTerms(w, s, 0, 1).total = Cardinality(Seen(In(termRows, s, w)))
  BY TermsCounted
<1>11. SearchTerms(Window(2), s, 0, Len(Queries)).rows = TermReport(Window(2), s, Len(Queries))
  BY TermsCounted
<1>12. Latest = today => DashboardWindow(2) = Window(2)
  BY WindowsAre
<1> HIDE DEF S, day, exact, some, all, seen
<1>13. ASSUME Len(exact) <= KeywordCap
       PROVE  Overview(s).lowQuality =
                Cardinality({k \in ToSet(day) : k.quality # Unknown /\ k.quality < 5})
  <2>1. some = all
    BY <1>4, <1>6, <1>7, <1>13
  <2>2. \A c \in Seen(S) : \E n \in DOMAIN some : some[n].of = c
    BY <1>7, <2>1
  <2>3. Cardinality({r.of : r \in {r \in S : r.quality # Unknown /\ r.quality < 5}})
          = Cardinality({k \in ToSet(some) : k.quality # Unknown /\ k.quality < 5})
    BY <1>2, <1>6, <2>2, PoorCounted
  <2> QED
    BY <1>5, <1>8, <2>3
<1>14. Latest \in DOMAIN seen =>
         /\ seen[Latest].keywords = Len(exact)
         /\ seen[Latest].terms = SearchTerms(w, s, 0, 1).total
  BY <1>1, <1>4, <1>9, <1>10
<1>15. Latest = today => ToSet(SearchTerms(Window(2), s, 0, Len(Queries)).rows)
                           = ToSet(TermReport(DashboardWindow(2), s, Len(Queries)))
  BY <1>11, <1>12
<1> QED
  BY <1>3, <1>13, <1>14, <1>15 DEF CountsAgree, day, exact, seen

-----------------------------------------------------------------------------
(* The budgets.                                                            *)

LEMMA BillsAre ==
  ASSUME CenterInv
  PROVE  /\ IsFiniteSet(billRows)
         /\ \A r \in billRows : r.day \in Int /\ r.amount \in Nat /\ r.spend \in Nat
         /\ \A r, t \in billRows : r.of = t.of /\ r.day = t.day => r = t
<1>1. IsTable("budgets", billRows)
  BY KindsAre DEF CenterInv, billRows
<1> QED
  BY <1>1 DEF IsTable, HasFigures

\* The newest row of each budget is also the first of its rows, newest first.
LEMMA UsedLatest ==
  ASSUME CenterInv, NEW s, NEW used, used = BudgetUtilization(s)
  PROVE  {used[c] : c \in DOMAIN used} = LatestBudgets(s)
<1> DEFINE S == {r \in billRows : Owner[r.of] \in s}
           N == {r.of : r \in S}
           days(c) == {r.day : r \in {r \in S : r.of = c}}
           newest(c) == CHOOSE r \in S : r.of = c /\ r.day = Max(days(c))
<1>1. used = [c \in N |-> newest(c)]
  BY DEF BudgetUtilization
<1>2. \A r : r \in S <=> r \in billRows /\ Owner[r.of] \in s
  OBVIOUS
<1>3. IsFiniteSet(S) /\ \A r \in S : r.day \in Int
  BY BillsAre, FS_Subset
<1>4. ASSUME NEW c \in N
      PROVE  /\ Max(days(c)) \in Int /\ \A r \in S : r.of = c => r.day <= Max(days(c))
             /\ \E r \in S : r.of = c /\ r.day = Max(days(c))
  <2> DEFINE T == {r \in S : r.of = c}
             f == [r \in T |-> r.day]
             X == {f[r] : r \in T}
  <2>1. IsFiniteSet(T) /\ T # {}
    BY <1>3, FS_Subset
  <2>2. X = days(c)
    OBVIOUS
  <2>3. \A x \in X : x \in Int
    BY <1>3
  <2>4. X # {}
    BY <2>1
  <2>5. IsFiniteSet(X)
    <3> HIDE DEF T, f
    <3> QED
      BY <2>1, ImageFinite
  <2>6. Max(X) \in X /\ \A x \in X : x <= Max(X)
    <3> HIDE DEF X
    <3> QED
      BY <2>3, <2>4, <2>5, MaxIs
  <2>7. \A r \in T : r.day \in X
    OBVIOUS
  <2>8. \A x \in X : \E r \in T : r.day = x
    OBVIOUS
  <2> HIDE DEF X
  <2> QED
    BY <2>2, <2>3, <2>6, <2>7, <2>8
<1> HIDE DEF S, N, days, newest
<1>5. ASSUME NEW c \in N
      PROVE newest(c) \in S /\ newest(c).of = c /\ newest(c).day = Max(days(c))
  BY <1>4 DEF newest
<1>6. \A r : r \in LatestBudgets(s) <=>
               r \in S /\ \A t \in billRows : t.of = r.of => t.day <= r.day
  BY DEF LatestBudgets, S
<1>7. \A r \in S : r.of \in N
  BY DEF N
<1>8. ASSUME NEW c \in N PROVE newest(c) \in LatestBudgets(s)
  <2>1. newest(c) \in S /\ newest(c).of = c /\ newest(c).day = Max(days(c))
    BY <1>5
  <2>2. ASSUME NEW t \in billRows, t.of = c PROVE t.day <= newest(c).day
    <3>1. t \in S
      BY <1>2, <2>1, <2>2
    <3> QED
      BY <1>4, <2>1, <2>2, <3>1
  <2> QED
    BY <1>6, <2>1, <2>2
<1>9. ASSUME NEW r \in LatestBudgets(s) PROVE \E c \in N : newest(c) = r
  <2>1. r \in S /\ r \in billRows /\ r.of \in N
    BY <1>2, <1>6, <1>7
  <2> DEFINE n == newest(r.of)
  <2>2. n \in S /\ n \in billRows /\ n.of = r.of /\ n.day = Max(days(r.of))
    BY <1>2, <1>5, <2>1
  <2>3. r.day <= n.day /\ n.day <= r.day
    BY <1>4, <1>6, <2>1, <2>2
  <2>4. r.day \in Int /\ n.day \in Int
    BY <1>3, <2>1, <2>2
  <2>5. n.day = r.day
    BY <2>3, <2>4
  <2>6. n = r
    BY <2>1, <2>2, <2>5, BillsAre
  <2> QED
    BY <2>1, <2>6
<1>10. {newest(c) : c \in N} = LatestBudgets(s)
  BY <1>8, <1>9
<1>11. DOMAIN used = N /\ \A c \in N : used[c] = newest(c)
  BY <1>1
<1>12. {used[c] : c \in DOMAIN used} = {newest(c) : c \in N}
  BY <1>11
<1> QED
  BY <1>10, <1>12

\* When a budget is critical.
LEMMA RiskIs ==
  ASSUME NEW b \in Nat, NEW c \in Nat, NEW e
  PROVE  BudgetRisk(b, c, e) = "critical" <=> b > 0 /\ c >= b
BY DEF BudgetRisk

\* The rows of the reference day whose budget is spent.
SpentRows(s) == {r \in In(rows, s, {Latest}) : r.budget > 0 /\ r.cost >= r.budget}

\* What the budget page says of a budget.
LEMMA CriticalIs ==
  ASSUME CenterInv, NEW s, NEW e, NEW b \in Monitoring(s, e)
  PROVE  /\ b.budget \in Nat /\ b.spend \in Nat
         /\ b.risk = "critical" <=> b.budget > 0 /\ b.spend >= b.budget
<1>1. PICK r \in LatestBudgets(s) :
        b = [of |-> r.of, day |-> r.day, budget |-> r.amount, spend |-> r.spend,
             risk |-> BudgetRisk(r.amount, r.spend, IF r.day = today THEN e ELSE 100)]
  BY DEF Monitoring
<1>2. r.amount \in Nat /\ r.spend \in Nat
  BY BillsAre DEF LatestBudgets
<1>3. b.risk = BudgetRisk(r.amount, r.spend, IF r.day = today THEN e ELSE 100)
  BY <1>1
<1>4. b.risk = "critical" <=> r.amount > 0 /\ r.spend >= r.amount
  BY <1>2, <1>3, RiskIs
<1>5. b.budget = r.amount /\ b.spend = r.spend
  BY <1>1
<1> QED
  BY <1>2, <1>4, <1>5

\* The campaigns of these rows.
LEMMA SpentAre ==
  ASSUME CenterInv, NEW s
  PROVE  {r.of : r \in SpentRows(s)} =
           {c \in OwnedBy(s) : /\ DayOf(c, Latest).budget > 0
                               /\ DayOf(c, Latest).cost >= DayOf(c, Latest).budget}
<1> DEFINE spent(r) == r.budget > 0 /\ r.cost >= r.budget
<1>1. \A r : r \in SpentRows(s) <=> r \in rows /\ Owner[r.of] \in s /\ r.day = Latest /\ spent(r)
  BY DEF SpentRows, In
<1>2. \A c : c \in OwnedBy(s) <=> c \in CampaignSet /\ Owner[c] \in s
  BY DEF OwnedBy
<1>3. ASSUME NEW r \in SpentRows(s)
      PROVE  r.of \in OwnedBy(s) /\ spent(DayOf(r.of, Latest))
  <2>1. r \in rows /\ Owner[r.of] \in s /\ r.day = Latest /\ spent(r)
    BY <1>1
  <2>2. DayOf(r.of, Latest) = r
    BY <2>1, DayIs
  <2>3. r.of \in CampaignSet
    BY <2>1, RowsAre DEF IsRow
  <2> QED
    BY <1>2, <2>1, <2>2, <2>3
<1>4. ASSUME NEW c \in OwnedBy(s), spent(DayOf(c, Latest)) PROVE \E r \in SpentRows(s) : r.of = c
  <2>1. NoData.budget = 0
    BY DEF NoData
  <2>2. DayOf(c, Latest) # NoData
    BY <1>4, <2>1
  <2>3. PICK r \in rows : r.of = c /\ r.day = Latest
    BY <2>2, DayIs
  <2>4. DayOf(c, Latest) = r
    BY <2>3, DayIs
  <2> QED
    BY <1>1, <1>2, <1>4, <2>3, <2>4
<1>5. {r.of : r \in SpentRows(s)} = {c \in OwnedBy(s) : spent(DayOf(c, Latest))}
  BY <1>3, <1>4
<1> QED
  BY <1>5

\* The overview counts them.
LEMMA SpentCounted ==
  ASSUME CenterInv, NEW s
  PROVE  Overview(s).limited = Cardinality({r.of : r \in SpentRows(s)})
<1> DEFINE S == SpentRows(s)
           f == [r \in S |-> r.of]
<1>1. Overview(s).limited = Cardinality(S)
  BY DEF Overview, LimitedByBudget, SpentRows
<1>2. S \in SUBSET rows /\ \A r \in S : r.day = Latest
  BY DEF SpentRows, In
<1>3. IsFiniteSet(S)
  BY <1>2, RowsAre, FS_Subset
<1>4. \A x, y \in S : f[x] = f[y] => x = y
  BY <1>2, RowsAre
<1>5. {f[r] : r \in S} = {r.of : r \in S}
  OBVIOUS
<1> HIDE DEF S, f
<1>6. Cardinality({f[r] : r \in S}) = Cardinality(S)
  BY <1>3, <1>4, ImageFinite
<1> QED
  BY <1>1, <1>5, <1>6 DEF S

\* What is listed is the analysis of an active campaign.
LEMMA HealthShown ==
  ASSUME CenterInv, NEW s, NEW a \in ToSet(HealthList(s, FALSE))
  PROVE  a.of \in OwnedBy(s) /\ a.of \in CampaignSet /\ a = Analysis(a.of) /\ Active(a)
<1> DEFINE own == Shown(s, FALSE)
           key == [n \in DOMAIN own |-> -own[n].priority.score]
<1>1. /\ IsList(own)
      /\ \A n \in DOMAIN own : /\ own[n].of \in OwnedBy(s) \cap CampaignSet
                               /\ own[n] = Analysis(own[n].of) /\ Active(own[n])
  BY ShownIs
<1>2. HealthList(s, FALSE) = SortedBy(own, key)
  BY DEF HealthList, ByPriority
<1>3. DOMAIN key = DOMAIN own /\ \A n \in DOMAIN own : key[n] = -own[n].priority.score
  OBVIOUS
<1> HIDE DEF own, key
<1>4. \A n \in DOMAIN own : key[n] \in Int
  <2>1. ASSUME NEW n \in DOMAIN own PROVE own[n].priority.score \in Int
    <3> DEFINE d == own[n].of
    <3>1. d \in CampaignSet /\ own[n] = Analysis(d) /\ Active(Analysis(d))
      BY <1>1
    <3> HIDE DEF d
    <3>2. Analysis(d).priority.score \in Int
      BY <3>1, ShownScore
    <3> QED
      BY <3>1, <3>2
  <2> QED
    BY <1>3, <2>1
<1>5. \E n \in DOMAIN own : a = own[n]
  <2>1. /\ DOMAIN SortedBy(own, key) = DOMAIN own
        /\ \A k \in DOMAIN own : SortedFrom(key, k) \in DOMAIN own /\ SortedBy(own, key)[k] = own[SortedFrom(key, k)]
    BY <1>1, <1>3, <1>4, SortedIs
  <2> DEFINE list == SortedBy(own, key)
  <2>2. a \in ToSet(list)
    BY <1>2
  <2> HIDE DEF list
  <2>3. PICK k \in DOMAIN list : a = list[k]
    BY <2>2 DEF ToSet
  <2> QED
    BY <2>1, <2>3 DEF list
<1> QED
  BY <1>1, <1>5

\* A spent budget is a finding of the campaign's health.
LEMMA SpentFound ==
  ASSUME CenterInv, NEW s, NEW a \in ToSet(HealthList(s, FALSE)),
         DayOf(a.of, Latest).budget > 0
  PROVE  (\E i \in ToSet(a.health.issues) : i.code = "LIMITED_BY_BUDGET")
           <=> DayOf(a.of, Latest).cost >= DayOf(a.of, Latest).budget
<1> DEFINE c == a.of
           x == Context(c)
           r == DayOf(c, Latest)
<1>1. c \in CampaignSet /\ a = Analysis(c) /\ Active(a)
  BY HealthShown
<1>2. a.health = Health(x)
  BY <1>1 DEF Analysis
<1>3. Health(x).level # "ignored"
  BY <1>1, <1>2 DEF Active
<1>4. a.health.issues = Issues(x)
  BY <1>2, <1>3, HealthIs
<1>5. x.budget = r.budget /\ x.today.cost = r.cost
  BY <1>1, ContextIs
<1>6. 6 \in Found(x) <=> x.budget > 0 /\ x.today.cost >= x.budget
  BY FindingsAre
<1>7. \A n \in 1..9 : Findings(x)[n][2].code = "LIMITED_BY_BUDGET" <=> n = 6
  BY FindingsAre
<1>8. (\E i \in ToSet(Issues(x)) : i.code = "LIMITED_BY_BUDGET") <=> 6 \in Found(x)
  <2>1. /\ \A k \in DOMAIN Issues(x) :
             /\ PlaceIn(Found(x), k) \in Found(x)
             /\ Issues(x)[k] = Findings(x)[PlaceIn(Found(x), k)][2]
        /\ \A n \in Found(x) : \E k \in DOMAIN Issues(x) : Issues(x)[k] = Findings(x)[n][2]
    BY IssuesAre
  <2>2. \A n \in Found(x) : n \in 1..9
    BY DEF Found
  <2> HIDE DEF x
  <2>3. \A i : i \in ToSet(Issues(x)) <=> \E n \in Found(x) : i = Findings(x)[n][2]
    BY <2>1 DEF ToSet
  <2> QED
    BY <1>7, <2>2, <2>3
<1> QED
  BY <1>4, <1>5, <1>6, <1>8

\* The pages have the same spent budgets.
LEMMA BudgetsHold ==
  ASSUME CenterInv, NEW s, NEW elapsed PROVE BudgetsAgree(s, elapsed)
<1> DEFINE page == Monitoring(s, elapsed)
           used == BudgetUtilization(s)
           counted == {c \in OwnedBy(s) : DayOf(c, Latest).budget > 0
                                           /\ DayOf(c, Latest).cost >= DayOf(c, Latest).budget}
           Limited(a) == \E i \in ToSet(a.health.issues) : i.code = "LIMITED_BY_BUDGET"
<1>1. {used[b] : b \in DOMAIN used} = LatestBudgets(s)
  BY UsedLatest
<1>2. Overview(s).limited = Cardinality(counted)
  BY SpentCounted, SpentAre
<1>3. ASSUME NEW a \in ToSet(HealthList(s, FALSE)), DayOf(a.of, Latest).budget > 0
      PROVE  /\ Limited(a) <=> a.of \in counted
             /\ \A b \in page :
                  b.of = BudgetOf[a.of] /\ b.day = Latest /\ b.budget = a.ctx.budget =>
                    /\ Limited(a) /\ a.ctx.today.cost <= b.spend => b.risk = "critical"
                    /\ b.risk = "critical" /\ b.spend <= a.ctx.today.cost => Limited(a)
  <2> DEFINE r == DayOf(a.of, Latest)
  <2>1. a.of \in OwnedBy(s) /\ a.of \in CampaignSet /\ a = Analysis(a.of)
    BY HealthShown
  <2>2. Limited(a) <=> r.cost >= r.budget
    BY <1>3, SpentFound
  <2>3. a.ctx = Context(a.of)
    BY <2>1 DEF Analysis
  <2>4. a.ctx.budget = r.budget /\ a.ctx.today.cost = r.cost
    BY <1>3, <2>1, <2>3, ContextIs
  <2>5. r.cost \in Nat /\ r.budget \in Nat
    BY DayIs DEF IsFigure
  <2>6. Limited(a) <=> a.of \in counted
    BY <1>3, <2>1, <2>2
  <2>7. ASSUME NEW b \in page, b.budget = a.ctx.budget
        PROVE  /\ Limited(a) /\ a.ctx.today.cost <= b.spend => b.risk = "critical"
               /\ b.risk = "critical" /\ b.spend <= a.ctx.today.cost => Limited(a)
    <3>1. b.spend \in Nat /\ b.budget \in Nat
          /\ (b.risk = "critical" <=> b.budget > 0 /\ b.spend >= b.budget)
      BY CriticalIs
    <3> HIDE DEF r, Limited
    <3>2. r.budget > 0
      BY <1>3 DEF r
    <3> QED
      BY <2>2, <2>4, <2>5, <2>7, <3>1, <3>2
  <2> QED
    BY <2>6, <2>7
<1> QED
  BY <1>1, <1>2, <1>3 DEF BudgetsAgree

\* The pages agree in every state the syncs may leave.
LEMMA ViewsHold == ASSUME CenterInv PROVE ViewsAgree
<1>1. ASSUME rows # {}, NEW s \in Scopes
      PROVE  /\ FiguresAgree(s) /\ ListsAgree(s) /\ CountsAgree(s)
             /\ \A elapsed \in {0, 50} : BudgetsAgree(s, elapsed)
  BY <1>1, FiguresHold, ListsHold, PagesCount, BudgetsHold
<1> QED
  BY <1>1 DEF ViewsAgree

\* However accounts are synced, again, in part and in any order, for any campaigns, keywords,
\* search terms, budgets of one campaign or of several, and figures: the pages tell the same
\* story about the same days and accounts.
THEOREM PagesAgree == CenterInit /\ [][CenterNext]_centerVars => []ViewsAgree
<1>1. CenterInv => ViewsAgree
  BY ViewsHold
<1> QED
  BY <1>1, CenterInvHolds, PTL
=============================================================================
