--------------------------- MODULE PlatformProofs ---------------------------
(***************************************************************************)
(* What the shared services promise their callers, for every number of     *)
(* threads, batches, attempts and entries: the Google Ads client, the mail *)
(* transport and the cache.  And what the weekly job stores and mails, for *)
(* any number of campuses, accounts, weeks and days and whatever was spent *)
(* on each: the scorecards and the budgets.  And that somebody can always  *)
(* manage the users, whoever signs in and whatever admins do to each       *)
(* other, unless one gives up the own role or acts when no longer an       *)
(* admin, and that the grants of a user are those of one request.          *)
(***************************************************************************)
EXTENDS GoogleAdsClient, EmailTransport, TTLCache, UserAccess, Budgets, Scorecards,
        DataLemmas, SequenceTheorems

(* The Google Ads client.                                                  *)

\* The inductive invariant: while a stream runs, the rows are its batches so far.
StreamInv ==
  /\ streamed \in 0..Batches
  /\ call \in {"idle", "search", "waiting", "list", "ok", "raised"}
  /\ call = "idle" => rows = <<>> /\ streamed = 0
  /\ call = "search" => rows = [n \in 1..streamed |-> n]
  /\ call = "list" => rows = <<>>
  /\ call = "ok" => rows = <<>> \/ rows = [n \in 1..Batches |-> n]

LEMMA StreamStep == StreamInv /\ [ClientNext]_clientVars => StreamInv'
<1> SUFFICES ASSUME StreamInv, [ClientNext]_clientVars PROVE StreamInv'
  OBVIOUS
<1> USE ClientAssumption
<1>0. <<>> = [n \in 1..0 |-> n]
  OBVIOUS
<1>1. CASE Search
  BY <1>0, <1>1 DEF Search, StreamInv
<1>2. CASE List
  BY <1>2 DEF List, StreamInv
<1>3. CASE Batch
  <2>1. streamed \in Nat /\ streamed + 1 \in 0..Batches
    BY <1>3 DEF Batch, StreamInv
  <2>2. Append([n \in 1..streamed |-> n], streamed + 1) = [n \in 1..streamed + 1 |-> n]
    BY <2>1
  <2> QED
    BY <1>3, <2>1, <2>2 DEF Batch, StreamInv
<1>4. CASE Answer
  BY <1>4 DEF Answer, StreamInv
<1>5. CASE Fail
  BY <1>5 DEF Fail, StreamInv
<1>6. CASE Retry
  BY <1>0, <1>6 DEF Retry, NewRows, StreamInv
<1>7. CASE UNCHANGED clientVars
  BY <1>7 DEF clientVars, StreamInv
<1> QED
  BY <1>1, <1>2, <1>3, <1>4, <1>5, <1>6, <1>7 DEF ClientNext

\* A query that succeeds returns each batch once and in order, however often its stream
\* broke and was read again: _search_once collects into a list of its own.
THEOREM OneAttempt == ClientSpec => []RowsOfOneAttempt
<1>1. ClientInit => StreamInv
  BY ClientAssumption DEF ClientInit, StreamInv
<1>2. StreamInv => RowsOfOneAttempt
  BY DEF StreamInv, RowsOfOneAttempt
<1> QED
  BY <1>1, <1>2, StreamStep, PTL DEF ClientSpec

-----------------------------------------------------------------------------
(* The mail transport.                                                     *)

\* The inductive invariant: while no sends have overlapped, the only wrapper in place is
\* that of the only send, and it has kept the system's resolver.
WrapperInv ==
  /\ DOMAIN sending = Mailers /\ DOMAIN original = 1..MaxSends
  /\ started \in 0..MaxSends
  /\ \A t \in Mailers : sending[t] \in 0..started
  /\ ~overlapped =>
       \/ resolver = 0 /\ \A t \in Mailers : sending[t] = 0
       \/ \E t \in Mailers :
            /\ sending[t] # 0 /\ resolver = sending[t] /\ original[sending[t]] = 0
            /\ \A s \in Mailers \ {t} : sending[s] = 0

LEMMA WrapperStep == WrapperInv /\ [MailNext]_mailVars => WrapperInv'
<1> SUFFICES ASSUME WrapperInv, [MailNext]_mailVars PROVE WrapperInv'
  OBVIOUS
<1> USE MailAssumption
<1>1. ASSUME NEW t \in Mailers, Https(t) \/ Refuse(t) \/ Connect(t) PROVE WrapperInv'
  <2>1. started' \in 0..MaxSends /\ started <= started'
    BY <1>1 DEF Https, Refuse, Connect, WrapperInv
  <2>2. UNCHANGED <<resolver, original, sending, overlapped>>
    BY <1>1 DEF Https, Refuse, Connect
  <2> QED
    BY <2>1, <2>2 DEF WrapperInv
<1>2. ASSUME NEW t \in Mailers, Enter(t) PROVE WrapperInv'
  <2>1. /\ started' = started + 1 /\ started' \in 1..MaxSends
        /\ sending' = [sending EXCEPT ![t] = started + 1]
        /\ original' = [original EXCEPT ![started + 1] = resolver]
        /\ resolver' = started + 1
        /\ overlapped' = (overlapped \/ \E s \in Mailers : sending[s] # 0)
    BY <1>2 DEF Enter, WrapperInv
  <2>2. ~overlapped' => resolver = 0 /\ \A s \in Mailers : sending[s] = 0
    BY <2>1 DEF WrapperInv
  <2>3. ~overlapped' =>
          /\ sending'[t] # 0 /\ resolver' = sending'[t] /\ original'[sending'[t]] = 0
          /\ \A s \in Mailers \ {t} : sending'[s] = 0
    BY <2>1, <2>2 DEF WrapperInv
  <2> QED
    BY <2>1, <2>3 DEF WrapperInv
<1>3. ASSUME NEW t \in Mailers, Leave(t) PROVE WrapperInv'
  <2>1. /\ sending[t] # 0 /\ resolver' = original[sending[t]]
        /\ sending' = [sending EXCEPT ![t] = 0]
        /\ UNCHANGED <<original, started, overlapped>>
    BY <1>3 DEF Leave, Restored
  <2>2. ~overlapped => resolver' = 0 /\ \A s \in Mailers : sending'[s] = 0
    BY <2>1 DEF WrapperInv
  <2> QED
    BY <2>1, <2>2 DEF WrapperInv
<1>4. CASE UNCHANGED mailVars
  BY <1>4 DEF mailVars, WrapperInv
<1> QED
  BY <1>1, <1>2, <1>3, <1>4 DEF MailNext

\* The resolver of the process is replaced while a mail is sent and at no other time, as
\* long as no two sends overlap: _prefer_ipv4 puts it back whether the send fails or not.
THEOREM WrapperScoped == MailSpec => []ScopedNarrowly
<1>1. MailInit => WrapperInv
  BY MailAssumption DEF MailInit, WrapperInv
<1>2. WrapperInv => ScopedNarrowly
  BY DEF WrapperInv, ScopedNarrowly
<1> QED
  BY <1>1, <1>2, WrapperStep, PTL DEF MailSpec

-----------------------------------------------------------------------------
(* The cache.                                                              *)

Entry(e) ==
  /\ e.key \in Keys /\ e.value \in Nat /\ e.stored \in Nat
  /\ e.value <= e.stored /\ e.stored <= clock
  /\ e.expires = e.stored + TtlOf(e.key)

\* The inductive invariant: an entry expires a ttl after it was stored, whoever reads it.
CacheInv ==
  /\ clock \in Nat
  /\ \A e \in store : Entry(e)
  /\ IsFiniteSet(store)
  /\ DOMAIN caller = CacheThreads
  /\ \A t \in CacheThreads : caller[t] # NoCall =>
       caller[t].key \in Keys /\ caller[t].began \in Nat /\ caller[t].began <= clock
  /\ CacheBounded

LEMMA TtlPositive == \A k \in Keys : TtlOf(k) \in Nat /\ TtlOf(k) >= 1
  BY CacheAssumption DEF TtlOf

\* A store that had no room has some after one entry is given up.
LEMMA RoomMade ==
  ASSUME IsFiniteSet(store), Cardinality(store) <= MaxSize, NEW left \in Evicted(store)
  PROVE  /\ left \subseteq store /\ IsFiniteSet(left)
         /\ Cardinality(left) \in Nat /\ Cardinality(left) + 1 <= MaxSize
<1> USE CacheAssumption
<1>1. Cardinality(store) \in Nat
  BY FS_CardinalityType
<1>2. CASE Cardinality(store) < MaxSize
  BY <1>1, <1>2 DEF Evicted
<1>3. CASE ~(Cardinality(store) < MaxSize)
  <2>1. PICK e \in store : left = store \ {e}
    BY <1>3 DEF Evicted
  <2>2. IsFiniteSet(left) /\ Cardinality(left) = Cardinality(store) - 1
    BY <2>1, FS_RemoveElement
  <2>3. Cardinality(left) \in Nat
    BY <2>2, FS_CardinalityType
  <2> QED
    BY <1>1, <2>1, <2>2, <2>3
<1> QED
  BY <1>2, <1>3

LEMMA CacheStep == CacheInv /\ [CacheNext]_cacheVars => CacheInv'
<1> SUFFICES ASSUME CacheInv, [CacheNext]_cacheVars PROVE CacheInv'
  OBVIOUS
<1> USE CacheAssumption
<1>1. CASE Tick
  <2>1. clock' = clock + 1 /\ UNCHANGED <<store, caller, answer>>
    BY <1>1 DEF Tick
  <2> QED
    BY <2>1 DEF CacheInv, Entry, CacheBounded
<1>2. ASSUME NEW t \in CacheThreads, Hit(t) PROVE CacheInv'
  <2>1. PICK e \in store :
          /\ clock < e.expires
          /\ answer' = [key |-> e.key, age |-> clock - e.value, took |-> e.stored - e.value]
    <3>1. \A e \in store : e.expires \in Nat
      BY TtlPositive DEF CacheInv, Entry
    <3> QED
      BY <1>2, <3>1 DEF Hit, Expired, CacheInv
  <2>2. Entry(e) /\ TtlOf(e.key) \in Nat /\ clock \in Nat
    BY TtlPositive DEF CacheInv, Entry
  <2>3. answer'.age < TtlOf(answer'.key) + answer'.took
    BY <2>1, <2>2 DEF Entry
  <2>4. UNCHANGED <<store, clock, caller>>
    BY <1>2 DEF Hit
  <2> QED
    BY <2>3, <2>4 DEF CacheInv, Entry, CacheBounded
<1>3. ASSUME NEW t \in CacheThreads, Miss(t) PROVE CacheInv'
  <2>1. PICK k \in Keys :
          /\ store' = {e \in store : e.key # k}
          /\ caller' = [caller EXCEPT ![t] = [key |-> k, began |-> clock]]
    BY <1>3 DEF Miss
  <2>2. UNCHANGED <<clock, answer>>
    BY <1>3 DEF Miss
  <2>3. IsFiniteSet(store') /\ Cardinality(store') <= MaxSize
    <3>1. /\ IsFiniteSet(store') /\ Cardinality(store') <= Cardinality(store)
      BY <2>1, FS_Subset DEF CacheInv
    <3>2. Cardinality(store') \in Nat /\ Cardinality(store) \in Nat
      BY <3>1, FS_CardinalityType DEF CacheInv
    <3> QED
      BY <3>1, <3>2 DEF CacheInv, CacheBounded
  <2>4. \A s \in CacheThreads : caller'[s] # NoCall =>
          caller'[s].key \in Keys /\ caller'[s].began \in Nat /\ caller'[s].began <= clock
    BY <2>1 DEF CacheInv
  <2> QED
    BY <2>1, <2>2, <2>3, <2>4 DEF CacheInv, Entry, CacheBounded
<1>4. ASSUME NEW t \in CacheThreads, Put(t) PROVE CacheInv'
  <2> DEFINE k   == caller[t].key
             new == [key |-> k, expires |-> clock + TtlOf(k),
                     value |-> caller[t].began, stored |-> clock]
  <2>1. PICK left \in Evicted(store) : store' = {e \in left : e.key # k} \cup {new}
    BY <1>4 DEF Put
  <2>2. caller[t] # NoCall /\ caller' = [caller EXCEPT ![t] = NoCall]
        /\ UNCHANGED <<clock, answer>>
    BY <1>4 DEF Put
  <2>3. /\ left \subseteq store /\ IsFiniteSet(left)
        /\ Cardinality(left) \in Nat /\ Cardinality(left) + 1 <= MaxSize
    BY RoomMade DEF CacheInv, CacheBounded
  <2>4. new.key = k /\ Entry(new)
    BY <2>2 DEF CacheInv, Entry
  <2> HIDE DEF new, k
  <2> DEFINE kept == {e \in left : e.key # k}
  <2>5. IsFiniteSet(kept) /\ Cardinality(kept) <= Cardinality(left)
    BY <2>3, FS_Subset
  <2>6. IsFiniteSet(store') /\ Cardinality(store') <= MaxSize
    <3>1. /\ IsFiniteSet(kept \cup {new})
          /\ Cardinality(kept \cup {new}) = IF new \in kept THEN Cardinality(kept)
                                            ELSE Cardinality(kept) + 1
      BY <2>5, FS_AddElement
    <3>2. Cardinality(kept) \in Nat
      BY <2>5, FS_CardinalityType
    <3> QED
      BY <2>1, <2>3, <2>5, <3>1, <3>2
  <2>7. \A e \in store' : Entry(e)
    BY <2>1, <2>3, <2>4 DEF CacheInv
  <2>8. \A d, e \in store' : d.key = e.key => d = e
    BY <2>1, <2>3, <2>4 DEF CacheInv, CacheBounded
  <2>9. (\A e \in store : Entry(e))'
    BY <2>2, <2>7 DEF Entry
  <2> QED
    BY <2>2, <2>6, <2>8, <2>9 DEF CacheInv, CacheBounded
<1>5. ASSUME NEW t \in CacheThreads, Raise(t) PROVE CacheInv'
  <2>1. caller' = [caller EXCEPT ![t] = NoCall] /\ UNCHANGED <<store, clock, answer>>
    BY <1>5 DEF Raise
  <2> QED
    BY <2>1 DEF CacheInv, Entry, CacheBounded
<1>6. CASE UNCHANGED cacheVars
  BY <1>6 DEF cacheVars, CacheInv, Entry, CacheBounded
<1> QED
  BY <1>1, <1>2, <1>3, <1>4, <1>5, <1>6 DEF CacheNext

\* A served value is younger than its ttl plus the time its producer took, and the store
\* never outgrows max_size: get does not extend an entry's life, set makes room first.
THEOREM CacheKept == CacheSpec => []CacheBounded
<1>1. CacheInit => CacheInv
  <2> SUFFICES ASSUME CacheInit PROVE CacheInv
    OBVIOUS
  <2>1. IsFiniteSet(store) /\ Cardinality(store) = 0
    BY FS_EmptySet DEF CacheInit
  <2>2. CacheBounded
    BY <2>1, TtlPositive, CacheAssumption DEF CacheInit, CacheBounded
  <2> QED
    BY <2>1, <2>2 DEF CacheInit, CacheInv
<1>2. CacheInv => CacheBounded
  BY DEF CacheInv
<1> QED
  BY <1>1, <1>2, CacheStep, PTL DEF CacheSpec

-----------------------------------------------------------------------------
(* Budgets: weeks and months.                                              *)

\* Quotient and remainder.
LEMMA Divided ==
  ASSUME NEW n \in Nat \ {0}, NEW d \in Nat
  PROVE  /\ d \div n \in Nat /\ d % n \in 0..(n - 1)
         /\ d = n * (d \div n) + (d % n)
<1>1. d \div n \in Int /\ d % n \in 0..(n - 1)
  OBVIOUS
<1>2. d \div n >= 0
  OBVIOUS
<1>3. d = n * (d \div n) + (d % n)
  OBVIOUS
<1> QED
  BY <1>1, <1>2, <1>3

\* A multiple of n that is at most d and more than d - n is that of d's quotient.
LEMMA Quotient ==
  ASSUME NEW n \in Nat \ {0}, NEW d \in Nat, NEW q \in Int, n * q <= d, d < n * (q + 1)
  PROVE  d \div n = q
<1> DEFINE p == d \div n
<1>1. p \in Nat /\ d - n * p \in 0..(n - 1)
  <2>1. p \in Nat /\ d % n \in 0..(n - 1) /\ d = n * p + (d % n)
    BY Divided
  <2>2. n * p \in Int
    BY <2>1
  <2> QED
    BY <2>1, <2>2
<1> HIDE DEF p
<1>2. n * (q + 1) = n * q + n /\ n * (p + 1) = n * p + n
  BY <1>1
<1>3. ~(p < q)
  <2> SUFFICES ASSUME p < q PROVE FALSE
    OBVIOUS
  <2>1. n * (p + 1) <= n * q
    BY <1>1
  <2> QED
    BY <1>1, <1>2, <2>1
<1>4. ~(q < p)
  <2> SUFFICES ASSUME q < p PROVE FALSE
    OBVIOUS
  <2>1. n * (q + 1) <= n * p
    BY <1>1
  <2> QED
    BY <1>1, <1>2, <2>1
<1> QED
  BY <1>1, <1>3, <1>4 DEF p

\* Two days are in the same month when the first of the month is the same.
LEMMA MonthOf ==
  ASSUME NEW d \in Nat
  PROVE  /\ FirstOfMonth(d) = MonthLength * (d \div MonthLength)
         /\ FirstOfMonth(d) \in Nat /\ FirstOfMonth(d) <= d
<1>1. /\ d \div MonthLength \in Nat /\ d % MonthLength \in 0..(MonthLength - 1)
      /\ d = MonthLength * (d \div MonthLength) + (d % MonthLength)
  BY BudgetAssumption, Divided
<1>2. MonthLength * (d \div MonthLength) \in Nat
  BY <1>1, BudgetAssumption
<1> QED
  BY <1>1, <1>2 DEF FirstOfMonth

LEMMA SameMonth ==
  ASSUME NEW d \in Nat, NEW e \in Nat
  PROVE  /\ FirstOfMonth(d) = FirstOfMonth(e) => d \div MonthLength = e \div MonthLength
         /\ d < e => (FirstOfMonth(e) <= d <=> d \div MonthLength = e \div MonthLength)
<1> DEFINE n == MonthLength
           p == d \div n
           q == e \div n
<1>1. n \in Nat \ {0} /\ p \in Nat /\ q \in Nat
  BY BudgetAssumption, Divided
<1>2. /\ FirstOfMonth(d) = n * p /\ FirstOfMonth(e) = n * q
      /\ FirstOfMonth(d) <= d /\ FirstOfMonth(e) <= e
  BY MonthOf
<1>3. d < n * (p + 1) /\ e < n * (q + 1)
  <2>1. /\ d % n \in 0..(n - 1) /\ d = n * p + (d % n)
        /\ e % n \in 0..(n - 1) /\ e = n * q + (e % n)
    BY <1>1, Divided
  <2>2. n * (p + 1) = n * p + n /\ n * (q + 1) = n * q + n
    BY <1>1
  <2>3. n * p \in Nat /\ n * q \in Nat
    BY <1>1
  <2> HIDE DEF n, p, q
  <2> QED
    BY <1>1, <2>1, <2>2, <2>3
<1>4. ASSUME n * p = n * q PROVE p = q
  <2>1. n * q <= d /\ d < n * (q + 1)
    <3>1. n * (q + 1) = n * q + n /\ n * (p + 1) = n * p + n
      BY <1>1
    <3> HIDE DEF n, p, q
    <3> QED
      BY <1>2, <1>3, <1>4, <3>1
  <2> QED
    BY <1>1, <2>1, Quotient
<1>5. ASSUME d < e, n * q <= d PROVE p = q
  <2>1. d < n * (q + 1)
    <3>1. n * (q + 1) \in Int
      BY <1>1
    <3> HIDE DEF n, q
    <3> QED
      BY <1>3, <1>5, <3>1
  <2> QED
    BY <1>1, <1>5, <2>1, Quotient
<1>6. ASSUME p = q PROVE n * q <= d
  BY <1>2, <1>6
<1> QED
  BY <1>2, <1>4, <1>5, <1>6

\* The days that the overview books on the Monday of the last full week.
LEMMA LastWeekDays ==
  ASSUME NEW d \in Nat, NEW now \in Nat
  PROVE  /\ Monday(d) = Monday(now) - 7 <=> d \div 7 = (now \div 7) - 1
         /\ Monday(d) = Monday(now) - 7 =>
              Monday(now) - 14 <= d /\ d <= Monday(now) + 6 /\ d < now
BY DEF Monday

LEMMA MondayInt == \A d \in Nat : Monday(d) \in Int
BY DEF Monday

LEMMA ThreeWeeks ==
  ASSUME today \in Nat
  PROVE  Min(WeekStarts(3)) = Monday(today) - 14
<1>1. Monday(today) \in Int
  BY MondayInt
<1>2. WeekStarts(3) = {Monday(today), Monday(today) - 7, Monday(today) - 14}
  <2>1. 0..(3 - 1) = {0, 1, 2}
    OBVIOUS
  <2>2. WeekStarts(3) = {Monday(today) - 7 * 0, Monday(today) - 7 * 1, Monday(today) - 7 * 2}
    BY <2>1 DEF WeekStarts
  <2> QED
    BY <1>1, <2>2
<1> DEFINE m == Monday(today)
<1> HIDE DEF m
<1>3. Min({m, m - 7, m - 14}) = m - 14
  <2>1. m \in Int
    BY <1>1 DEF m
  <2>2. \A x \in {m, m - 7, m - 14} : (\A y \in {m, m - 7, m - 14} : x =< y) <=> x = m - 14
    BY <2>1
  <2> QED
    BY <2>2 DEF Min
<1> QED
  BY <1>2, <1>3 DEF m

-----------------------------------------------------------------------------
(* Budgets: the mail.                                                      *)

\* A budget is kept under the period of the day it was entered for.
Placed(b) ==
  b.period \in Periods /\ b.day \in 0..today /\ b.start = StartOf(b.period, b.day)

\* One mail says what MailedPeriodsWhole asks of it.
WeekBefore(day) == {d \in Days : d \div 7 = (day \div 7) - 1}
MonthSoFar(day) == {d \in Days : d < day /\ d \div MonthLength = day \div MonthLength}

Whole(m) ==
  /\ \A b, c \in m.budget : b.period = c.period => b = c
  /\ m.week = SumFunctionOnSet(DaySpend, WeekBefore(m.day))
  /\ m.month = SumFunctionOnSet(DaySpend, MonthSoFar(m.day))
  /\ m.total = SumFunctionOnSet(DaySpend, 0..(m.day - 1))
  /\ \A b \in m.budget :
       \/ b.period = "week" /\ b.day \in WeekBefore(m.day)
       \/ b.period = "month" /\ b.day \div MonthLength = m.day \div MonthLength

\* The inductive invariant: one row per account and period, each under the period of its
\* day, also the rows of requests under way.
BudgetInv ==
  /\ today \in Days
  /\ \A b \in budgets : Placed(b)
  /\ \A b, c \in budgets : SameKey(b, c) => b = c
  /\ DOMAIN edit = Planners
  /\ \A t \in Planners : edit[t] # NoEdit => Placed(edit[t])
  /\ \A m \in mails : Whole(m)

\* Of days that are over the whole spend is known, of today nothing.
LEMMA SpentOver ==
  ASSUME today \in Days, NEW S \in SUBSET Days, \A d \in S : d < today
  PROVE  /\ SpendOver(S) = SumFunctionOnSet(DaySpend, S)
         /\ SpendOver(S \cup {today}) = SumFunctionOnSet(DaySpend, S)
<1> DEFINE f == [d \in Days |-> Spent(d)]
<1>1. /\ \A d \in S : d \in Days /\ f[d] = DaySpend[d] /\ DaySpend[d] \in Int
      /\ f[today] = 0
  BY BudgetAssumption DEF Spent, Days
<1>2. IsFiniteSet(S)
  <2>1. IsFiniteSet(Days)
    BY BudgetAssumption, FS_Interval DEF Days
  <2> QED
    BY <2>1, FS_Subset
<1>3. today \notin S /\ today \in Nat
  BY BudgetAssumption DEF Days
<1>4. \A T : SpendOver(T) = SumFunctionOnSet(f, T)
  BY DEF SpendOver
<1> HIDE DEF f
<1>5. Summable(f, S) /\ Summable(f, S \cup {today})
  <2>1. IsFiniteSet(S \cup {today})
    BY <1>2, FS_AddElement
  <2> QED
    BY <1>1, <1>2, <2>1 DEF Summable
<1>6. SumFunctionOnSet(f, S) = SumFunctionOnSet(DaySpend, S)
  BY <1>1, <1>5, SumEqual
<1>7. SumFunctionOnSet(f, S \cup {today}) = f[today] + SumFunctionOnSet(f, S)
  <2>1. (S \cup {today}) \ {today} = S /\ today \in S \cup {today}
    BY <1>3
  <2> QED
    BY <1>5, <2>1, SumRemove
<1>8. SumFunctionOnSet(f, S) \in Int
  BY <1>5, SumInt
<1> QED
  BY <1>1, <1>4, <1>6, <1>7, <1>8

LEMMA MailWhole ==
  ASSUME BudgetInv, Mail
  PROVE  \A m \in mails' : Whole(m)
<1> DEFINE lastWeek == Monday(today) - 7
<1> SUFFICES ASSUME NEW a \in Accounts,
                    NEW m, m = [day |-> today, account |-> a,
                                week  |-> WeekSpend(lastWeek, 3),
                                month |-> PeriodSpend(FirstOfMonth(today)),
                                total |-> PeriodSpend(0),
                                budget |-> BudgetOf(a, "week", lastWeek) \cup
                                           BudgetOf(a, "month", FirstOfMonth(today))]
             PROVE  Whole(m)
  BY DEF Mail
<1>0. /\ today \in Days /\ today \in Nat /\ \A d \in Days : d \in Nat
      /\ Monday(today) \in Int
  BY BudgetAssumption, MondayInt DEF BudgetInv, Days
<1>1. /\ m.day = today /\ m.week = WeekSpend(lastWeek, 3)
      /\ m.month = PeriodSpend(FirstOfMonth(today)) /\ m.total = PeriodSpend(0)
      /\ m.budget = BudgetOf(a, "week", lastWeek) \cup BudgetOf(a, "month", FirstOfMonth(today))
  OBVIOUS
<1>2. m.week = SumFunctionOnSet(DaySpend, WeekBefore(today))
  <2>1. WeekSpend(lastWeek, 3) = SpendOver(WeekBefore(today))
    <3>1. {d \in Days : /\ Monday(d) = lastWeek
                        /\ Min(WeekStarts(3)) <= d /\ d <= Monday(today) + 6}
            = WeekBefore(today)
      BY <1>0, ThreeWeeks, LastWeekDays DEF WeekBefore
    <3> QED
      BY <3>1 DEF WeekSpend
  <2>2. WeekBefore(today) \in SUBSET Days /\ \A d \in WeekBefore(today) : d < today
    BY <1>0, LastWeekDays DEF WeekBefore
  <2> QED
    BY <1>0, <1>1, <2>1, <2>2, SpentOver
<1>3. m.month = SumFunctionOnSet(DaySpend, MonthSoFar(today))
  <2>1. PeriodSpend(FirstOfMonth(today)) = SpendOver(MonthSoFar(today) \cup {today})
    <3>1. FirstOfMonth(today) <= today
      BY <1>0, MonthOf
    <3>2. {d \in Days : FirstOfMonth(today) <= d /\ d <= today}
            = MonthSoFar(today) \cup {today}
      <4>1. \A d \in Days : /\ d <= today <=> d < today \/ d = today
                            /\ d < today => (FirstOfMonth(today) <= d
                                 <=> d \div MonthLength = today \div MonthLength)
        BY <1>0, SameMonth
      <4> QED
        BY <1>0, <3>1, <4>1 DEF MonthSoFar
    <3> QED
      BY <3>2 DEF PeriodSpend
  <2>2. MonthSoFar(today) \in SUBSET Days /\ \A d \in MonthSoFar(today) : d < today
    BY DEF MonthSoFar
  <2> QED
    BY <1>0, <1>1, <2>1, <2>2, SpentOver
<1>4. m.total = SumFunctionOnSet(DaySpend, 0..(today - 1))
  <2>1. PeriodSpend(0) = SpendOver(0..(today - 1) \cup {today})
    <3>1. {d \in Days : 0 <= d /\ d <= today} = 0..(today - 1) \cup {today}
      BY <1>0, BudgetAssumption DEF Days
    <3> QED
      BY <3>1 DEF PeriodSpend
  <2>2. 0..(today - 1) \in SUBSET Days /\ \A d \in 0..(today - 1) : d < today
    BY <1>0, BudgetAssumption DEF Days
  <2> QED
    BY <1>0, <1>1, <2>1, <2>2, SpentOver
<1>5. \A b, c \in m.budget : b.period = c.period => b = c
  BY <1>1 DEF BudgetOf, BudgetInv, SameKey
<1>6. ASSUME NEW b \in m.budget
      PROVE  \/ b.period = "week" /\ b.day \in WeekBefore(today)
             \/ b.period = "month" /\ b.day \div MonthLength = today \div MonthLength
  <2>1. b \in budgets /\ Placed(b)
    BY <1>1, <1>6 DEF BudgetOf, BudgetInv
  <2>2. b.day \in Days /\ b.day \in Nat
    BY <1>0, <2>1, BudgetAssumption DEF Placed, Days
  <2>3. CASE b.period = "week" /\ b.start = lastWeek
    <3>1. Monday(b.day) = Monday(today) - 7
      BY <2>1, <2>3 DEF Placed, StartOf
    <3> QED
      BY <1>0, <2>2, <2>3, <3>1, LastWeekDays DEF WeekBefore
  <2>4. CASE b.period = "month" /\ b.start = FirstOfMonth(today)
    <3>1. FirstOfMonth(b.day) = FirstOfMonth(today)
      BY <2>1, <2>4 DEF Placed, StartOf
    <3> QED
      BY <1>0, <2>2, <2>4, <3>1, SameMonth
  <2> QED
    BY <1>1, <1>6, <2>3, <2>4 DEF BudgetOf
<1> QED
  BY <1>1, <1>2, <1>3, <1>4, <1>5, <1>6 DEF Whole

LEMMA BudgetInitInv == BudgetInit => BudgetInv
  BY BudgetAssumption DEF BudgetInit, BudgetInv, Days

LEMMA BudgetStep == BudgetInv /\ [BudgetNext]_budgetVars => BudgetInv'
<1> SUFFICES ASSUME BudgetInv, [BudgetNext]_budgetVars PROVE BudgetInv'
  OBVIOUS
<1>1. CASE NextDay
  <2>1. /\ today' = today + 1 /\ today' \in Days /\ mails' = {}
        /\ UNCHANGED <<budgets, edit>>
    BY <1>1, BudgetAssumption DEF NextDay, BudgetInv, Days
  <2>2. 0..today \subseteq 0..today'
    BY <2>1, BudgetAssumption DEF BudgetInv, Days
  <2> QED
    BY <2>1, <2>2 DEF BudgetInv, Placed, SameKey
<1>2. CASE Mail
  <2>1. UNCHANGED <<today, budgets, edit>>
    BY <1>2 DEF Mail
  <2>2. \A m \in mails' : Whole(m)
    BY <1>2, MailWhole
  <2> QED
    BY <2>1, <2>2 DEF BudgetInv, Placed, SameKey
<1>3. ASSUME NEW t \in Planners, FindBudget(t) PROVE BudgetInv'
  <2>1. UNCHANGED <<today, budgets, mails>>
    BY <1>3 DEF FindBudget
  <2>2. PICK e : edit' = [edit EXCEPT ![t] = e] /\ Placed(e)
    <3>1. PICK a \in Accounts, p \in Periods, d \in {0, today} :
            edit' = [edit EXCEPT ![t] =
              [account |-> a, period |-> p, start |-> StartOf(p, d), day |-> d,
               found |-> \E b \in budgets : SameKey(b,
                 [account |-> a, period |-> p, start |-> StartOf(p, d), day |-> d])]]
      BY <1>3 DEF FindBudget
    <3>2. d \in 0..today
      BY BudgetAssumption DEF BudgetInv, Days
    <3> DEFINE e == [account |-> a, period |-> p, start |-> StartOf(p, d), day |-> d,
                     found |-> \E b \in budgets : SameKey(b,
                       [account |-> a, period |-> p, start |-> StartOf(p, d), day |-> d])]
    <3>3. e.period = p /\ e.start = StartOf(p, d) /\ e.day = d
      OBVIOUS
    <3> HIDE DEF e
    <3>4. Placed(e)
      BY <3>2, <3>3 DEF Placed
    <3> QED
      BY <3>1, <3>4 DEF e
  <2>3. \A s \in Planners : edit'[s] # NoEdit => Placed(edit'[s])
    BY <2>2 DEF BudgetInv
  <2> QED
    BY <2>1, <2>2, <2>3 DEF BudgetInv, Placed, SameKey
<1>4. ASSUME NEW t \in Planners, SetBudget(t) PROVE BudgetInv'
  <2> DEFINE e   == edit[t]
             row == [account |-> e.account, period |-> e.period, start |-> e.start,
                     amount |-> amounts + 1, day |-> e.day]
  <2>1. /\ UNCHANGED <<today, mails>> /\ edit' = [edit EXCEPT ![t] = NoEdit]
        /\ e # NoEdit /\ Placed(e)
    BY <1>4 DEF SetBudget, BudgetInv
  <2>2. \A s \in Planners : edit'[s] # NoEdit => Placed(edit'[s])
    BY <2>1 DEF BudgetInv
  <2>3. CASE budgets' = budgets
    BY <2>1, <2>2, <2>3 DEF BudgetInv, Placed, SameKey
  <2>4. CASE /\ e.found \/ ~Taken(e)
             /\ budgets' = {row} \cup
                   IF e.found THEN {b \in budgets : ~SameKey(b, e)} ELSE budgets
    <3>1. budgets' \subseteq {row} \cup {b \in budgets : ~SameKey(b, e)}
      BY <2>4 DEF Taken
    <3>2. /\ row.account = e.account /\ row.period = e.period /\ row.start = e.start
          /\ row.day = e.day
      OBVIOUS
    <3> HIDE DEF row, e
    <3>3. Placed(row)
      BY <2>1, <3>2 DEF Placed
    <3>4. \A b \in budgets' : Placed(b)
      BY <3>1, <3>3 DEF BudgetInv
    <3>5. \A b, c \in budgets' : SameKey(b, c) => b = c
      BY <3>1, <3>2 DEF BudgetInv, SameKey
    <3> QED
      BY <2>1, <2>2, <3>4, <3>5 DEF BudgetInv, Placed, SameKey
  <2> QED
    BY <1>4, <2>3, <2>4 DEF SetBudget
<1>5. CASE UNCHANGED budgetVars
  BY <1>5 DEF budgetVars, BudgetInv, Placed, SameKey
<1> QED
  BY <1>1, <1>2, <1>3, <1>4, <1>5 DEF BudgetNext

BudgetSpec == BudgetInit /\ [][BudgetNext]_budgetVars

\* A mail reports whole periods: each day of the last full week, of the month so far and of
\* all time once, against one budget per period, entered for a day of it; for any spending,
\* any length of the month and any race of the planners.
THEOREM PeriodsWhole == BudgetSpec => []MailedPeriodsWhole
<1>1. BudgetInv => MailedPeriodsWhole
  BY DEF BudgetInv, MailedPeriodsWhole, Whole, WeekBefore, MonthSoFar
<1> QED
  BY <1>1, BudgetInitInv, BudgetStep, PTL DEF BudgetSpec

-----------------------------------------------------------------------------
(* Scorecards: the sums of weeks.                                          *)

Facts == [cost: Nat, leads: Nat]
Measures == {"cost", "leads"}
Weeks(from, to) == {w \in 1..LastWeek : from <= w /\ w < to}

\* The sum of what campus c did in a set of weeks, by the facts f.
SumBy(f, c, what, weeks) ==
  SumFunctionOnSet([w \in 1..LastWeek |-> f[c][w][what]], weeks)

LEMMA SumTotal == \A c, what, weeks : Sum(c, what, weeks) = SumBy(facts, c, what, weeks)
BY DEF Sum, SumBy

\* What the campuses did: nothing yet in a week that is not over.
FactsInv ==
  /\ week \in Nat /\ week >= 1
  /\ facts \in [Campuses -> [1..LastWeek -> Facts]]
  /\ \A c \in Campuses : \A w \in 1..LastWeek :
       w >= week => \A what \in Measures : facts[c][w][what] = 0

LEMMA FactNat ==
  ASSUME FactsInv, NEW c \in Campuses, NEW what \in Measures, NEW w \in 1..LastWeek
  PROVE  facts[c][w][what] \in Nat
BY DEF FactsInv, Facts, Measures

LEMMA WeeksFinite == \A a, b : IsFiniteSet(Weeks(a, b))
<1>1. IsFiniteSet(1..LastWeek)
  BY ScorecardAssumption, FS_Interval
<1> QED
  BY <1>1, FS_Subset DEF Weeks

\* The weeks of a period split at any week in it.
LEMMA SumSplits ==
  ASSUME FactsInv, NEW c \in Campuses, NEW what \in Measures,
         NEW a \in Nat, NEW b \in Nat, NEW d \in Nat, a <= b, b <= d
  PROVE  /\ Sum(c, what, Weeks(a, d)) = Sum(c, what, Weeks(a, b)) + Sum(c, what, Weeks(b, d))
         /\ Sum(c, what, Weeks(a, b)) \in Nat /\ Sum(c, what, Weeks(b, d)) \in Nat
<1> DEFINE f == [w \in 1..LastWeek |-> facts[c][w][what]]
<1>1. \A w \in 1..LastWeek : f[w] \in Nat
  BY FactNat
<1>2. Weeks(a, b) \subseteq 1..LastWeek /\ Weeks(b, d) \subseteq 1..LastWeek
  BY DEF Weeks
<1>3. /\ Weeks(a, d) = Weeks(a, b) \cup Weeks(b, d)
      /\ Weeks(a, b) \cap Weeks(b, d) = {}
  BY ScorecardAssumption DEF Weeks
<1>4. \A s : Sum(c, what, s) = SumFunctionOnSet(f, s)
  BY DEF Sum
<1> HIDE DEF f
<1>5. Summable(f, Weeks(a, b)) /\ Summable(f, Weeks(b, d))
  BY <1>1, <1>2, WeeksFinite DEF Summable
<1>6. SumFunctionOnSet(f, Weeks(a, b) \cup Weeks(b, d)) =
        SumFunctionOnSet(f, Weeks(a, b)) + SumFunctionOnSet(f, Weeks(b, d))
  BY <1>3, <1>5, SumUnion
<1>7. /\ SumFunctionOnSet(f, Weeks(a, b)) \in Nat
      /\ SumFunctionOnSet(f, Weeks(b, d)) \in Nat
  BY <1>1, <1>2, WeeksFinite, SumNat
<1> QED
  BY <1>3, <1>4, <1>6, <1>7

\* What was achieved since a week was achieved before the current one.
LEMMA NothingYet ==
  ASSUME FactsInv, NEW c \in Campuses, NEW what \in Measures, NEW a \in Nat, a <= week
  PROVE  Sum(c, what, {w \in 1..LastWeek : w >= a}) = Sum(c, what, Weeks(a, week))
<1> DEFINE f == [w \in 1..LastWeek |-> facts[c][w][what]]
           later == {w \in 1..LastWeek : w >= week}
<1>1. \A w \in 1..LastWeek : f[w] \in Nat
  BY FactNat
<1>2. \A w \in later : f[w] = 0
  BY DEF FactsInv
<1>3. week \in Nat
  BY DEF FactsInv
<1>4. /\ {w \in 1..LastWeek : w >= a} = Weeks(a, week) \cup later
      /\ Weeks(a, week) \cap later = {}
  BY <1>3, ScorecardAssumption DEF Weeks
<1>5. IsFiniteSet(later) /\ later \subseteq 1..LastWeek /\ Weeks(a, week) \subseteq 1..LastWeek
  <2>1. IsFiniteSet(1..LastWeek) /\ later \subseteq 1..LastWeek
    BY ScorecardAssumption, FS_Interval
  <2> QED
    BY <2>1, FS_Subset DEF Weeks
<1>6. \A s : Sum(c, what, s) = SumFunctionOnSet(f, s)
  BY DEF Sum
<1> HIDE DEF f, later
<1>7. Summable(f, Weeks(a, week)) /\ Summable(f, later)
  BY <1>1, <1>5, WeeksFinite DEF Summable
<1>8. SumFunctionOnSet(f, later) = 0 /\ SumFunctionOnSet(f, Weeks(a, week)) \in Int
  BY <1>1, <1>2, <1>5, <1>7, SumNat, SumInt
<1> QED
  BY <1>4, <1>6, <1>7, <1>8, SumUnion

\* A week that passes changes nothing in the weeks before it.
LEMMA PastStays ==
  ASSUME FactsInv, NextWeek, NEW c \in Campuses, NEW what \in Measures,
         NEW a \in Nat, NEW b \in Nat, b <= week
  PROVE  SumBy(facts', c, what, Weeks(a, b)) = SumBy(facts, c, what, Weeks(a, b))
<1> DEFINE f == [w \in 1..LastWeek |-> facts[c][w][what]]
           g == [w \in 1..LastWeek |-> facts'[c][w][what]]
<1>1. PICK h : facts' = [d \in Campuses |-> [facts[d] EXCEPT ![week] = h[d]]]
  BY DEF NextWeek
<1>2. \A w \in 1..LastWeek : f[w] \in Nat
  BY FactNat
<1>3. \A w \in Weeks(a, b) : w \in 1..LastWeek /\ w # week
  BY ScorecardAssumption DEF Weeks, FactsInv
<1>4. \A w \in Weeks(a, b) : f[w] = g[w]
  BY <1>1, <1>3 DEF FactsInv
<1>5. /\ SumBy(facts, c, what, Weeks(a, b)) = SumFunctionOnSet(f, Weeks(a, b))
      /\ SumBy(facts', c, what, Weeks(a, b)) = SumFunctionOnSet(g, Weeks(a, b))
  BY DEF SumBy
<1> HIDE DEF f, g
<1> QED
  BY <1>2, <1>3, <1>4, <1>5, WeeksFinite, SumEqual DEF Summable

-----------------------------------------------------------------------------
(* Scorecards: the snapshots.                                              *)

\* A snapshot tells what its campus achieved from the plan's week to its own.
Snapshots == [campus: Campuses, cost: Nat, leads: Nat, since: Nat, at: Nat]

Right(s, f, now) ==
  /\ s \in Snapshots /\ s.since <= s.at /\ s.at <= now
  /\ \A what \in Measures : s[what] = SumBy(f, s.campus, what, Weeks(s.since, s.at))

\* The inductive invariant: the snapshots are right and in order, those of the running job
\* are committed, and it works on campuses that have plans.
ScoreInv ==
  /\ FactsInv
  /\ plans \in Seq([campus: Campuses, since: Nat])
  /\ \A n \in 1..Len(plans) : plans[n].since <= week
  /\ flushed = <<>>
  /\ \A c \in todo \cap Campuses : Found(plans, c) # {}
  /\ saved \in Seq(Snapshots)
  /\ \A n \in 1..Len(saved) : Right(saved[n], facts, week)
  /\ \A m, n \in 1..Len(saved) : m < n => saved[m].at <= saved[n].at
  /\ \A c \in done : \E n \in 1..Len(saved) : saved[n].campus = c

\* The newest match is one, and later than the others.
LEMMA NewestIs ==
  ASSUME NEW P, \A n \in P : n \in Nat, IsFiniteSet(P), P # {}
  PROVE  Max(P) \in P /\ \A n \in P : Max(P) >= n
<1>1. \E m \in P : \A n \in P : m >= n
  BY Greatest
<1> QED
  BY <1>1 DEF Max

LEMMA FoundFinite ==
  ASSUME NEW T, NEW s \in Seq(T), NEW c
  PROVE  Found(s, c) \subseteq 1..Len(s) /\ IsFiniteSet(Found(s, c)) /\ Len(s) \in Nat
<1>1. DOMAIN s = 1..Len(s) /\ Len(s) \in Nat
  BY LenProperties
<1>2. IsFiniteSet(1..Len(s))
  BY <1>1, FS_Interval
<1> QED
  BY <1>1, <1>2, FS_Subset DEF Found

LEMMA SnapshotRight ==
  ASSUME ScoreInv, NEW c \in todo, c \in Campuses
  PROVE  Right(Snapshot(c), facts, week) /\ Snapshot(c).at = week /\ Snapshot(c).campus = c
<1>1. /\ Found(plans, c) \subseteq 1..Len(plans) /\ IsFiniteSet(Found(plans, c))
      /\ Len(plans) \in Nat /\ Found(plans, c) # {}
  BY FoundFinite DEF ScoreInv
<1>2. Newest(plans, c) \in 1..Len(plans)
  BY <1>1, NewestIs DEF Newest
<1>3. Since(c) \in Nat /\ Since(c) <= week
  <2>1. plans[Newest(plans, c)] \in [campus: Campuses, since: Nat]
    BY <1>2, ElementOfSeq DEF ScoreInv
  <2> QED
    BY <1>2, <2>1 DEF Since, ScoreInv
<1>4. week \in Nat
  BY DEF ScoreInv, FactsInv
<1>5. \A what \in Measures :
        Achieved(c, what) = Sum(c, what, Weeks(Since(c), week)) /\ Achieved(c, what) \in Nat
  <2> SUFFICES ASSUME NEW what \in Measures
               PROVE  /\ Achieved(c, what) = Sum(c, what, Weeks(Since(c), week))
                      /\ Achieved(c, what) \in Nat
    OBVIOUS
  <2>1. Achieved(c, what) = Sum(c, what, Weeks(Since(c), week))
    BY <1>3, NothingYet DEF Achieved, ScoreInv
  <2>2. Sum(c, what, Weeks(Since(c), week)) \in Nat
    BY <1>3, <1>4, SumSplits DEF ScoreInv
  <2> QED
    BY <2>1, <2>2
<1>6. Achieved(c, "cost") \in Nat /\ Achieved(c, "leads") \in Nat
  BY <1>5 DEF Measures
<1>7. /\ Snapshot(c) \in Snapshots /\ Snapshot(c).campus = c /\ Snapshot(c).at = week
      /\ Snapshot(c).since = Since(c)
      /\ Snapshot(c)["cost"] = Achieved(c, "cost") /\ Snapshot(c)["leads"] = Achieved(c, "leads")
  BY <1>3, <1>4, <1>6 DEF Snapshot, Snapshots
<1> QED
  BY <1>3, <1>4, <1>5, <1>7, SumTotal DEF Right, Measures

LEMMA ScoreInit == ScorecardInit => ScoreInv
<1> SUFFICES ASSUME ScorecardInit PROVE ScoreInv
  OBVIOUS
<1>1. FactsInv
  BY DEF ScorecardInit, FactsInv, Facts, Measures
<1>2. Len(plans) = 0 /\ Len(saved) = 0 /\ todo \cap Campuses = {}
  BY ScorecardAssumption DEF ScorecardInit, NoJob
<1> QED
  BY <1>1, <1>2 DEF ScorecardInit, ScoreInv

LEMMA ScoreStep == ScoreInv /\ [ScorecardNext]_scorecardVars => ScoreInv'
<1> SUFFICES ASSUME ScoreInv, [ScorecardNext]_scorecardVars PROVE ScoreInv'
  OBVIOUS
<1>1. CASE NextWeek
  <2>1. /\ week' = week + 1 /\ week < LastWeek
        /\ UNCHANGED <<plans, saved, flushed, todo, done>>
    BY <1>1 DEF NextWeek
  <2>2. FactsInv'
    <3>1. PICK f \in [Campuses -> {[cost |-> 0, leads |-> 0], [cost |-> 1, leads |-> 0],
                                   [cost |-> 1, leads |-> 1]}] :
            facts' = [c \in Campuses |-> [facts[c] EXCEPT ![week] = f[c]]]
      BY <1>1 DEF NextWeek
    <3>2. \A c \in Campuses : f[c] \in Facts
      BY DEF Facts
    <3>3. facts' \in [Campuses -> [1..LastWeek -> Facts]]
      BY <3>1, <3>2 DEF ScoreInv, FactsInv
    <3>4. \A c \in Campuses : \A w \in 1..LastWeek : w > week => facts'[c][w] = facts[c][w]
      BY <3>1 DEF ScoreInv, FactsInv
    <3>5. week' \in Nat /\ week' >= 1
      BY <2>1 DEF ScoreInv, FactsInv
    <3>6. ASSUME NEW c \in Campuses, NEW w \in 1..LastWeek, w >= week', NEW what \in Measures
          PROVE  facts'[c][w][what] = 0
      <4>1. w > week /\ w >= week
        BY <2>1, <3>6 DEF ScoreInv, FactsInv
      <4>2. facts[c][w][what] = 0
        BY <3>6, <4>1 DEF ScoreInv, FactsInv
      <4>3. facts'[c][w] = facts[c][w]
        BY <3>4, <3>6, <4>1
      <4> QED
        BY <4>2, <4>3
    <3> QED
      BY <3>3, <3>5, <3>6 DEF FactsInv
  <2>3. \A s : Right(s, facts, week) => Right(s, facts', week')
    <3> SUFFICES ASSUME NEW s, Right(s, facts, week) PROVE Right(s, facts', week')
      OBVIOUS
    <3>1. s.campus \in Campuses /\ s.since \in Nat /\ s.at \in Nat /\ s.at <= week
      BY DEF Right, Snapshots
    <3>2. \A what \in Measures : SumBy(facts', s.campus, what, Weeks(s.since, s.at)) =
                                  SumBy(facts, s.campus, what, Weeks(s.since, s.at))
      BY <1>1, <3>1, PastStays DEF ScoreInv
    <3> QED
      BY <2>1, <3>1, <3>2 DEF Right, ScoreInv, FactsInv
  <2> QED
    <3>1. \A n \in 1..Len(plans) : plans[n].since <= week'
      <4>1. \A n \in 1..Len(plans) : plans[n].since \in Nat /\ plans[n].since <= week
        <5>1. \A n \in 1..Len(plans) : plans[n] \in [campus: Campuses, since: Nat]
          BY ElementOfSeq DEF ScoreInv
        <5> QED
          BY <5>1 DEF ScoreInv
      <4> QED
        BY <2>1, <4>1 DEF ScoreInv, FactsInv
    <3>2. \A n \in 1..Len(saved) : Right(saved[n], facts', week')
      BY <2>3 DEF ScoreInv
    <3> QED
      BY <2>1, <2>2, <3>1, <3>2 DEF ScoreInv, Found
<1>2. CASE NewPlan
  <2>1. PICK c \in Campuses : plans' = Append(plans, [campus |-> c, since |-> week])
    BY <1>2 DEF NewPlan
  <2>2. UNCHANGED <<week, facts, saved, flushed, todo, done>>
    BY <1>2 DEF NewPlan
  <2> DEFINE new == [campus |-> c, since |-> week]
  <2>3. new \in [campus: Campuses, since: Nat] /\ new.since <= week
    BY DEF ScoreInv, FactsInv
  <2> HIDE DEF new
  <2>4. /\ plans' \in Seq([campus: Campuses, since: Nat]) /\ Len(plans') = Len(plans) + 1
        /\ \A n \in 1..Len(plans) : plans'[n] = plans[n]
        /\ plans'[Len(plans) + 1] = new /\ Len(plans) \in Nat
        /\ DOMAIN plans = 1..Len(plans) /\ DOMAIN plans' = 1..Len(plans')
    BY <2>1, <2>3, AppendProperties, LenProperties DEF ScoreInv, new
  <2>5. \A d : Found(plans, d) \subseteq Found(plans, d)'
    BY <2>4 DEF Found
  <2>6. \A n \in 1..Len(plans') : plans'[n].since <= week
    <3>1. \A n \in 1..Len(plans') : n = Len(plans) + 1 \/ n \in 1..Len(plans)
      BY <2>4
    <3> QED
      BY <2>3, <2>4, <3>1 DEF ScoreInv
  <2>7. FactsInv'
    BY <2>2 DEF ScoreInv, FactsInv
  <2> QED
    BY <2>2, <2>4, <2>5, <2>6, <2>7 DEF ScoreInv
<1>3. CASE StartJob
  <2>1. /\ UNCHANGED <<week, facts, plans, saved, flushed>> /\ done' = {}
        /\ todo' = {p.campus : p \in ToSet(plans)}
    BY <1>3 DEF StartJob
  <2>2. \A c \in todo' \cap Campuses : Found(plans, c) # {}
    BY <2>1, ScorecardAssumption DEF Found, ToSet
  <2>3. FactsInv'
    BY <2>1 DEF ScoreInv, FactsInv
  <2> QED
    BY <2>1, <2>2, <2>3 DEF ScoreInv, Found
<1>4. ASSUME NEW c \in Campuses, SaveScorecard(c) PROVE ScoreInv'
  <2>1. /\ UNCHANGED <<week, facts, plans>> /\ c \in todo /\ done' = done \cup {c}
        /\ todo' = Rest(c) /\ flushed' = <<>>
        /\ saved' = saved \o Append(flushed, Snapshot(c))
    BY <1>4 DEF SaveScorecard, Committed
  <2> DEFINE new == Snapshot(c)
  <2>2. Right(new, facts, week) /\ new.at = week /\ new.campus = c
    BY <2>1, SnapshotRight
  <2> HIDE DEF new
  <2>3. new \in Snapshots
    BY <2>2 DEF Right
  <2>4. saved' = Append(saved, new)
    BY <2>1, <2>3 DEF ScoreInv, new
  <2>5. /\ saved' \in Seq(Snapshots) /\ Len(saved') = Len(saved) + 1
        /\ \A n \in 1..Len(saved) : saved'[n] = saved[n]
        /\ saved'[Len(saved) + 1] = new /\ Len(saved) \in Nat
    BY <2>3, <2>4, AppendProperties, LenProperties DEF ScoreInv
  <2>6. FactsInv'
    BY <2>1 DEF ScoreInv, FactsInv
  <2>7. \A n \in 1..Len(saved') : n \in 1..Len(saved) \/ saved'[n] = new
    BY <2>5
  <2>8. \A m, n \in 1..Len(saved') : m < n => saved'[m].at <= saved'[n].at
    <3>1. \A n \in 1..Len(saved) : saved[n].at <= new.at
      BY <2>2 DEF ScoreInv, Right
    <3>2. \A n \in 1..Len(saved') : n = Len(saved) + 1 \/ n \in 1..Len(saved)
      BY <2>5
    <3> SUFFICES ASSUME NEW m \in 1..Len(saved'), NEW n \in 1..Len(saved'), m < n
                 PROVE  saved'[m].at <= saved'[n].at
      OBVIOUS
    <3>3. m \in 1..Len(saved)
      BY <2>5, <3>2
    <3>4. CASE n = Len(saved) + 1
      BY <2>5, <3>1, <3>3, <3>4
    <3>5. CASE n \in 1..Len(saved)
      BY <2>5, <3>3, <3>5 DEF ScoreInv
    <3> QED
      BY <3>2, <3>4, <3>5
  <2>9. \A d \in todo' \cap Campuses : d \in todo
    BY <2>1, ScorecardAssumption DEF Rest, NoJob
  <2>10. \A d \in done' : \E n \in 1..Len(saved') : saved'[n].campus = d
    BY <2>1, <2>2, <2>5 DEF ScoreInv
  <2> QED
    <3>1. \A n \in 1..Len(saved') : Right(saved'[n], facts', week')
      BY <2>1, <2>2, <2>5, <2>7 DEF ScoreInv
    <3>2. \A d \in todo' \cap Campuses : Found(plans', d) # {}
      BY <2>1, <2>9 DEF ScoreInv
    <3> QED
      BY <2>1, <2>5, <2>6, <2>8, <2>10, <3>1, <3>2 DEF ScoreInv
<1>5. ASSUME NEW c \in Campuses, FailScorecard(c) PROVE ScoreInv'
  <2>1. UNCHANGED <<week, facts, plans, saved, done>> /\ flushed' = <<>> /\ todo' = Rest(c)
    BY <1>5 DEF FailScorecard
  <2>2. \A d \in todo' \cap Campuses : d \in todo
    BY <2>1, ScorecardAssumption DEF Rest, NoJob
  <2>3. FactsInv'
    BY <2>1 DEF ScoreInv, FactsInv
  <2> QED
    BY <2>1, <2>2, <2>3 DEF ScoreInv, Found
<1>6. CASE UNCHANGED scorecardVars
  BY <1>6 DEF scorecardVars, ScoreInv, FactsInv, Found, Right, Sum
<1> QED
  BY <1>1, <1>2, <1>3, <1>4, <1>5, <1>6 DEF ScorecardNext

ScorecardSpec == ScorecardInit /\ [][ScorecardNext]_scorecardVars

\* A campus that fails takes no other campus's snapshot along: save_scorecard commits each.
THEOREM SnapshotsSurvive == ScorecardSpec => []OthersSurvive
<1>1. ScoreInv => OthersSurvive
  BY LenProperties DEF ScoreInv, OthersSurvive, ToSet
<1> QED
  BY <1>1, ScoreInit, ScoreStep, PTL DEF ScorecardSpec

\* The alert is right between two snapshots of one campus under one plan, whatever other
\* campuses the name of this one is a part of.
THEOREM AlertsTrue == ScorecardSpec => []AlertsRight
<1>1. ScoreInv => AlertsRight
  <2> SUFFICES ASSUME ScoreInv, NEW c \in Campuses, Comparable(c),
                      Current(c).campus = c, Earlier(c).campus = c,
                      Current(c).since = Earlier(c).since
               PROVE  Warned(c) <=>
                        /\ Between(c, "cost", Earlier(c).at, Current(c).at) > 0
                        /\ Between(c, "leads", Earlier(c).at, Current(c).at) = 0
    BY DEF AlertsRight
  <2> DEFINE P == Found(saved, c)
             cur == Current(c)
             prev == Earlier(c)
  <2>1. P \subseteq 1..Len(saved) /\ IsFiniteSet(P) /\ Len(saved) \in Nat
    BY FoundFinite DEF ScoreInv
  <2>2. Cardinality(P) >= 2
    BY DEF Comparable
  <2>3. P # {}
    BY <2>2, FS_EmptySet
  <2> HIDE DEF P
  <2>4. Max(P) \in P /\ \A n \in P : Max(P) >= n
    <3>1. \A n \in P : n \in Nat
      BY <2>1
    <3> QED
      BY <2>1, <2>3, <3>1, NewestIs
  <2> DEFINE Q == P \ {Max(P)}
  <2>5. Q # {} /\ IsFiniteSet(Q) /\ Q \in SUBSET Nat
    <3>1. IsFiniteSet(Q) /\ Cardinality(Q) = Cardinality(P) - 1
      BY <2>1, <2>4, FS_RemoveElement
    <3>2. Cardinality(P) \in Nat
      BY <2>1, FS_CardinalityType
    <3> QED
      <4>1. Cardinality(Q) >= 1
        BY <2>2, <3>1, <3>2
      <4>2. Q # {}
        BY <4>1, FS_EmptySet
      <4>3. Q \in SUBSET Nat
        <5>1. \A n \in 1..Len(saved) : n \in Nat
          OBVIOUS
        <5> QED
          BY <2>1, <5>1
      <4> QED
        BY <3>1, <4>2, <4>3
  <2>6. Max(Q) \in Q
    BY <2>5, NewestIs
  <2>7. cur = saved[Max(P)] /\ prev = saved[Max(Q)]
    BY DEF Current, Earlier, Newest, Previous, P
  <2> HIDE DEF Q
  <2>8. Max(P) \in 1..Len(saved) /\ Max(Q) \in 1..Len(saved) /\ Max(Q) < Max(P)
    BY <2>1, <2>4, <2>6 DEF Q
  <2>9. Right(cur, facts, week) /\ Right(prev, facts, week) /\ prev.at <= cur.at
    BY <2>7, <2>8 DEF ScoreInv
  <2> HIDE DEF cur, prev
  <2>10. /\ prev.since \in Nat /\ prev.at \in Nat /\ cur.at \in Nat /\ prev.since <= prev.at
         /\ prev.campus = c /\ cur.campus = c /\ cur.since = prev.since
    BY <2>9 DEF Right, Snapshots, cur, prev
  <2>11. \A what \in Measures :
           /\ cur[what] = prev[what] + Between(c, what, prev.at, cur.at)
           /\ prev[what] \in Nat /\ Between(c, what, prev.at, cur.at) \in Nat
    <3> SUFFICES ASSUME NEW what \in Measures
                 PROVE  /\ cur[what] = prev[what] + Between(c, what, prev.at, cur.at)
                        /\ prev[what] \in Nat /\ Between(c, what, prev.at, cur.at) \in Nat
      OBVIOUS
    <3>1. Between(c, what, prev.at, cur.at) = Sum(c, what, Weeks(prev.at, cur.at))
      BY DEF Between, Weeks
    <3>2. /\ cur[what] = Sum(c, what, Weeks(prev.since, cur.at))
          /\ prev[what] = Sum(c, what, Weeks(prev.since, prev.at))
      BY <2>9, <2>10, SumTotal DEF Right
    <3>3. /\ Sum(c, what, Weeks(prev.since, cur.at)) =
               Sum(c, what, Weeks(prev.since, prev.at)) + Sum(c, what, Weeks(prev.at, cur.at))
          /\ Sum(c, what, Weeks(prev.since, prev.at)) \in Nat
          /\ Sum(c, what, Weeks(prev.at, cur.at)) \in Nat
      BY <2>9, <2>10, SumSplits DEF ScoreInv
    <3> QED
      BY <3>1, <3>2, <3>3
  <2>12. Warned(c) <=> cur["cost"] > prev["cost"] /\ cur["leads"] <= prev["leads"]
    BY DEF Warned, NoNewLeads, cur, prev
  <2> QED
    BY <2>11, <2>12 DEF Measures, cur, prev
<1> QED
  BY <1>1, ScoreInit, ScoreStep, PTL DEF ScorecardSpec

(* Users and their access.                                                *)

Rows == [who: SUBSET People, role: {"admin", "manager"}, active: BOOLEAN]

\* What a thread of admin_users has been permitted to do.
Ordered(r) ==
  /\ r.op \in Operations => r.by \in Ids /\ r.user \in Ids /\ Permitted(r.by, r.op, r.user)
  /\ r.op = "signin" => r.who \in People /\ \A f \in r.found : f.id \in Ids

\* The inductive invariant: AdminRemains does not say that the checks against locking
\* oneself out have been made for what is still to be written.
AccessInv ==
  /\ users \in [Ids -> Rows]
  /\ DOMAIN request = AccessThreads
  /\ \A t \in AccessThreads : Ordered(request[t])
  /\ AdminRemains

\* A request of any kind but these orders nothing.
LEMMA NothingOrdered ==
  ASSUME NEW r, r.op \notin Operations, r.op # "signin"
  PROVE  Ordered(r)
  BY DEF Ordered

\* A thread that comes to rest, or replaces grants, leaves the others as they are.
LEMMA OneThread ==
  ASSUME AccessInv, NEW t \in AccessThreads, NEW r, Ordered(r),
         request' = [request EXCEPT ![t] = r]
  PROVE  DOMAIN request' = AccessThreads /\ \A s \in AccessThreads : Ordered(request'[s])
<1>1. \A s \in AccessThreads : request'[s] = IF s = t THEN r ELSE request[s]
  BY DEF AccessInv
<1> QED
  BY <1>1 DEF AccessInv

LEMMA InitAccess == AccessInit => AccessInv
<1> SUFFICES ASSUME AccessInit PROVE AccessInv
  OBVIOUS
<1>1. PICK p \in AdminEmails : users = [i \in Ids |-> IF i = 1 THEN Row(p, "admin") ELSE NoUser]
  BY DEF AccessInit
<1>2. 1 \in Ids
  BY AccessAssumption DEF Ids
<1>3. users \in [Ids -> Rows]
  BY <1>1, AccessAssumption DEF Row, NoUser, Rows
<1>4. IsAdmin(1)
  BY <1>1, <1>2 DEF IsAdmin, Exists, Row, NoUser, Removed
<1>5. \A t \in AccessThreads : Ordered(request[t])
  BY NothingOrdered DEF AccessInit, NoRequest, Operations
<1> QED
  BY <1>2, <1>3, <1>4, <1>5 DEF AccessInv, AccessInit, AdminRemains

\* Signing in makes admins and unmakes none.
LEMMA SignInStep ==
  ASSUME AccessInv, NEW t \in AccessThreads, SignIn(t)
  PROVE  AccessInv'
<1> DEFINE p == request[t].who
<1>1. p \in People /\ \A f \in request[t].found : f.id \in Ids
  BY DEF SignIn, AccessInv, Ordered
<1>2. users' \in [Ids -> Rows] /\ \A i \in Ids : IsAdmin(i) => IsAdmin(i)'
  <2>1. CASE Insert(p)
    <3>1. PICK i \in Ids : users[i] = NoUser /\ users' = [users EXCEPT ![i] = Row(p, Listed(p))]
      BY <2>1 DEF Insert
    <3>2. Row(p, Listed(p)) \in Rows
      BY <1>1 DEF Row, Listed, Rows
    <3> QED
      BY <3>1, <3>2 DEF AccessInv, IsAdmin, Exists
  <2>2. ASSUME NEW f \in request[t].found, Refresh(f, p)
        PROVE  users' \in [Ids -> Rows] /\ \A i \in Ids : IsAdmin(i) => IsAdmin(i)'
    <3>1. /\ f.id \in Ids
          /\ users' = [users EXCEPT ![f.id] = Refreshed(users[f.id], f.role, p)]
      BY <1>1, <2>2 DEF Refresh
    <3>2. ASSUME NEW row \in Rows
          PROVE  /\ Refreshed(row, f.role, p) \in Rows
                 /\ row.role = "admin" => Refreshed(row, f.role, p) = row
      BY DEF Refreshed, Rows
    <3>3. users[f.id] \in Rows
      BY <3>1 DEF AccessInv
    <3> QED
      BY <3>1, <3>2, <3>3 DEF AccessInv, IsAdmin, Exists
  <2> QED
    BY <2>1, <2>2 DEF SignIn
<1>3. AdminRemains'
  BY <1>2 DEF SignIn, AccessInv, AdminRemains
<1>4. Ordered(NoRequest)
  BY NothingOrdered DEF NoRequest, Operations
<1> QED
  BY <1>2, <1>3, <1>4, OneThread DEF SignIn, AccessInv

\* A change by an admin leaves that admin one, unless it is the own role that is given up.
LEMMA ApplyStep ==
  ASSUME AccessInv, NEW t \in AccessThreads, Apply(t)
  PROVE  AccessInv'
<1>1. PICK i \in Ids, j \in Ids, op \in Operations :
        i = request[t].by /\ j = request[t].user /\ op = request[t].op /\ Permitted(i, op, j)
  BY DEF Apply, AccessInv, Ordered
<1>2. /\ users' = [users EXCEPT ![j] = Changed(users[j], op)]
      /\ demoted' = (demoted \/ (op = "demote" /\ i = j))
      /\ overtaken' = (overtaken \/ ~IsAdmin(i))
      /\ request' = [request EXCEPT ![t] = NoRequest]
  BY <1>1 DEF Apply
<1>3. users[j] \in Rows
  BY DEF AccessInv
<1>4. Changed(users[j], op) \in Rows
  BY <1>3 DEF Changed, Operations, Rows, Removed
<1>5. users' \in [Ids -> Rows]
  BY <1>2, <1>4 DEF AccessInv
<1>6. AdminRemains'
  <2> SUFFICES ASSUME IsAdmin(i), ~(op = "demote" /\ i = j)
               PROVE  IsAdmin(i)'
    BY <1>2 DEF AdminRemains
  <2>1. users'[i] = users[i]
    <3>1. CASE i # j
      BY <1>2, <3>1 DEF AccessInv
    <3>2. CASE i = j
      <4>1. op \in {"promote", "enable"}
        BY <1>1, <3>2 DEF Permitted, Operations
      <4>2. Changed(users[j], op) = users[j]
        BY <1>3, <3>2, <4>1 DEF Changed, IsAdmin, Rows
      <4> QED
        BY <1>2, <3>2, <4>2 DEF AccessInv
    <3> QED
      BY <3>1, <3>2
  <2> QED
    BY <2>1 DEF IsAdmin, Exists
<1>7. Ordered(NoRequest)
  BY NothingOrdered DEF NoRequest, Operations
<1> QED
  BY <1>2, <1>5, <1>6, <1>7, OneThread DEF AccessInv

\* Every other step reads, changes grants or gives up.
LEMMA AccessStep == AccessInv /\ [AccessNext]_accessVars => AccessInv'
<1> SUFFICES ASSUME AccessInv, [AccessNext]_accessVars PROVE AccessInv'
  OBVIOUS
<1>1. ASSUME NEW t \in AccessThreads, NEW r, Ordered(r),
             request' = [request EXCEPT ![t] = r], UNCHANGED <<users, demoted, overtaken>>
      PROVE  AccessInv'
  BY <1>1, OneThread DEF AccessInv, AdminRemains, IsAdmin, Exists
<1>2. ASSUME NEW t \in AccessThreads, FindSignIn(t) PROVE AccessInv'
  <2>1. PICK p \in People :
          request' = [request EXCEPT ![t] =
            [op |-> "signin", who |-> p,
             found |-> {[id |-> i, role |-> users[i].role] :
                          i \in {j \in Ids : users[j].who = {p}}}]]
    BY <1>2 DEF FindSignIn
  <2> DEFINE found == {[id |-> i, role |-> users[i].role] :
                          i \in {j \in Ids : users[j].who = {p}}}
  <2>2. \A f \in found : f.id \in Ids
    OBVIOUS
  <2> HIDE DEF found
  <2>3. Ordered([op |-> "signin", who |-> p, found |-> found])
    BY <2>2 DEF Ordered, Operations
  <2>4. UNCHANGED <<users, demoted, overtaken>>
    BY <1>2 DEF FindSignIn
  <2> QED
    BY <1>1, <2>1, <2>3, <2>4 DEF found
<1>3. ASSUME NEW t \in AccessThreads, Authorise(t) PROVE AccessInv'
  <2>1. PICK i \in Ids, j \in Ids, op \in Operations :
          /\ Permitted(i, op, j)
          /\ request' = [request EXCEPT ![t] = [op |-> op, by |-> i, user |-> j]]
    BY <1>3 DEF Authorise
  <2>2. Ordered([op |-> op, by |-> i, user |-> j])
    BY <2>1 DEF Ordered, Operations
  <2> QED
    BY <1>1, <1>3, <2>1, <2>2 DEF Authorise
<1>4. ASSUME NEW t \in AccessThreads, Revoke(t) PROVE AccessInv'
  <2>1. PICK r : r.op = "grant" /\ request' = [request EXCEPT ![t] = r]
    BY <1>4 DEF Revoke
  <2>2. Ordered(r)
    BY <2>1, NothingOrdered DEF Operations
  <2> QED
    BY <1>1, <1>4, <2>1, <2>2 DEF Revoke
<1>5. ASSUME NEW t \in AccessThreads, Grant(t) \/ Abandon(t) PROVE AccessInv'
  <2>1. Ordered(NoRequest)
    BY NothingOrdered DEF NoRequest, Operations
  <2> QED
    BY <1>1, <1>5, <2>1 DEF Grant, Abandon
<1>6. CASE UNCHANGED accessVars
  BY <1>6 DEF accessVars, AccessInv, AdminRemains, IsAdmin, Exists
<1> QED
  BY <1>2, <1>3, <1>4, <1>5, <1>6, SignInStep, ApplyStep DEF AccessNext

-----------------------------------------------------------------------------
\* Somebody can always manage the users: the check that nobody disables or removes the
\* own account (admin_users.py) keeps an active admin through every order of sign-ins,
\* promotions, demotions and removals, unless an admin gives up the own role or a request
\* is overtaken by one that unmakes the admin who sent it.
THEOREM AccessKept == AccessSpec => []AdminRemains
<1>1. AccessInv => AdminRemains
  BY DEF AccessInv
<1> QED
  BY <1>1, InitAccess, AccessStep, PTL DEF AccessSpec

-----------------------------------------------------------------------------
(* The grants.  GrantsOfOneRequest does not say that a replacement deletes  *)
(* all there is: what it read is still what the user has, unless the user   *)
(* is gone or another replacement has begun meanwhile.                      *)

\* Thread t is replacing the grants of a user.
Granting(t) == request[t].op = "grant"

\* It was the only one, and what it is about to delete is what the user has.
Alone(t) ==
  LET j == request[t].user
  IN  /\ j \in Ids /\ users[j] # NoUser
      /\ \A g \in request[t].read : g.user = j
      /\ j \notin mixed =>
           /\ \A s \in AccessThreads : Granting(s) /\ request[s].user = j => s = t
           /\ Exists(j) => request[t].read = GrantsOf(j)

GrantInv ==
  /\ AccessInv
  /\ DOMAIN latest = Ids
  /\ \A i \in Ids : Exists(i) => users[i].who # {}
  /\ \A t \in AccessThreads : Granting(t) => Alone(t)
  /\ GrantsOfOneRequest

\* Users come and go, but no key is given out twice.
Onward ==
  \A i \in Ids : /\ Exists(i)' => users'[i].who # {}
                 /\ users[i] # NoUser => users'[i] # NoUser /\ (Exists(i)' => Exists(i))

LEMMA SignInOnward ==
  ASSUME GrantInv, NEW t \in AccessThreads, SignIn(t)
  PROVE  Onward
<1> DEFINE p == request[t].who
<1>1. CASE Insert(p)
  <2>1. PICK i \in Ids : users[i] = NoUser /\ users' = [users EXCEPT ![i] = Row(p, Listed(p))]
    BY <1>1 DEF Insert
  <2>2. Row(p, Listed(p)).who # {}
    BY DEF Row
  <2> QED
    BY <2>1, <2>2 DEF GrantInv, AccessInv, Onward, Exists
<1>2. ASSUME NEW f \in request[t].found, Refresh(f, p) PROVE Onward
  <2>1. /\ f.id \in Ids /\ Exists(f.id)
        /\ users' = [users EXCEPT ![f.id] = Refreshed(users[f.id], f.role, p)]
    BY <1>2 DEF Refresh, SignIn, GrantInv, AccessInv, Ordered
  <2>2. users[f.id] \in Rows /\ users[f.id].who # {}
    BY <2>1 DEF GrantInv, AccessInv
  <2>3. Refreshed(users[f.id], f.role, p).who # {}
    BY <2>2 DEF Refreshed, Rows
  <2>4. Refreshed(users[f.id], f.role, p) # NoUser
    BY <2>3 DEF NoUser
  <2> QED
    BY <2>1, <2>3, <2>4 DEF GrantInv, AccessInv, Onward, Exists
<1> QED
  BY <1>1, <1>2 DEF SignIn

LEMMA ApplyOnward ==
  ASSUME GrantInv, NEW t \in AccessThreads, Apply(t)
  PROVE  /\ Onward
         /\ request[t].op = "remove" => users'[request[t].user] = Removed
<1> DEFINE j == request[t].user
           new == Changed(users[j], request[t].op)
<1>1. /\ j \in Ids /\ Exists(j) /\ request[t].op \in Operations
      /\ users' = [users EXCEPT ![j] = new]
  BY DEF Apply, GrantInv, AccessInv, Ordered
<1>2. users[j] \in Rows /\ users[j].who # {}
  BY <1>1 DEF GrantInv, AccessInv
<1>3. IF request[t].op = "remove" THEN new = Removed ELSE new.who # {}
  BY <1>1, <1>2 DEF Changed, Operations, Rows
<1>4. new # NoUser
  BY <1>3 DEF Removed, NoUser
<1> HIDE DEF new
<1>5. \A i \in Ids : users'[i] = IF i = j THEN new ELSE users[i]
  BY <1>1 DEF GrantInv, AccessInv
<1>6. request[t].op # "remove" => new.who # {}
  BY <1>3
<1>7. request[t].op = "remove" => new = Removed
  BY <1>3
<1>8. Onward
  BY <1>1, <1>4, <1>5, <1>6, <1>7 DEF GrantInv, Onward, Exists
<1> QED
  BY <1>1, <1>5, <1>7, <1>8

\* A step that begins no replacement and leaves the grants alone.
LEMMA GrantFrame ==
  ASSUME GrantInv, AccessInv', Onward, NEW t \in AccessThreads, NEW r, r.op # "grant",
         request' = [request EXCEPT ![t] = r], UNCHANGED <<grants, latest, mixed>>
  PROVE  GrantInv'
<1>1. \A s \in AccessThreads : request'[s] = IF s = t THEN r ELSE request[s]
  BY DEF GrantInv, AccessInv
<1>2. ASSUME NEW s \in AccessThreads, Granting(s)' PROVE Alone(s)'
  <2>1. Granting(s) /\ Alone(s) /\ request'[s] = request[s]
    BY <1>1, <1>2 DEF Granting, GrantInv
  <2>2. \A q \in AccessThreads : Granting(q)' => Granting(q) /\ request'[q] = request[q]
    BY <1>1 DEF Granting
  <2> QED
    BY <2>1, <2>2 DEF Alone, Onward, GrantsOf
<1> QED
  BY <1>2 DEF GrantInv, GrantsOfOneRequest, GrantsOf, Onward

\* Removing a user takes the grants of that user along, and no others.
LEMMA RemoveStep ==
  ASSUME GrantInv, AccessInv', NEW t \in AccessThreads, Apply(t), request[t].op = "remove"
  PROVE  GrantInv'
<1> DEFINE j == request[t].user
<1>1. /\ j \in Ids
      /\ grants' = grants \ GrantsOf(j) /\ latest' = [latest EXCEPT ![j] = {}]
      /\ request' = [request EXCEPT ![t] = NoRequest] /\ mixed' = mixed
  BY DEF Apply, GrantInv, AccessInv, Ordered
<1>2. Onward /\ users'[j] = Removed
  BY ApplyOnward
<1>3. \A i : GrantsOf(i)' = IF i = j THEN {} ELSE GrantsOf(i)
  BY <1>1 DEF GrantsOf
<1>4. \A s \in AccessThreads : request'[s] = IF s = t THEN NoRequest ELSE request[s]
  BY <1>1 DEF GrantInv, AccessInv
<1>5. ASSUME NEW s \in AccessThreads, Granting(s)' PROVE Alone(s)'
  <2>1. Granting(s) /\ Alone(s) /\ request'[s] = request[s]
    BY <1>4, <1>5 DEF Granting, GrantInv, NoRequest
  <2>2. \A q \in AccessThreads : Granting(q)' => Granting(q) /\ request'[q] = request[q]
    BY <1>4 DEF Granting, NoRequest
  <2>3. PICK i \in Ids : i = request[s].user /\ i = request'[s].user
    BY <2>1 DEF Alone
  <2>4. Exists(i)' => Exists(i) /\ GrantsOf(i)' = GrantsOf(i)
    BY <1>2, <1>3, <2>1, <2>3 DEF Onward, Alone, Exists
  <2>5. users'[i] # NoUser
    BY <1>2, <2>1, <2>3 DEF Onward, Alone
  <2> QED
    BY <1>1, <2>1, <2>2, <2>3, <2>4, <2>5 DEF Alone
<1>6. GrantsOfOneRequest'
  <2> SUFFICES ASSUME NEW i \in Ids \ mixed
               PROVE  {g.account : g \in GrantsOf(i)'} = latest'[i]
    BY <1>1 DEF GrantsOfOneRequest
  <2>1. {g.account : g \in GrantsOf(i)} = latest[i]
    BY DEF GrantInv, GrantsOfOneRequest
  <2> QED
    BY <1>1, <1>3, <2>1 DEF GrantInv
<1> QED
  BY <1>1, <1>2, <1>5, <1>6 DEF GrantInv, Onward

\* A replacement that begins while none of the same user is under way has read all.
LEMMA RevokeStep ==
  ASSUME GrantInv, AccessInv', NEW t \in AccessThreads, Revoke(t)
  PROVE  GrantInv'
<1>1. PICK j \in Ids, accounts \in SUBSET AccountIds :
        /\ Exists(j)
        /\ request' = [request EXCEPT ![t] = [op |-> "grant", user |-> j, accounts |-> accounts,
                                              read |-> GrantsOf(j)]]
        /\ mixed' = IF \E s \in AccessThreads : request[s].op = "grant" /\ request[s].user = j
                     THEN mixed \cup {j} ELSE mixed
  BY DEF Revoke
<1> DEFINE r == [op |-> "grant", user |-> j, accounts |-> accounts, read |-> GrantsOf(j)]
<1>2. r.op = "grant" /\ r.user = j /\ r.read = GrantsOf(j)
  OBVIOUS
<1>3. UNCHANGED <<users, grants, latest>>
  BY DEF Revoke
<1>4. \A s \in AccessThreads : request'[s] = IF s = t THEN r ELSE request[s]
  BY <1>1 DEF GrantInv, AccessInv
<1> HIDE DEF r
<1>5. mixed \subseteq mixed'
  BY <1>1
<1>6. ASSUME NEW s \in AccessThreads, s # t, Granting(s), request[s].user = j
      PROVE  j \in mixed'
  BY <1>1, <1>6 DEF Granting
<1>7. ASSUME NEW s \in AccessThreads, Granting(s)' PROVE Alone(s)'
  <2>1. CASE s = t
    <3>1. request'[s] = r
      BY <1>4, <2>1
    <3>2. users[j] # NoUser /\ \A g \in GrantsOf(j) : g.user = j
      BY <1>1 DEF Exists, GrantsOf
    <3>3. \A q \in AccessThreads : q # t /\ Granting(q)' /\ request'[q].user = j => j \in mixed'
      BY <1>4, <1>6 DEF Granting
    <3> QED
      BY <1>2, <1>3, <2>1, <3>1, <3>2, <3>3 DEF Alone, GrantsOf, Exists
  <2>2. CASE s # t
    <3>1. Granting(s) /\ Alone(s) /\ request'[s] = request[s]
      BY <1>4, <1>7, <2>2 DEF Granting, GrantInv
    <3>2. \A q \in AccessThreads :
            Granting(q)' /\ request'[q].user = request[s].user /\ request[s].user \notin mixed'
              => q = s
      <4> SUFFICES ASSUME NEW q \in AccessThreads, Granting(q)', q # s,
                          request'[q].user = request[s].user
                   PROVE  request[s].user \in mixed'
        OBVIOUS
      <4>1. CASE q = t
        BY <1>2, <1>4, <1>6, <2>2, <3>1, <4>1
      <4>2. CASE q # t
        <5>1. Granting(q) /\ request[q].user = request[s].user
          BY <1>4, <4>2 DEF Granting
        <5> QED
          BY <1>5, <3>1, <5>1 DEF Alone
      <4> QED
        BY <4>1, <4>2
    <3> QED
      BY <1>3, <1>5, <3>1, <3>2 DEF Alone, GrantsOf, Exists
  <2> QED
    BY <2>1, <2>2
<1> QED
  BY <1>3, <1>5, <1>7 DEF GrantInv, GrantsOfOneRequest, GrantsOf, Exists

\* A replacement that nobody has overlapped leaves the accounts it was asked for.
LEMMA GrantStep ==
  ASSUME GrantInv, AccessInv', NEW t \in AccessThreads, Grant(t)
  PROVE  GrantInv'
<1> DEFINE r == request[t]
           new == {[user |-> r.user, account |-> a, by |-> changes + 1] : a \in r.accounts}
<1>1. /\ Exists(r.user)
      /\ grants' = Kept(r.read) \cup new
      /\ latest' = [latest EXCEPT ![r.user] = r.accounts]
      /\ request' = [request EXCEPT ![t] = NoRequest]
      /\ UNCHANGED <<users, mixed>>
  BY DEF Grant
<1>2. Granting(t) /\ Alone(t)
  BY DEF Grant, Granting, GrantInv
<1>3. \A g \in new : g.user = r.user
  OBVIOUS
<1>4. {g.account : g \in new} = r.accounts
  <2>1. ASSUME NEW a \in r.accounts PROVE \E g \in new : g.account = a
    <3>1. WITNESS [user |-> r.user, account |-> a, by |-> changes + 1] \in new
    <3> QED
      OBVIOUS
  <2>2. \A g \in new : g.account \in r.accounts
    OBVIOUS
  <2> HIDE DEF new
  <2> QED
    BY <2>1, <2>2
<1> HIDE DEF new
<1>5. \A s \in AccessThreads : request'[s] = IF s = t THEN NoRequest ELSE request[s]
  BY <1>1 DEF GrantInv, AccessInv
<1>6. \A i \in Ids : i # r.user => GrantsOf(i)' = GrantsOf(i)
  BY <1>1, <1>2, <1>3 DEF GrantsOf, Kept, Alone
<1>7. PICK j \in Ids : j = r.user
  BY <1>2 DEF Alone
<1>8. j \notin mixed => GrantsOf(j)' = new
  <2> SUFFICES ASSUME j \notin mixed PROVE GrantsOf(j)' = new
    OBVIOUS
  <2>1. r.read = {g \in grants : g.user = j}
    BY <1>1, <1>2, <1>7 DEF Alone, GrantsOf
  <2> QED
    BY <1>1, <1>3, <1>7, <2>1 DEF GrantsOf, Kept
<1>9. ASSUME NEW s \in AccessThreads, Granting(s)' PROVE Alone(s)'
  <2>1. s # t /\ Granting(s) /\ Alone(s) /\ request'[s] = request[s]
    BY <1>5, <1>9 DEF Granting, GrantInv, NoRequest
  <2>2. \A q \in AccessThreads : Granting(q)' => Granting(q) /\ request'[q] = request[q]
    BY <1>5 DEF Granting, NoRequest
  <2>3. request[s].user \in mixed \/ request[s].user # r.user
    BY <1>2, <2>1 DEF Alone
  <2> QED
    BY <1>1, <1>6, <2>1, <2>2, <2>3 DEF Alone, Exists
<1>10. GrantsOfOneRequest'
  <2> SUFFICES ASSUME NEW i \in Ids \ mixed
               PROVE  {g.account : g \in GrantsOf(i)'} = latest'[i]
    BY <1>1 DEF GrantsOfOneRequest
  <2>1. {g.account : g \in GrantsOf(i)} = latest[i]
    BY DEF GrantInv, GrantsOfOneRequest
  <2> QED
    BY <1>1, <1>4, <1>6, <1>7, <1>8, <2>1 DEF GrantInv
<1> QED
  BY <1>1, <1>9, <1>10 DEF GrantInv, Exists

LEMMA GrantInvStep == GrantInv /\ [AccessNext]_accessVars => GrantInv'
<1> SUFFICES ASSUME GrantInv, [AccessNext]_accessVars PROVE GrantInv'
  OBVIOUS
<1>1. AccessInv'
  BY AccessStep DEF GrantInv
<1>2. ASSUME NEW t \in AccessThreads, FindSignIn(t) \/ Authorise(t) \/ Abandon(t)
      PROVE  GrantInv'
  <2>1. PICK r : r.op # "grant" /\ request' = [request EXCEPT ![t] = r]
    BY <1>2 DEF FindSignIn, Authorise, Abandon, NoRequest, Operations
  <2>2. UNCHANGED <<users, grants, latest, mixed>>
    BY <1>2 DEF FindSignIn, Authorise, Abandon
  <2>3. Onward
    BY <2>2 DEF GrantInv, Onward, Exists
  <2> QED
    BY <1>1, <2>1, <2>2, <2>3, GrantFrame
<1>3. ASSUME NEW t \in AccessThreads, SignIn(t) PROVE GrantInv'
  BY <1>1, <1>3, SignInOnward, GrantFrame DEF SignIn, NoRequest
<1>4. ASSUME NEW t \in AccessThreads, Apply(t) PROVE GrantInv'
  <2>1. CASE request[t].op = "remove"
    BY <1>1, <1>4, <2>1, RemoveStep
  <2>2. CASE request[t].op # "remove"
    BY <1>1, <1>4, <2>2, ApplyOnward, GrantFrame DEF Apply, NoRequest
  <2> QED
    BY <2>1, <2>2
<1>5. CASE UNCHANGED accessVars
  BY <1>1, <1>5 DEF accessVars, GrantInv, Granting, Alone, GrantsOfOneRequest, GrantsOf, Exists
<1> QED
  BY <1>1, <1>2, <1>3, <1>4, <1>5, RevokeStep, GrantStep DEF AccessNext

\* The accounts of a user are those of the newest replacement, whoever is removed or has
\* the role changed in between, unless two replacements of that user's grants overlapped
\* (set_accounts deletes what it sees, then inserts).
THEOREM GrantsKept == AccessSpec => []GrantsOfOneRequest
<1>1. AccessInit => GrantInv
  <2> SUFFICES ASSUME AccessInit PROVE GrantInv
    OBVIOUS
  <2>1. \A i \in Ids : Exists(i) => users[i].who # {}
    BY DEF AccessInit, Exists, Row
  <2>2. \A t \in AccessThreads : ~Granting(t)
    BY DEF AccessInit, Granting, NoRequest
  <2>3. DOMAIN latest = Ids /\ GrantsOfOneRequest
    BY DEF AccessInit, GrantsOfOneRequest, GrantsOf
  <2> QED
    BY <2>1, <2>2, <2>3, InitAccess DEF GrantInv
<1>2. GrantInv => GrantsOfOneRequest
  BY DEF GrantInv
<1> QED
  BY <1>1, <1>2, GrantInvStep, PTL DEF AccessSpec

=============================================================================
