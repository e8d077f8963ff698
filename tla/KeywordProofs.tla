---------------------------- MODULE KeywordProofs ----------------------------
(***************************************************************************)
(* The ad groups of a plan are those of the keywords that its reviewer is  *)
(* shown, and an import leaves to every keyword what was decided about it: *)
(* for any keywords, prices, scores, limits, lists and managers.           *)
(***************************************************************************)
EXTENDS KeywordPlan, DataLemmas

-----------------------------------------------------------------------------
(* Keywords.                                                               *)

Fields == {"word", "intent", "match", "low", "high"}

IsKeywords(list) == IsList(list) /\ \A n \in DOMAIN list : Fields \subseteq DOMAIN list[n]

\* The intent and the match type that an override leaves or sets.
IntentUnder(intent, o) == IF o.intent # "" THEN o.intent ELSE intent

MatchUnder(match, o) == IF o.match # "" THEN o.match ELSE match

\* What an override leaves of a keyword and what it sets.
LEMMA OverriddenIs ==
  ASSUME NEW k, Fields \subseteq DOMAIN k, NEW overrides
  PROVE  /\ Fields \subseteq DOMAIN Overridden(k, overrides)
         /\ Overridden(k, overrides).word = k.word
         /\ Overridden(k, overrides).low = k.low
         /\ Overridden(k, overrides).high = k.high
         /\ Overridden(k, overrides).intent = IntentUnder(k.intent, Chosen(overrides, k.word))
         /\ Overridden(k, overrides).match = MatchUnder(k.match, Chosen(overrides, k.word))
<1> DEFINE o == Chosen(overrides, k.word)
<1>1. Overridden(k, overrides) =
        [k EXCEPT !.intent = IF o.intent # "" THEN o.intent ELSE @,
                  !.match  = IF o.match # "" THEN o.match ELSE @]
  BY DEF Overridden
<1> HIDE DEF o
<1> QED
  BY <1>1 DEF Fields, IntentUnder, MatchUnder, o

\* Bids are filled in, and nothing else is touched.
LEMMA FilledIs ==
  ASSUME NEW list, IsKeywords(list)
  PROVE  /\ IsKeywords(FillBidGaps(list)) /\ DOMAIN FillBidGaps(list) = DOMAIN list
         /\ \A n \in DOMAIN list : \A f \in Fields : FillBidGaps(list)[n][f] = list[n][f]
<1>1. /\ DOMAIN FillBidGaps(list) = DOMAIN list
      /\ FillBidGaps(list) = [n \in DOMAIN list |-> FillBidGaps(list)[n]]
  BY DEF FillBidGaps
<1>2. IsList(FillBidGaps(list))
  BY <1>1 DEF IsKeywords, IsList
<1>3. ASSUME NEW n \in DOMAIN list
      PROVE  \/ FillBidGaps(list)[n] = list[n]
             \/ \E b : FillBidGaps(list)[n] = [list[n] EXCEPT !.bid = b]
  BY DEF FillBidGaps
<1>4. ASSUME NEW n \in DOMAIN list
      PROVE  /\ Fields \subseteq DOMAIN FillBidGaps(list)[n]
             /\ \A f \in Fields : FillBidGaps(list)[n][f] = list[n][f]
  <2>1. Fields \subseteq DOMAIN list[n]
    BY DEF IsKeywords
  <2>2. CASE FillBidGaps(list)[n] = list[n]
    BY <2>1, <2>2
  <2>3. ASSUME NEW b, FillBidGaps(list)[n] = [list[n] EXCEPT !.bid = b]
        PROVE  /\ Fields \subseteq DOMAIN FillBidGaps(list)[n]
               /\ \A f \in Fields : FillBidGaps(list)[n][f] = list[n][f]
    BY <2>1, <2>3 DEF Fields
  <2> QED
    BY <1>3, <2>2, <2>3
<1> QED
  BY <1>1, <1>2, <1>4 DEF IsKeywords

\* How a keyword is classified.
LEMMA InsightIs ==
  ASSUME NEW k, NEW converting
  PROVE  /\ Fields \subseteq DOMAIN Insight(k, converting)
         /\ Insight(k, converting).word = k.word
         /\ Insight(k, converting).low = k.low
         /\ Insight(k, converting).high = k.high
         /\ Insight(k, converting).intent = IntentFor(k.word)
         /\ Insight(k, converting).match =
              MatchFor(IntentFor(k.word), k.clicks, k.rate, converting)
  BY DEF Insight, Fields

\* Some of the keywords of a list, in its order.
LEMMA SelectedKeywords ==
  ASSUME NEW list, IsKeywords(list), NEW S \in SUBSET DOMAIN list
  PROVE  IsKeywords(ElementsAt(list, S))
  BY Selected DEF IsKeywords

\* Two lists of keywords, one after the other.
LEMMA JoinedKeywords ==
  ASSUME NEW s, NEW t, IsKeywords(s), IsKeywords(t), NEW r, IsJoin(s, t, r)
  PROVE  IsKeywords(r)
  BY DEF IsKeywords, IsJoin

LEMMA JoinedWords ==
  ASSUME NEW s, NEW t, NEW r, IsJoin(s, t, r)
  PROVE  WordsOf(r) = WordsOf(s) \cup WordsOf(t)
<1>1. \A w \in WordsOf(s) : w \in WordsOf(r)
  BY DEF WordsOf, IsJoin
<1>2. \A w \in WordsOf(t) : w \in WordsOf(r)
  BY DEF WordsOf, IsJoin
<1>3. \A n \in DOMAIN r : r[n].word \in WordsOf(s) \cup WordsOf(t)
  BY DEF WordsOf, IsJoin
<1> QED
  BY <1>1, <1>2, <1>3 DEF WordsOf

\* The first of each word: every word is there, once.
LEMMA FirstWords ==
  ASSUME NEW list, IsList(list)
  PROVE  /\ IsList(OnlyFirst(list)) /\ WordsOf(OnlyFirst(list)) = WordsOf(list)
         /\ \A m, n \in DOMAIN OnlyFirst(list) :
              OnlyFirst(list)[m].word = OnlyFirst(list)[n].word => m = n
         /\ \A k \in DOMAIN OnlyFirst(list) : \E n \in DOMAIN list :
              /\ OnlyFirst(list)[k] = list[n]
              /\ \A m \in 1..(n - 1) : list[m].word # list[n].word
         /\ \A n \in DOMAIN list :
              (\A m \in 1..(n - 1) : list[m].word # list[n].word) =>
                 \E k \in DOMAIN OnlyFirst(list) : OnlyFirst(list)[k] = list[n]
<1> DEFINE S == {n \in DOMAIN list : \A m \in 1..(n - 1) : list[m].word # list[n].word}
           own == OnlyFirst(list)
<1>0. own = ElementsAt(list, S) /\ S \in SUBSET DOMAIN list
  BY DEF OnlyFirst
<1>d. Len(list) \in Nat /\ DOMAIN list = 1..Len(list)
  BY ListIs
<1>s. \A n \in S : n \in Nat /\ n \in DOMAIN list /\ \A m \in 1..(n - 1) : list[m].word # list[n].word
  BY <1>d
<1>e. \A n \in DOMAIN list : (\A m \in 1..(n - 1) : list[m].word # list[n].word) => n \in S
  OBVIOUS
<1> HIDE DEF S, own
<1>1. /\ IsList(own)
      /\ \A k \in DOMAIN own : PlaceIn(S, k) \in S /\ own[k] = list[PlaceIn(S, k)]
      /\ \A n \in S : \E k \in DOMAIN own : PlaceIn(S, k) = n
      /\ \A k1, k2 \in DOMAIN own : PlaceIn(S, k1) = PlaceIn(S, k2) => k1 = k2
  BY <1>0, Selected
<1>2. ASSUME NEW m \in S, NEW n \in S, list[m].word = list[n].word PROVE m = n
  <2>1. ~(m < n)
    <3>1. m \in Nat /\ n \in Nat /\ m \in 1..Len(list)
      BY <1>s, <1>d
    <3> QED
      BY <3>1, <1>s, <1>2
  <2>2. ~(n < m)
    <3>1. m \in Nat /\ n \in Nat /\ n \in 1..Len(list)
      BY <1>s, <1>d
    <3> QED
      BY <3>1, <1>s, <1>2
  <2> QED
    BY <2>1, <2>2, <1>s
<1>3. ASSUME NEW m \in DOMAIN own, NEW n \in DOMAIN own, own[m].word = own[n].word PROVE m = n
  BY <1>1, <1>2, <1>3
<1>4. \A n \in S : \E k \in DOMAIN own : own[k] = list[n]
  BY <1>1
<1>5. ASSUME NEW n \in DOMAIN list PROVE \E k \in S : list[k].word = list[n].word
  <2> DEFINE T == {k \in DOMAIN list : list[k].word = list[n].word}
  <2>1. PICK k \in T : \A x \in T : k <= x
    <3>1. T \in SUBSET Nat /\ T # {}
      BY <1>d
    <3> HIDE DEF T
    <3> QED
      BY <3>1, Least
  <2>2. k \in 1..Len(list) /\ list[k].word = list[n].word
    BY <1>d, <2>1
  <2>3. ASSUME NEW m \in 1..(k - 1) PROVE list[m].word # list[k].word
    <3>1. m \in DOMAIN list /\ ~(k <= m)
      BY <1>d, <2>2
    <3> QED
      BY <2>1, <2>2, <3>1
  <2> QED
    BY <1>d, <1>e, <2>2, <2>3
<1>6. WordsOf(own) = WordsOf(list)
  <2>1. \A k \in DOMAIN own : own[k].word \in WordsOf(list)
    BY <1>1, <1>s DEF WordsOf
  <2>2. \A n \in DOMAIN list : list[n].word \in WordsOf(own)
    BY <1>4, <1>5 DEF WordsOf
  <2> QED
    BY <2>1, <2>2 DEF WordsOf
<1>7. \A k \in DOMAIN own : \E n \in DOMAIN list :
        own[k] = list[n] /\ \A m \in 1..(n - 1) : list[m].word # list[n].word
  BY <1>1, <1>s
<1> QED
  BY <1>1, <1>3, <1>4, <1>6, <1>7, <1>e DEF own

\* The groups are those of the keywords that are shown.
Reviewed(shown, groups) ==
  /\ DOMAIN groups = {shown[n].intent : n \in DOMAIN shown}
  /\ \A i \in DOMAIN groups :
       groups[i].words = [n \in 1..Min({GroupLimit, Len(OfIntent(shown, i))}) |->
                            <<OfIntent(shown, i)[n].word, OfIntent(shown, i)[n].match>>]

\* Lists that agree on words, intents and match types have the same groups.
LEMMA SameGroups ==
  ASSUME NEW shown, NEW list, IsList(shown), IsList(list), DOMAIN shown = DOMAIN list,
         \A n \in DOMAIN list : /\ shown[n].word = list[n].word
                                /\ shown[n].intent = list[n].intent
                                /\ shown[n].match = list[n].match
  PROVE  Reviewed(shown, GroupKeywords(list))
<1> DEFINE g == GroupKeywords(list)
           S(i) == {n \in DOMAIN list : list[n].intent = i}
           own(i) == OfIntent(list, i)
           top(i) == SubSeq(own(i), 1, Min({GroupLimit, Len(own(i))}))
<1>1. DOMAIN g = {list[n].intent : n \in DOMAIN list}
  BY DEF GroupKeywords
<1>2. {list[n].intent : n \in DOMAIN list} = {shown[n].intent : n \in DOMAIN shown}
  <2>1. \A n \in DOMAIN list : shown[n].intent = list[n].intent
    OBVIOUS
  <2> QED
    BY <2>1
<1>3. ASSUME NEW i \in DOMAIN g
      PROVE  g[i].words = [n \in 1..Min({GroupLimit, Len(OfIntent(shown, i))}) |->
                             <<OfIntent(shown, i)[n].word, OfIntent(shown, i)[n].match>>]
  <2>1. g[i].words = [n \in DOMAIN top(i) |-> <<top(i)[n].word, top(i)[n].match>>]
    BY <1>1 DEF GroupKeywords
  <2>2. S(i) = {n \in DOMAIN shown : shown[n].intent = i}
    OBVIOUS
  <2>3. own(i) = ElementsAt(list, S(i)) /\ OfIntent(shown, i) = ElementsAt(shown, S(i))
    BY <2>2 DEF OfIntent
  <2>4. S(i) \in SUBSET DOMAIN list /\ S(i) \in SUBSET DOMAIN shown
    OBVIOUS
  <2> DEFINE s == S(i)
             a == own(i)
             b == OfIntent(shown, i)
             t == top(i)
  <2>5. g[i].words = [n \in DOMAIN t |-> <<t[n].word, t[n].match>>]
    BY <2>1
  <2>6. a = ElementsAt(list, s) /\ b = ElementsAt(shown, s)
    BY <2>3
  <2>7. s \in SUBSET DOMAIN list /\ s \in SUBSET DOMAIN shown
    BY <2>4
  <2>8. t = SubSeq(a, 1, Min({GroupLimit, Len(a)}))
    OBVIOUS
  <2> SUFFICES g[i].words = [n \in 1..Min({GroupLimit, Len(b)}) |-> <<b[n].word, b[n].match>>]
    OBVIOUS
  <2> HIDE DEF g, s, a, b, t, S, own, top
  <2>9. /\ IsList(a) /\ IsList(b) /\ DOMAIN a = DOMAIN b
        /\ \A n \in DOMAIN a : a[n].word = b[n].word /\ a[n].match = b[n].match
    <3>1. IsList(a) /\ \A n \in DOMAIN a : PlaceIn(s, n) \in s /\ a[n] = list[PlaceIn(s, n)]
      BY <2>6, <2>7, Selected
    <3>2. IsList(b) /\ \A n \in DOMAIN b : PlaceIn(s, n) \in s /\ b[n] = shown[PlaceIn(s, n)]
      BY <2>6, <2>7, Selected
    <3>3. DOMAIN a = DOMAIN b
      BY <2>6 DEF ElementsAt
    <3> QED
      BY <2>7, <3>1, <3>2, <3>3
  <2>10. Len(a) \in Nat /\ DOMAIN a = 1..Len(a) /\ Len(b) = Len(a)
    <3>1. Len(a) \in Nat /\ DOMAIN a = 1..Len(a)
      BY <2>9, ListIs
    <3> QED
      BY <2>9, <3>1, SameLength
  <2> DEFINE k == Min({GroupLimit, Len(a)})
  <2>11. k \in Nat /\ k <= Len(a)
    <3>1. GroupLimit \in Nat
      BY KeywordAssumption
    <3> QED
      BY <2>10, <3>1, MinOf
  <2> HIDE DEF k
  <2>12. DOMAIN t = 1..k /\ \A n \in 1..k : t[n] = a[n]
    <3>1. t = SubSeq(a, 1, k)
      BY <2>8 DEF k
    <3> QED
      BY <2>9, <2>11, <3>1, FirstPart
  <2>13. \A n \in 1..k : t[n].word = b[n].word /\ t[n].match = b[n].match
    BY <2>9, <2>10, <2>11, <2>12
  <2>14. k = Min({GroupLimit, Len(b)})
    BY <2>10 DEF k
  <2> QED
    BY <2>5, <2>12, <2>13, <2>14
<1> HIDE DEF g
<1>4. Reviewed(shown, g)
  BY <1>1, <1>2, <1>3 DEF Reviewed
<1> QED
  BY <1>4 DEF g

\* A keyword as classified, with the intent and the match type that an override sets.
ClassifiedUnder(k, overrides) ==
  /\ k.intent = IntentUnder(IntentFor(k.word), Chosen(overrides, k.word))
  /\ k.match = MatchUnder(MatchFor(IntentFor(k.word), 0, 0, FALSE), Chosen(overrides, k.word))

\* What every edit leaves: added keywords are different and as classified and overridden.
EditsOk(e) ==
  /\ IsKeywords(e.added)
  /\ \A m, n \in DOMAIN e.added : e.added[m].word = e.added[n].word => m = n
  /\ \A n \in DOMAIN e.added : ClassifiedUnder(e.added[n], e.overrides)

\* What reviewers see of a system list and edits.
Shown(system, e) ==
  [n \in DOMAIN (system \o e.added) |-> Overridden((system \o e.added)[n], e.overrides)]

\* Classifying what was added: every word once, and by its signals alone.
LEMMA ClassifiedIs ==
  ASSUME NEW added, IsList(added)
  PROVE  /\ IsKeywords(ClassifyAdded(added))
         /\ DOMAIN ClassifyAdded(added) = DOMAIN OnlyFirst(added)
         /\ \A n \in DOMAIN OnlyFirst(added) :
              /\ ClassifyAdded(added)[n].word = OnlyFirst(added)[n].word
              /\ ClassifyAdded(added)[n].low = OnlyFirst(added)[n].low
              /\ ClassifyAdded(added)[n].high = OnlyFirst(added)[n].high
              /\ ClassifyAdded(added)[n].intent = IntentFor(OnlyFirst(added)[n].word)
              /\ ClassifyAdded(added)[n].match =
                   MatchFor(IntentFor(OnlyFirst(added)[n].word), 0, 0, FALSE)
<1> DEFINE own == OnlyFirst(added)
           c == ClassifyAdded(added)
           x(n) == [word |-> own[n].word, source |-> own[n].source, clicks |-> 0, rate |-> 0,
                    paid |-> own[n].paid, low |-> own[n].low, high |-> own[n].high]
<1>1. c = [n \in DOMAIN own |-> Insight(x(n), FALSE)]
  BY DEF ClassifyAdded
<1>2. IsList(own)
  BY FirstWords
<1> HIDE DEF own, c
<1>3. IsList(c)
  BY <1>1, <1>2 DEF IsList
<1>4. DOMAIN c = DOMAIN own
  BY <1>1
<1>5. ASSUME NEW n \in DOMAIN own
      PROVE  /\ Fields \subseteq DOMAIN c[n]
             /\ c[n].word = own[n].word /\ c[n].low = own[n].low /\ c[n].high = own[n].high
             /\ c[n].intent = IntentFor(own[n].word)
             /\ c[n].match = MatchFor(IntentFor(own[n].word), 0, 0, FALSE)
  <2> DEFINE k == x(n)
  <2>1. c[n] = Insight(k, FALSE)
    BY <1>1
  <2>2. k.word = own[n].word /\ k.low = own[n].low /\ k.high = own[n].high /\ k.clicks = 0 /\ k.rate = 0
    OBVIOUS
  <2> HIDE DEF k
  <2>3. /\ Fields \subseteq DOMAIN Insight(k, FALSE)
        /\ Insight(k, FALSE).word = k.word
        /\ Insight(k, FALSE).low = k.low
        /\ Insight(k, FALSE).high = k.high
        /\ Insight(k, FALSE).intent = IntentFor(k.word)
        /\ Insight(k, FALSE).match = MatchFor(IntentFor(k.word), k.clicks, k.rate, FALSE)
    BY InsightIs
  <2> QED
    BY ONLY <2>1, <2>2, <2>3
<1> QED
  BY <1>3, <1>4, <1>5 DEF IsKeywords, own, c

\* The same override once more changes nothing.
LEMMA Idempotent ==
  ASSUME NEW v, NEW o
  PROVE  /\ IntentUnder(IntentUnder(v, o), o) = IntentUnder(v, o)
         /\ MatchUnder(MatchUnder(v, o), o) = MatchUnder(v, o)
  BY DEF IntentUnder, MatchUnder

\* The overrides applied to a list.
LEMMA OverriddenList ==
  ASSUME NEW list, IsKeywords(list), NEW overrides, NEW new,
         new = [n \in DOMAIN list |-> Overridden(list[n], overrides)]
  PROVE  /\ IsKeywords(new) /\ DOMAIN new = DOMAIN list
         /\ \A n \in DOMAIN list :
              /\ new[n].word = list[n].word /\ new[n].low = list[n].low
              /\ new[n].high = list[n].high
              /\ new[n].intent = IntentUnder(list[n].intent, Chosen(overrides, list[n].word))
              /\ new[n].match = MatchUnder(list[n].match, Chosen(overrides, list[n].word))
<1>1. IsList(new)
  BY DEF IsKeywords, IsList
<1>2. \A n \in DOMAIN list : Fields \subseteq DOMAIN list[n] /\ new[n] = Overridden(list[n], overrides)
  BY DEF IsKeywords
<1> QED
  BY <1>1, <1>2, OverriddenIs DEF IsKeywords

\* Saved edits, and what they make of the system's keywords that are left.
LEMMA SavedIs ==
  ASSUME IsKeywords(suggestions), NEW added, IsList(added), NEW removed, NEW overrides,
         NEW e, e = SavedEdits(added, removed, overrides),
         NEW system, system = Without(suggestions, removed)
  PROVE  /\ IsKeywords(system)
         /\ EditsOk(e) /\ e.removed = removed
         /\ Reviewed(Shown(system, e), e.groups)
         /\ DOMAIN e.added = DOMAIN OnlyFirst(added)
         /\ \A n \in DOMAIN e.added : /\ e.added[n].word = OnlyFirst(added)[n].word
                                      /\ e.added[n].low = OnlyFirst(added)[n].low
                                      /\ e.added[n].high = OnlyFirst(added)[n].high
         /\ \A w \in WordsOf(system) \cup WordsOf(added) :
              Chosen(e.overrides, w) = Chosen(overrides, w)
<1> DEFINE own == OnlyFirst(added)
           c == ClassifyAdded(added)
           all == system \o c
           over == [n \in DOMAIN all |-> Overridden(all[n], overrides)]
           filled == FillBidGaps(over)
           kept == {w \in DOMAIN overrides \cap WordsOf(all) : overrides[w] # NoChoice}
           news == SubSeq(filled, Len(system) + 1, Len(filled))
<1>0. e = [added |-> news, removed |-> removed, overrides |-> [w \in kept |-> overrides[w]],
           groups |-> GroupKeywords(filled)]
  BY DEF SavedEdits
<1>1. IsKeywords(system)
  BY SelectedKeywords DEF Without
<1>2. /\ IsKeywords(c) /\ DOMAIN c = DOMAIN own
      /\ \A n \in DOMAIN own :
              /\ c[n].word = own[n].word
              /\ c[n].low = own[n].low
              /\ c[n].high = own[n].high
              /\ c[n].intent = IntentFor(own[n].word)
              /\ c[n].match = MatchFor(IntentFor(own[n].word), 0, 0, FALSE)
  BY ClassifiedIs
<1>3. /\ IsList(own) /\ WordsOf(own) = WordsOf(added)
      /\ \A m, n \in DOMAIN own : own[m].word = own[n].word => m = n
  BY FirstWords
<1> HIDE DEF own, c
<1>4. IsJoin(system, c, all)
  BY <1>1, <1>2, Joined DEF IsKeywords
<1>5. kept = {w \in DOMAIN overrides \cap WordsOf(all) : overrides[w] # NoChoice}
  OBVIOUS
<1> HIDE DEF all, kept
<1>6. IsKeywords(all) /\ WordsOf(all) = WordsOf(system) \cup WordsOf(c)
  BY <1>1, <1>2, <1>4, JoinedKeywords, JoinedWords
<1>7. WordsOf(c) = WordsOf(added)
  <2>1. \A n \in DOMAIN c : n \in DOMAIN own /\ c[n].word = own[n].word
    BY <1>2
  <2>2. \A n \in DOMAIN own : n \in DOMAIN c
    BY <1>2
  <2>3. WordsOf(c) = WordsOf(own)
    BY ONLY <2>1, <2>2 DEF WordsOf
  <2> QED
    BY <1>3, <2>3
<1>8. /\ IsKeywords(over) /\ DOMAIN over = DOMAIN all
      /\ \A n \in DOMAIN all :
           /\ over[n].word = all[n].word /\ over[n].low = all[n].low /\ over[n].high = all[n].high
           /\ over[n].intent = IntentUnder(all[n].intent, Chosen(overrides, all[n].word))
           /\ over[n].match = MatchUnder(all[n].match, Chosen(overrides, all[n].word))
  <2>1. over = [n \in DOMAIN all |-> Overridden(all[n], overrides)]
    OBVIOUS
  <2> HIDE DEF over
  <2> QED
    BY <1>6, <2>1, OverriddenList
<1> HIDE DEF over
<1>9. /\ IsKeywords(filled) /\ DOMAIN filled = DOMAIN all
      /\ \A n \in DOMAIN all :
           /\ filled[n].word = all[n].word /\ filled[n].low = all[n].low /\ filled[n].high = all[n].high
           /\ filled[n].intent = IntentUnder(all[n].intent, Chosen(overrides, all[n].word))
           /\ filled[n].match = MatchUnder(all[n].match, Chosen(overrides, all[n].word))
  <2>1. IsKeywords(filled) /\ DOMAIN filled = DOMAIN over /\ \A n \in DOMAIN over : \A f \in Fields : filled[n][f] = over[n][f]
    BY <1>8, FilledIs
  <2>2. \A n \in DOMAIN over : /\ filled[n].word = over[n].word /\ filled[n].low = over[n].low
                               /\ filled[n].high = over[n].high /\ filled[n].intent = over[n].intent
                               /\ filled[n].match = over[n].match
    BY <2>1 DEF Fields
  <2> HIDE DEF filled
  <2> QED
    BY <1>8, <2>1, <2>2
<1>10. Len(filled) = Len(system) + Len(c) /\ Len(system) \in Nat /\ Len(c) \in Nat /\ DOMAIN c = 1..Len(c)
  <2>1. IsList(filled) /\ IsList(all) /\ IsList(system) /\ IsList(c)
    BY <1>1, <1>2, <1>6, <1>9 DEF IsKeywords
  <2>2. Len(filled) = Len(all)
    BY <1>9, <2>1, SameLength
  <2> HIDE DEF filled
  <2> QED
    BY <1>4, <2>1, <2>2, ListIs DEF IsJoin
<1> HIDE DEF filled
<1>11. IsList(news) /\ DOMAIN news = DOMAIN c /\ \A k \in DOMAIN c : news[k] = filled[Len(system) + k]
  <2> DEFINE m == Len(system)
             n == Len(c)
             a == m + 1
             b == Len(filled)
  <2>1. m \in Nat /\ n \in Nat /\ m + n <= Len(filled) /\ a = m + 1 /\ b = m + n /\ IsList(filled)
    BY <1>9, <1>10 DEF IsKeywords
  <2>2. DOMAIN c = 1..n /\ news = SubSeq(filled, a, b)
    BY <1>10
  <2> HIDE DEF m, n, a, b, news
  <2>3. IsList(news) /\ DOMAIN news = 1..n /\ \A k \in 1..n : news[k] = filled[m + k]
    BY <2>1, <2>2, PartOf
  <2> QED
    BY <2>1, <2>2, <2>3 DEF m
<1> HIDE DEF news
<1>12. \A k \in DOMAIN c : Len(system) + k \in DOMAIN all /\ all[Len(system) + k] = c[k]
  BY <1>4 DEF IsJoin
<1>13. \A w \in WordsOf(system) \cup WordsOf(added) : Chosen(e.overrides, w) = Chosen(overrides, w)
  <2>1. e.overrides = [w \in kept |-> overrides[w]]
    BY <1>0
  <2>2. ASSUME NEW w \in WordsOf(all) PROVE Chosen(e.overrides, w) = Chosen(overrides, w)
    BY <1>5, <2>1 DEF Chosen
  <2> QED
    BY <1>6, <1>7, <2>2
<1>14. \A k \in DOMAIN c :
         /\ Fields \subseteq DOMAIN news[k]
         /\ news[k].word = own[k].word /\ news[k].low = own[k].low /\ news[k].high = own[k].high
         /\ ClassifiedUnder(news[k], e.overrides)
  <2>1. ASSUME NEW k \in DOMAIN c
        PROVE  /\ Fields \subseteq DOMAIN news[k]
               /\ news[k].word = own[k].word /\ news[k].low = own[k].low /\ news[k].high = own[k].high
               /\ news[k].intent = IntentUnder(IntentFor(own[k].word), Chosen(overrides, own[k].word))
               /\ news[k].match = MatchUnder(MatchFor(IntentFor(own[k].word), 0, 0, FALSE), Chosen(overrides, own[k].word))
    <3> DEFINE p == Len(system) + k
    <3>1. p \in DOMAIN all /\ all[p] = c[k] /\ news[k] = filled[p]
      BY <1>11, <1>12
    <3> HIDE DEF p
    <3>2. Fields \subseteq DOMAIN filled[p]
      BY <1>9, <3>1 DEF IsKeywords
    <3>3. /\ filled[p].word = c[k].word /\ filled[p].low = c[k].low /\ filled[p].high = c[k].high
          /\ filled[p].intent = IntentUnder(c[k].intent, Chosen(overrides, c[k].word))
          /\ filled[p].match = MatchUnder(c[k].match, Chosen(overrides, c[k].word))
      BY <1>9, <3>1
    <3>4. /\ c[k].word = own[k].word /\ c[k].low = own[k].low /\ c[k].high = own[k].high
          /\ c[k].intent = IntentFor(own[k].word)
          /\ c[k].match = MatchFor(IntentFor(own[k].word), 0, 0, FALSE)
      BY <1>2
    <3> QED
      BY ONLY <3>1, <3>2, <3>3, <3>4
  <2>2. ASSUME NEW k \in DOMAIN c PROVE Chosen(e.overrides, own[k].word) = Chosen(overrides, own[k].word)
    BY <1>2, <1>3, <1>13 DEF WordsOf
  <2> QED
    BY <2>1, <2>2 DEF ClassifiedUnder
<1>15. e.added = news /\ e.removed = removed /\ e.groups = GroupKeywords(filled)
  BY <1>0
<1>16. EditsOk(e)
  <2>1. IsKeywords(news)
    BY <1>11, <1>14 DEF IsKeywords
  <2>2. \A m, n \in DOMAIN news : news[m].word = news[n].word => m = n
    BY <1>2, <1>3, <1>11, <1>14
  <2> QED
    BY <1>11, <1>14, <1>15, <2>1, <2>2 DEF EditsOk
<1>17. Reviewed(Shown(system, e), e.groups)
  <2> DEFINE both == system \o news
             sh == Shown(system, e)
  <2>1. IsJoin(system, news, both) /\ IsKeywords(both)
    <3>1. IsKeywords(news)
      BY <1>11, <1>14 DEF IsKeywords
    <3> QED
      BY <1>1, <3>1, Joined, JoinedKeywords DEF IsKeywords
  <2>2. sh = [n \in DOMAIN both |-> Overridden(both[n], e.overrides)]
    BY <1>15 DEF Shown
  <2> HIDE DEF both, sh
  <2>3. /\ IsKeywords(sh) /\ DOMAIN sh = DOMAIN both
        /\ \A n \in DOMAIN both :
             /\ sh[n].word = both[n].word
             /\ sh[n].intent = IntentUnder(both[n].intent, Chosen(e.overrides, both[n].word))
             /\ sh[n].match = MatchUnder(both[n].match, Chosen(e.overrides, both[n].word))
    BY <2>1, <2>2, OverriddenList
  <2>4. Len(news) = Len(c)
    BY <1>2, <1>11, SameLength DEF IsKeywords
  <2>5. DOMAIN both = DOMAIN all
    <3>1. IsList(both) /\ IsList(all) /\ Len(both) = Len(all)
      BY <1>4, <2>1, <2>4 DEF IsJoin
    <3> QED
      BY <3>1, ListIs
  <2>6. ASSUME NEW n \in DOMAIN all
        PROVE  sh[n].word = filled[n].word /\ sh[n].intent = filled[n].intent /\ sh[n].match = filled[n].match
    <3>1. CASE n \in DOMAIN system
      <4>1. both[n] = system[n] /\ all[n] = system[n]
        BY <1>4, <2>1, <3>1 DEF IsJoin
      <4>2. Chosen(e.overrides, system[n].word) = Chosen(overrides, system[n].word)
        BY <1>13, <3>1 DEF WordsOf
      <4> QED
        BY <1>9, <2>3, <2>5, <4>1, <4>2
    <3>2. ASSUME NEW k \in DOMAIN c, n = Len(system) + k
          PROVE  sh[n].word = filled[n].word /\ sh[n].intent = filled[n].intent /\ sh[n].match = filled[n].match
      <4>1. all[n] = c[k] /\ news[k] = filled[n]
        BY <1>11, <1>12, <3>2
      <4>2. both[n] = news[k]
        BY <1>11, <2>1, <3>2 DEF IsJoin
      <4>3. Chosen(e.overrides, c[k].word) = Chosen(overrides, c[k].word) /\ filled[n].word = c[k].word
        <5>1. c[k].word \in WordsOf(added)
          BY <1>7 DEF WordsOf
        <5> QED
          BY <1>9, <1>13, <4>1, <5>1
      <4> QED
        BY <1>9, <2>3, <2>5, <4>1, <4>2, <4>3, Idempotent
    <3> QED
      BY <1>4, <3>1, <3>2 DEF IsJoin
  <2>7. Reviewed(sh, GroupKeywords(filled))
    BY <1>9, <2>3, <2>5, <2>6, SameGroups DEF IsKeywords
  <2> QED
    BY <1>15, <2>7 DEF sh
<1> QED
  BY <1>1, <1>2, <1>11, <1>13, <1>14, <1>15, <1>16, <1>17 DEF own

KeywordSpec == KeywordInit /\ [][KeywordNext]_keywordVars

\* The inductive invariant: beyond GroupsAreReviewed, what was added is as classified and
\* overridden, so that classifying it again changes nothing.
KeywordInv ==
  /\ history \in History
  /\ IsKeywords(suggestions)
  /\ EditsOk(edits)
  /\ Reviewed(Shown(Without(suggestions, edits.removed), edits), edits.groups)
  /\ DOMAIN editors = Managers
  /\ \A m \in Managers :
       /\ editors[m].doing \in {"edit", "import"} => IsList(editors[m].seen.added)
       /\ editors[m].doing = "import" => editors[m].list \in Lists

\* Ideas, history, lists to import and brand terms are lists.
LEMMA ListsAre ==
  /\ \A s \in PlannerIdeas \cup History \cup Lists : IsList(s)
  /\ IsList(BrandPlan)
  BY KeywordAssumption, SeqIsList

\* A list made element by element from another.
LEMMA MappedList ==
  ASSUME NEW s, IsList(s), NEW t, DOMAIN t = DOMAIN s, t = [n \in DOMAIN s |-> t[n]]
  PROVE  IsList(t)
  BY DEF IsList

\* What research suggests is a list of keywords.
LEMMA ResearchIs ==
  ASSUME NEW ideas \in PlannerIdeas, NEW known \in History, NEW converting
  PROVE  IsKeywords(ScoreKeywords(Collect(ideas, known), converting))
<1> DEFINE fromIdeas == [n \in DOMAIN ideas |-> FromPlanner(ideas[n])]
           fromKnown == [n \in DOMAIN known |-> FromHistory(known[n])]
           raw == Collect(ideas, known)
<1>1. IsList(fromIdeas) /\ IsList(fromKnown)
  <2>1. IsList(ideas) /\ IsList(known)
    BY ListsAre
  <2>2. DOMAIN fromIdeas = DOMAIN ideas /\ DOMAIN fromKnown = DOMAIN known
    OBVIOUS
  <2>3. /\ fromIdeas = [n \in DOMAIN ideas |-> fromIdeas[n]]
        /\ fromKnown = [n \in DOMAIN known |-> fromKnown[n]]
    OBVIOUS
  <2> HIDE DEF fromIdeas, fromKnown
  <2> QED
    BY <2>1, <2>2, <2>3, MappedList
<1>2. IsList(OnlyFirst(fromIdeas \o fromKnown))
  <2> HIDE DEF fromIdeas, fromKnown
  <2> QED
    BY <1>1, Joined, FirstWords DEF IsJoin
<1>3. IsList(raw)
  <2>1. /\ DOMAIN raw = DOMAIN OnlyFirst(fromIdeas \o fromKnown)
        /\ raw = [n \in DOMAIN raw |-> raw[n]]
    BY DEF Collect
  <2> HIDE DEF raw, fromIdeas, fromKnown
  <2> QED
    BY <1>2, <2>1, MappedList
<1> HIDE DEF raw
<1> DEFINE own == ElementsAt(raw, {n \in DOMAIN raw : raw[n].word \in CampusWords})
           terms == [n \in DOMAIN BrandPlan |-> Suggested(BrandPlan[n])]
           all == own \o Without(terms, WordsOf(own))
           size == Min({MaxSuggestions, Len(all)})
<1>4. IsList(all)
  <2>1. IsList(own)
    BY <1>3, Selected
  <2>2. IsList(terms)
    <3>1. DOMAIN terms = DOMAIN BrandPlan /\ terms = [n \in DOMAIN BrandPlan |-> terms[n]]
      OBVIOUS
    <3> HIDE DEF terms
    <3> QED
      BY <3>1, ListsAre, MappedList
  <2>3. IsList(Without(terms, WordsOf(own)))
    <3> HIDE DEF terms, own
    <3> QED
      BY <2>2, Selected DEF Without
  <2> HIDE DEF terms, own
  <2> QED
    BY <2>1, <2>3, Joined DEF IsJoin
<1>5. size \in Nat
  <2> HIDE DEF all
  <2>1. Len(all) \in Nat /\ MaxSuggestions \in Nat
    BY <1>4, ListIs, KeywordAssumption
  <2> QED
    BY <2>1, MinOf
<1> DEFINE score == [n \in DOMAIN all |->
                      Max({ScoreOf[all[n].word], IF all[n].word \in Brands THEN 80 ELSE 0,
                           IF all[n].source = "suggested" THEN 55 ELSE 0})]
           sorted == SortedBy(all, [n \in DOMAIN all |-> -score[n]])
           best == SubSeq(sorted, 1, size)
<1>6. ScoreKeywords(raw, converting) =
        FillBidGaps([k \in DOMAIN best |-> Insight(best[k], converting)])
  BY DEF ScoreKeywords
<1>7. DOMAIN best = 1..size
  <2>1. IsList(sorted) /\ DOMAIN sorted = DOMAIN all
    <3> HIDE DEF all, score
    <3> QED
      BY <1>4, SortedList
  <2>2. size <= Len(all)
    <3> HIDE DEF all
    <3>1. Len(all) \in Nat /\ MaxSuggestions \in Nat
      BY <1>4, ListIs, KeywordAssumption
    <3> QED
      BY <3>1, MinOf
  <2> HIDE DEF sorted, size, all
  <2>3. IsList(sorted) /\ Len(sorted) = Len(all)
    BY <1>4, <2>1, SameLength
  <2> QED
    BY <1>5, <2>2, <2>3, FirstPart
<1> HIDE DEF size, best
<1> DEFINE list == [k \in 1..size |-> Insight(best[k], converting)]
<1>8. IsKeywords(list)
  <2>1. \A k \in 1..size : Fields \subseteq DOMAIN list[k]
    BY InsightIs
  <2>2. IsList(list)
    BY <1>5 DEF IsList
  <2> QED
    BY <2>1, <2>2 DEF IsKeywords
<1> HIDE DEF list
<1>9. IsKeywords(FillBidGaps(list))
  BY <1>8, FilledIs
<1> QED
  BY <1>6, <1>7, <1>9 DEF raw, list

\* What is looked up keeps its word.
LEMMA LookedWord ==
  ASSUME NEW w, NEW n, NEW ideas
  PROVE  Looked(w, n, ideas).word = w
  BY DEF Looked, FromPlanner, Suggested

\* What an import adds are keywords of its list.
LEMMA FreshIs ==
  ASSUME NEW list \in Lists, NEW e
  PROVE  IsList(Fresh(list, e)) /\ WordsOf(Fresh(list, e)) \subseteq WordsOf(list)
<1> DEFINE own == OnlyFirst(list)
           k == Min({ImportLimit, Len(own)})
           part == SubSeq(own, 1, k)
           S == {n \in DOMAIN part : part[n].word \notin WordsOf(e.added)}
<1>1. IsList(own) /\ WordsOf(own) = WordsOf(list)
  BY ListsAre, FirstWords
<1>2. k \in Nat /\ k <= Len(own) /\ DOMAIN own = 1..Len(own) /\ Len(own) \in Nat
  <2> HIDE DEF own
  <2>1. Len(own) \in Nat /\ ImportLimit \in Nat /\ DOMAIN own = 1..Len(own)
    BY <1>1, ListIs, KeywordAssumption
  <2> QED
    BY <2>1, MinOf
<1>3. Fresh(list, e) = ElementsAt(part, S)
  BY DEF Fresh, Without
<1> HIDE DEF own, k
<1>4. IsList(part) /\ DOMAIN part = 1..k /\ \A n \in 1..k : part[n] = own[n]
  BY <1>1, <1>2, FirstPart
<1>5. WordsOf(part) \subseteq WordsOf(own)
  <2>1. \A n \in DOMAIN part : n \in DOMAIN own /\ part[n] = own[n]
    BY <1>2, <1>4
  <2> HIDE DEF part
  <2> QED
    BY <2>1 DEF WordsOf
<1>6. S \in SUBSET DOMAIN part
  OBVIOUS
<1> HIDE DEF part, S
<1>7. /\ IsList(ElementsAt(part, S))
      /\ \A n \in DOMAIN ElementsAt(part, S) : PlaceIn(S, n) \in S /\ ElementsAt(part, S)[n] = part[PlaceIn(S, n)]
  BY <1>4, <1>6, Selected
<1>8. WordsOf(ElementsAt(part, S)) \subseteq WordsOf(part)
  BY <1>6, <1>7 DEF WordsOf
<1> QED
  BY <1>1, <1>3, <1>5, <1>7, <1>8

\* An import saves edits: its rows come after what was added before.
LEMMA ImportedIs ==
  ASSUME NEW list \in Lists, NEW e, IsList(e.added), NEW ideas
  PROVE  \E rows, ov, added :
           /\ IsJoin(e.added, rows, added)
           /\ WordsOf(rows) \subseteq WordsOf(list) /\ DOMAIN ov \subseteq WordsOf(list)
           /\ Imported(list, e, ideas) =
                SavedEdits(added, e.removed, Updated(e.overrides, ov))
<1> DEFINE fresh == Fresh(list, e)
           rows == [n \in DOMAIN fresh |-> Looked(fresh[n].word, n, ideas)]
           choice(n) == [intent |-> fresh[n].intent, match |-> fresh[n].match]
           P == {n \in DOMAIN fresh : choice(n) # NoChoice}
           W == {fresh[n].word : n \in P}
           ov == [w \in W |-> choice(Min(Places(fresh, w)))]
<1>1. Imported(list, e, ideas) = SavedEdits(e.added \o rows, e.removed, Updated(e.overrides, ov))
  BY DEF Imported
<1>2. IsList(fresh) /\ WordsOf(fresh) \subseteq WordsOf(list)
  BY FreshIs
<1>3. IsList(rows) /\ WordsOf(rows) \subseteq WordsOf(list)
  <2>1. /\ DOMAIN rows = DOMAIN fresh /\ rows = [n \in DOMAIN fresh |-> rows[n]]
        /\ \A n \in DOMAIN fresh : rows[n].word = fresh[n].word
    BY LookedWord
  <2> HIDE DEF rows, fresh
  <2>2. WordsOf(rows) \subseteq WordsOf(fresh)
    BY <2>1 DEF WordsOf
  <2> QED
    BY <1>2, <2>1, <2>2, MappedList
<1>4. DOMAIN ov \subseteq WordsOf(list)
  <2>1. P \subseteq DOMAIN fresh
    OBVIOUS
  <2>2. DOMAIN ov = W
    OBVIOUS
  <2> HIDE DEF P, ov, fresh
  <2>3. W \subseteq WordsOf(fresh)
    BY <2>1 DEF WordsOf
  <2> QED
    BY <1>2, <2>2, <2>3
<1> HIDE DEF rows, ov
<1>5. IsJoin(e.added, rows, e.added \o rows)
  BY <1>3, Joined
<1> QED
  BY <1>1, <1>3, <1>4, <1>5

\* Whatever is saved, the invariant holds of it.
LEMMA SavedKept ==
  ASSUME KeywordInv, NEW added, IsList(added), NEW removed, NEW overrides,
         edits' = SavedEdits(added, removed, overrides), suggestions' = suggestions,
         history' = history,
         NEW m \in Managers, editors' = [editors EXCEPT ![m] = Away]
  PROVE  KeywordInv'
<1> DEFINE system == Without(suggestions, removed)
<1>1. IsKeywords(suggestions)
  BY DEF KeywordInv
<1>2. EditsOk(edits') /\ edits'.removed = removed /\ Reviewed(Shown(system, edits'), edits'.groups)
  BY ONLY <1>1, IsList(added), edits' = SavedEdits(added, removed, overrides), SavedIs
<1>3. Reviewed(Shown(Without(suggestions', edits'.removed), edits'), edits'.groups)
  BY <1>2
<1>4. DOMAIN editors' = Managers
  BY DEF KeywordInv
<1>5. ASSUME NEW x \in Managers
      PROVE  /\ editors'[x].doing \in {"edit", "import"} => IsList(editors'[x].seen.added)
             /\ editors'[x].doing = "import" => editors'[x].list \in Lists
  <2>1. CASE x = m
    BY <2>1 DEF KeywordInv, Away
  <2>2. CASE x # m
    <3>1. editors'[x] = editors[x]
      BY <2>2 DEF KeywordInv
    <3> QED
      BY <3>1 DEF KeywordInv
  <2> QED
    BY <2>1, <2>2
<1> QED
  BY <1>1, <1>2, <1>3, <1>4, <1>5 DEF KeywordInv

-----------------------------------------------------------------------------
(* The steps of the plan.                                                  *)

LEMMA KeywordStarts == KeywordInit => KeywordInv
<1> SUFFICES ASSUME KeywordInit PROVE KeywordInv
  OBVIOUS
<1>1. history \in History /\ suggestions = <<>> /\ edits = NoEdits /\ editors = [m \in Managers |-> Away]
  BY DEF KeywordInit
<1>2. IsKeywords(<<>>)
  BY EmptyList DEF IsKeywords
<1>3. EditsOk(NoEdits)
  BY <1>2, EmptyList DEF EditsOk, NoEdits
<1>4. Shown(Without(<<>>, {}), NoEdits) = <<>>
  <2>1. Without(<<>>, {}) = <<>>
    <3>1. {n \in DOMAIN <<>> : <<>>[n].word \notin {}} = DOMAIN <<>>
      BY EmptyList
    <3> QED
      BY <3>1, EmptyList, AllSelected DEF Without
  <2>2. <<>> \o <<>> = <<>> /\ DOMAIN (<<>> \o <<>>) = {}
    <3>1. <<>> \o <<>> = <<>>
      OBVIOUS
    <3> QED
      BY <3>1, EmptyList
  <2>3. [n \in {} |-> Overridden((<<>> \o <<>>)[n], NoEdits.overrides)] = <<>>
    OBVIOUS
  <2> QED
    BY <2>1, <2>2, <2>3 DEF Shown, NoEdits
<1>5. Reviewed(<<>>, <<>>)
  BY EmptyList DEF Reviewed
<1>6. edits.removed = {} /\ edits.groups = <<>>
  BY <1>1 DEF NoEdits
<1> QED
  BY <1>1, <1>2, <1>3, <1>4, <1>5, <1>6 DEF KeywordInv, Away

LEMMA ResearchKept == ASSUME KeywordInv, Research PROVE KeywordInv'
<1>1. PICK ideas \in PlannerIdeas, converting \in BOOLEAN :
        /\ suggestions' = ScoreKeywords(Collect(ideas, history), converting)
        /\ edits' = [NoEdits EXCEPT !.groups = GroupKeywords(suggestions')]
  BY DEF Research
<1> DEFINE list == suggestions'
<1>2. IsKeywords(list)
  BY <1>1, ResearchIs DEF KeywordInv
<1>3. edits' = [added |-> <<>>, removed |-> {}, overrides |-> <<>>, groups |-> GroupKeywords(list)]
  BY <1>1 DEF NoEdits
<1>4. EditsOk(edits')
  BY <1>3, EmptyList DEF EditsOk, IsKeywords
<1>5. Without(list, {}) = list
  <2> HIDE DEF list
  <2>1. {n \in DOMAIN list : list[n].word \notin {}} = DOMAIN list
    OBVIOUS
  <2> QED
    BY <1>2, <2>1, AllSelected DEF Without, IsKeywords
<1> HIDE DEF list
<1> DEFINE both == list \o <<>>
           sh == Shown(list, edits')
           none == <<>>
<1>6. IsJoin(list, <<>>, both)
  BY <1>2, EmptyList, Joined DEF IsKeywords
<1>7. sh = [n \in DOMAIN both |-> Overridden(both[n], none)]
  BY <1>3 DEF Shown
<1>0. \A w : Chosen(none, w) = NoChoice
  BY EmptyList DEF Chosen
<1> HIDE DEF both, sh, none
<1>8. DOMAIN both = DOMAIN list /\ IsKeywords(both) /\ \A n \in DOMAIN list : both[n] = list[n]
  <2>1. /\ \A n \in DOMAIN list : n \in DOMAIN both /\ both[n] = list[n]
        /\ \A n \in DOMAIN both : n \in DOMAIN list
        /\ IsList(both)
    BY <1>6, EmptyList DEF IsJoin
  <2> QED
    BY <1>2, <2>1 DEF IsKeywords
<1>9. /\ IsKeywords(sh) /\ DOMAIN sh = DOMAIN both
      /\ \A n \in DOMAIN both :
           /\ sh[n].word = both[n].word
           /\ sh[n].intent = IntentUnder(both[n].intent, Chosen(none, both[n].word))
           /\ sh[n].match = MatchUnder(both[n].match, Chosen(none, both[n].word))
  BY <1>7, <1>8, OverriddenList
<1>10. \A n \in DOMAIN list :
         sh[n].word = list[n].word /\ sh[n].intent = list[n].intent /\ sh[n].match = list[n].match
  <2>1. \A v : IntentUnder(v, NoChoice) = v /\ MatchUnder(v, NoChoice) = v
    BY DEF IntentUnder, MatchUnder, NoChoice
  <2> QED
    BY <1>0, <1>8, <1>9, <2>1
<1>11. Reviewed(sh, GroupKeywords(list))
  BY <1>2, <1>8, <1>9, <1>10, SameGroups DEF IsKeywords
<1>12. Reviewed(Shown(Without(suggestions', edits'.removed), edits'), edits'.groups)
  BY <1>3, <1>5, <1>11 DEF sh, list
<1>13. history' = history /\ editors' = editors
  BY DEF Research
<1> QED
  BY <1>2, <1>4, <1>12, <1>13 DEF KeywordInv, list

LEMMA ReadKept ==
  ASSUME KeywordInv, NEW m \in Managers, Open(m) \/ StartImport(m)
  PROVE  KeywordInv'
<1>1. UNCHANGED <<history, suggestions, edits>>
  BY DEF Open, StartImport
<1>2. PICK r : /\ editors' = [editors EXCEPT ![m] = r]
               /\ r.seen = edits /\ (r.doing = "import" => r.list \in Lists)
  <2>1. CASE Open(m)
    <3> DEFINE r == [doing |-> "edit", seen |-> edits]
    <3>1. editors' = [editors EXCEPT ![m] = r]
      BY <2>1 DEF Open
    <3>2. r.seen = edits /\ r.doing # "import"
      OBVIOUS
    <3> QED
      BY <3>1, <3>2
  <2>2. CASE StartImport(m)
    <3>1. PICK list \in Lists :
            editors' = [editors EXCEPT ![m] = [doing |-> "import", seen |-> edits, list |-> list]]
      BY <2>2 DEF StartImport
    <3> DEFINE r == [doing |-> "import", seen |-> edits, list |-> list]
    <3>2. editors' = [editors EXCEPT ![m] = r] /\ r.seen = edits /\ r.list \in Lists
      BY <3>1
    <3> QED
      BY <3>2
  <2> QED
    BY <2>1, <2>2
<1>3. DOMAIN editors' = Managers
  BY <1>2 DEF KeywordInv
<1>4. ASSUME NEW x \in Managers
      PROVE  /\ editors'[x].doing \in {"edit", "import"} => IsList(editors'[x].seen.added)
             /\ editors'[x].doing = "import" => editors'[x].list \in Lists
  <2>1. IsList(edits.added)
    BY DEF KeywordInv, EditsOk, IsKeywords
  <2>2. editors'[x] = IF x = m THEN r ELSE editors[x]
    BY <1>2 DEF KeywordInv
  <2> QED
    BY <1>2, <2>1, <2>2 DEF KeywordInv
<1> QED
  BY <1>1, <1>3, <1>4 DEF KeywordInv

LEMMA SaveKept ==
  ASSUME KeywordInv, NEW m \in Managers, Save(m) \/ FinishImport(m)
  PROVE  KeywordInv'
<1>1. /\ suggestions' = suggestions /\ history' = history
      /\ editors' = [editors EXCEPT ![m] = Away]
  BY DEF Save, FinishImport
<1>2. \E added, removed, overrides :
        IsList(added) /\ edits' = SavedEdits(added, removed, overrides)
  <2> DEFINE e == editors[m].seen
  <2>1. IsList(e.added)
    BY DEF KeywordInv, Save, FinishImport
  <2>2. CASE Save(m)
    <3>1. \/ \E w, ideas : edits' = SavedEdits(Append(e.added, Looked(w, 1, ideas)), e.removed, e.overrides)
          \/ \E w, r : edits' = SavedEdits(Without(e.added, {w}), r, e.overrides)
          \/ \E o : edits' = SavedEdits(e.added, e.removed, o)
      BY <2>2 DEF Save
    <3> HIDE DEF e
    <3>2. \A x : IsList(Append(e.added, x))
      BY <2>1, Appended
    <3>3. \A w : IsList(Without(e.added, {w}))
      BY <2>1, Selected DEF Without
    <3> QED
      BY <2>1, <3>1, <3>2, <3>3
  <2>3. CASE FinishImport(m)
    <3>1. PICK ideas : edits' = Imported(editors[m].list, e, ideas)
      BY <2>3 DEF FinishImport
    <3>2. editors[m].list \in Lists
      BY <2>3 DEF FinishImport, KeywordInv
    <3> HIDE DEF e
    <3>3. PICK rows, ov, added :
            /\ IsJoin(e.added, rows, added)
            /\ edits' = SavedEdits(added, e.removed, Updated(e.overrides, ov))
      BY <2>1, <3>1, <3>2, ImportedIs
    <3> QED
      BY <3>3 DEF IsJoin
  <2> QED
    BY <2>2, <2>3
<1>3. PICK added, removed, overrides :
        IsList(added) /\ edits' = SavedEdits(added, removed, overrides)
  BY <1>2
<1> QED
  BY <1>1, <1>3, SavedKept

LEMMA KeywordKept == KeywordInv /\ [KeywordNext]_keywordVars => KeywordInv'
<1> SUFFICES ASSUME KeywordInv, [KeywordNext]_keywordVars PROVE KeywordInv'
  OBVIOUS
<1>1. CASE Research
  BY <1>1, ResearchKept
<1>2. ASSUME NEW m \in Managers, Open(m) \/ StartImport(m) PROVE KeywordInv'
  BY <1>2, ReadKept
<1>3. ASSUME NEW m \in Managers, Save(m) \/ FinishImport(m) PROVE KeywordInv'
  BY <1>3, SaveKept
<1>4. CASE UNCHANGED keywordVars
  BY <1>4 DEF keywordVars, KeywordInv
<1> QED
  BY <1>1, <1>2, <1>3, <1>4 DEF KeywordNext

\* What effective_keywords shows.
LEMMA ShownIs == EffectiveKeywords(edits) = Shown(Without(suggestions, edits.removed), edits)
  BY DEF EffectiveKeywords, Shown

\* The ad groups that are stored beside the edits, and that are launched, are those of the
\* keywords that effective_keywords shows, whoever researched, saved or imported last.
THEOREM GroupsReviewed == KeywordSpec => []GroupsAreReviewed
<1>1. KeywordInv => GroupsAreReviewed
  BY ShownIs DEF KeywordInv, GroupsAreReviewed, Reviewed
<1> QED
  BY <1>1, KeywordStarts, KeywordKept, PTL DEF KeywordSpec

\* A list with every element overridden.
OverriddenAs(list, o, new) ==
  /\ DOMAIN new = DOMAIN list
  /\ \A n \in DOMAIN list :
       /\ new[n].word = list[n].word
       /\ new[n].low = list[n].low /\ new[n].high = list[n].high
       /\ new[n].intent = IntentUnder(list[n].intent, Chosen(o, list[n].word))
       /\ new[n].match = MatchUnder(list[n].match, Chosen(o, list[n].word))

\* What is shown: the suggestions that are left, then what was added, as overridden.
LEMMA ShownList ==
  ASSUME NEW system, NEW e, IsKeywords(system), IsKeywords(e.added)
  PROVE  \E both : /\ IsJoin(system, e.added, both)
                   /\ OverriddenAs(both, e.overrides, Shown(system, e))
<1> DEFINE both == system \o e.added
           sh == Shown(system, e)
           o == e.overrides
<1>1. IsJoin(system, e.added, both) /\ IsKeywords(both)
  BY Joined, JoinedKeywords DEF IsKeywords
<1>2. sh = [n \in DOMAIN both |-> Overridden(both[n], o)]
  BY DEF Shown
<1> HIDE DEF sh, o, both
<1>3. OverriddenAs(both, o, sh)
  BY <1>1, <1>2, OverriddenList DEF OverriddenAs
<1> QED
  BY <1>1, <1>3 DEF sh, o

LEMMA ShownWords ==
  ASSUME NEW system, NEW e, IsKeywords(system), IsKeywords(e.added)
  PROVE  WordsOf(Shown(system, e)) = WordsOf(system) \cup WordsOf(e.added)
<1>1. PICK both : /\ IsJoin(system, e.added, both)
                  /\ OverriddenAs(both, e.overrides, Shown(system, e))
  BY ShownList
<1>2. WordsOf(Shown(system, e)) = WordsOf(both)
  BY <1>1 DEF WordsOf, OverriddenAs
<1> QED
  BY <1>1, <1>2, JoinedWords

\* What was decided about a word, part by part.
DecidedIn(list, word, o) ==
  {<<IntentUnder(list[n].intent, o), MatchUnder(list[n].match, o), list[n].low, list[n].high>> :
     n \in Places(list, word)}

\* A decision shown about a word was made about a suggestion or about an added keyword.
LEMMA ShownDecided ==
  ASSUME NEW system, NEW e, IsKeywords(system), IsKeywords(e.added), NEW w,
         NEW o, o = Chosen(e.overrides, w)
  PROVE  Decided(Shown(system, e), w) = DecidedIn(system, w, o) \cup DecidedIn(e.added, w, o)
<1> DEFINE sh == Shown(system, e)
           news == e.added
           d(l, n) == <<IntentUnder(l[n].intent, o), MatchUnder(l[n].match, o), l[n].low, l[n].high>>
<1>1. PICK both : IsJoin(system, news, both) /\ OverriddenAs(both, e.overrides, sh)
  BY ShownList
<1> HIDE DEF sh, news
<1>2. \A n \in Places(sh, w) :
        <<sh[n].intent, sh[n].match, sh[n].low, sh[n].high>> = d(both, n)
  BY <1>1 DEF Places, OverriddenAs
<1>3. Places(sh, w) = Places(both, w)
  BY <1>1 DEF Places, OverriddenAs
<1>4. Decided(sh, w) = DecidedIn(both, w, o)
  BY <1>2, <1>3 DEF Decided, DecidedIn
<1>5. \A n \in Places(system, w) : n \in Places(both, w) /\ d(both, n) = d(system, n)
  BY <1>1 DEF Places, IsJoin
<1>6. \A n \in Places(news, w) : /\ Len(system) + n \in Places(both, w)
                                 /\ d(both, Len(system) + n) = d(news, n)
  BY <1>1 DEF Places, IsJoin
<1>7. ASSUME NEW n \in Places(both, w)
      PROVE  \/ n \in Places(system, w)
             \/ \E k \in Places(news, w) : n = Len(system) + k
  BY <1>1 DEF Places, IsJoin
<1>8. DecidedIn(system, w, o) \subseteq DecidedIn(both, w, o)
  BY <1>5 DEF DecidedIn
<1>9. DecidedIn(news, w, o) \subseteq DecidedIn(both, w, o)
  <2>1. ASSUME NEW n \in Places(news, w) PROVE d(news, n) \in DecidedIn(both, w, o)
    <3>1. d(both, Len(system) + n) \in DecidedIn(both, w, o)
      BY <1>6 DEF DecidedIn
    <3> QED
      BY <1>6, <3>1
  <2> QED
    BY <2>1 DEF DecidedIn
<1>10. ASSUME NEW n \in Places(both, w)
       PROVE  d(both, n) \in DecidedIn(system, w, o) \cup DecidedIn(news, w, o)
  <2>1. CASE n \in Places(system, w)
    BY <1>5, <2>1 DEF DecidedIn
  <2>2. ASSUME NEW k \in Places(news, w), n = Len(system) + k
        PROVE  d(both, n) \in DecidedIn(news, w, o)
    BY <1>6, <2>2 DEF DecidedIn
  <2> QED
    BY <1>7, <2>1, <2>2
<1>11. DecidedIn(both, w, o) \subseteq DecidedIn(system, w, o) \cup DecidedIn(news, w, o)
  BY <1>10 DEF DecidedIn
<1> QED
  BY <1>4, <1>8, <1>9, <1>11 DEF sh, news

\* The edits e2 are e1 and rows of a list with these words.
ImportedTo(e1, e2, listed) ==
  \E rows, ov, added :
    /\ WordsOf(rows) \subseteq listed /\ DOMAIN ov \subseteq listed
    /\ IsJoin(e1.added, rows, added)
    /\ e2 = SavedEdits(added, e1.removed, Updated(e1.overrides, ov))

\* What was decided for all keywords but these stands.
StandsFrom(old, new, listed) ==
  /\ WordsOf(old) \subseteq WordsOf(new)
  /\ WordsOf(new) \subseteq WordsOf(old) \cup listed
  /\ \A w \in WordsOf(old) \ listed : Decided(new, w) = Decided(old, w)

\* An import classifies and overrides again what the edits had: nothing comes of it.
LEMMA ImportKeeps ==
  ASSUME IsKeywords(suggestions), NEW e1, EditsOk(e1), NEW e2, NEW listed,
         ImportedTo(e1, e2, listed), NEW system, system = Without(suggestions, e1.removed)
  PROVE  e2.removed = e1.removed /\ StandsFrom(Shown(system, e1), Shown(system, e2), listed)
<1>0. PICK rows, ov, added :
        /\ WordsOf(rows) \subseteq listed /\ DOMAIN ov \subseteq listed
        /\ IsJoin(e1.added, rows, added)
        /\ e2 = SavedEdits(added, e1.removed, Updated(e1.overrides, ov))
  BY DEF ImportedTo
<1> DEFINE old == e1.added
           own == OnlyFirst(added)
           new == e2.added
           merged == Updated(e1.overrides, ov)
<1>1. IsKeywords(old) /\ \A m, n \in DOMAIN old : old[m].word = old[n].word => m = n
  BY DEF EditsOk
<1>2. IsJoin(old, rows, added)
  BY <1>0
<1>3. /\ IsKeywords(system)
      /\ EditsOk(e2) /\ e2.removed = e1.removed
      /\ DOMAIN new = DOMAIN own
      /\ \A n \in DOMAIN new : /\ new[n].word = own[n].word
                               /\ new[n].low = own[n].low
                               /\ new[n].high = own[n].high
      /\ \A w \in WordsOf(system) \cup WordsOf(added) :
           Chosen(e2.overrides, w) = Chosen(merged, w)
  <2>1. IsList(added) /\ e2 = SavedEdits(added, e1.removed, merged)
    BY <1>0, <1>2 DEF IsJoin
  <2> HIDE DEF merged
  <2> QED
    BY <2>1, SavedIs
<1>4. /\ IsList(own) /\ WordsOf(own) = WordsOf(added)
      /\ \A k \in DOMAIN own : \E n \in DOMAIN added :
           own[k] = added[n] /\ \A m \in 1..(n - 1) : added[m].word # added[n].word
      /\ \A n \in DOMAIN added :
           (\A m \in 1..(n - 1) : added[m].word # added[n].word) =>
              \E k \in DOMAIN own : own[k] = added[n]
  BY <1>2, FirstWords DEF IsJoin
<1>5. IsKeywords(new)
  BY <1>3 DEF EditsOk
<1>6. \A w : w \notin listed => Chosen(merged, w) = Chosen(e1.overrides, w)
  BY <1>0 DEF Updated, Chosen
<1> HIDE DEF own, merged, new
<1>7. WordsOf(new) = WordsOf(old) \cup WordsOf(rows)
  <2>1. WordsOf(new) = WordsOf(own)
    BY <1>3 DEF WordsOf
  <2> QED
    BY <1>2, <1>4, <2>1, JoinedWords
<1>8. /\ WordsOf(Shown(system, e1)) = WordsOf(system) \cup WordsOf(old)
      /\ WordsOf(Shown(system, e2)) = WordsOf(system) \cup WordsOf(new)
  BY <1>1, <1>3, <1>5, ShownWords DEF new
<1>9. ASSUME NEW w \in WordsOf(Shown(system, e1)), w \notin listed
      PROVE  Decided(Shown(system, e2), w) = Decided(Shown(system, e1), w)
  <2> DEFINE o == Chosen(e1.overrides, w)
             I == IntentUnder(IntentFor(w), o)
             M == MatchUnder(MatchFor(IntentFor(w), 0, 0, FALSE), o)
  <2>1. o = Chosen(e2.overrides, w)
    <3>1. w \in WordsOf(system) \cup WordsOf(added)
      BY <1>2, <1>8, <1>9, JoinedWords
    <3> QED
      BY <1>3, <1>6, <1>9, <3>1
  <2>2. IntentUnder(I, o) = I /\ MatchUnder(M, o) = M
    BY Idempotent
  <2>3. \A n \in Places(old, w) : old[n].intent = I /\ old[n].match = M
    BY DEF EditsOk, Places, ClassifiedUnder
  <2>4. \A n \in Places(new, w) : new[n].intent = I /\ new[n].match = M
    <3> DEFINE p == Chosen(e2.overrides, w)
    <3>1. \A n \in Places(new, w) :
            /\ new[n].intent = IntentUnder(IntentFor(w), p)
            /\ new[n].match = MatchUnder(MatchFor(IntentFor(w), 0, 0, FALSE), p)
      <4>1. \A n \in DOMAIN new : ClassifiedUnder(new[n], e2.overrides)
        BY <1>3 DEF EditsOk, new
      <4> QED
        BY ONLY <4>1 DEF Places, ClassifiedUnder
    <3> HIDE DEF p
    <3>2. o = p
      BY <2>1 DEF p
    <3> QED
      BY <3>1, <3>2
  <2> HIDE DEF o, I, M
  <2>5. ASSUME NEW k \in Places(new, w)
        PROVE  \E n \in Places(old, w) : new[k].low = old[n].low /\ new[k].high = old[n].high
    <3>1. k \in DOMAIN own /\ own[k].word = w /\ new[k].low = own[k].low /\ new[k].high = own[k].high
      BY <1>3 DEF Places
    <3>2. PICK n \in DOMAIN added : own[k] = added[n]
      BY <1>4, <3>1
    <3>3. n \in DOMAIN old
      <4>1. SUFFICES ASSUME NEW j \in DOMAIN rows, n = Len(old) + j PROVE FALSE
        BY <1>2 DEF IsJoin
      <4>2. added[n] = rows[j]
        BY <1>2, <4>1 DEF IsJoin
      <4>3. w \in WordsOf(rows)
        BY <3>1, <3>2, <4>2 DEF WordsOf
      <4> QED
        BY <1>0, <1>9, <4>3
    <3>4. added[n] = old[n]
      BY <1>2, <3>3 DEF IsJoin
    <3> QED
      BY <3>1, <3>2, <3>3, <3>4 DEF Places
  <2>6. ASSUME NEW n \in Places(old, w)
        PROVE  \E k \in Places(new, w) : new[k].low = old[n].low /\ new[k].high = old[n].high
    <3>1. n \in DOMAIN old /\ old[n].word = w
      BY DEF Places
    <3>2. n \in DOMAIN added /\ added[n] = old[n]
      BY <1>2, <3>1 DEF IsJoin
    <3>3. ASSUME NEW m \in 1..(n - 1) PROVE added[m].word # added[n].word
      <4>1. m \in DOMAIN old /\ m # n
        <5>1. Len(old) \in Nat /\ DOMAIN old = 1..Len(old)
          BY <1>1, ListIs DEF IsKeywords
        <5> QED
          BY <3>1, <5>1
      <4>2. added[m] = old[m]
        BY <1>2, <4>1 DEF IsJoin
      <4> QED
        BY <1>1, <3>1, <3>2, <4>1, <4>2
    <3>4. PICK k \in DOMAIN own : own[k] = added[n]
      BY <1>4, <3>2, <3>3
    <3> QED
      BY <1>3, <3>1, <3>2, <3>4 DEF Places
  <2>7. DecidedIn(new, w, o) = DecidedIn(old, w, o)
    <3>1. \A k \in Places(new, w) :
            <<IntentUnder(new[k].intent, o), MatchUnder(new[k].match, o), new[k].low, new[k].high>>
              \in DecidedIn(old, w, o)
      BY <2>2, <2>3, <2>5, <2>4 DEF DecidedIn
    <3>2. \A n \in Places(old, w) :
            <<IntentUnder(old[n].intent, o), MatchUnder(old[n].match, o), old[n].low, old[n].high>>
              \in DecidedIn(new, w, o)
      BY <2>2, <2>3, <2>6, <2>4 DEF DecidedIn
    <3>3. DecidedIn(new, w, o) \subseteq DecidedIn(old, w, o)
      BY <3>1 DEF DecidedIn
    <3>4. DecidedIn(old, w, o) \subseteq DecidedIn(new, w, o)
      BY <3>2 DEF DecidedIn
    <3> QED
      BY <3>3, <3>4
  <2>8. Decided(Shown(system, e1), w) = DecidedIn(system, w, o) \cup DecidedIn(old, w, o)
    BY <1>1, <1>3, ShownDecided DEF o
  <2>9. Decided(Shown(system, e2), w) = DecidedIn(system, w, o) \cup DecidedIn(new, w, o)
    BY <1>3, <1>5, <2>1, ShownDecided DEF new
  <2> QED
    BY <2>7, <2>8, <2>9
<1> QED
  BY <1>0, <1>3, <1>7, <1>8, <1>9 DEF StandsFrom

\* import_keywords only adds, and leaves to every other keyword what was decided about it,
\* unless the edits have been changed since it read them.
THEOREM ImportsKeepEdits == KeywordSpec => EditsKeptUnlessRaced
<1> DEFINE Kept ==
      \A m \in Managers :
        FinishImport(m) /\ editors[m].seen = edits =>
         LET old == EffectiveKeywords(edits)
             new == EffectiveKeywords(edits')
             listed == WordsOf(editors[m].list)
         IN  /\ WordsOf(old) \subseteq WordsOf(new)
             /\ WordsOf(new) \subseteq WordsOf(old) \cup listed
             /\ \A w \in WordsOf(old) \ listed : Decided(new, w) = Decided(old, w)
<1>1. ASSUME KeywordInv PROVE Kept
  <2> SUFFICES ASSUME NEW m \in Managers, FinishImport(m), editors[m].seen = edits
               PROVE  LET old == EffectiveKeywords(edits)
                          new == EffectiveKeywords(edits')
                          listed == WordsOf(editors[m].list)
                      IN  /\ WordsOf(old) \subseteq WordsOf(new)
                          /\ WordsOf(new) \subseteq WordsOf(old) \cup listed
                          /\ \A w \in WordsOf(old) \ listed : Decided(new, w) = Decided(old, w)
    OBVIOUS
  <2> DEFINE list == editors[m].list
             listed == WordsOf(list)
             system == Without(suggestions, edits.removed)
  <2>1. PICK ideas : edits' = Imported(list, edits, ideas)
    BY DEF FinishImport
  <2>2. list \in Lists
    BY <1>1 DEF FinishImport, KeywordInv
  <2>3. IsKeywords(suggestions) /\ EditsOk(edits) /\ IsList(edits.added)
    BY <1>1 DEF KeywordInv, EditsOk, IsKeywords
  <2> HIDE DEF list
  <2>4. ImportedTo(edits, edits', listed)
    BY <2>1, <2>2, <2>3, ImportedIs DEF ImportedTo
  <2> HIDE DEF listed
  <2>5. edits'.removed = edits.removed /\ StandsFrom(Shown(system, edits), Shown(system, edits'), listed)
    BY <2>3, <2>4, ImportKeeps
  <2>6. EffectiveKeywords(edits) = Shown(system, edits)
    BY ShownIs
  <2>7. EffectiveKeywords(edits') = Shown(system, edits')
    BY <2>5 DEF EffectiveKeywords, Shown
  <2> QED
    BY <2>5, <2>6, <2>7 DEF listed, list, StandsFrom
<1>2. KeywordInv /\ [KeywordNext]_keywordVars => [Kept]_keywordVars
  BY <1>1
<1> HIDE DEF Kept
<1>3. KeywordSpec => [][Kept]_keywordVars
  BY <1>2, KeywordStarts, KeywordKept, PTL DEF KeywordSpec
<1> QED
  BY <1>3 DEF EditsKeptUnlessRaced, Kept
=============================================================================
