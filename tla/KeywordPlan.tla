----------------------------- MODULE KeywordPlan -----------------------------
(***************************************************************************)
(* The keywords of a plan: researched, scored and grouped into ad groups   *)
(* when the plan is generated, and then added to, removed and overridden   *)
(* by its managers, one of whom may import a list while another edits      *)
(* (services/ai/keyword_research_service.py, keyword_scorer.py,            *)
(* ad_copy_service.py, approval_service.py).                               *)
(*                                                                         *)
(* A keyword is a string that stands for it: the code compares texts       *)
(* without their case.  None is 0, "" and the like.  Prices are rupees.    *)
(***************************************************************************)
EXTENDS Rounding, FiniteSetsExt, Lists

CONSTANTS
  Managers,        \* people at the keyword editor
  PlannerIdeas,    \* answers of Google for the campus, lists of [word, low, high]
  History,         \* the account's own, lists of [word, clicks, rate, paid]
  CampusWords,     \* keywords that mention the campus
  BrandPlan,       \* the brand terms and the generated baseline, a list
  Brands,          \* the pure brand terms
  IntentOf,        \* what intent_classifier makes of each keyword
  ScoreOf,         \* what score_keyword makes of each keyword
  Lists,           \* lists that may be imported, of [word, match, intent]
  OverrideChoices, \* overrides the editor may set, of [intent, match]
  MaxSuggestions, GroupLimit, LookupLimit, ImportLimit,   \* 25, 12, 20 and 300
  MaxWrites        \* bound on the writes

ASSUME KeywordAssumption ==
  /\ PlannerIdeas \subseteq Seq([word : STRING, low : Nat, high : Nat])
  /\ History \subseteq Seq([word : STRING, clicks : Nat, rate : Nat, paid : Nat])
  /\ BrandPlan \in Seq(STRING)
  /\ Lists \subseteq Seq([word : STRING, match : STRING, intent : STRING])
  /\ {MaxSuggestions, GroupLimit, LookupLimit, ImportLimit, MaxWrites} \subseteq Nat

VARIABLES
  history,         \* the account's figures
  suggestions,     \* keyword_snapshot
  edits,           \* keyword_edits [added, removed, overrides, groups], NoEdits before
  editors,         \* for each manager what was read, Away when none
  writes           \* number of writes so far

keywordVars == <<history, suggestions, edits, editors, writes>>

NoEdits == [added |-> <<>>, removed |-> {}, overrides |-> <<>>, groups |-> <<>>]

Away == [doing |-> "nothing"]

NoChoice == [intent |-> "", match |-> ""]

WordsOf(list) == {list[n].word : n \in DOMAIN list}

\* The first of each word.
OnlyFirst(list) ==
  ElementsAt(list, {n \in DOMAIN list : \A m \in 1..(n - 1) : list[m].word # list[n].word})

\* The places of a word.
Places(list, word) == {n \in DOMAIN list : list[n].word = word}

----------------------------------------------------------------------------
(* Research and scoring. *)

\* The planner's price of a click is the upper of its bids.
FromPlanner(i) == [word |-> i.word, source |-> "keyword_planner", clicks |-> 0, rate |-> 0,
                   paid |-> i.high, low |-> i.low, high |-> i.high]

FromHistory(i) == [word |-> i.word, source |-> "historical", clicks |-> i.clicks,
                   rate |-> i.rate, paid |-> i.paid, low |-> 0, high |-> 0]

Suggested(word) == [word |-> word, source |-> "suggested", clicks |-> 0, rate |-> 0,
                    paid |-> 0, low |-> 0, high |-> 0]

\* KeywordResearchService.collect: the planner's ideas come first, and those of the
\* history fill only the fields that these leave empty.
Collect(ideas, known) ==
  LET all == OnlyFirst([n \in DOMAIN ideas |-> FromPlanner(ideas[n])]
                         \o [n \in DOMAIN known |-> FromHistory(known[n])])
      Enriched(k) ==
        IF k.source = "historical" \/ k.word \notin WordsOf(known) THEN k
        ELSE LET h == known[Min(Places(known, k.word))]
             IN  [k EXCEPT !.clicks = h.clicks, !.rate = h.rate,
                           !.paid = IF k.paid > 0 THEN k.paid ELSE h.paid]
  IN  [n \in DOMAIN all |-> Enriched(all[n])]

\* recommend_bid
BidFor(k) ==
  IF k.source = "historical" /\ k.paid > 0 THEN Rounded(115 * k.paid, 100)
  ELSE IF k.low > 0 /\ k.high > 0 THEN Rounded(k.low + k.high, 2)
  ELSE IF k.high > 0 THEN k.high ELSE k.paid

\* recommend_match_type, with and without conversions in the account.
MatchFor(intent, clicks, rate, converting) ==
  IF intent = "brand" \/ (clicks >= 20 /\ rate >= 10) THEN "EXACT"
  ELSE IF converting /\ clicks >= 50 THEN "BROAD" ELSE "PHRASE"

IntentFor(word) == IF word \in Brands THEN "brand" ELSE IntentOf[word]

Insight(k, converting) ==
  [word |-> k.word, source |-> k.source, clicks |-> k.clicks, rate |-> k.rate,
   paid |-> k.paid, low |-> k.low, high |-> k.high,
   intent |-> IntentFor(k.word), bid |-> BidFor(k),
   match |-> MatchFor(IntentFor(k.word), k.clicks, k.rate, converting)]

Prices(list) ==
  ElementsAt([n \in DOMAIN list |-> list[n].bid], {n \in DOMAIN list : list[n].bid > 0})

OfIntent(list, intent) == ElementsAt(list, {n \in DOMAIN list : list[n].intent = intent})

Without(list, removed) == ElementsAt(list, {n \in DOMAIN list : list[n].word \notin removed})

\* _fill_bid_gaps: the median of the intent, of all where the intent has none.
FillBidGaps(list) ==
  LET bench(k) == IF Prices(OfIntent(list, k.intent)) # <<>>
                  THEN Median(Prices(OfIntent(list, k.intent))) ELSE Median(Prices(list))
  IN  [n \in DOMAIN list |->
         IF list[n].bid > 0 THEN list[n] ELSE [list[n] EXCEPT !.bid = bench(list[n])]]

\* _score_keywords: what mentions the campus, the brand plan where that has none of it,
\* and of all these the best.
ScoreKeywords(raw, converting) ==
  LET known  == ElementsAt(raw, {n \in DOMAIN raw : raw[n].word \in CampusWords})
      all    == known \o Without([n \in DOMAIN BrandPlan |-> Suggested(BrandPlan[n])],
                                 WordsOf(known))
      score  == [n \in DOMAIN all |->
                   Max({ScoreOf[all[n].word], IF all[n].word \in Brands THEN 80 ELSE 0,
                        IF all[n].source = "suggested" THEN 55 ELSE 0})]
      sorted == SortedBy(all, [n \in DOMAIN all |-> -score[n]])
      best   == SubSeq(sorted, 1, Min({MaxSuggestions, Len(all)}))
  IN  FillBidGaps([k \in DOMAIN best |-> Insight(best[k], converting)])

\* Mutant of GroupKeywords: the limit counts the keywords of all groups.
GroupKeywordsCut(list) ==
  LET top == SubSeq(list, 1, Min({GroupLimit, Len(list)}))
  IN  [i \in {list[n].intent : n \in DOMAIN list} |->
         [bid |-> Median(Prices(OfIntent(list, i))),
          words |-> [n \in DOMAIN OfIntent(top, i) |->
                       <<OfIntent(top, i)[n].word, OfIntent(top, i)[n].match>>]]]

\* _group_keywords: by intent, so many of each; the bid is that of all of them.
GroupKeywords(list) ==
  [i \in {list[n].intent : n \in DOMAIN list} |->
     LET own == OfIntent(list, i)
         top == SubSeq(own, 1, Min({GroupLimit, Len(own)}))
     IN  [bid |-> Median(Prices(own)),
          words |-> [n \in DOMAIN top |-> <<top[n].word, top[n].match>>]]]

----------------------------------------------------------------------------
(* Edits. *)

\* _classify_added: back to the signals, whatever had been made of them.
ClassifyAdded(list) ==
  LET own == OnlyFirst(list)
  IN  [n \in DOMAIN own |->
         Insight([word |-> own[n].word, source |-> own[n].source, clicks |-> 0, rate |-> 0,
                  paid |-> own[n].paid, low |-> own[n].low, high |-> own[n].high], FALSE)]

Chosen(overrides, word) ==
  IF word \in DOMAIN overrides THEN overrides[word] ELSE NoChoice

Overridden(k, overrides) ==
  LET o == Chosen(overrides, k.word)
  IN  [k EXCEPT !.intent = IF o.intent # "" THEN o.intent ELSE @,
                !.match  = IF o.match # "" THEN o.match ELSE @]

\* approval_service.effective_keywords: what the reviewer is shown.
EffectiveKeywords(e) ==
  LET all == Without(suggestions, e.removed) \o e.added
  IN  [n \in DOMAIN all |-> Overridden(all[n], e.overrides)]

\* save_keyword_edits: the new edits replace the old ones.  What is added is stored as
\* overridden and priced; an override of no keyword is forgotten.
SavedEdits(added, removed, overrides) ==
  LET system == Without(suggestions, removed)
      all    == system \o ClassifyAdded(added)
      filled == FillBidGaps([n \in DOMAIN all |-> Overridden(all[n], overrides)])
      kept   == {w \in DOMAIN overrides \cap WordsOf(all) : overrides[w] # NoChoice}
  IN  [added     |-> SubSeq(filled, Len(system) + 1, Len(filled)),
       removed   |-> removed,
       overrides |-> [w \in kept |-> overrides[w]],
       groups    |-> GroupKeywords(filled)]

\* lookup_metrics: Google knows the first of the words it is asked for, if it is asked
\* about one that it knows.
Looked(word, n, ideas) ==
  LET found == Places(ideas, word)
      k     == IF n <= LookupLimit /\ found # {} THEN FromPlanner(ideas[Min(found)])
               ELSE Suggested(word)
  IN  [k EXCEPT !.word = word, !.source = "imported"]

\* The rows that an import adds: those of the list that no earlier edit has added.
Fresh(list, e) ==
  Without(SubSeq(OnlyFirst(list), 1, Min({ImportLimit, Len(OnlyFirst(list))})),
          WordsOf(e.added))

\* Mutant of Imported: what the others have removed comes back.
ImportedRestoring(list, e, ideas) ==
  LET fresh == Fresh(list, e)
      rows  == [n \in DOMAIN fresh |-> Looked(fresh[n].word, n, ideas)]
  IN  SavedEdits(e.added \o rows, {}, e.overrides)

\* import_keywords: the list is merged with the edits read before the lookup; its match
\* types and intents replace the overrides of its keywords.
Imported(list, e, ideas) ==
  LET fresh == Fresh(list, e)
      rows  == [n \in DOMAIN fresh |-> Looked(fresh[n].word, n, ideas)]
      choice(n) == [intent |-> fresh[n].intent, match |-> fresh[n].match]
      ov    == [w \in {fresh[n].word : n \in {n \in DOMAIN fresh : choice(n) # NoChoice}} |->
                  choice(Min(Places(fresh, w)))]
  IN  SavedEdits(e.added \o rows, e.removed, Updated(e.overrides, ov))

----------------------------------------------------------------------------
KeywordInit ==
  /\ history \in History
  /\ suggestions = <<>>
  /\ edits = NoEdits
  /\ editors = [m \in Managers |-> Away]
  /\ writes = 0

\* generate, as far as keywords go.
Research ==
  /\ suggestions = <<>>
  /\ \E ideas \in PlannerIdeas, converting \in BOOLEAN :
       LET list == ScoreKeywords(Collect(ideas, history), converting)
       IN  /\ suggestions' = list
           /\ edits' = [NoEdits EXCEPT !.groups = GroupKeywords(list)]
  /\ UNCHANGED <<history, editors, writes>>

\* The page of the plan is opened in the editor.
Open(m) ==
  /\ suggestions # <<>> /\ editors[m] = Away
  /\ editors' = [editors EXCEPT ![m] = [doing |-> "edit", seen |-> edits]]
  /\ UNCHANGED <<history, suggestions, edits, writes>>

\* The editor posts what it has: everything read, with one change.
Save(m) ==
  /\ editors[m].doing = "edit" /\ writes < MaxWrites
  /\ LET e == editors[m].seen
     IN  \/ \E w \in CampusWords \ WordsOf(EffectiveKeywords(e)), ideas \in PlannerIdeas :
              edits' = SavedEdits(Append(e.added, Looked(w, 1, ideas)), e.removed, e.overrides)
         \/ \E w \in WordsOf(EffectiveKeywords(e)) :
              \/ edits' = SavedEdits(Without(e.added, {w}),
                                     e.removed \cup (WordsOf(suggestions) \cap {w}),
                                     e.overrides)
              \/ \E c \in OverrideChoices :
                   edits' = SavedEdits(e.added, e.removed,
                                       Updated(e.overrides, [x \in {w} |-> c]))
  /\ editors' = [editors EXCEPT ![m] = Away]
  /\ writes' = writes + 1
  /\ UNCHANGED <<history, suggestions>>

\* import_keywords reads the edits and asks Google.
StartImport(m) ==
  /\ suggestions # <<>> /\ editors[m] = Away
  /\ \E list \in Lists :
       editors' = [editors EXCEPT ![m] = [doing |-> "import", seen |-> edits, list |-> list]]
  /\ UNCHANGED <<history, suggestions, edits, writes>>

\* Google has answered, or not.
FinishImport(m) ==
  /\ editors[m].doing = "import" /\ writes < MaxWrites
  /\ \E ideas \in PlannerIdeas \cup {<<>>} :
       edits' = Imported(editors[m].list, editors[m].seen, ideas)
  /\ editors' = [editors EXCEPT ![m] = Away]
  /\ writes' = writes + 1
  /\ UNCHANGED <<history, suggestions>>

KeywordNext ==
  \/ Research
  \/ \E m \in Managers : Open(m) \/ Save(m) \/ StartImport(m) \/ FinishImport(m)

----------------------------------------------------------------------------
(* Properties. *)

\* What was decided about a keyword: its ad group, its match type, its signals.
Decided(list, word) ==
  {<<list[n].intent, list[n].match, list[n].low, list[n].high>> :
     n \in Places(list, word)}

\* An import adds to the plan: unless the edits have been changed since it read them, it
\* takes no keyword away, brings none back but those of its list, and leaves to every
\* other keyword the ad group and the match type that somebody has chosen for it, however
\* the keyword came into the plan and however often it has been classified again.
EditsKeptUnlessRaced ==
  [][\A m \in Managers :
       FinishImport(m) /\ editors[m].seen = edits =>
         LET old == EffectiveKeywords(edits)
             new == EffectiveKeywords(edits')
             listed == WordsOf(editors[m].list)
         IN  /\ WordsOf(old) \subseteq WordsOf(new)
             /\ WordsOf(new) \subseteq WordsOf(old) \cup listed
             /\ \A w \in WordsOf(old) \ listed : Decided(new, w) = Decided(old, w)]_keywordVars

\* The ad groups, which are what gets launched, are those of the keywords that the
\* reviewer is shown: in each group, in the same order and with the same match types,
\* the first so many keywords of its intent.
GroupsAreReviewed ==
  LET shown == EffectiveKeywords(edits)
  IN  /\ DOMAIN edits.groups = {shown[n].intent : n \in DOMAIN shown}
      /\ \A i \in DOMAIN edits.groups :
           LET own == OfIntent(shown, i)
           IN  edits.groups[i].words =
                 [n \in 1..Min({GroupLimit, Len(own)}) |-> <<own[n].word, own[n].match>>]
=============================================================================
