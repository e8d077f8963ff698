------------------------------- MODULE AdCopy -------------------------------
(***************************************************************************)
(* The copy of a plan: headlines, descriptions and callouts made from its  *)
(* keywords by a language model or from templates, one ad per ad group,    *)
(* and what the managers type over both (services/ai/ad_copy_service.py,   *)
(* rsa_validator.py, effective_assets of approval_service.py).             *)
(*                                                                         *)
(* A line of text is a string that stands for it; how long it is, is       *)
(* SizeOf.  The status, the trail and the columns of the other editors are *)
(* those of ApprovalWorkflow.                                              *)
(***************************************************************************)
EXTENDS FiniteSetsExt, SequencesExt, Lists

CONSTANTS
  Writers,         \* people at the editors of the plan
  KeywordLists,    \* keywords the plan may have, lists of [word, intent, score]
  OwnWords,        \* keywords that name the campus
  NamedIn,         \* the programmes and topics that each keyword names
  HeadlineOf,      \* the headline that a keyword is turned into
  Opening, Closing,\* the headlines that come first, and those that fill up
  Programmes,      \* the programmes in the order of the code, the default one last
  ProgrammeLine,   \* their headlines
  TopicLines,      \* headlines about a topic, [topic, line], in the order of the code
  DescriptionsOf(_), \* the descriptions, given the topics
  StandardCallouts, \* callouts of a new plan
  Themes,          \* what worked before: theme -> the lines that have it
  SizeOf,          \* length of a line
  ModelAnswers,    \* answers of the language model, [headlines, descriptions, callouts]
  Typed,           \* lists that may be typed, by kind
  MaxRequests      \* bound on the requests

VARIABLES
  ad,              \* the row: [keywords, made, typed, page], NoAd before
  writing,         \* for each writer the row that was read, NoAd when none
  did,             \* the last request: what it was, the kinds of copy it was about, and
                   \* whether the row was current
  requests         \* number of requests so far

copyVars == <<ad, writing, did, requests>>

Kind == {"headlines", "descriptions", "callouts"}

LimitOf == [headlines |-> 30, descriptions |-> 90, callouts |-> 25]

MaxHeadlines == 15

MaxDescriptions == 4

Untyped == [untyped |-> <<>>]

NoAd == [typed |-> Untyped]

First(list, n) == SubSeq(list, 1, Min({n, Len(list)}))

\* What is there for the first time.
Distinct(list) ==
  ElementsAt(list, {n \in DOMAIN list : \A m \in DOMAIN list : list[m] = list[n] => n <= m})

Fit(line, kind) == SizeOf[line] \in 1..LimitOf[kind]

Terms == UNION {ToSet(list) : list \in KeywordLists}

\* What copy may speak of.
AllSubjects == {t.intent : t \in Terms} \cup UNION {NamedIn[t.word] : t \in Terms}

\* Five of the fixed headlines and two descriptions fit: the name of the campus is no longer
\* than those of the curated list and the first words that stand for others.  The lines of a
\* page are lists.
ASSUME CopyAssumption ==
  LET Line == DOMAIN SizeOf
      Fits2(list) == Cardinality({l \in ToSet(list) : Fit(l, "descriptions")}) >= 2
  IN  /\ \A list \in KeywordLists : list \in Seq(Terms)
      /\ \A t \in Terms : t.score \in Int
      /\ Programmes \in Seq(DOMAIN ProgrammeLine)
      /\ TopicLines \in Seq([topic : STRING, line : Line])
      /\ Opening \in Seq(Line) /\ Closing \in Seq(Line)
      /\ Cardinality({l \in ToSet(Opening) \cup ToSet(Closing) : Fit(l, "headlines")}) >= 5
      /\ \A S \in SUBSET AllSubjects : DescriptionsOf(S) \in Seq(Line) /\ Fits2(DescriptionsOf(S))
      /\ StandardCallouts \in Seq({l \in Line : Fit(l, "callouts")})
      /\ \A a \in ModelAnswers : \A k \in Kind : a[k] \in Seq(Line)
      /\ \A k \in Kind : Typed[k] \subseteq Seq(Line)

----------------------------------------------------------------------------
(* Generation. *)

\* Mutant of Fitting: a line is taken as it comes.
FittingAll(list, kind) == list

\* _fit: what is empty or too long is left out, never cut.
Fitting(list, kind) == ElementsAt(list, {n \in DOMAIN list : Fit(list[n], kind)})

Long(list, kind) == \E n \in DOMAIN list : SizeOf[list[n]] > LimitOf[kind]

ByScore(keywords) == SortedBy(keywords, [n \in DOMAIN keywords |-> -keywords[n].score])

\* What the templates build on: the best that name the campus.
Own(keywords) ==
  LET best == First(keywords, 15)
  IN  ElementsAt(best, {n \in DOMAIN best : best[n].word \in OwnWords})

IntentsOf(keywords) == {keywords[n].intent : n \in DOMAIN keywords}

\* What the copy speaks of: the intents of the campus's keywords, and what they name;
\* what the best keywords name if none is the campus's.
Subjects(keywords) ==
  LET named(list) == UNION {NamedIn[list[n].word] : n \in DOMAIN list}
  IN  IntentsOf(Own(keywords)) \cup
      IF Own(keywords) # <<>> THEN named(Own(keywords)) ELSE named(First(keywords, 12))

ProgrammesOf(keywords) ==
  LET named == ElementsAt(Programmes, {n \in DOMAIN Programmes : Programmes[n] \in Subjects(keywords)})
  IN  IF named = <<>> THEN <<Last(Programmes)>> ELSE named

\* _intent_tier: ready to act, considering, the rest.
Tier(intent) ==
  IF intent \in {"brand", "admission", "application", "registration", "deadline"} THEN 0
  ELSE IF intent \in {"fees", "course", "courses", "eligibility", "placement"} THEN 1 ELSE 2

Ranked(keywords) == SortedBy(keywords, [n \in DOMAIN keywords |-> Tier(keywords[n].intent)])

\* The headlines of what ranks among the keywords.
Topical(subjects) ==
  LET own == ElementsAt(TopicLines, {n \in DOMAIN TopicLines : TopicLines[n].topic \in subjects})
  IN  [n \in DOMAIN own |-> own[n].line]

\* _template_assets
TemplateAssets(keywords) ==
  LET ranked   == Ranked(Own(keywords))
      subjects == Subjects(keywords)
      leading  == First(ProgrammesOf(keywords), 2)
      ready    == Opening \o [n \in DOMAIN leading |-> ProgrammeLine[leading[n]]]
      spoken   == [n \in DOMAIN ranked |-> HeadlineOf[ranked[n].word]]
      lines    == ready \o spoken \o Topical(subjects) \o Closing
  IN  [headlines    |-> First(Distinct(Fitting(lines, "headlines")), MaxHeadlines),
       descriptions |-> First(Distinct(Fitting(DescriptionsOf(subjects), "descriptions")),
                              MaxDescriptions),
       callouts     |-> <<>>]

\* _llm_assets: where the model gave too little, the templates follow; a line of theirs
\* may be there already.
ModelAssets(keywords, answer) ==
  LET lines(kind) == Distinct(Fitting(answer[kind], kind))
      short  == \/ Len(lines("headlines")) < MaxHeadlines
                \/ Len(lines("descriptions")) < MaxDescriptions
      filled(kind) == lines(kind) \o IF short THEN TemplateAssets(keywords)[kind] ELSE <<>>
  IN  [headlines    |-> First(filled("headlines"), MaxHeadlines),
       descriptions |-> First(filled("descriptions"), MaxDescriptions),
       callouts     |-> First(Fitting(answer.callouts, "callouts"), 4)]

\* _generate_assets: without a model, or when it fails, from templates.
GeneratedAssets(keywords) ==
  LET best == ByScore(keywords)
  IN  {TemplateAssets(best)} \cup {ModelAssets(best, a) : a \in ModelAnswers}

IntentOrder ==
  <<"brand", "admission", "application", "registration", "deadline", "fees", "course",
    "eligibility", "placement", "location">>

\* _group_keywords: brand first, then who is ready to act, then the rest.
GroupsOf(keywords) ==
  LET present == ElementsAt(IntentOrder, {n \in DOMAIN IntentOrder :
                                            IntentOrder[n] \in IntentsOf(keywords)})
      of(intent) == ElementsAt(keywords, {n \in DOMAIN keywords : keywords[n].intent = intent})
  IN  [n \in DOMAIN present |-> [intent |-> present[n], words |-> First(of(present[n]), 12)]]

\* One ad per group: the brand group leads with the copy of the campaign, the others
\* with what their own keywords say.
AdFor(group, base) ==
  LET own == TemplateAssets(group.words)
      both(kind) == Distinct(IF group.intent = "brand" THEN base[kind] \o own[kind]
                             ELSE own[kind] \o base[kind])
  IN  [headlines    |-> First(both("headlines"), MaxHeadlines),
       descriptions |-> First(both("descriptions"), MaxDescriptions)]

\* _build_ad_groups
AdGroups(keywords, base) ==
  LET groups == GroupsOf(keywords)
  IN  [n \in DOMAIN groups |->
         [intent |-> groups[n].intent, words |-> groups[n].words,
          ads |-> <<AdFor(groups[n], base)>>]]

\* validate_assets and _predict_strength.
Strength(assets) ==
  LET heads == assets.headlines
      descs == assets.descriptions
      percent(part, whole) == IF whole = 0 THEN 0 ELSE (100 * part) \div whole
      unique  == percent(Cardinality(Range(heads)), Len(heads))
      covered == percent(Cardinality({t \in DOMAIN Themes : Themes[t] \cap Range(heads) # {}}),
                         Cardinality(DOMAIN Themes))
      wrong   == \/ Long(heads, "headlines") \/ Len(heads) < 3
                 \/ Long(descs, "descriptions") \/ Len(descs) < 2
      points  == Min({4, Len(heads) \div 4}) + Min({2, Len(descs)})
                   + (IF unique >= 90 THEN 2 ELSE IF unique >= 70 THEN 1 ELSE 0)
                   + (IF covered >= 50 THEN 2 ELSE IF covered >= 25 THEN 1 ELSE 0)
  IN  CASE wrong \/ points < 4 -> "POOR"
        [] points \in 4..5     -> "AVERAGE"
        [] points \in 6..7     -> "GOOD"
        [] OTHER               -> "EXCELLENT"

----------------------------------------------------------------------------
(* What is typed over it. *)

\* approval_service.effective_assets: what the reviewer is shown, and exports contain.
EffectiveCopy(row, kind) ==
  IF kind \in DOMAIN row.typed THEN row.typed[kind] ELSE row.made[kind]

\* Copy that was edited stays when the keywords change.
CopyStands(row) == row.typed # Untyped

\* The copy is made again and put into the page.
WithCopy(row, assets) ==
  LET made == [assets EXCEPT !.callouts = IF @ # <<>> THEN @ ELSE row.made.callouts]
  IN  [row EXCEPT !.made = made, !.page.assets = made]

\* _refresh_ad_groups
WithAdGroups(row) ==
  IF row.page.byHand THEN row
  ELSE [row EXCEPT !.page.groups = AdGroups(row.keywords, row.made)]

\* The columns that differ from those read are written.
Written(read, new) ==
  [c \in DOMAIN ad |-> IF new[c] = read[c] THEN ad[c] ELSE new[c]]

Done(m, what, kinds, new) ==
  /\ ad' = Written(writing[m], new)
  /\ did' = [what |-> what, kinds |-> kinds, current |-> writing[m] = ad]
  /\ writing' = [writing EXCEPT ![m] = NoAd]
  /\ requests' = requests + 1

Mid(m) == writing[m] # NoAd /\ requests < MaxRequests

----------------------------------------------------------------------------
CopyInit ==
  /\ ad = NoAd
  /\ writing = [m \in Writers |-> NoAd]
  /\ did = [what |-> "nothing"]
  /\ requests = 0

\* generate, as far as the copy goes, and _persist.
MakeCopy ==
  /\ ad = NoAd
  /\ \E keywords \in KeywordLists :
       \E assets \in GeneratedAssets(keywords) :
         LET made == [assets EXCEPT !.callouts = IF @ # <<>> THEN @ ELSE StandardCallouts]
         IN  ad' = [keywords |-> keywords, made |-> made, typed |-> Untyped,
                    page |-> [assets |-> made, groups |-> AdGroups(keywords, made),
                              byHand |-> FALSE]]
  /\ did' = [what |-> "generated"]
  /\ UNCHANGED <<writing, requests>>

\* A request reads the plan; the model may take its time.
ReadPlan(m) ==
  /\ ad # NoAd /\ writing[m] = NoAd /\ requests < MaxRequests
  /\ writing' = [writing EXCEPT ![m] = ad]
  /\ UNCHANGED <<ad, did, requests>>

\* save_keyword_edits: copy and ads follow the keywords, unless they are somebody's; if
\* making the copy fails, the old one stays.
SaveKeywords(m) ==
  /\ Mid(m)
  /\ \E keywords \in KeywordLists :
       LET changed == [writing[m] EXCEPT !.keywords = keywords]
       IN  \E new \in {changed} \cup IF CopyStands(changed) THEN {}
                        ELSE {WithCopy(changed, a) : a \in GeneratedAssets(keywords)} :
             Done(m, "keywords", {}, WithAdGroups(new))

\* Blank lines are left out.
Lines(list) == ElementsAt(list, {n \in DOMAIN list : SizeOf[list[n]] > 0})

\* Mutant of Retyped: the other kinds are given up.
RetypedAlone(row, lists) ==
  [row EXCEPT !.typed = [k \in DOMAIN lists |-> Distinct(Lines(lists[k]))]]

\* The kinds that are posted replace what was typed before.
Retyped(row, lists) ==
  LET old == IF row.typed = Untyped THEN <<>> ELSE row.typed
  IN  [row EXCEPT !.typed = Updated(old, [k \in DOMAIN lists |-> Distinct(Lines(lists[k]))])]

\* save_asset_edits
SaveAssets(m) ==
  /\ Mid(m)
  /\ \E kinds \in SUBSET Kind :
       \E lists \in {f \in [kinds -> UNION {Typed[k] : k \in Kind}] :
                       \A k \in kinds : f[k] \in Typed[k] /\ ~Long(f[k], k)} :
         Done(m, "assets", kinds, Retyped(writing[m], lists))

Clean(a) == [headlines    |-> First(Lines(a.headlines), MaxHeadlines),
             descriptions |-> First(Lines(a.descriptions), MaxDescriptions)]

\* save_ad_groups: the page posts all groups; here one ad of one of them has been added,
\* rewritten or taken out.
SaveAdGroups(m) ==
  /\ Mid(m)
  /\ \E n \in DOMAIN writing[m].page.groups, heads \in Typed["headlines"],
        descs \in Typed["descriptions"] :
       LET ad1  == [headlines |-> heads, descriptions |-> descs]
           ads  == writing[m].page.groups[n].ads
           kept(posted) == IF posted = <<>> THEN <<Clean([ad1 EXCEPT !.headlines = <<>>,
                                                                   !.descriptions = <<>>])>>
                           ELSE [i \in DOMAIN First(posted, 3) |-> Clean(posted[i])]
       IN  /\ ~Long(heads, "headlines") /\ ~Long(descs, "descriptions")
           /\ \E posted \in {Append(ads, ad1), [ads EXCEPT ![1] = ad1], Tail(ads)} :
                Done(m, "groups", {}, [writing[m] EXCEPT !.page.groups[n].ads = kept(posted),
                                                         !.page.byHand = TRUE])

\* regenerate_copy: what was typed is given up.
Regenerate(m) ==
  /\ Mid(m)
  /\ \E assets \in GeneratedAssets(writing[m].keywords) :
       Done(m, "regenerate", Kind, WithCopy([writing[m] EXCEPT !.typed = Untyped], assets))

\* A line is over its limit, or the copy cannot be made: nothing of the request stays.
Refuse(m) ==
  /\ writing[m] # NoAd
  /\ writing' = [writing EXCEPT ![m] = NoAd]
  /\ UNCHANGED <<ad, did, requests>>

CopyNext ==
  \/ MakeCopy
  \/ \E m \in Writers : \/ ReadPlan(m) \/ SaveKeywords(m) \/ SaveAssets(m)
                        \/ SaveAdGroups(m) \/ Regenerate(m) \/ Refuse(m)

----------------------------------------------------------------------------
(* Properties. *)

Fits(lists) == \A k \in DOMAIN lists : ~Long(lists[k], k)

\* Enough for Google to run: three headlines and two descriptions, all different.
Enough(lists) ==
  /\ Cardinality(Range(lists.headlines)) >= 3
  /\ Cardinality(Range(lists.descriptions)) >= 2

\* Whatever the model answers, however few lines the keywords of a group give and whoever
\* writes in which order: all copy and every ad fits Google's limits, and what the code
\* itself has written is enough to run and never rated poor.
CopyRuns ==
  ad # NoAd =>
    /\ Fits(ad.made) /\ (ad.typed # Untyped => Fits(ad.typed))
    /\ Enough(ad.made) /\ Strength(ad.made) # "POOR"
    /\ \A n \in DOMAIN ad.page.groups :
         LET group == ad.page.groups[n]
         IN  /\ Len(group.ads) \in 1..3
             /\ \A i \in DOMAIN group.ads :
                  /\ Fits(group.ads[i])
                  /\ Len(group.ads[i].headlines) <= MaxHeadlines
                  /\ Len(group.ads[i].descriptions) <= MaxDescriptions
             /\ ~ad.page.byHand => Enough(group.ads[1])

\* What somebody has written by hand stands until they, or others who saw it, write over
\* it.  Keywords and ads change no typed copy, and what is typed of one kind changes
\* neither what was typed nor what was made of the others; only new copy on demand gives
\* it up.  Ads edited by hand stay through all of these.  A request for keywords or ads
\* leaves typed copy even if it read the plan before that was typed.
HandWorkStands ==
  [][requests' > requests =>
       LET what == did'.what
       IN  /\ what \in {"keywords", "groups"} => ad'.typed = ad.typed
           /\ did'.current /\ (what = "assets" \/ ad.typed # Untyped)
                => \A k \in Kind \ did'.kinds : EffectiveCopy(ad', k) = EffectiveCopy(ad, k)
           /\ did'.current /\ what # "groups" /\ ad.page.byHand
                => ad'.page.groups = ad.page.groups /\ ad'.page.byHand
           /\ did'.current /\ ad.page.assets = ad.made
                => ad'.page.assets = ad'.made]_copyVars
=============================================================================
