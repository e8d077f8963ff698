------------------------------ MODULE MCReports ------------------------------
(***************************************************************************)
(* What is computed for the people who read and plan: the pages of the     *)
(* command center, the media plan, its keywords and its copy, and the      *)
(* portfolio, checked in one run.  They share no state here, so the        *)
(* behaviours of each are those it has while the others rest: `moving`     *)
(* names the one that moves.                                               *)
(***************************************************************************)
EXTENDS CommandCenter, MediaPlan, KeywordPlan, Portfolio, AdCopy

VARIABLE moving

reportVars == <<moving, centerVars, planVars, keywordVars, portfolioVars,
                copyVars>>

\* The command center: two campaigns of one account that share a budget, one with two
\* keywords and one with one; another of a second account, with none.
Three == <<"c1", "c2", "c3">>

Phrases == <<"mba", "bba", "ims">>

Asked == <<"t1", "t2">>

Purses == <<"b1", "b3">>

Owned ==
  [x \in {"c1", "c2", "mba", "bba", "ims", "t1", "t2", "b1"} |-> "a1"] @@
  [x \in {"c3", "b3"} |-> "a2"]

Parent == ("mba" :> "c1") @@ ("bba" :> "c1") @@ ("ims" :> "c2")

Charged == ("c1" :> "b1") @@ ("c2" :> "b1") @@ ("c3" :> "b3")

Counted(impr, clicks, cost) ==
  [impr |-> impr, clicks |-> clicks, cost |-> cost, conv |-> clicks \div 10]

Spending(impr, clicks, cost) == Updated(Counted(impr, clicks, cost), [budget |-> 10])

Rating(quality, cost) == Updated(Counted(1000, 10, cost), [quality |-> quality])

\* A day that spends the budget at a click rate of 1%, the other campaign without
\* impressions, and a good day: two of these spend the shared budget, which no one of them
\* does.  Keywords, search terms and budgets have other figures on the second day.
DayFigures ==
  LET spent == Spending(1000, 10, 10)
      good  == Spending(1000, 50, 5)
      term(impr, cost) == Counted(impr, impr \div 100, cost)
      bill(spend) == "b1" :> [amount |-> 10, spend |-> spend]
  IN  [campaigns |-> [a1 |-> [d \in 1..2 |-> {"c1" :> spent, ("c1" :> good) @@ ("c2" :> good)}],
                      a2 |-> [d \in 1..2 |-> {"c3" :> spent}]],
       keywords  |-> [a1 |-> <<{("mba" :> Rating(4, 9)) @@ ("bba" :> Rating(5, 1))},
                               {("mba" :> Rating(7, 0)) @@ ("ims" :> Rating(Unknown, 3))}>>,
                      a2 |-> [d \in 1..2 |-> {}]],
       terms     |-> [a1 |-> <<{("t1" :> term(1000, 4)) @@ ("t2" :> term(900, 6))},
                               {"t1" :> term(800, 4)}>>,
                      a2 |-> [d \in 1..2 |-> {}]],
       budgets   |-> [a1 |-> <<{bill(9)}, {bill(10)}>>,
                      a2 |-> [d \in 1..2 |-> {}]]]

Meta(status, optimization, disapproved) ==
  [status |-> status, optimization |-> optimization, disapproved |-> disapproved]

CampaignMetas ==
  ("c1" :> {Meta("ENABLED", 50, 1), Meta("PAUSED", 50, 0)}) @@
  ("c2" :> {Meta("ENABLED", 50, 1)}) @@
  ("c3" :> {Meta("ENABLED", 50, 1)})

\* The media plan: keywords with every mixture of figures, budgets down to seven rupees,
\* with and without the account's own prices.
Word(intent, price, clicks, volumes) ==
  [intent |-> intent, price |-> price, clicks |-> clicks, volumes |-> volumes]

WordSets ==
  { {Word("brand", 1000, 10, <<5, 9, 0, 0, 7, 7, 7, 7, 7, 7, 7, 7>>),
     Word("application", 9000, 4, <<0, 20, 1, 2, 3, 4, 5, 6, 7, 8, 9, 19>>),
     Word("informational", 3000, 0, <<>>)},
    {Word("brand", 0, 0, <<>>),
     Word("application", 0, 0, <<3, 20, 3, 3, 3, 3, 3, 3, 3, 3, 3, 3>>)},
    {Word("fees", 0, 0, <<>>)} }

PlanRequests ==
  {[words |-> words, budget |-> budget, manual |-> price[1], history |-> price[2],
    accounts |-> <<[clicks |-> 60, cost |-> 1800], [clicks |-> 5, cost |-> 900]>>,
    spend |-> 50, demand |-> demand, ctr |-> 9, rate |-> rate, leads |-> 20,
    target |-> target] :
     words \in WordSets, budget \in {7, 17, 70, 1000},
     price \in {<<0, 0>>, <<0, 800>>, <<0, 2000>>, <<5000, 2000>>},
     demand \in {0, 100}, rate \in {3, 27}, target \in {100, 800}}

\* Of 1.4 and of 20.
Logarithms == (14 :> 485) @@ (200 :> 4322)

FieldCorrections == ("budget" :> {500}) @@ ("price" :> {100})

MonthEdits == {<<>>, (2 :> 40) @@ (13 :> 9), (1 :> -1) @@ (2 :> 0)}

\* The keywords of a campus: a brand term, one known to Google and to the account, one
\* known to Google, one that only managers think of, and one of another campus.
Answers ==
  {<<>>, <<[word |-> "fees", low |-> 10, high |-> 20], [word |-> "mba", low |-> 0, high |-> 31]>>}

Known ==
  {<<>>, <<[word |-> "fees", clicks |-> 30, rate |-> 12, paid |-> 8],
           [word |-> "other", clicks |-> 5, rate |-> 1, paid |-> 9]>>}

Mentioning == {"ims", "fees", "mba", "form"}

Baseline == <<"ims", "fees">>

Intents == [w \in Mentioning |-> CASE w = "form" -> "application" [] w = "fees" -> "fees"
                                   [] OTHER -> "course"]

Scores == [w \in Mentioning |-> CASE w = "form" -> 90 [] w = "fees" -> 60 [] OTHER -> 40]

Row(word, match, intent) == [word |-> word, match |-> match, intent |-> intent]

ImportLists ==
  {<<Row("mba", "EXACT", ""), Row("form", "", "fees"), Row("ims", "", "")>>,
   <<Row("fees", "", "")>>}

Overrides == {[intent |-> "fees", match |-> ""], [intent |-> "", match |-> "BROAD"]}

\* The portfolio: a campus that runs in both accounts, mostly in the first, and one that
\* shares its only campaign with it; a manager with a grant and one without.
Held == ("k1" :> "b1") @@ ("k2" :> "b1") @@ ("k3" :> "b2")

Matching == ("IMS" :> {"k1", "k2", "k3"}) @@ ("KIET" :> {"k3"})

Named == ("b1" :> "North") @@ ("b2" :> "South")

Given == ("u1" :> {}) @@ ("u2" :> {"b2"})

\* One of them twice, with two match types.
LiveNow ==
  << [campaign |-> "k1", word |-> "mba", match |-> "EXACT"],
     [campaign |-> "k3", word |-> "fees", match |-> "PHRASE"],
     [campaign |-> "k2", word |-> "mba", match |-> "PHRASE"] >>

Offers ==
  {[budget |-> 10, leads |-> 2, span |-> 2,
    words |-> ("mba" :> "PHRASE") @@ ("form" :> "EXACT")]}

\* A day near the budget that brings more leads than promised, and a day without any.
Brought == {[clicks |-> 5, cost |-> 9, leads |-> 3], [clicks |-> 2, cost |-> 3, leads |-> 0]}

\* The copy: a plan with a brand term and one of a single group, without any keyword of
\* the campus; a model whose answer is too little and partly too long, and one of
\* callouts only.
Term(word, intent, score) == [word |-> word, intent |-> intent, score |-> score]

PlanTerms ==
  {<<Term("ims", "brand", 90), Term("ims fees", "fees", 60), Term("mba form", "application", 95)>>,
   <<Term("mba form", "application", 95)>>}

Naming == [w \in {"ims", "ims fees", "mba form"} |-> IF w = "mba form" THEN {"MBA"} ELSE {}]

TermLine == [w \in {"ims", "ims fees", "mba form"} |->
               CASE w = "ims" -> "IMS" [] w = "ims fees" -> "IMS Fees"
                 [] OTHER -> "a keyword of more than 30 characters"]

Leads == <<"IMS", "Apply to IMS 2026", "IMS Admission 2026">>

Fill == <<"Admissions Open 2026", "Enquire About Admissions", "Applications Closing Soon",
          "IMS Admissions 2026", "IMS Official Admissions">>

ProgrammeLines == [p \in {"MBA", "BBA"} |-> IF p = "MBA" THEN "IMS MBA Admission"
                                            ELSE "IMS BBA Admission"]

ProgrammeOrder == <<"MBA", "BBA">>

CalloutsOfNew == <<"Apply Online">>

ThemeLines == [t \in {"apply", "fees"} |->
                 IF t = "apply" THEN {"Apply to IMS 2026"} ELSE {"IMS Fees & Courses"}]

LinesOfTopic == <<[topic |-> "fees", line |-> "IMS Fees & Courses"],
                  [topic |-> "fees", line |-> "IMS Fee Structure 2026"],
                  [topic |-> "course", line |-> "IMS Courses & Programmes"]>>

Sentences(subjects) ==
  <<"Apply, with 97 characters">> \o
  (IF "fees" \in subjects THEN <<"Check fees">> ELSE <<"Check courses">>) \o
  <<"Join MBA">>

Length ==
  [l \in {"", "mine"} \cup Range(Leads) \cup Range(Fill) \cup Range(ProgrammeLines)
        \cup Range(TermLine) \cup {LinesOfTopic[n].line : n \in DOMAIN LinesOfTopic}
        \cup {"Apply, with 97 characters", "Check fees", "Check courses", "Join MBA",
              "Apply Online", "Limited Seats", "a callout of 26 characters"} |->
     CASE l = "" -> 0 [] l = "Apply, with 97 characters" -> 97
       [] l = "a keyword of more than 30 characters" -> 36
       [] l = "a callout of 26 characters" -> 26 [] OTHER -> 20]

AnswersOfModel ==
  {[headlines    |-> <<"Apply to IMS 2026", "a keyword of more than 30 characters", "mine">>,
    descriptions |-> <<"Apply, with 97 characters", "Join MBA">>,
    callouts     |-> <<"a callout of 26 characters">>],
   [headlines |-> <<>>, descriptions |-> <<>>, callouts |-> <<"Limited Seats">>]}

TypedLines ==
  [headlines    |-> {<<"mine", "", "mine", "IMS">>, <<"a keyword of more than 30 characters">>},
   descriptions |-> {<<"Join MBA">>},
   callouts     |-> {<<"a callout of 26 characters">>, <<"Apply Online">>}]

----------------------------------------------------------------------------
Init ==
  /\ moving \in {"center", "plan", "keywords", "portfolio", "copy"}
  /\ CenterInit /\ PlanInit /\ KeywordInit /\ PortfolioInit /\ CopyInit
  /\ moving # "center" => meta = [c \in CampaignSet |-> CHOOSE m \in Metas[c] : TRUE]
  /\ moving # "keywords" => history = <<>>

Next ==
  \/ /\ moving = "center" /\ CenterNext
     /\ UNCHANGED <<moving, planVars, keywordVars, portfolioVars, copyVars>>
  \/ /\ moving = "plan" /\ PlanNext
     /\ UNCHANGED <<moving, centerVars, keywordVars, portfolioVars, copyVars>>
  \/ /\ moving = "keywords" /\ KeywordNext
     /\ UNCHANGED <<moving, centerVars, planVars, portfolioVars, copyVars>>
  \/ /\ moving = "portfolio" /\ PortfolioNext
     /\ UNCHANGED <<moving, centerVars, planVars, keywordVars, copyVars>>
  \/ /\ moving = "copy" /\ CopyNext
     /\ UNCHANGED <<moving, centerVars, planVars, keywordVars, portfolioVars>>

Spec == Init /\ [][Next]_reportVars
=============================================================================
