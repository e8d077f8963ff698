SPECIFICATION Spec
CONSTANTS
  Campaigns <- Three
  Keywords <- Phrases
  Queries <- Asked
  Budgeted <- Purses
  Owner <- Owned
  CampaignOf <- Parent
  BudgetOf <- Charged
  Reported <- DayFigures
  Metas <- CampaignMetas
  KeywordCap = 2
  FinalDay = 2
  Months = 12
  Requests <- PlanRequests
  Doublings <- Logarithms
  Corrections <- FieldCorrections
  MonthAmounts <- MonthEdits
  Managers = {"m1", "m2"}
  PlannerIdeas <- Answers
  History <- Known
  CampusWords <- Mentioning
  BrandPlan <- Baseline
  Brands = {"ims"}
  IntentOf <- Intents
  ScoreOf <- Scores
  Lists <- ImportLists
  OverrideChoices <- Overrides
  MaxSuggestions = 3
  GroupLimit = 2
  LookupLimit = 1
  ImportLimit = 2
  MaxWrites = 2
  RunsFor <- Matching
  HeldBy <- Held
  Titles <- Named
  Granted <- Given
  LiveWords <- LiveNow
  Proposals <- Offers
  Deliveries <- Brought
  Trailing = 365
  MaxPlans = 2
  FinalDate = 2
  Writers = {"w1", "w2"}
  KeywordLists <- PlanTerms
  OwnWords = {"ims", "ims fees"}
  NamedIn <- Naming
  HeadlineOf <- TermLine
  Opening <- Leads
  Closing <- Fill
  Programmes <- ProgrammeOrder
  ProgrammeLine <- ProgrammeLines
  TopicLines <- LinesOfTopic
  DescriptionsOf <- Sentences
  StandardCallouts <- CalloutsOfNew
  Themes <- ThemeLines
  SizeOf <- Length
  ModelAnswers <- AnswersOfModel
  Typed <- TypedLines
  MaxRequests = 2
INVARIANTS ViewsAgree WorstFirst AlarmsOfLaggardsOnly PlanConsistent GroupsAreReviewed
  PortfolioConsistent CopyRuns
PROPERTIES EditsKeptUnlessRaced HandWorkStands
CHECK_DEADLOCK FALSE
