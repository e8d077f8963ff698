SPECIFICATION Spec
CONSTANTS
  MaxUsers = 3
  People = {"ann", "bob"}
  AdminEmails = {"ann"}
  AccountIds = {"a1", "a2"}
  AccessThreads = {"t1", "t2"}
  MaxChanges = 3
  CacheThreads = {"t1", "t2"}
  Keys = {"overview", "ideas"}
  KeyTtl <- Ttls
  DefaultTtl = 2
  MaxSize = 1
  MaxClock = 4
  Retries = 3
  Batches = 2
  Mailers = {"t1", "t2"}
  MaxSends = 4
  Accounts = {"a1"}
  Planners = {"t1", "t2"}
  MonthLength = 5
  LastDay = 9
  DaySpend <- DailySpend
  MaxAmounts = 2
  Campuses = {"IMS", "IMS Noida"}
  NameContains <- Names
  MaxPlans = 2
  MaxSaved = 2
  LastWeek = 3
INVARIANTS AdminRemains GrantsOfOneRequest CacheBounded RowsOfOneAttempt ScopedNarrowly
  MailedPeriodsWhole OthersSurvive AlertsRight
PROPERTIES CallEnds
CHECK_DEADLOCK FALSE
